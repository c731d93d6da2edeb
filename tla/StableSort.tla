------------------------------ MODULE StableSort ------------------------------
(* A stable sort, as Rust's sort_by and sort_by_key: members that neither   *)
(* comes before keep their order.                                           *)
EXTENDS Naturals, FiniteSets, Sequences

\* The members of s at the places of S, in order; NotAfter(x, y): x may stand
\* before y.
SortedOf(s, S, NotAfter(_, _)) ==
    LET AheadOf(n) == {m \in S :
            NotAfter(s[m], s[n]) /\ (NotAfter(s[n], s[m]) => m < n)}
        place == [n \in S |-> Cardinality(AheadOf(n)) + 1]
    IN  [k \in 1 .. Cardinality(S) |-> s[CHOOSE n \in S : place[n] = k]]

Sorted(s, NotAfter(_, _)) == SortedOf(s, DOMAIN s, NotAfter)
=============================================================================
