-------------------------------- MODULE Policy --------------------------------
(***************************************************************************)
(* The user's policy document and the views of what was found             *)
(* (cancellai-policy).                                                     *)
(*                                                                         *)
(*   schema.rs       parse_policy                                          *)
(*   resolver.rs     resolve_requested_authority, resolve_effective_authority *)
(*   pinning.rs      is_pinned, resolve_protection                         *)
(*   explanation.rs  explain_policy                                        *)
(*   budget.rs       the values of a document, select_under_budget_pressure *)
(*   views.rs, atlas.rs, explain.rs  by_provider, by_project, by_session,  *)
(*                   summarize, explain                                    *)
(*                                                                         *)
(* An option is a set of at most one member.                               *)
(***************************************************************************)
EXTENDS Authority, FiniteSets, FiniteSetsExt, StableSort

CONSTANTS
    Keys,          \* of the scopes of a document, "" among them
    PinIds,        \* sessions that may be pinned, "" among them
    WidthLimit,    \* the largest number of bytes (2^64 - 1)
    Catalogue,     \* the artifacts a behaviour of the views begins with
    SizesOf,       \* the sizes they may take
    MaxTouches     \* bound on the changes to them

ASSUME PolicyAssumption ==
    /\ "" \in Keys /\ "" \in PinIds /\ WidthLimit \in Nat /\ MaxTouches \in Nat
    /\ SizesOf \subseteq Nat
    /\ Catalogue \in Seq([id : STRING, identity : Nat, provider : STRING, project : SUBSET STRING,
                          size : SizesOf, parent : SUBSET STRING, reach : Levels])
    /\ \A n \in DOMAIN Catalogue : \A p, q \in Catalogue[n].parent : p = q

-----------------------------------------------------------------------------
(* The document.                                                           *)

Ladder == <<"artifact_type", "project", "provider", "machine", "global">>
Rungs  == {Ladder[n] : n \in DOMAIN Ladder}
Option(S) == {{}} \cup {{x} : x \in S}

\* ScopePolicy: every field is optional.
Scopes == [authority : Option(Levels), retention : Option(Nat), keep_latest : Option(Nat),
           budget : Option(Nat)]

\* A text names scopes and pins in some order; its document looks them up.
Texts == [version : Nat, scopes : Seq([rung : Rungs, key : Keys, scope : Scopes]),
          pins : Seq(PinIds), wellformed : BOOLEAN]

Repeats(s) == \E m, n \in DOMAIN s : m # n /\ s[m] = s[n]
ScopeNames(text) ==
    [n \in DOMAIN text.scopes |-> <<text.scopes[n].rung, text.scopes[n].key>>]

\* The first thing found wrong; "none" when there is nothing.
PolicyError(text) ==
    IF ~text.wellformed \/ Repeats(ScopeNames(text)) THEN "malformed"
    ELSE IF text.version # 1 THEN "unsupported_schema_version"
    ELSE IF \E n \in DOMAIN text.scopes :
               text.scopes[n].rung # "global" /\ text.scopes[n].key = "" THEN "empty_scope_key"
    ELSE IF \E n \in DOMAIN text.pins :
               text.pins[n] = "" /\ ~Repeats(SubSeq(text.pins, 1, n)) THEN "empty_pin_session"
    ELSE IF Repeats(text.pins) THEN "duplicate_pin_session"
    ELSE "none"

\* The scopes a document has, by rung and key; and its pins.
ParsePolicy(text) ==
    [scope |-> [r \in Rungs |->
         [k \in {text.scopes[n].key : n \in {m \in DOMAIN text.scopes : text.scopes[m].rung = r}} |->
            text.scopes[CHOOSE n \in DOMAIN text.scopes :
                            text.scopes[n].rung = r /\ text.scopes[n].key = k].scope]],
     pins |-> {text.pins[n] : n \in DOMAIN text.pins}]

\* A context names what is being asked about, as far as it is known.
Contexts == [Rungs -> Option(Keys)]

\* The rungs whose scope, for that context, says something of a field.
Answering(document, context, field) ==
    {n \in DOMAIN Ladder :
        \E key \in context[Ladder[n]] :
            /\ key \in DOMAIN document.scope[Ladder[n]]
            /\ document.scope[Ladder[n]][key][field] # {}}

\* walk_ladder: the most specific one.
FirstRung(document, context, field) ==
    CHOOSE n \in Answering(document, context, field) :
        \A m \in Answering(document, context, field) : n <= m

SaidBy(document, context, field, n) ==
    UNION {document.scope[Ladder[n]][key][field] :
              key \in context[Ladder[n]] \cap DOMAIN document.scope[Ladder[n]]}

WalkLadder(document, context, field) ==
    IF Answering(document, context, field) = {} THEN {}
    ELSE SaidBy(document, context, field, FirstRung(document, context, field))

ResolveRequestedAuthority(document, context, fallback) ==
    IF Answering(document, context, "authority") = {} THEN fallback
    ELSE CHOOSE level \in WalkLadder(document, context, "authority") : TRUE

\* What was asked for is one ceiling among the others.
Requesting(document, context, in) ==
    [in EXCEPT !.requested = ResolveRequestedAuthority(document, context, in.requested)]
ResolveEffectiveAuthority(document, context, in) ==
    EffectiveAuthority(Requesting(document, context, in))

BindingConstraints(in) ==
    {c.name : c \in {d \in BaseConstraints(in) : d.ceiling = EffectiveAuthority(in)}}

ExplainPolicy(document, context, in) ==
    LET asked == Requesting(document, context, in)
    IN  [requested |-> asked.requested, final |-> EffectiveAuthority(asked),
         binding |-> BindingConstraints(asked),
         suppressed |-> asked.requested # EffectiveAuthority(asked)]

IsPinned(document, session) == session \in document.pins
ResolveProtection(document, session, existing) ==
    IF existing # "protected" /\ IsPinned(document, session) THEN "pinned" ELSE existing

\* parse_budget_bytes: checked_mul.
ParseBudgetBytes(value, multiplier) ==
    IF value > WidthLimit \/ value * multiplier > WidthLimit THEN {} ELSE {value * multiplier}

-----------------------------------------------------------------------------
(* Views of a list of classified artifacts.                                *)

\* saturating_add; and +=, as a release build adds.
Saturating(n) == IF n > WidthLimit THEN WidthLimit ELSE n
Wrapping(n)   == IF n > WidthLimit THEN n % (WidthLimit + 1) ELSE n
SumOver(f, X) == FoldFunctionOnSet(LAMBDA x, y : x + y, 0, f, X)
SumSizes(found, places) == SumOver([n \in DOMAIN found |-> found[n].size], places)

\* Mutant of LargerFirst: the smallest first.
SmallerFirst(a, b) == a.size < b.size \/ (a.size = b.size /\ a.identity <= b.identity)

\* select_under_budget_pressure: the largest first, then by identity, until
\* enough is freed.
LargerFirst(a, b) == a.size > b.size \/ (a.size = b.size /\ a.identity <= b.identity)

SelectUnderBudgetPressure(found, planned, usage, limit) ==
    LET over == IF usage > limit THEN usage - limit ELSE 0
        pool == SortedOf(found, {n \in DOMAIN found : found[n].id \in planned}, LargerFirst)
        Freed(n) == Saturating(SumSizes(pool, 1 .. n))
        enough == {n \in 0 .. Len(pool) : Freed(n) >= over}
        taken == IF enough = {} THEN Len(pool) ELSE Min(enough)
    IN  [selected |-> SubSeq(pool, 1, taken), freed |-> Freed(taken),
         satisfied |-> Freed(taken) >= over]

\* The key of each artifact; a bucket holds those of one key.
Bucket(keys) == [k \in Range(keys) |-> {n \in DOMAIN keys : keys[n] = k}]
ByProvider(found) == Bucket([n \in DOMAIN found |-> found[n].provider])
ByProject(found)  == Bucket([n \in DOMAIN found |-> found[n].project])
ByMachine(found)  == Bucket([n \in DOMAIN found |-> "local"])

\* session_root: by_id holds the last artifact of each id; a parent that is not
\* in the list ends the chain, and a cycle isolates the session it began from.
ById(found, id) == found[Max({n \in DOMAIN found : found[n].id = id})]
InList(found, id) == \E n \in DOMAIN found : found[n].id = id
ParentIn(found, id) ==
    LET parents == ById(found, id).parent
    IN  {p \in parents : InList(found, p)}

SessionRoot(found, id) ==
    LET Step(at) == IF ParentIn(found, at) = {} THEN at
                    ELSE CHOOSE p \in ParentIn(found, at) : TRUE
        up[n \in 0 .. Len(found)] == IF n = 0 THEN id ELSE Step(up[n - 1])
    IN  IF ParentIn(found, up[Len(found)]) = {} THEN up[Len(found)] ELSE id
BySession(found) == Bucket([n \in DOMAIN found |-> SessionRoot(found, found[n].id)])

IsReclaimable(a) == a.reach >= MinimumAuthorityFor("delete")
Totals(found, places) ==
    [logical |-> Wrapping(SumSizes(found, places)),
     reclaimable |-> Wrapping(SumSizes(found, {n \in places : IsReclaimable(found[n])})),
     count |-> Cardinality(places)]
Summarize(found, complete) ==
    [total |-> Totals(found, DOMAIN found),
     providers |-> [p \in DOMAIN ByProvider(found) |-> Totals(found, ByProvider(found)[p])],
     projects |-> [p \in DOMAIN ByProject(found) |-> Totals(found, ByProject(found)[p])],
     any_incomplete |-> \E p \in DOMAIN ByProvider(found) : ~complete[p]]

\* explain: the first action that names the artifact.
Explain(found, n, actions) ==
    LET naming == {k \in DOMAIN actions : found[n].id \in actions[k].targets}
    IN  IF naming = {} THEN "not_evaluated"
        ELSE IF actions[Min(naming)].class = "observe" THEN "observation_only" ELSE "recommended"

-----------------------------------------------------------------------------
(* The list changes as sessions grow, appear, and name their parents.      *)

VARIABLES
    found,      \* the classified artifacts, in the order they were found
    planned,    \* the ids some action would remove
    touches

policyVars == <<found, planned, touches>>

PolicyTypeOK ==
    /\ \A n \in DOMAIN found : found[n].size \in SizesOf /\ found[n].reach \in Levels
    /\ planned \subseteq {found[n].id : n \in DOMAIN found} /\ touches \in 0 .. MaxTouches

PolicyInit == found = Catalogue /\ planned = {} /\ touches = 0

Ids == {found[n].id : n \in DOMAIN found}

Touch(n) ==
    /\ touches < MaxTouches /\ touches' = touches + 1
    /\ \/ \E size \in SizesOf : found' = [found EXCEPT ![n].size = size]
       \/ \E parent \in Option(Ids \cup {"gone"}) : found' = [found EXCEPT ![n].parent = parent]
       \/ \E level \in {Recommend, Govern} : found' = [found EXCEPT ![n].reach = level]
       \/ found' = [found EXCEPT ![n].project = {"p"} \ @]
    /\ UNCHANGED planned
ClassifyAgain ==
    /\ planned' = {found[n].id : n \in {m \in DOMAIN found : IsReclaimable(found[m])}}
    /\ UNCHANGED <<found, touches>>

PolicyNext == (\E n \in DOMAIN found : Touch(n)) \/ ClassifyAgain

-----------------------------------------------------------------------------
(* Properties.                                                             *)

Grouping(buckets) ==
    /\ UNION {buckets[k] : k \in DOMAIN buckets} = DOMAIN found
    /\ \A j, k \in DOMAIN buckets : j # k => buckets[j] \cap buckets[k] = {}

\* by_session: each is in one session, whose root is in the list.  It is in that
\* of its parent, whose root has no parent there; but where parents go round in a
\* cycle, each that leads into it is alone.
SessionsAreFamilies ==
    LET Alone(id) == SessionRoot(found, id) = id /\ ParentIn(found, id) # {}
    IN  /\ Grouping(BySession(found)) /\ DOMAIN BySession(found) \subseteq Ids
        /\ \A id \in Ids :
              /\ ~Alone(id) => ParentIn(found, SessionRoot(found, id)) = {}
              /\ \A p \in ParentIn(found, id) :
                    IF Alone(id) THEN Alone(p) ELSE SessionRoot(found, p) = SessionRoot(found, id)

\* summarize: unless they overflow, the totals of providers and of projects both
\* add up to the whole.
TotalsAddUp ==
    LET summary == Summarize(found, [p \in DOMAIN ByProvider(found) |-> TRUE])
        Whole(part) == SumOver([k \in DOMAIN part |-> part[k].reclaimable], DOMAIN part)
    IN  SumSizes(found, DOMAIN found) <= WidthLimit =>
        /\ Whole(summary.providers) = summary.total.reclaimable
        /\ Whole(summary.projects) = summary.total.reclaimable
        /\ summary.total.reclaimable <= summary.total.logical

\* select_under_budget_pressure: no more is selected than is needed, only what is
\* planned, and nothing while something larger is left.
PressureTakesTheLargest ==
    LET usage == Saturating(SumSizes(found, DOMAIN found)) IN
    \A limit \in 0 .. usage :
        LET choice == SelectUnderBudgetPressure(found, planned, usage, limit)
            taken == choice.selected
            last == Len(taken)
        IN  /\ \A n \in DOMAIN taken : taken[n].id \in planned
            /\ last > 0 => SumSizes(taken, 1 .. last - 1) < usage - limit
            /\ choice.satisfied <=> choice.freed >= usage - limit
            /\ \A n \in DOMAIN found :
                  (found[n].id \in planned /\ \A m \in DOMAIN taken : taken[m] # found[n])
                      => choice.satisfied /\ \A m \in DOMAIN taken : taken[m].size >= found[n].size

\* Whatever sessions claim to be their parents, the views of a list agree.
ViewsAgree == SessionsAreFamilies /\ TotalsAddUp /\ PressureTakesTheLargest
=============================================================================
