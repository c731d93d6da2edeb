-------------------------- MODULE SurroundingsProofs --------------------------
(***************************************************************************)
(* What stands around a deletion keeps, whatever is measured, sent, edited *)
(* and killed.                                                             *)
(*                                                                         *)
(* An intent signed elsewhere is accepted at most once, and a bundle of    *)
(* knowledge that was rolled back from stays away: the log holds, for each *)
(* controller, the number of the last intent accepted from it, which is    *)
(* the largest, and a bundle there is to go back to has never been         *)
(* withdrawn.                                                              *)
(*                                                                         *)
(* The switch holds: nobody who may still write the other word began       *)
(* before the engagement that binds, and no content an engagement leaves   *)
(* reads as disengaged.  The pressure state does not flap: its last change *)
(* was made beyond its own threshold, a band away from the one back.       *)
(*                                                                         *)
(* A trend that has turned is not forecast.  The slope of a line through   *)
(* points is the covariance of times and values over the variance of       *)
(* times, and both are sums over pairs of points of products of their      *)
(* differences, which have one sign where all pairs fall.                  *)
(*                                                                         *)
(* Bridge: whatever is late, dies or is dropped, all that goes over one    *)
(* connection of the dashboard is of one query (OfQuery), and nobody else  *)
(* is ever welcomed on one (Guarded).                                      *)
(***************************************************************************)
EXTENDS Surroundings, SequenceTheorems, FiniteSetTheorems, WellFoundedInduction, TLAPS

-----------------------------------------------------------------------------
(* Grants: what is recorded of each controller and of the bundles.         *)

Taken(c) ==
    LET took == accepted[c] IN
    /\ took \in Seq(Requests)
    /\ \A m, n \in DOMAIN took : m < n => took[m].sequence < took[n].sequence
    /\ \A n \in DOMAIN took : took[n] \in signedBy /\ took[n].target = Here
    /\ IF took = <<>> THEN c \notin DOMAIN last
       ELSE c \in DOMAIN last /\ last[c] = took[Len(took)].sequence

LogHolds ==
    /\ DOMAIN accepted = Controllers
    /\ signedBy \subseteq Requests
    /\ \A c \in Controllers : Taken(c)

StoreHolds ==
    /\ current \notin withdrawn
    /\ previous # NoBundle => withdrawn = {} /\ previous # current

-----------------------------------------------------------------------------
(* Remote requests.                                                        *)

\* verify_remote_execution_request accepts nothing that is altered, or meant for
\* another machine.
LEMMA VerifiedIsSound ==
    ASSUME NEW q \in Requests, NEW flaw \in Flaws, VerifyRequest(q, flaw) = "verified"
    PROVE  flaw = "none" /\ q.target = Here
  BY DEF VerifyRequest, Flaws

\* verify_and_record, of an intent newer than the last one accepted.
LEMMA NewIntentIsTaken ==
    ASSUME LogHolds, NEW q \in signedBy, q.target = Here,
           ~(q.controller \in DOMAIN last /\ q.sequence <= last[q.controller]),
           last' = With(last, q.controller, q.sequence),
           accepted' = [accepted EXCEPT ![q.controller] = Append(@, q)],
           signedBy' = signedBy
    PROVE  LogHolds'
  <1> DEFINE c0 == q.controller
             old == accepted[c0]
             new == accepted'[c0]
  <1>1. q \in Requests /\ c0 \in Controllers /\ q.sequence \in Nat
      BY GrantsAssumption DEF LogHolds
  <1>2. Taken(c0)
      BY <1>1 DEF LogHolds
  <1>3. old \in Seq(Requests) /\ new = Append(old, q)
      BY <1>1, <1>2 DEF LogHolds, Taken
  <1>4. /\ DOMAIN last' = DOMAIN last \cup {c0}
        /\ last'[c0] = q.sequence
        /\ \A c \in DOMAIN last \ {c0} : last'[c] = last[c]
      BY DEF With
  <1> HIDE DEF c0, old, new
  <1>5. /\ new \in Seq(Requests) /\ Len(new) = Len(old) + 1 /\ new # <<>>
        /\ DOMAIN new = 1 .. Len(old) + 1 /\ DOMAIN old = 1 .. Len(old) /\ Len(old) \in Nat
        /\ \A n \in 1 .. Len(old) : new[n] = old[n]
        /\ new[Len(old) + 1] = q
      BY <1>1, <1>3
  <1>6. \A n \in 1 .. Len(old) : old[n].sequence < q.sequence
    <2>1. CASE old = <<>>
        BY <2>1
    <2>2. CASE old # <<>>
      <3>1. c0 \in DOMAIN last /\ last[c0] = old[Len(old)].sequence
          BY <1>2, <2>2 DEF Taken, old
      <3>2. \A n \in 1 .. Len(old) : old[n].sequence \in Nat
          BY <1>3, <1>5, GrantsAssumption
      <3>3. Len(old) \in 1 .. Len(old)
          BY <1>3, <1>5, <2>2
      <3>4. old[Len(old)].sequence < q.sequence
          BY <1>1, <3>1, <3>2, <3>3 DEF c0
      <3>5. \A n \in 1 .. Len(old) :
                n < Len(old) => old[n].sequence < old[Len(old)].sequence
          BY <1>2, <1>5, <3>3 DEF Taken, old
      <3> QED
          BY <1>1, <1>5, <3>2, <3>3, <3>4, <3>5
    <2> QED
        BY <2>1, <2>2
  <1>7. \A m, n \in DOMAIN new : m < n => new[m].sequence < new[n].sequence
    <2> SUFFICES ASSUME NEW m \in DOMAIN new, NEW n \in DOMAIN new, m < n
                 PROVE  new[m].sequence < new[n].sequence
        OBVIOUS
    <2>1. CASE n = Len(old) + 1
        BY <1>5, <1>6, <2>1
    <2>2. CASE n # Len(old) + 1
      <3>1. m \in DOMAIN old /\ n \in DOMAIN old
          BY <1>5, <2>2
      <3>2. old[m].sequence < old[n].sequence
          BY <1>2, <3>1 DEF Taken, old
      <3> QED
          BY <1>5, <3>1, <3>2
    <2> QED
        BY <2>1, <2>2
  <1>8. \A n \in DOMAIN new : new[n] \in signedBy /\ new[n].target = Here
    <2>1. \A n \in DOMAIN old : old[n] \in signedBy /\ old[n].target = Here
        BY <1>2 DEF Taken, old
    <2> QED
        BY <1>5, <2>1
  <1>9. Taken(c0)'
    <2>1. accepted'[c0] = new
        BY DEF new
    <2>2. c0 \in DOMAIN last' /\ last'[c0] = new[Len(new)].sequence
        BY <1>4, <1>5
    <2>3. \A n \in DOMAIN accepted'[c0] :
             accepted'[c0][n] \in signedBy' /\ accepted'[c0][n].target = Here
        BY <1>8, <2>1
    <2>4. /\ accepted'[c0] \in Seq(Requests) /\ accepted'[c0] # <<>>
          /\ \A m, n \in DOMAIN accepted'[c0] :
                m < n => accepted'[c0][m].sequence < accepted'[c0][n].sequence
          /\ c0 \in DOMAIN last' /\ last'[c0] = accepted'[c0][Len(accepted'[c0])].sequence
        BY <1>5, <1>7, <2>1, <2>2
    <2> QED
        BY <2>3, <2>4 DEF Taken, c0
  <1>10. ASSUME NEW c \in Controllers, c # c0
         PROVE  Taken(c)'
    <2>1. accepted'[c] = accepted[c] /\ Taken(c)
        BY <1>10 DEF LogHolds, c0
    <2>2. (c \in DOMAIN last' <=> c \in DOMAIN last) /\ (c \in DOMAIN last => last'[c] = last[c])
        BY <1>4, <1>10
    <2>3. accepted'[c] = <<>> => c \notin DOMAIN last'
        BY <2>1, <2>2 DEF Taken
    <2>4. accepted'[c] # <<>> =>
             c \in DOMAIN last' /\ last'[c] = accepted'[c][Len(accepted'[c])].sequence
        BY <2>1, <2>2 DEF Taken
    <2>5. /\ accepted'[c] \in Seq(Requests)
          /\ \A m, n \in DOMAIN accepted'[c] :
                m < n => accepted'[c][m].sequence < accepted'[c][n].sequence
        BY <2>1 DEF Taken
    <2>6. \A n \in DOMAIN accepted'[c] :
             accepted'[c][n] \in signedBy' /\ accepted'[c][n].target = Here
        BY <2>1 DEF Taken
    <2> QED
        BY <2>3, <2>4, <2>5, <2>6 DEF Taken
  <1> QED
      BY <1>9, <1>10 DEF LogHolds

LEMMA RemoteKeeps ==
    ASSUME LogHolds, RemoteStep
    PROVE  LogHolds'
  <1>1. ASSUME NEW q \in Requests, Sign(q)
        PROVE  LogHolds'
    <2>1. signedBy \subseteq signedBy' /\ signedBy' \subseteq Requests /\ UNCHANGED <<accepted, last>>
        BY <1>1 DEF Sign, LogHolds
    <2>2. \A c \in Controllers : Taken(c)'
        BY <2>1 DEF LogHolds, Taken
    <2> QED
        BY <2>1, <2>2 DEF LogHolds
  <1>2. CASE Receive
    <2>1. PICK q \in Requests, flaw \in Flaws :
              /\ VerifyAndRecord(q, flaw) /\ (flaw = "none" => q \in signedBy)
        BY <1>2 DEF Receive, LogHolds, Flaws
    <2>2. signedBy' = signedBy
        BY <1>2 DEF Receive
    <2> DEFINE stale == q.controller \in DOMAIN last /\ q.sequence <= last[q.controller]
    <2>3. CASE VerifyRequest(q, flaw) = "verified" /\ ~stale
      <3>1. flaw = "none" /\ q.target = Here
          BY <2>3, VerifiedIsSound
      <3>2. /\ last' = With(last, q.controller, q.sequence)
            /\ accepted' = [accepted EXCEPT ![q.controller] = Append(@, q)]
          BY <2>1, <2>3 DEF VerifyAndRecord
      <3> QED
          BY <2>1, <2>2, <2>3, <3>1, <3>2, NewIntentIsTaken
    <2>4. CASE ~(VerifyRequest(q, flaw) = "verified" /\ ~stale)
      <3>1. UNCHANGED <<last, accepted>>
          BY <2>1, <2>4 DEF VerifyAndRecord
      <3> QED
          BY <2>2, <3>1 DEF LogHolds, Taken
    <2> QED
        BY <2>3, <2>4
  <1>3. ASSUME NEW c \in Controllers, EditControllers(c)
        PROVE  LogHolds'
      BY <1>3 DEF EditControllers, LogHolds, Taken
  <1> QED
      BY <1>1, <1>2, <1>3 DEF RemoteStep

-----------------------------------------------------------------------------
(* Knowledge.                                                              *)

LEMMA KnowledgeKeeps ==
    ASSUME StoreHolds, KnowledgeStep
    PROVE  StoreHolds'
  <1>1. ASSUME NEW b \in Bundles, NEW flaw \in Flaws, ApplyBundle(b, flaw)
        PROVE  StoreHolds'
    <2> DEFINE stale == current.publisher = b.publisher /\ b.sequence <= current.sequence
    <2>1. CASE VerifyBundle(b, flaw) = "verified" /\ ~stale
      <3>1. /\ previous' = current /\ withdrawn' = {}
            /\ current'.publisher = b.publisher /\ current'.sequence = b.sequence
          BY <1>1, <2>1 DEF ApplyBundle
      <3>2. b.sequence \in Nat
          BY GrantsAssumption DEF Bundles
      <3>3. current' # current
          BY <2>1, <3>1, <3>2
      <3> QED
          BY <3>1, <3>3 DEF StoreHolds
    <2>2. CASE ~(VerifyBundle(b, flaw) = "verified" /\ ~stale)
      <3>1. UNCHANGED <<current, previous, withdrawn>>
          BY <1>1, <2>2 DEF ApplyBundle
      <3> QED
          BY <3>1 DEF StoreHolds
    <2> QED
        BY <2>1, <2>2
  <1>2. CASE RollbackBundle
      BY <1>2 DEF RollbackBundle, StoreHolds
  <1>3. ASSUME NEW p \in Publishers, EditPublishers(p)
        PROVE  StoreHolds'
      BY <1>3 DEF EditPublishers, StoreHolds
  <1> QED
      BY <1>1, <1>2, <1>3 DEF KnowledgeStep

\* What is granted in a step of the surroundings, if anything.
LEMMA SurroundingsMoveTheGrants ==
    [SurroundingsNext]_surroundingsVars => [GrantsNext]_grantsVars
  <1> SUFFICES ASSUME [SurroundingsNext]_surroundingsVars PROVE [GrantsNext]_grantsVars
      OBVIOUS
  <1>1. CASE UNCHANGED grantsVars
      BY <1>1
  <1>2. CASE RemoteWork \/ KnowledgeWork
      BY <1>2 DEF RemoteWork, KnowledgeWork, GrantsNext
  <1> QED
      BY <1>1, <1>2 DEF SurroundingsNext, surroundingsVars

-----------------------------------------------------------------------------
\* Late, repeated, reordered and altered requests, and edits of who is trusted:
\* every intent is accepted at most once, in the order of its controller, as it
\* was signed and for this machine; and no rollback brings a withdrawn bundle
\* back (verify_and_record, KnowledgeStore::rollback).
THEOREM AcceptedAtMostOnce == SurroundingsSpec => []AcceptedOnce
  <1> DEFINE GInv == LogHolds /\ StoreHolds
  <1>1. SurroundingsInit => GInv
    <2>1. ASSUME GrantsInit, NEW c \in Controllers
          PROVE  Taken(c)
      <3>1. accepted[c] = <<>> /\ DOMAIN last = {}
          BY <2>1 DEF GrantsInit
      <3> QED
          BY <3>1 DEF Taken
    <2> QED
        BY <2>1 DEF SurroundingsInit, GrantsInit, LogHolds, StoreHolds
  <1>2. GInv /\ [SurroundingsNext]_surroundingsVars => GInv'
    <2> SUFFICES ASSUME GInv, [GrantsNext]_grantsVars PROVE GInv'
        BY SurroundingsMoveTheGrants
    <2>1. CASE RemoteStep /\ UNCHANGED <<clock, knowledgeVars>>
        BY <2>1, RemoteKeeps DEF knowledgeVars, StoreHolds
    <2>2. CASE KnowledgeStep /\ UNCHANGED <<clock, remoteVars>>
        BY <2>2, KnowledgeKeeps DEF remoteVars, LogHolds, Taken
    <2>3. CASE UNCHANGED <<remoteVars, knowledgeVars>>
        BY <2>3 DEF remoteVars, knowledgeVars, LogHolds, Taken, StoreHolds
    <2> QED
        BY <2>1, <2>2, <2>3 DEF GrantsNext, Tick, grantsVars
  <1>3. GInv => AcceptedOnce
      BY DEF LogHolds, Taken, StoreHolds, AcceptedOnce
  <1> QED
      BY <1>1, <1>2, <1>3, PTL DEF SurroundingsSpec

-----------------------------------------------------------------------------
(* StableSort: every member has a place of its own.                        *)

\* Where of any two members one is ahead, and those ahead of it with it, the
\* numbers of members ahead are all different and leave no place empty.
LEMMA EveryPlaceIsTaken ==
    ASSUME NEW N \in Nat, NEW ahead \in [1 .. N -> SUBSET (1 .. N)],
           \A n \in 1 .. N : n \notin ahead[n],
           \A n \in 1 .. N : \A m \in ahead[n] : ahead[m] \subseteq ahead[n],
           \A m, n \in 1 .. N : m # n => m \in ahead[n] \/ n \in ahead[m]
    PROVE  \A k \in 1 .. N : \E n \in 1 .. N : Cardinality(ahead[n]) + 1 = k
  <1> DEFINE S == 1 .. N
             place == [n \in S |-> Cardinality(ahead[n]) + 1]
  <1>1. IsFiniteSet(S) /\ Cardinality(S) = N
      BY FS_Interval
  <1>2. ASSUME NEW n \in S
        PROVE  /\ IsFiniteSet(ahead[n]) /\ Cardinality(ahead[n]) \in Nat
               /\ Cardinality(ahead[n]) < N
    <2>1. ahead[n] \in SUBSET S /\ ahead[n] # S
        OBVIOUS
    <2>2. IsFiniteSet(ahead[n]) /\ Cardinality(ahead[n]) <= N /\ Cardinality(ahead[n]) # N
        BY <1>1, <2>1, FS_Subset
    <2>3. Cardinality(ahead[n]) \in Nat
        BY <2>2, FS_CardinalityType
    <2> QED
        BY <2>2, <2>3
  <1>3. ASSUME NEW m \in S, NEW n \in S, m \in ahead[n]
        PROVE  Cardinality(ahead[m]) < Cardinality(ahead[n])
    <2>1. ahead[m] \in SUBSET ahead[n] /\ ahead[m] # ahead[n]
        BY <1>3
    <2>2. Cardinality(ahead[m]) <= Cardinality(ahead[n])
          /\ Cardinality(ahead[m]) # Cardinality(ahead[n])
        BY <1>2, <2>1, FS_Subset
    <2> QED
        BY <1>2, <2>2
  <1>4. place \in [S -> S]
    <2>1. \A n \in S : Cardinality(ahead[n]) + 1 \in S
        BY <1>2
    <2> QED
        BY <2>1
  <1>5. \A m, n \in S : place[m] = place[n] => m = n
    <2> SUFFICES ASSUME NEW m \in S, NEW n \in S, m # n
                 PROVE  place[m] # place[n]
        OBVIOUS
    <2>1. Cardinality(ahead[m]) # Cardinality(ahead[n])
        BY <1>2, <1>3
    <2>2. Cardinality(ahead[m]) \in Nat /\ Cardinality(ahead[n]) \in Nat
        BY <1>2
    <2> QED
        BY <2>1, <2>2
  <1> HIDE DEF place
  <1>6. place \in Injection(S, S)
      BY <1>4, <1>5 DEF Injection, IsInjective
  <1>7. place \in Surjection(S, S)
      BY <1>1, <1>6, FS_Injection
  <1>8. \A k \in S : \E n \in S : place[n] = k
      BY <1>7 DEF Surjection
  <1> QED
      BY <1>8 DEF place

\* The plan is in an order of its own.
LEMMA PlansAreRearranged ==
    ASSUME NEW N \in Nat, NEW s \in [1 .. N -> Items]
    PROVE  Sorted(s, NotAfter) \in [1 .. N -> Items]
  <1> DEFINE S == 1 .. N
             AheadOf(n) == {m \in DOMAIN s :
                 NotAfter(s[m], s[n]) /\ (NotAfter(s[n], s[m]) => m < n)}
             ahead == [n \in S |-> AheadOf(n)]
             place == [n \in DOMAIN s |-> Cardinality(AheadOf(n)) + 1]
  <1>1. DOMAIN s = S /\ \A n \in S : s[n] \in Items
      OBVIOUS
  <1>2. \A m, n \in S : NotAfter(s[m], s[n]) \/ NotAfter(s[n], s[m])
    <2>1. \A x, y \in Items : NotAfter(x, y) \/ NotAfter(y, x)
        BY DEF NotAfter, Items, Levels
    <2> QED
        BY <1>1, <2>1
  <1>3. \A m, n, k \in S : NotAfter(s[m], s[n]) /\ NotAfter(s[n], s[k]) => NotAfter(s[m], s[k])
    <2>1. \A x, y, z \in Items : NotAfter(x, y) /\ NotAfter(y, z) => NotAfter(x, z)
        BY DEF NotAfter, Items, Levels
    <2> QED
        BY <1>1, <2>1
  <1>4. ahead \in [S -> SUBSET S]
      BY <1>1
  <1>5. \A n \in S : n \notin ahead[n]
      OBVIOUS
  <1>6. \A m, n \in S : m # n => m \in ahead[n] \/ n \in ahead[m]
      BY <1>1, <1>2
  <1>7. \A n \in S : \A m \in ahead[n] : ahead[m] \subseteq ahead[n]
    <2> SUFFICES ASSUME NEW n \in S, NEW m \in ahead[n], NEW k \in ahead[m]
                 PROVE  k \in ahead[n]
        OBVIOUS
    <2>1. /\ m \in S /\ k \in S
          /\ NotAfter(s[m], s[n]) /\ (NotAfter(s[n], s[m]) => m < n)
          /\ NotAfter(s[k], s[m]) /\ (NotAfter(s[m], s[k]) => k < m)
        BY <1>1
    <2>2. NotAfter(s[k], s[n])
        BY <1>3, <2>1
    <2>3. NotAfter(s[n], s[k]) => k < n
        BY <1>3, <2>1
    <2> QED
        BY <1>1, <2>1, <2>2, <2>3
  <1>8. \A k \in S : \E n \in S : Cardinality(ahead[n]) + 1 = k
    <2> HIDE DEF ahead
    <2> QED
        BY <1>4, <1>5, <1>6, <1>7, EveryPlaceIsTaken
  <1>9. \A k \in S : \E n \in DOMAIN s : place[n] = k
      BY <1>1, <1>8
  <1>10. Sorted(s, NotAfter) = [k \in DOMAIN s |-> s[CHOOSE n \in DOMAIN s : place[n] = k]]
    <2>1. 1 .. Cardinality(DOMAIN s) = DOMAIN s
        BY <1>1, FS_Interval
    <2> QED
        BY <2>1 DEF Sorted, SortedOf
  <1> HIDE DEF place
  <1>11. \A k \in S : (CHOOSE n \in DOMAIN s : place[n] = k) \in DOMAIN s
      BY <1>9
  <1> QED
      BY <1>1, <1>10, <1>11

LEMMA PlanItemsAreTyped ==
    ASSUME NEW a \in Artifacts0, NEW reachable \in Levels, NEW p \in Green .. Red
    PROVE  PlanItem(a, reachable, p) \in Items
  <1>1. PressureAuthorityCeiling(p) \in Levels
      BY DEF PressureAuthorityCeiling, Levels, Green, Yellow, Orange, Red, Observe, Recommend,
         Quarantine, Autopilot
  <1>2. Lesser(PressureAuthorityCeiling(p), reachable) \in Levels
      BY <1>1 DEF Lesser
  <1> QED
      BY <1>2 DEF PlanItem, Items

-----------------------------------------------------------------------------
(* Guardian: the switch.                                                   *)

\* What the guardian does in a step of the surroundings, if anything.
LEMMA SurroundingsMoveTheGuardian ==
    [SurroundingsNext]_surroundingsVars => [GuardianNext]_guardianVars
  BY DEF SurroundingsNext, surroundingsVars, PressureWork, SwitchWork, GuardianNext

\* An engagement is not taken back: nobody is writing the other word, nor has.
BindingHolds ==
    binding => /\ marker # "disengaged"
               /\ marker = "absent" => parent # "directory"
               /\ ~Disengaging

SwitchIsTyped ==
    /\ \A w \in Owners : /\ wpc[w].wants \in {"engaged", "disengaged"}
                         /\ DOMAIN wpc[w] = {"step", "wants"}
    /\ DOMAIN wpc = Owners
    /\ \A k \in DOMAIN gplan : gplan[k] \in Items

SwitchInv == SwitchIsTyped /\ BindingHolds /\ SwitchHolds

LEMMA BindingEngages ==
    ASSUME BindingHolds, binding PROVE IsEngaged
  BY DEF BindingHolds, IsEngaged

LEMMA CycleKeeps ==
    ASSUME SwitchInv, CycleStep, UNCHANGED <<switchVars, troubles0>>, pressure \in Green .. Red
    PROVE  SwitchInv'
  <1>0. UNCHANGED <<marker, parent, permitted, wpc, binding>>
      BY DEF switchVars
  <1>1. BindingHolds' /\ (binding' => IsEngaged')
      BY <1>0 DEF SwitchInv, BindingHolds, Disengaging, SwitchHolds, IsEngaged
  <1>2. /\ \A w \in Owners : /\ wpc'[w].wants \in {"engaged", "disengaged"}
                             /\ DOMAIN wpc'[w] = {"step", "wants"}
        /\ DOMAIN wpc' = Owners
      BY <1>0 DEF SwitchInv, SwitchIsTyped
  <1>3. CASE Detect \/ EndCycle
    <2>1. gplan' = <<>> /\ gpc' # "record"
        BY <1>3 DEF Detect, EndCycle
    <2> QED
        BY <1>1, <1>2, <2>1 DEF SwitchInv, SwitchIsTyped, SwitchHolds
  <1>4. CASE Plan
    <2>1. PICK reachable \in [Artifacts0 -> Levels] :
             \E order \in {s \in [1 .. Cardinality(Artifacts0) -> Artifacts0] :
                              {s[n] : n \in DOMAIN s} = Artifacts0} :
                gplan' = PlanRemediation(pressure, order, reachable)
        BY <1>4 DEF Plan
    <2>2. PICK order \in [1 .. Cardinality(Artifacts0) -> Artifacts0] :
             gplan' = PlanRemediation(pressure, order, reachable)
        BY <2>1
    <2>3. Cardinality(Artifacts0) \in Nat
        BY GuardianAssumption, FS_CardinalityType
    <2> DEFINE N == Cardinality(Artifacts0)
               items == [n \in DOMAIN order |->
                            PlanItem(order[n], reachable[order[n]], pressure)]
    <2>4. items \in [1 .. N -> Items]
      <3>1. \A n \in 1 .. N : PlanItem(order[n], reachable[order[n]], pressure) \in Items
          BY PlanItemsAreTyped
      <3> QED
          BY <3>1
    <2>5. gplan' = Sorted(items, NotAfter)
        BY <2>2 DEF PlanRemediation
    <2> HIDE DEF N, items
    <2>6. gplan' \in [1 .. N -> Items]
        BY <2>3, <2>4, <2>5, PlansAreRearranged DEF N
    <2>7. gpc' # "record"
        BY <1>4 DEF Plan
    <2> QED
        BY <1>1, <1>2, <2>6, <2>7 DEF SwitchInv, SwitchIsTyped, SwitchHolds
  <1>5. CASE Apply
    <2>1. gplan' = (IF IsEngaged THEN Withdrawn(gplan) ELSE gplan) /\ heldAtRead' = binding
        BY <1>5 DEF Apply, ApplyKillSwitch
    <2>2. \A k \in DOMAIN gplan :
             LET item == [gplan[k] EXCEPT !.granted = Observe, !.class = "observe"]
             IN  item \in Items /\ item.granted = Observe /\ item.class = "observe"
      <3>1. ASSUME NEW x \in Items
            PROVE  LET item == [x EXCEPT !.granted = Observe, !.class = "observe"]
                   IN  item \in Items /\ item.granted = Observe /\ item.class = "observe"
        <4> DEFINE item == [x EXCEPT !.granted = Observe, !.class = "observe"]
        <4>1. Observe \in Levels
            BY DEF Levels, Observe, Autopilot
        <4>2. item \in Items
            BY <4>1 DEF Items
        <4>3. item.granted = Observe
            BY <4>1 DEF Items
        <4>4. item.class = "observe"
            BY <4>1 DEF Items
        <4> QED
            BY <4>2, <4>3, <4>4
      <3> QED
          BY <3>1 DEF SwitchInv, SwitchIsTyped
    <2>3. CASE IsEngaged
      <3>1. /\ DOMAIN gplan' = DOMAIN gplan
            /\ \A k \in DOMAIN gplan :
                  gplan'[k] = [gplan[k] EXCEPT !.granted = Observe, !.class = "observe"]
          BY <2>1, <2>3 DEF Withdrawn
      <3>2. \A k \in DOMAIN gplan' :
               gplan'[k] \in Items /\ gplan'[k].granted = Observe /\ gplan'[k].class = "observe"
          BY <2>2, <3>1
      <3> QED
          BY <1>1, <1>2, <3>2 DEF SwitchInv, SwitchIsTyped, SwitchHolds
    <2>4. CASE ~IsEngaged
      <3>1. ~binding
          BY <2>4 DEF SwitchInv, SwitchHolds
      <3>2. gplan' = gplan /\ ~heldAtRead'
          BY <2>1, <2>4, <3>1
      <3> QED
          BY <1>1, <1>2, <3>2 DEF SwitchInv, SwitchIsTyped, SwitchHolds
    <2> QED
        BY <2>3, <2>4
  <1>6. CASE RecordDecision
    <2>1. gplan' = gplan /\ gpc' = gpc /\ heldAtRead' = heldAtRead
        BY <1>6 DEF RecordDecision
    <2> QED
        BY <1>1, <1>2, <2>1 DEF SwitchInv, SwitchIsTyped, SwitchHolds
  <1> QED
      BY <1>3, <1>4, <1>5, <1>6 DEF CycleStep

LEMMA OwnerKeeps ==
    ASSUME SwitchInv, NEW w \in Owners, SwitchStep(w), UNCHANGED <<cycleVars, troubles0>>
    PROVE  SwitchInv'
  <1>0. UNCHANGED <<gpc, gplan, heldAtRead>>
      BY DEF cycleVars
  <1>1. /\ DOMAIN wpc = Owners /\ DOMAIN wpc[w] = {"step", "wants"}
        /\ \A v \in Owners : /\ wpc[v].wants \in {"engaged", "disengaged"}
                             /\ DOMAIN wpc[v] = {"step", "wants"}
      BY DEF SwitchInv, SwitchIsTyped
  <1>2. \E next :    /\ wpc' = [wpc EXCEPT ![w] = next]
                     /\ DOMAIN next = {"step", "wants"}
                     /\ next.wants \in {"engaged", "disengaged"}
                     /\ \/ next.step = "idle"
                        \/ next.wants = wpc[w].wants /\ wpc[w].step # "idle"
                        \/ next.wants = "engaged"
                        \/ next.wants = "disengaged" /\ ~binding'
    <2>1. CASE BeginWrite(w)
      <3>1. PICK wants \in {"engaged", "disengaged"} :
               /\ wpc' = [wpc EXCEPT ![w] = [step |-> "directory", wants |-> wants]]
               /\ binding' = (binding /\ wants = "engaged")
          BY <2>1 DEF BeginWrite
      <3> WITNESS [step |-> "directory", wants |-> wants]
      <3> QED
          BY <3>1
    <2>2. CASE EndWrite(w)
      <3> WITNESS Idle
      <3> QED
          BY <2>2 DEF EndWrite, Idle
    <2>3. CASE wpc[w].step # "idle" /\ \E step : At(w, step)
      <3>1. PICK step : wpc' = [wpc EXCEPT ![w].step = step]
          BY <2>3 DEF At
      <3> WITNESS [wpc[w] EXCEPT !.step = step]
      <3> QED
          BY <1>1, <2>3, <3>1
    <2> QED
        BY <2>1, <2>2, <2>3 DEF SwitchStep, CreateDirectory, OpenTruncating, WriteMarker, WriteTorn
  <1>3. PICK next : /\ wpc' = [wpc EXCEPT ![w] = next]
                    /\ DOMAIN next = {"step", "wants"}
                    /\ next.wants \in {"engaged", "disengaged"}
                    /\ \/ next.step = "idle"
                       \/ next.wants = wpc[w].wants /\ wpc[w].step # "idle"
                       \/ next.wants = "engaged"
                       \/ next.wants = "disengaged" /\ ~binding'
      BY <1>2
  <1>4. /\ DOMAIN wpc' = Owners
        /\ \A v \in Owners : wpc'[v] = IF v = w THEN next ELSE wpc[v]
      BY <1>1, <1>3
  <1>5. SwitchIsTyped'
      BY <1>0, <1>1, <1>3, <1>4 DEF SwitchInv, SwitchIsTyped
  <1>6. binding' /\ ~Disengaging => ~Disengaging'
      BY <1>3, <1>4 DEF Disengaging
  <1>7. BindingHolds'
    <2>1. CASE BeginWrite(w)
        BY <1>6, <2>1 DEF BeginWrite, SwitchInv, BindingHolds
    <2>2. CASE CreateDirectory(w)
        BY <1>6, <2>2 DEF CreateDirectory, SwitchInv, BindingHolds
    <2>3. CASE OpenTruncating(w)
        BY <1>6, <2>3 DEF OpenTruncating, SwitchInv, BindingHolds
    <2>4. CASE WriteMarker(w)
      <3>1. binding => wpc[w].wants = "engaged"
          BY <1>1, <2>4 DEF WriteMarker, SwitchInv, BindingHolds, Disengaging
      <3>2. binding => marker' # "disengaged" /\ (marker' = "absent" => marker = "absent")
          BY <2>4, <3>1 DEF WriteMarker, Overwritten0
      <3> QED
          BY <1>6, <2>4, <3>2 DEF WriteMarker, SwitchInv, BindingHolds
    <2>5. CASE WriteTorn(w)
        BY <1>6, <2>5 DEF WriteTorn, SwitchInv, BindingHolds
    <2> QED
        BY <2>1, <2>2, <2>3, <2>4, <2>5 DEF SwitchStep
  <1>8. SwitchHolds'
    <2>1. binding' => IsEngaged'
        BY <1>7 DEF BindingHolds, IsEngaged
    <2> QED
        BY <1>0, <2>1 DEF SwitchInv, SwitchHolds
  <1> QED
      BY <1>5, <1>7, <1>8 DEF SwitchInv

LEMMA TroubleKeeps ==
    ASSUME SwitchInv, SwitchTrouble, UNCHANGED cycleVars
    PROVE  SwitchInv'
  <1>1. UNCHANGED <<gpc, gplan, heldAtRead, wpc>>
      BY DEF cycleVars, SwitchTrouble
  <1>2. SwitchIsTyped'
      BY <1>1 DEF SwitchInv, SwitchIsTyped
  <1>3. BindingHolds'
    <2>1. Disengaging' = Disengaging
        BY <1>1 DEF Disengaging
    <2> QED
        BY <2>1 DEF SwitchInv, BindingHolds, SwitchTrouble, LoseParent, RestoreParent,
           RemoveMarker, ChangePermission
  <1>4. binding' => IsEngaged'
      BY <1>3 DEF BindingHolds, IsEngaged
  <1> QED
      BY <1>1, <1>2, <1>3, <1>4 DEF SwitchInv, SwitchHolds

-----------------------------------------------------------------------------
(* Guardian: the classification.                                           *)

\* The thresholds up, and those down, which lie a band below.
LEMMA TheBands ==
    /\ Up[0] = 5000 /\ Up[1] = 7500 /\ Up[2] = 9000
    /\ Down[1] = 4500 /\ Down[2] = 7000 /\ Down[3] = 8500
  BY DEF Up, Down, Green, Yellow, Orange, Red

LEMMA ScoresAreNumbers ==
    ASSUME NEW r \in Readings
    PROVE  PressureScore(r) \in Nat
  <1> DEFINE a == 100 - HigherIsSafer(r.free)
             b == HigherIsWorse(r.budget)
             c == HigherIsWorse(r.growth)
             relief == 15 * HigherIsSafer(r.reclaimable)
             base == Largest({a, b, c}) * 100
  <1>1. /\ HigherIsSafer(r.free) \in 0 .. 100 /\ HigherIsWorse(r.budget) \in 0 .. 100
        /\ HigherIsWorse(r.growth) \in 0 .. 100 /\ HigherIsSafer(r.reclaimable) \in 0 .. 100
      BY GuardianAssumption DEF HigherIsSafer, HigherIsWorse
  <1>2. a \in Nat /\ b \in Nat /\ c \in Nat /\ relief \in Nat
      BY <1>1
  <1> HIDE DEF a, b, c, relief
  <1>3. \E x \in {a, b, c} : \A y \in {a, b, c} : y <= x
      BY <1>2
  <1>4. Largest({a, b, c}) \in {a, b, c}
      BY <1>3 DEF Largest
  <1>5. base \in Nat
      BY <1>2, <1>4
  <1>6. PressureScore(r) = (IF base > relief THEN base - relief ELSE 0)
                           + (IF r.workload THEN 1000 ELSE 0)
      BY DEF PressureScore, a, b, c, relief
  <1> HIDE DEF base
  <1> QED
      BY <1>2, <1>5, <1>6

\* Up as far as every threshold is reached.
LEMMA RaisedStops ==
    ASSUME NEW score \in Nat, NEW from \in Green .. Red
    PROVE  LET to == Raised(score, from)
           IN  to \in from .. Red /\ \A t \in from .. to - 1 : score >= Up[t]
  <1> DEFINE Stops(s) == /\ \A t \in from .. s - 1 : score >= Up[t]
                         /\ s = Red \/ score < Up[s]
  <1>1. \E s \in from .. Red : Stops(s)
    <2>1. from \in {0, 1, 2, 3}
        BY DEF Green, Red
    <2>2. CASE \E t \in from .. 2 : score < Up[t]
      <3>1. PICK t \in from .. 2 : score < Up[t] /\ \A u \in from .. t - 1 : ~(score < Up[u])
          BY <2>1, <2>2
      <3> QED
          BY <3>1, <2>1, TheBands DEF Red
    <2>3. CASE ~ \E t \in from .. 2 : score < Up[t]
        BY <2>1, <2>3, TheBands DEF Red
    <2> QED
        BY <2>2, <2>3
  <1>2. Raised(score, from) = CHOOSE s \in from .. Red : Stops(s)
      BY DEF Raised
  <1> HIDE DEF Stops
  <1>3. Raised(score, from) \in from .. Red /\ Stops(Raised(score, from))
      BY <1>1, <1>2
  <1> QED
      BY <1>3 DEF Stops

\* Down as far as every threshold is missed.
LEMMA LoweredStops ==
    ASSUME NEW score \in Nat, NEW from \in Green .. Red
    PROVE  LET to == Lowered(score, from)
           IN  to \in Green .. from /\ \A t \in to + 1 .. from : score < Down[t]
  <1> DEFINE Stops(s) == /\ \A t \in s + 1 .. from : score < Down[t]
                         /\ s = Green \/ score >= Down[s]
  <1>1. \E s \in Green .. from : Stops(s)
    <2>1. from \in {0, 1, 2, 3}
        BY DEF Green, Red
    <2>2. CASE \E t \in 1 .. from : score >= Down[t]
      <3>1. PICK t \in 1 .. from : score >= Down[t] /\ \A u \in t + 1 .. from : ~(score >= Down[u])
          BY <2>1, <2>2
      <3> QED
          BY <3>1, <2>1, TheBands DEF Green
    <2>3. CASE ~ \E t \in 1 .. from : score >= Down[t]
        BY <2>1, <2>3, TheBands DEF Green
    <2> QED
        BY <2>2, <2>3
  <1>2. Lowered(score, from) = CHOOSE s \in Green .. from : Stops(s)
      BY DEF Lowered
  <1> HIDE DEF Stops
  <1>3. Lowered(score, from) \in Green .. from /\ Stops(Lowered(score, from))
      BY <1>1, <1>2
  <1> QED
      BY <1>3 DEF Stops

\* What a change of the state says of the score it was made at.
LEMMA ChangesCrossABand ==
    ASSUME NEW score \in Nat, NEW from \in Green .. Red
    PROVE  LET to == ClassifyPressure(score, from)
           IN  /\ to \in Green .. Red
               /\ to > from => score >= Up[to - 1] /\ score >= Up[from]
               /\ to < from => score < Down[to + 1] /\ score < Down[from]
  <1> DEFINE top == Raised(score, from)
             to  == Lowered(score, top)
  <1>1. top \in from .. Red /\ \A t \in from .. top - 1 : score >= Up[t]
      BY RaisedStops
  <1>2. top \in Green .. Red
      BY <1>1 DEF Green, Red
  <1> HIDE DEF top
  <1>3. to \in Green .. top /\ \A t \in to + 1 .. top : score < Down[t]
      BY <1>2, LoweredStops
  <1>4. to = ClassifyPressure(score, from)
      BY DEF ClassifyPressure, top
  <1> HIDE DEF to
  <1>5. to > from => score >= Up[to - 1] /\ score >= Up[from]
      BY <1>1, <1>2, <1>3 DEF Green, Red
  <1>6. to < from => score < Down[to + 1] /\ score < Down[from]
      BY <1>1, <1>2, <1>3 DEF Green, Red
  <1>7. to \in Green .. Red
      BY <1>2, <1>3 DEF Green, Red
  <1> QED
      BY <1>4, <1>5, <1>6, <1>7

\* The last change of the state was made at a score beyond the state's threshold.
TurnHolds ==
    /\ pressure \in Green .. Red
    /\ turn.score \in Nat /\ turn.way \in {"none", "up", "down"}
    /\ turn.way = "up" => pressure > Green /\ turn.score >= Up[pressure - 1]
    /\ turn.way = "down" => pressure < Red /\ turn.score < Down[pressure + 1]

\* Only a reading moves the state, and as the bands let it.
LEMMA TurnsAreBanded ==
    ASSUME TurnHolds, [GuardianNext]_guardianVars
    PROVE  /\ TurnHolds'
           /\ turn' # turn /\ turn.way # "none" /\ turn'.way # turn.way =>
                 \/ turn'.score >= turn.score + 500
                 \/ turn.score >= turn'.score + 500
  <1>1. CASE turn' = turn /\ pressure' = pressure
      BY <1>1 DEF TurnHolds
  <1>2. CASE Detect
    <2>1. PICK r \in Readings :
             LET score == PressureScore(r)
                 next  == ClassifyPressure(score, pressure)
             IN  /\ pressure' = next
                 /\ turn' = IF next = pressure THEN turn
                            ELSE [score |-> score,
                                  way |-> IF next > pressure THEN "up" ELSE "down"]
        BY <1>2 DEF Detect
    <2> DEFINE score == PressureScore(r)
               next  == ClassifyPressure(score, pressure)
    <2>2. score \in Nat /\ pressure \in Green .. Red
        BY ScoresAreNumbers DEF TurnHolds
    <2> HIDE DEF score
    <2>3. /\ next \in Green .. Red
          /\ next > pressure => score >= Up[next - 1] /\ score >= Up[pressure]
          /\ next < pressure => score < Down[next + 1] /\ score < Down[pressure]
        BY <2>2, ChangesCrossABand
    <2>4. /\ pressure' = next
          /\ turn' = IF next = pressure THEN turn
                     ELSE [score |-> score, way |-> IF next > pressure THEN "up" ELSE "down"]
        BY <2>1 DEF score
    <2> HIDE DEF next
    <2>5. next \in {0, 1, 2, 3} /\ pressure \in {0, 1, 2, 3}
        BY <2>2, <2>3 DEF Green, Red
    <2>6. CASE next = pressure
        BY <2>4, <2>6 DEF TurnHolds
    <2>7. CASE next > pressure
      <3>1. turn'.score = score /\ turn'.way = "up"
          BY <2>4, <2>5, <2>7
      <3>2. TurnHolds'
          BY <2>2, <2>3, <2>4, <2>5, <2>7, <3>1 DEF TurnHolds, Green
      <3>3. turn.way = "down" => score >= turn.score + 500
        <4>1. turn.way = "down" => turn.score < Down[pressure + 1] /\ pressure < 3
                                   /\ turn.score \in Nat
            BY DEF TurnHolds, Red
        <4> QED
            BY <2>2, <2>3, <2>5, <2>7, <4>1, TheBands
      <3> QED
          BY <3>1, <3>2, <3>3 DEF TurnHolds
    <2>8. CASE next < pressure
      <3>1. turn'.score = score /\ turn'.way = "down"
          BY <2>4, <2>5, <2>8
      <3>2. TurnHolds'
          BY <2>2, <2>3, <2>4, <2>5, <2>8, <3>1 DEF TurnHolds, Red
      <3>3. turn.way = "up" => turn.score >= score + 500
        <4>1. turn.way = "up" => turn.score >= Up[pressure - 1] /\ pressure > 0
                                 /\ turn.score \in Nat
            BY DEF TurnHolds, Green
        <4> QED
            BY <2>2, <2>3, <2>5, <2>8, <4>1, TheBands
      <3> QED
          BY <3>1, <3>2, <3>3 DEF TurnHolds
    <2> QED
        BY <2>5, <2>6, <2>7, <2>8
  <1> QED
      BY <1>1, <1>2 DEF GuardianNext, guardianVars, cycleVars, CycleStep, Plan, Apply,
         RecordDecision, EndCycle, SwitchTrouble

\* From the moment an engage has opened the file until a disengage begins or the
\* marker is taken away, the switch reads as engaged, and a plan applied
\* meanwhile keeps nothing but observations (is_engaged, apply_kill_switch).
THEOREM SwitchIsHeld == SurroundingsSpec => []SwitchHolds
  <1> DEFINE Inv == SwitchInv /\ TurnHolds
  <1>1. SurroundingsInit => Inv
    <2> SUFFICES ASSUME SurroundingsInit PROVE SwitchInv /\ TurnHolds
        OBVIOUS
    <2>1. GuardianInit
        BY DEF SurroundingsInit
    <2>2. SwitchInv
        BY <2>1 DEF GuardianInit, SwitchInv, SwitchIsTyped, BindingHolds, SwitchHolds, Idle
    <2>3. TurnHolds
        BY <2>1 DEF GuardianInit, TurnHolds
    <2> QED
        BY <2>2, <2>3
  <1>2. Inv /\ [SurroundingsNext]_surroundingsVars => Inv'
    <2> SUFFICES ASSUME SwitchInv, TurnHolds, [GuardianNext]_guardianVars
                 PROVE  SwitchInv' /\ TurnHolds'
        BY SurroundingsMoveTheGuardian
    <2>1. TurnHolds'
        BY TurnsAreBanded
    <2>2. CASE UNCHANGED guardianVars
        BY <2>1, <2>2 DEF guardianVars, cycleVars, switchVars, SwitchInv, SwitchIsTyped,
           BindingHolds, Disengaging, SwitchHolds, IsEngaged
    <2>3. CASE GuardianNext
        BY <2>1, <2>3, CycleKeeps, OwnerKeeps, TroubleKeeps DEF GuardianNext, TurnHolds
    <2> QED
        BY <2>1, <2>2, <2>3
  <1>3. Inv => SwitchHolds
      BY DEF SwitchInv
  <1> QED
      BY <1>1, <1>2, <1>3, PTL DEF SurroundingsSpec

\* Between a rise of the pressure state and its next fall, or a fall and its
\* next rise, the score has moved by at least the width of the band, whatever
\* is measured (classify).
THEOREM StateDoesNotFlap == SurroundingsSpec => NoFlapping
  <1>1. SurroundingsInit => TurnHolds
      BY DEF SurroundingsInit, GuardianInit, TurnHolds
  <1>2. TurnHolds /\ [SurroundingsNext]_surroundingsVars =>
           /\ TurnHolds'
           /\ turn' # turn /\ turn.way # "none" /\ turn'.way # turn.way =>
                 \/ turn'.score >= turn.score + 500
                 \/ turn.score >= turn'.score + 500
      BY SurroundingsMoveTheGuardian, TurnsAreBanded
  <1> QED
      BY <1>1, <1>2, PTL DEF SurroundingsSpec, NoFlapping

-----------------------------------------------------------------------------
(* Detection: steps over a sequence.                                       *)

\* A set of natural numbers that is not empty has a least member.
LEMMA LeastExists ==
    ASSUME NEW S \in SUBSET Nat, S # {}
    PROVE  \E i \in S : \A j \in S : i <= j
  <1>1. PICK i \in S : \A j \in S : <<j, i>> \notin OpToRel(<, Nat)
      BY NatLessThanWellFounded, WFMin
  <1>2. \A j \in S : ~(j < i)
      BY <1>1 DEF OpToRel
  <1> QED
      BY <1>2

\* What holds at first and is kept by each step holds after all of them.
LEMMA StepByStep ==
    ASSUME NEW from \in Nat, NEW to \in Nat, NEW T,
           from \in T,
           \A n \in from .. to - 1 : n \in T => n + 1 \in T
    PROVE  \A n \in from .. to : n \in T
  <1> DEFINE Missing == {n \in from .. to : n \notin T}
  <1>1. SUFFICES ASSUME Missing # {} PROVE FALSE
      OBVIOUS
  <1>2. Missing \in SUBSET Nat
      OBVIOUS
  <1>3. PICK m \in Missing : \A n \in Missing : m <= n
    <2> HIDE DEF Missing
    <2> QED
        BY <1>1, <1>2, LeastExists
  <1>4. m # from /\ m \in Nat /\ from < m /\ m <= to
      BY <1>3
  <1>5. m - 1 \in from .. to - 1 /\ m - 1 \notin Missing
      BY <1>3, <1>4
  <1>6. m - 1 \in T
      BY <1>5
  <1>7. (m - 1) + 1 \in T
      BY <1>5, <1>6
  <1> QED
      BY <1>3, <1>4, <1>7

\* Steps that can be taken one after the other.
Course(f, n, D, first, step) ==
    f \in [0 .. n -> D] /\ f[0] = first /\ \A k \in 1 .. n : f[k] = step[k][f[k - 1]]

LEMMA StepsCanBeTaken ==
    ASSUME NEW n \in Nat, NEW D, NEW first \in D, NEW step \in [1 .. n -> [D -> D]]
    PROVE  \E f : Course(f, n, D, first, step)
  <1> DEFINE Made(f, m) == f[0] = first /\ \A k \in 1 .. m : f[k] = step[k][f[k - 1]]
             T == {m \in 0 .. n : \E f \in [0 .. m -> D] : Made(f, m)}
  <1>1. 0 \in T
    <2> DEFINE f == [k \in 0 .. 0 |-> first]
    <2>1. f \in [0 .. 0 -> D] /\ f[0] = first
        OBVIOUS
    <2>2. \A k \in 1 .. 0 : FALSE
        OBVIOUS
    <2> HIDE DEF f
    <2> QED
        BY <2>1, <2>2
  <1>2. ASSUME NEW m \in 0 .. n - 1, m \in T
        PROVE  m + 1 \in T
    <2>1. PICK f \in [0 .. m -> D] : Made(f, m)
        BY <1>2
    <2> DEFINE g == [k \in 0 .. m + 1 |-> IF k <= m THEN f[k] ELSE step[m + 1][f[m]]]
    <2>2. m \in Nat /\ m + 1 \in 1 .. n /\ f[m] \in D /\ step[m + 1] \in [D -> D]
        OBVIOUS
    <2>3. step[m + 1][f[m]] \in D
        BY <2>2
    <2>4. g \in [0 .. m + 1 -> D]
        BY <2>2, <2>3
    <2>5. \A k \in 0 .. m : g[k] = f[k]
        BY <2>2
    <2>6. g[m + 1] = step[m + 1][g[m]]
        BY <2>2
    <2> HIDE DEF g
    <2>7. \A k \in 1 .. m + 1 : g[k] = step[k][g[k - 1]]
      <3> TAKE k \in 1 .. m + 1
      <3>1. CASE k = m + 1
          BY <2>2, <2>6, <3>1
      <3>2. CASE k # m + 1
        <4>1. k \in 1 .. m /\ k \in 0 .. m /\ k - 1 \in 0 .. m
            BY <2>2, <3>2
        <4> QED
            BY <2>1, <2>5, <4>1
      <3> QED
          BY <3>1, <3>2
    <2>8. Made(g, m + 1)
        BY <2>1, <2>2, <2>5, <2>7
    <2>9. m + 1 \in 0 .. n
        BY <2>2
    <2> QED
        BY <2>4, <2>8, <2>9
  <1>3. \A m \in 0 .. n : m \in T
    <2> HIDE DEF T
    <2> QED
        BY <1>1, <1>2, StepByStep
  <1> QED
      BY <1>3 DEF Course

-----------------------------------------------------------------------------
(* Detection: sums.                                                        *)

IsSum(f, s, n) == f = [k \in 0 .. n |-> IF k = 0 THEN 0 ELSE f[k - 1] + s[k]]
SumChosen(s, n) == CHOOSE f : IsSum(f, s, n)

LEMMA SumIsChosen ==
    ASSUME NEW s, NEW n
    PROVE  SumTo(s, n) = SumChosen(s, n)[n]
  BY DEF SumTo, SumChosen, IsSum

\* A sum is reached term by term.
LEMMA TermByTerm ==
    ASSUME NEW n \in Nat, NEW s \in [1 .. n -> Int]
    PROVE  \E f \in [0 .. n -> Int] :
              f[0] = 0 /\ (\A k \in 1 .. n : f[k] = f[k - 1] + s[k]) /\ SumTo(s, n) = f[n]
  <1> DEFINE step == [k \in 1 .. n |-> [x \in Int |-> x + s[k]]]
  <1>1. step \in [1 .. n -> [Int -> Int]] /\ 0 \in Int
      OBVIOUS
  <1>2. \A k \in 1 .. n : \A x \in Int : step[k][x] = x + s[k]
      OBVIOUS
  <1> HIDE DEF step
  <1>3. PICK f \in [0 .. n -> Int] : f[0] = 0 /\ \A k \in 1 .. n : f[k] = step[k][f[k - 1]]
    <2> DEFINE D == Int
               first == 0
    <2>1. n \in Nat /\ first \in D /\ step \in [1 .. n -> [D -> D]]
        BY <1>1
    <2> HIDE DEF D, first
    <2>2. \E f : Course(f, n, D, first, step)
        BY <2>1, StepsCanBeTaken
    <2> QED
        BY <2>2 DEF Course, D, first
  <1>4. \A k \in 1 .. n : f[k] = f[k - 1] + s[k]
    <2> TAKE k \in 1 .. n
    <2>1. k - 1 \in 0 .. n /\ f[k] = step[k][f[k - 1]]
        BY <1>3
    <2>2. f[k - 1] \in Int
        BY <2>1
    <2> QED
        BY <1>2, <2>1, <2>2
  <1>5. IsSum(f, s, n)
    <2>1. \A k \in 0 .. n : f[k] = IF k = 0 THEN 0 ELSE f[k - 1] + s[k]
        BY <1>3, <1>4
    <2> QED
        BY <2>1 DEF IsSum
  <1>6. IsSum(SumChosen(s, n), s, n)
      BY <1>5, Zenon DEF SumChosen
  <1> DEFINE g == SumChosen(s, n)
             T == {k \in 0 .. n : g[k] = f[k]}
  <1>7. \A k \in 0 .. n : k \in T
    <2> HIDE DEF g
    <2>1. g[0] = 0 /\ \A k \in 1 .. n : g[k] = g[k - 1] + s[k]
        BY <1>6 DEF g, IsSum
    <2>2. 0 \in T
        BY <1>3, <2>1
    <2>3. \A k \in 0 .. n - 1 : k \in T => k + 1 \in T
        BY <1>4, <2>1
    <2> HIDE DEF T
    <2> QED
        BY <2>2, <2>3, StepByStep
  <1>8. SumTo(s, n) = f[n]
      BY <1>7, SumIsChosen
  <1> QED
      BY <1>3, <1>4, <1>8

-----------------------------------------------------------------------------
(* Detection: slopes.                                                      *)

\* What is in S, which is closed under sums, for the products of the
\* differences of all pairs, is in S for the covariance.
LEMMA CovarianceOfPairs ==
    ASSUME NEW n \in Nat, n >= 2, NEW a \in [1 .. n -> Int], NEW b \in [1 .. n -> Int],
           NEW S \in SUBSET Int, \A x, y \in S : x + y \in S,
           \A i, j \in 1 .. n : i < j => (a[j] - a[i]) * (b[j] - b[i]) \in S
    PROVE  n * SumTo(Times(a, b), n) - SumTo(a, n) * SumTo(b, n) \in S
  <1>1. Times(a, b) \in [1 .. n -> Int] /\ \A k \in 1 .. n : Times(a, b)[k] = a[k] * b[k]
      BY DEF Times
  <1>2. PICK A \in [0 .. n -> Int] :
            A[0] = 0 /\ (\A k \in 1 .. n : A[k] = A[k - 1] + a[k]) /\ SumTo(a, n) = A[n]
      BY TermByTerm
  <1>3. PICK B \in [0 .. n -> Int] :
            B[0] = 0 /\ (\A k \in 1 .. n : B[k] = B[k - 1] + b[k]) /\ SumTo(b, n) = B[n]
      BY TermByTerm
  <1>4. PICK C \in [0 .. n -> Int] :
            /\ C[0] = 0 /\ \A k \in 1 .. n : C[k] = C[k - 1] + a[k] * b[k]
            /\ SumTo(Times(a, b), n) = C[n]
    <2>1. PICK C \in [0 .. n -> Int] :
            /\ C[0] = 0 /\ \A k \in 1 .. n : C[k] = C[k - 1] + Times(a, b)[k]
            /\ SumTo(Times(a, b), n) = C[n]
        BY <1>1, TermByTerm
    <2> QED
        BY <1>1, <2>1
  <1> DEFINE Cross(k, j) == C[j] + j * (a[k] * b[k]) - b[k] * A[j] - a[k] * B[j]
             Co(k) == k * C[k] - A[k] * B[k]
  <1>5. \A k \in 1 .. n : a[k] \in Int /\ b[k] \in Int
      OBVIOUS
  <1>6. \A k \in 0 .. n : A[k] \in Int /\ B[k] \in Int /\ C[k] \in Int
      BY <1>2, <1>3, <1>4
  <1>7. ASSUME NEW k \in 1 .. n, NEW j \in 0 .. n - 1, NEW i, i = j + 1
        PROVE  Cross(k, i) = Cross(k, j) + (a[k] - a[i]) * (b[k] - b[i])
    <2>1. i \in 1 .. n /\ j \in 0 .. n /\ j \in Int /\ i - 1 = j
        BY <1>7
    <2>2. A[i] = A[j] + a[i] /\ B[i] = B[j] + b[i] /\ C[i] = C[j] + a[i] * b[i]
        BY <1>2, <1>3, <1>4, <2>1
    <2>3. /\ a[k] \in Int /\ b[k] \in Int /\ a[i] \in Int /\ b[i] \in Int
          /\ A[j] \in Int /\ B[j] \in Int /\ C[j] \in Int
        BY <1>5, <1>6, <2>1
    <2>4. C[i] + (j + 1) * (a[k] * b[k]) - b[k] * A[i] - a[k] * B[i]
            = Cross(k, j) + (a[k] - a[i]) * (b[k] - b[i])
      <3>1. PICK x \in Int, y \in Int, u \in Int, v \in Int : x = a[k] /\ y = b[k] /\ u = a[i] /\ v = b[i]
          BY <2>3
      <3>2. PICK A0 \in Int, B0 \in Int, C0 \in Int : A0 = A[j] /\ B0 = B[j] /\ C0 = C[j]
          BY <2>3
      <3>3. PICK A1, B1, C1 : A1 = A[i] /\ B1 = B[i] /\ C1 = C[i]
          OBVIOUS
      <3>4. A1 = A0 + u /\ B1 = B0 + v /\ C1 = C0 + u * v
          BY <2>2, <3>1, <3>2, <3>3, Zenon
      <3>5. C1 + (j + 1) * (x * y) - y * A1 - x * B1
              = (C0 + j * (x * y) - y * A0 - x * B0) + (x - u) * (y - v)
          BY <2>1, <3>4, SMTT(60)
      <3> QED
          BY <3>1, <3>2, <3>3, <3>5, Zenon
    <2> QED
        BY <1>7, <2>4, Zenon
  <1>8. ASSUME NEW k \in 0 .. n - 1, NEW i, i = k + 1
        PROVE  Co(i) = Co(k) + Cross(i, k)
    <2>1. i \in 1 .. n /\ k \in 0 .. n /\ k \in Int /\ i - 1 = k
        BY <1>8
    <2>2. A[i] = A[k] + a[i] /\ B[i] = B[k] + b[i] /\ C[i] = C[k] + a[i] * b[i]
        BY <1>2, <1>3, <1>4, <2>1
    <2>3. a[i] \in Int /\ b[i] \in Int /\ A[k] \in Int /\ B[k] \in Int /\ C[k] \in Int
        BY <1>5, <1>6, <2>1
    <2>4. (k + 1) * C[i] - A[i] * B[i] = Co(k) + Cross(i, k)
      <3>1. PICK x \in Int, y \in Int, A0 \in Int, B0 \in Int, C0 \in Int :
                x = a[i] /\ y = b[i] /\ A0 = A[k] /\ B0 = B[k] /\ C0 = C[k]
          BY <2>3
      <3>2. PICK A1, B1, C1 : A1 = A[i] /\ B1 = B[i] /\ C1 = C[i]
          OBVIOUS
      <3>3. A1 = A0 + x /\ B1 = B0 + y /\ C1 = C0 + x * y
          BY <2>2, <3>1, <3>2, Zenon
      <3>4. (k + 1) * C1 - A1 * B1 = (k * C0 - A0 * B0) + (C0 + k * (x * y) - y * A0 - x * B0)
          BY <2>1, <3>3, SMTT(60)
      <3> QED
          BY <3>1, <3>2, <3>4, Zenon
    <2> QED
        BY <1>8, <2>4, Zenon
  <1>9. \A k \in 1 .. n : Cross(k, 0) = 0
    <2> TAKE k \in 1 .. n
    <2>1. a[k] \in Int /\ b[k] \in Int
        BY <1>5
    <2>2. \A x, y \in Int : 0 + 0 * (x * y) - y * 0 - x * 0 = 0
        OBVIOUS
    <2>3. 0 + 0 * (a[k] * b[k]) - b[k] * 0 - a[k] * 0 = 0
        BY <2>1, <2>2, Zenon
    <2> QED
        BY <1>2, <1>3, <1>4, <2>3, Zenon
  <1>10. Co(0) = 0 /\ \A k \in 0 .. n : Co(k) \in Int
    <2>1. \A x, y, z, k \in Int : k * z - x * y \in Int
        OBVIOUS
    <2>2. \A k \in 0 .. n : k \in Int
        OBVIOUS
    <2>3. \A k \in 0 .. n : Co(k) \in Int
        BY <1>6, <2>1, <2>2, Zenon
    <2>4. 0 * 0 - 0 * 0 = 0
        OBVIOUS
    <2> QED
        BY <1>2, <1>3, <1>4, <2>3, <2>4, Zenon
  <1>11. \A k \in 1 .. n : \A j \in 0 .. n : Cross(k, j) \in Int
    <2>1. \A x, y, A1, B1, C1, j \in Int : C1 + j * (x * y) - y * A1 - x * B1 \in Int
        OBVIOUS
    <2>2. \A k \in 0 .. n : k \in Int
        OBVIOUS
    <2> QED
        BY <1>5, <1>6, <2>1, <2>2, Zenon
  <1> HIDE DEF Cross, Co
  <1>12. \A k \in 2 .. n : Cross(k, k - 1) \in S
    <2> TAKE k \in 2 .. n
    <2> DEFINE T == {j \in 1 .. k - 1 : Cross(k, j) \in S}
    <2>1. \A j \in 1 .. k - 1 : (a[k] - a[j]) * (b[k] - b[j]) \in S
      <3> TAKE j \in 1 .. k - 1
      <3>1. j \in 1 .. n /\ k \in 1 .. n /\ j < k
          OBVIOUS
      <3> QED
          BY <3>1, Zenon
    <2>2. 1 \in T
      <3>1. 1 \in 1 .. k - 1 /\ k \in 1 .. n /\ 0 \in 0 .. n - 1 /\ 1 = 0 + 1
          OBVIOUS
      <3>2. Cross(k, 1) = Cross(k, 0) + (a[k] - a[1]) * (b[k] - b[1])
          BY <1>7, <3>1, Zenon
      <3>3. (a[k] - a[1]) * (b[k] - b[1]) \in S /\ Cross(k, 0) = 0
          BY <1>9, <2>1, <3>1, Zenon
      <3>4. \A x \in S : 0 + x = x
          OBVIOUS
      <3> QED
          BY <3>1, <3>2, <3>3, <3>4, Zenon
    <2>3. ASSUME NEW j \in 1 .. k - 1 - 1, j \in T
          PROVE  j + 1 \in T
      <3>1. j \in 0 .. n - 1 /\ j + 1 \in 1 .. k - 1 /\ k \in 1 .. n
          OBVIOUS
      <3>2. Cross(k, j + 1) = Cross(k, j) + (a[k] - a[j + 1]) * (b[k] - b[j + 1])
          BY <1>7, <3>1, Zenon
      <3>3. (a[k] - a[j + 1]) * (b[k] - b[j + 1]) \in S
          BY <2>1, <3>1, Zenon
      <3>4. Cross(k, j) \in S
          BY <2>3
      <3>5. Cross(k, j + 1) \in S
          BY <3>2, <3>3, <3>4, Zenon
      <3> QED
          BY <3>1, <3>5
    <2>4. \A j \in 1 .. k - 1 : j \in T
      <3>1. 1 \in Nat /\ k - 1 \in Nat
          OBVIOUS
      <3> HIDE DEF T
      <3> QED
          BY <2>2, <2>3, <3>1, StepByStep
    <2> QED
        BY <2>4
  <1>13. \A k \in 2 .. n : Co(k) \in S
    <2> DEFINE T == {k \in 2 .. n : Co(k) \in S}
    <2>1. 2 \in T
      <3>1. /\ 0 \in 0 .. n - 1 /\ 1 \in 0 .. n - 1 /\ 2 \in 2 .. n /\ 1 \in 1 .. n
            /\ 1 = 0 + 1 /\ 2 = 1 + 1 /\ 2 - 1 = 1
          OBVIOUS
      <3>2. Co(1) = Co(0) + Cross(1, 0) /\ Co(2) = Co(1) + Cross(2, 1)
          BY <1>8, <3>1, Zenon
      <3>3. Cross(1, 0) = 0 /\ Co(0) = 0
          BY <1>9, <1>10, <3>1
      <3>4. Cross(2, 1) \in S
          BY <1>12, <3>1
      <3>5. \A x \in S : 0 + 0 = 0 /\ 0 + x = x
          OBVIOUS
      <3>6. Co(2) \in S
          BY <3>2, <3>3, <3>4, <3>5, Zenon
      <3> QED
          BY <3>1, <3>6
    <2>2. ASSUME NEW k \in 2 .. n - 1, k \in T
          PROVE  k + 1 \in T
      <3>1. k \in 0 .. n - 1 /\ k + 1 \in 2 .. n /\ (k + 1) - 1 = k
          OBVIOUS
      <3>2. Co(k + 1) = Co(k) + Cross(k + 1, k)
          BY <1>8, <3>1, Zenon
      <3>3. Cross(k + 1, k) \in S /\ Co(k) \in S
          BY <1>12, <2>2, <3>1
      <3>4. Co(k + 1) \in S
          BY <3>2, <3>3, Zenon
      <3> QED
          BY <3>1, <3>4
    <2> HIDE DEF T
    <2>3. \A k \in 2 .. n : k \in T
        BY <2>1, <2>2, StepByStep
    <2> QED
        BY <2>3 DEF T
  <1>14. Co(n) \in S
      BY <1>13
  <1> QED
      BY <1>2, <1>3, <1>4, <1>14 DEF Co

Points == Int \X Int

\* Of two points the later is the lower.
Falling(p) ==
    \A i, j \in DOMAIN p : i < j => p[i][1] < p[j][1] /\ p[i][2] > p[j][2]

\* The times and the values of points.
LEMMA PartsOfPoints ==
    ASSUME NEW p \in Seq(Points)
    PROVE  /\ Len(p) \in Nat /\ DOMAIN p = 1 .. Len(p)
           /\ \A k \in 1 .. Len(p) : p[k][1] \in Int /\ p[k][2] \in Int
           /\ [k \in 1 .. Len(p) |-> p[k][1]] \in [1 .. Len(p) -> Int]
           /\ [k \in 1 .. Len(p) |-> p[k][2]] \in [1 .. Len(p) -> Int]
  <1>1. Len(p) \in Nat /\ DOMAIN p = 1 .. Len(p)
      OBVIOUS
  <1>2. \A k \in 1 .. Len(p) : p[k] \in Points
      OBVIOUS
  <1>3. \A k \in 1 .. Len(p) : p[k][1] \in Int /\ p[k][2] \in Int
      BY <1>2 DEF Points
  <1> QED
      BY <1>1, <1>3

LEMMA SumsAreNumbers ==
    ASSUME NEW n \in Nat, NEW s \in [1 .. n -> Int]
    PROVE  SumTo(s, n) \in Int
  <1>1. PICK f \in [0 .. n -> Int] :
              f[0] = 0 /\ (\A k \in 1 .. n : f[k] = f[k - 1] + s[k]) /\ SumTo(s, n) = f[n]
      BY TermByTerm
  <1> QED
      BY <1>1

LEMMA FitsAreNumbers ==
    ASSUME NEW p \in Seq(Points)
    PROVE  LET fit == OlsFit(p) IN
           /\ fit.n \in Nat /\ fit.st \in Int /\ fit.sv \in Int
           /\ fit.num \in Int /\ fit.den \in Int /\ fit.tot \in Int
  <1> DEFINE n == Len(p)
             t == [k \in 1 .. n |-> p[k][1]]
             v == [k \in 1 .. n |-> p[k][2]]
  <1>1. n \in Nat /\ t \in [1 .. n -> Int] /\ v \in [1 .. n -> Int]
      BY PartsOfPoints
  <1>2. OlsFit(p) = [n |-> n, st |-> SumTo(t, n), sv |-> SumTo(v, n),
                     num |-> n * SumTo(Times(t, v), n) - SumTo(t, n) * SumTo(v, n),
                     den |-> n * SumTo(Times(t, t), n) - SumTo(t, n) * SumTo(t, n),
                     tot |-> n * SumTo(Times(v, v), n) - SumTo(v, n) * SumTo(v, n)]
      BY DEF OlsFit
  <1> HIDE DEF n, t, v
  <1>3. \A a, b \in [1 .. n -> Int] : Times(a, b) \in [1 .. n -> Int]
      BY DEF Times
  <1>4. /\ SumTo(t, n) \in Int /\ SumTo(v, n) \in Int
        /\ SumTo(Times(t, v), n) \in Int /\ SumTo(Times(t, t), n) \in Int /\ SumTo(Times(v, v), n) \in Int
      BY <1>1, <1>3, SumsAreNumbers
  <1>5. n \in Int /\ \A x, y, z, k \in Int : k * z - x * y \in Int
      BY <1>1
  <1>6. /\ n * SumTo(Times(t, v), n) - SumTo(t, n) * SumTo(v, n) \in Int
        /\ n * SumTo(Times(t, t), n) - SumTo(t, n) * SumTo(t, n) \in Int
        /\ n * SumTo(Times(v, v), n) - SumTo(v, n) * SumTo(v, n) \in Int
      BY <1>4, <1>5, Zenon
  <1> QED
      BY <1>1, <1>2, <1>4, <1>6

\* The spread of the times is no negative number; and where times rise and
\* values fall, there is a spread, and the line falls.
LEMMA SlopesOfFits ==
    ASSUME NEW p \in Seq(Points), Len(p) >= 2
    PROVE  /\ OlsFit(p).den >= 0
           /\ Falling(p) => OlsFit(p).den > 0 /\ OlsFit(p).num < 0
  <1> DEFINE n == Len(p)
             t == [k \in 1 .. n |-> p[k][1]]
             v == [k \in 1 .. n |-> p[k][2]]
             Above == {x \in Int : x > 0}
             Under == {x \in Int : x < 0}
  <1>1. n \in Nat /\ n >= 2 /\ t \in [1 .. n -> Int] /\ v \in [1 .. n -> Int] /\ DOMAIN p = 1 .. n
      BY PartsOfPoints
  <1>2. /\ OlsFit(p).num = n * SumTo(Times(t, v), n) - SumTo(t, n) * SumTo(v, n)
        /\ OlsFit(p).den = n * SumTo(Times(t, t), n) - SumTo(t, n) * SumTo(t, n)
      BY DEF OlsFit
  <1>3. \A k \in 1 .. n : t[k] = p[k][1] /\ v[k] = p[k][2] /\ t[k] \in Int /\ v[k] \in Int
      BY PartsOfPoints
  <1> HIDE DEF n, t, v
  <1>4. \A x \in Int : x * x \in Nat
      BY SMTT(30)
  <1>5. \A x, y \in Int : (x > 0 => x * x > 0) /\ (x > 0 /\ y < 0 => x * y < 0) /\ x * y \in Int
      BY SMTT(30)
  <1>6. OlsFit(p).den \in Nat
    <2>1. \A i, j \in 1 .. n : t[j] - t[i] \in Int
        BY <1>3
    <2>2. \A i, j \in 1 .. n : i < j => (t[j] - t[i]) * (t[j] - t[i]) \in Nat
        BY <1>4, <2>1, Zenon
    <2> DEFINE S == Nat
    <2>3. S \in SUBSET Int /\ \A x, y \in S : x + y \in S
        OBVIOUS
    <2> HIDE DEF S
    <2>4. \A i, j \in 1 .. n : i < j => (t[j] - t[i]) * (t[j] - t[i]) \in S
        BY <2>2, Zenon DEF S
    <2>5. n * SumTo(Times(t, t), n) - SumTo(t, n) * SumTo(t, n) \in S
        BY <1>1, <2>3, <2>4, CovarianceOfPairs, Zenon
    <2> QED
        BY <1>2, <2>5, Zenon DEF S
  <1>7. ASSUME Falling(p)
        PROVE  OlsFit(p).den \in Above /\ OlsFit(p).num \in Under
    <2>1. \A i, j \in 1 .. n : i < j => t[j] - t[i] \in Int /\ v[j] - v[i] \in Int /\ t[j] - t[i] > 0 /\ v[j] - v[i] < 0
      <3> TAKE i, j \in 1 .. n
      <3> HAVE i < j
      <3>1. t[i] < t[j] /\ v[i] > v[j]
        <4>1. i \in DOMAIN p /\ j \in DOMAIN p
            BY <1>1
        <4>2. p[i][1] < p[j][1] /\ p[i][2] > p[j][2]
            BY <1>7, <4>1 DEF Falling
        <4> QED
            BY <1>3, <4>2
      <3>2. t[i] \in Int /\ t[j] \in Int /\ v[i] \in Int /\ v[j] \in Int
          BY <1>3
      <3> QED
          BY <3>1, <3>2
    <2>2. \A i, j \in 1 .. n : i < j => (t[j] - t[i]) * (t[j] - t[i]) > 0 /\ (t[j] - t[i]) * (t[j] - t[i]) \in Int
        BY <1>5, <2>1, Zenon
    <2>3. \A i, j \in 1 .. n : i < j => (t[j] - t[i]) * (v[j] - v[i]) < 0 /\ (t[j] - t[i]) * (v[j] - v[i]) \in Int
        BY <1>5, <2>1, Zenon
    <2>4. \A i, j \in 1 .. n : i < j => (t[j] - t[i]) * (t[j] - t[i]) \in Above
        BY <2>2, Zenon
    <2>5. \A i, j \in 1 .. n : i < j => (t[j] - t[i]) * (v[j] - v[i]) \in Under
        BY <2>3, Zenon
    <2>6. Above \in SUBSET Int /\ (\A x, y \in Above : x + y \in Above)
          /\ Under \in SUBSET Int /\ (\A x, y \in Under : x + y \in Under)
        OBVIOUS
    <2> HIDE DEF Above, Under
    <2>7. n * SumTo(Times(t, t), n) - SumTo(t, n) * SumTo(t, n) \in Above
        BY <1>1, <2>4, <2>6, CovarianceOfPairs, Zenon
    <2>8. n * SumTo(Times(t, v), n) - SumTo(t, n) * SumTo(v, n) \in Under
        BY <1>1, <2>5, <2>6, CovarianceOfPairs, Zenon
    <2> QED
        BY <1>2, <2>7, <2>8, Zenon
  <1> QED
      BY <1>6, <1>7

-----------------------------------------------------------------------------
(* Detection: a point left out.                                            *)

LEMMA OneLeftOut ==
    ASSUME NEW p \in Seq(Points), NEW w \in DOMAIN p
    PROVE  /\ Without(p, w) \in Seq(Points) /\ Len(Without(p, w)) = Len(p) - 1
           /\ Falling(p) => Falling(Without(p, w))
  <1> DEFINE q == Without(p, w)
             n == Len(p)
             Kept(k) == IF k < w THEN k ELSE k + 1
  <1>1. n \in Nat /\ n >= 1 /\ DOMAIN p = 1 .. n /\ w \in 1 .. n
      OBVIOUS
  <1>2. q = [k \in 1 .. n - 1 |-> IF k < w THEN p[k] ELSE p[k + 1]]
      BY DEF Without
  <1>3. \A k \in 1 .. n - 1 : Kept(k) \in 1 .. n /\ q[k] = p[Kept(k)]
      BY <1>1, <1>2
  <1>4. \A i, j \in 1 .. n - 1 : i < j => Kept(i) < Kept(j)
      BY <1>1
  <1>5. q \in [1 .. n - 1 -> Points]
      BY <1>1, <1>2
  <1> HIDE DEF q, n, Kept
  <1>6. q \in Seq(Points) /\ Len(q) = n - 1 /\ DOMAIN q = 1 .. n - 1
    <2>1. n - 1 \in Nat
        BY <1>1
    <2> QED
        BY <1>5, <2>1
  <1>7. Falling(p) => Falling(q)
    <2> SUFFICES ASSUME Falling(p), NEW i \in 1 .. n - 1, NEW j \in 1 .. n - 1, i < j
                 PROVE  q[i][1] < q[j][1] /\ q[i][2] > q[j][2]
        BY <1>6 DEF Falling
    <2>1. Kept(i) \in DOMAIN p /\ Kept(j) \in DOMAIN p /\ Kept(i) < Kept(j)
        BY <1>1, <1>3, <1>4
    <2>2. p[Kept(i)][1] < p[Kept(j)][1] /\ p[Kept(i)][2] > p[Kept(j)][2]
        BY <2>1 DEF Falling
    <2> QED
        BY <1>3, <2>2
  <1> QED
      BY <1>6, <1>7 DEF q, n

\* Of numbers in a sequence there is a greatest, and a last one of these.
LEMMA LastOfTheGreatest ==
    ASSUME NEW n \in Nat, n >= 1, NEW s \in [1 .. n -> Int]
    PROVE  \E w \in 1 .. n : /\ \A m \in 1 .. n : s[m] <= s[w]
                             /\ \A m \in 1 .. n : m > w => s[m] < s[w]
  <1> DEFINE Worst(w, k) == /\ \A m \in 1 .. k : s[m] <= s[w]
                            /\ \A m \in 1 .. k : m > w => s[m] < s[w]
             T == {k \in 1 .. n : \E w \in 1 .. k : Worst(w, k)}
  <1>1. 1 \in T
    <2>1. Worst(1, 1)
        OBVIOUS
    <2> QED
        BY <2>1
  <1>2. ASSUME NEW k \in 1 .. n - 1, k \in T
        PROVE  k + 1 \in T
    <2>1. PICK w \in 1 .. k : Worst(w, k)
        BY <1>2
    <2>2. k + 1 \in 1 .. n /\ w \in 1 .. k + 1 /\ \A m \in 1 .. k + 1 : m \in 1 .. k \/ m = k + 1
        OBVIOUS
    <2>3. \A m \in 1 .. n : s[m] \in Int
        OBVIOUS
    <2>4. CASE s[k + 1] >= s[w]
      <3>1. Worst(k + 1, k + 1)
          BY <2>1, <2>2, <2>3, <2>4
      <3> QED
          BY <2>2, <3>1
    <2>5. CASE s[k + 1] < s[w]
      <3>1. Worst(w, k + 1)
          BY <2>1, <2>2, <2>3, <2>5
      <3> QED
          BY <2>2, <3>1
    <2> QED
        BY <2>2, <2>3, <2>4, <2>5
  <1>3. \A k \in 1 .. n : k \in T
    <2> HIDE DEF T
    <2> QED
        BY <1>1, <1>2, StepByStep
  <1>4. PICK w \in 1 .. n : Worst(w, n)
    <2>1. n \in T
      <3> HIDE DEF T
      <3> QED
          BY <1>3
    <2> QED
        BY <2>1
  <1> QED
      BY <1>4

\* The fit is of all the points, or of all but one.
LEMMA AtMostOneLeftOut ==
    ASSUME NEW p \in Seq(Points), Len(p) >= 2
    PROVE  \/ TrimmedFit(p) = OlsFit(p)
           \/ /\ Len(p) >= 5
              /\ \E w \in DOMAIN p : TrimmedFit(p) = OlsFit(Without(p, w)) /\ Fits(TrimmedFit(p))
  <1> DEFINE fit == OlsFit(p)
             far == [k \in DOMAIN p |-> Residual(fit, p[k])]
             worst == CHOOSE k \in DOMAIN far :
                         /\ \A m \in DOMAIN far : far[m] <= far[k]
                         /\ \A m \in DOMAIN far : m > k => far[m] < far[k]
             again == OlsFit(Without(p, worst))
  <1>1. TrimmedFit(p) = fit \/ (TrimmedFit(p) = again /\ ~(Len(p) < 5) /\ Fits(again))
      BY Zenon DEF TrimmedFit
  <1>2. worst \in DOMAIN p
    <2>1. Len(p) \in Nat /\ DOMAIN p = 1 .. Len(p)
          /\ \A k \in 1 .. Len(p) : p[k][1] \in Int /\ p[k][2] \in Int
        BY PartsOfPoints
    <2>2. /\ fit.n \in Nat /\ fit.st \in Int /\ fit.sv \in Int
          /\ fit.num \in Int /\ fit.den \in Int
        BY FitsAreNumbers
    <2> HIDE DEF fit
    <2>3. far \in [1 .. Len(p) -> Int]
      <3>1. ASSUME NEW k \in 1 .. Len(p) PROVE Residual(fit, p[k]) \in Int
        <4>1. \A n, st, sv, num, den, t, v \in Int :
                  den * n * v - (num * n * t + den * sv - num * st) \in Int
            OBVIOUS
        <4>2. fit.n \in Int /\ p[k][1] \in Int /\ p[k][2] \in Int
            BY <2>1, <2>2
        <4>3. fit.den * fit.n * p[k][2] - (fit.num * fit.n * p[k][1] + fit.den * fit.sv - fit.num * fit.st) \in Int
            BY <2>2, <4>1, <4>2, Zenon
        <4>4. \A x \in Int : Abs(x) \in Int
            BY DEF Abs
        <4> QED
            BY <4>3, <4>4, Zenon DEF Residual
      <3> QED
          BY <2>1, <3>1
    <2> HIDE DEF far
    <2>4. DOMAIN far = DOMAIN p
        BY <2>1, <2>3
    <2>5. \E w \in DOMAIN far : /\ \A m \in DOMAIN far : far[m] <= far[w]
                                /\ \A m \in DOMAIN far : m > w => far[m] < far[w]
      <3>1. Len(p) >= 1
          BY <2>1
      <3>2. \E w \in 1 .. Len(p) : /\ \A m \in 1 .. Len(p) : far[m] <= far[w]
                                   /\ \A m \in 1 .. Len(p) : m > w => far[m] < far[w]
          BY <2>1, <2>3, <3>1, LastOfTheGreatest, Zenon
      <3> QED
          BY <2>1, <2>4, <3>2, Zenon
    <2> QED
        BY <2>4, <2>5, Zenon
  <1> HIDE DEF worst
  <1>3. Len(p) \in Nat
      OBVIOUS
  <1> QED
      BY <1>1, <1>2, <1>3

\* So it is a line, of points that fall if they all do.
LEMMA SlopesOfTrimmedFits ==
    ASSUME NEW p \in Seq(Points), Len(p) >= 2
    PROVE  LET fit == TrimmedFit(p) IN
           /\ fit.num \in Int /\ fit.den \in Int /\ fit.den >= 0
           /\ Falling(p) => fit.den > 0 /\ fit.num < 0
  <1>1. CASE TrimmedFit(p) = OlsFit(p)
      BY <1>1, FitsAreNumbers, SlopesOfFits
  <1>2. ASSUME Len(p) >= 5, NEW w \in DOMAIN p, TrimmedFit(p) = OlsFit(Without(p, w))
        PROVE  LET fit == TrimmedFit(p) IN
               /\ fit.num \in Int /\ fit.den \in Int /\ fit.den >= 0
               /\ Falling(p) => fit.den > 0 /\ fit.num < 0
    <2>1. PICK q : q = Without(p, w)
        OBVIOUS
    <2>2. q \in Seq(Points) /\ Len(q) = Len(p) - 1 /\ (Falling(p) => Falling(q))
        BY <2>1, OneLeftOut
    <2>3. Len(q) >= 2
        BY <1>2, <2>2
    <2> QED
        BY <1>2, <2>1, <2>2, <2>3, FitsAreNumbers, SlopesOfFits
  <1> QED
      BY <1>1, <1>2, AtMostOneLeftOut

LEMMA FallingStepByStep ==
    ASSUME NEW p \in Seq(Points),
           \A k \in 1 .. Len(p) - 1 : p[k][1] < p[k + 1][1] /\ p[k][2] > p[k + 1][2]
    PROVE  Falling(p)
  <1>1. Len(p) \in Nat /\ DOMAIN p = 1 .. Len(p) /\ \A k \in 1 .. Len(p) : p[k][1] \in Int /\ p[k][2] \in Int
      BY PartsOfPoints
  <1> SUFFICES ASSUME NEW i \in 1 .. Len(p), NEW j \in 1 .. Len(p), i < j
               PROVE  p[i][1] < p[j][1] /\ p[i][2] > p[j][2]
      BY <1>1 DEF Falling
  <1> DEFINE T == {k \in i + 1 .. Len(p) : p[i][1] < p[k][1] /\ p[i][2] > p[k][2]}
  <1>2. i + 1 \in T
    <2>1. i + 1 \in i + 1 .. Len(p) /\ i \in 1 .. Len(p) - 1
        BY <1>1
    <2> QED
        BY <2>1
  <1>3. ASSUME NEW k \in i + 1 .. Len(p) - 1, k \in T
        PROVE  k + 1 \in T
    <2>1. k + 1 \in i + 1 .. Len(p) /\ k \in 1 .. Len(p) - 1 /\ k \in 1 .. Len(p) /\ k + 1 \in 1 .. Len(p)
        BY <1>1
    <2>2. p[k][1] < p[k + 1][1] /\ p[k][2] > p[k + 1][2] /\ p[i][1] < p[k][1] /\ p[i][2] > p[k][2]
        BY <1>3, <2>1
    <2>3. /\ p[i][1] \in Int /\ p[i][2] \in Int /\ p[k][1] \in Int /\ p[k][2] \in Int
          /\ p[k + 1][1] \in Int /\ p[k + 1][2] \in Int
        BY <1>1, <2>1
    <2>4. p[i][1] < p[k + 1][1] /\ p[i][2] > p[k + 1][2]
        BY <2>2, <2>3
    <2> QED
        BY <2>1, <2>4
  <1>4. \A k \in i + 1 .. Len(p) : k \in T
    <2>1. i + 1 \in Nat
        BY <1>1
    <2> HIDE DEF T
    <2> QED
        BY <1>1, <1>2, <1>3, <2>1, StepByStep
  <1>5. j \in T
    <2>1. j \in i + 1 .. Len(p)
        BY <1>1
    <2> QED
        BY <1>4, <2>1
  <1> QED
      BY <1>5

\* A trend that falls in the latest half does not still hold.
LEMMA FallenTrend ==
    ASSUME NEW p \in Seq(Points), Len(p) >= 2,
           NEW fit, fit.num \in Int, fit.den \in Int, fit.num > 0, fit.den >= 0,
           LET count == (Len(p) + 1) \div 2
               half == IF count < 2 THEN 2 ELSE count
           IN  \A k \in Len(p) - half + 1 .. Len(p) - 1 : p[k][1] < p[k + 1][1] /\ p[k][2] > p[k + 1][2]
    PROVE  ~TrendStillHolds(p, fit)
  <1> DEFINE count == (Len(p) + 1) \div 2
             half == IF count < 2 THEN 2 ELSE count
             recent == SubSeq(p, Len(p) - half + 1, Len(p))
  <1>1. \A k \in Len(p) - half + 1 .. Len(p) - 1 : p[k][1] < p[k + 1][1] /\ p[k][2] > p[k + 1][2]
      OBVIOUS
  <1>2. Len(p) \in Nat /\ half \in Nat /\ 2 <= half /\ half <= Len(p) /\ DOMAIN p = 1 .. Len(p)
      OBVIOUS
  <1>3. TrendStillHolds(p, fit) =>
            \/ fit.num <= 0
            \/ ~Fits(OlsFit(recent))
            \/ AtLeastHalf(TrimmedFit(recent), fit)
      BY Zenon DEF TrendStillHolds
  <1> HIDE DEF half
  <1>4. recent \in Seq(Points) /\ Len(recent) = half
      BY <1>2
  <1>5. \A k \in 1 .. half : recent[k] = p[Len(p) - half + k]
      BY <1>2
  <1> HIDE DEF recent
  <1>6. Falling(recent)
    <2>1. ASSUME NEW k \in 1 .. Len(recent) - 1
          PROVE  recent[k][1] < recent[k + 1][1] /\ recent[k][2] > recent[k + 1][2]
      <3>1. PICK m : m = Len(p) - half + k
          OBVIOUS
      <3>2. m \in Len(p) - half + 1 .. Len(p) - 1 /\ m + 1 = Len(p) - half + (k + 1) /\ k \in 1 .. half /\ k + 1 \in 1 .. half
          BY <1>2, <1>4, <3>1
      <3>3. recent[k] = p[m] /\ recent[k + 1] = p[m + 1]
          BY <1>5, <3>1, <3>2
      <3>4. p[m][1] < p[m + 1][1] /\ p[m][2] > p[m + 1][2]
          BY <1>1, <3>2
      <3> QED
          BY <3>3, <3>4
    <2> QED
        BY <1>4, <2>1, FallingStepByStep
  <1>7. OlsFit(recent).den > 0
      BY <1>2, <1>4, <1>6, SlopesOfFits
  <1>8. PICK latest : latest = TrimmedFit(recent)
      OBVIOUS
  <1>9. latest.num \in Int /\ latest.den \in Int /\ latest.den > 0 /\ latest.num < 0
      BY <1>2, <1>4, <1>6, <1>8, SlopesOfTrimmedFits
  <1>10. ~AtLeastHalf(latest, fit)
    <2>1. \A x, y \in Int : x < 0 /\ y >= 0 => x * y <= 0
        BY SMTT(30)
    <2>2. \A x, y \in Int : x > 0 /\ y > 0 => x * y > 0
        BY SMTT(30)
    <2>3. 2 * latest.num \in Int /\ 2 * latest.num < 0
        BY <1>9
    <2>4. 2 * latest.num * fit.den <= 0 /\ fit.num * latest.den > 0
        BY <1>9, <2>1, <2>2, <2>3, Zenon
    <2>5. \A x, y \in Int : x * y \in Int
        OBVIOUS
    <2>6. 2 * latest.num * fit.den \in Int /\ fit.num * latest.den \in Int
        BY <1>9, <2>3, <2>5, Zenon
    <2>7. \A x, y \in Int : x <= 0 /\ y > 0 => ~(x >= y)
        OBVIOUS
    <2>8. ~(2 * latest.num * fit.den >= fit.num * latest.den)
        BY <2>4, <2>6, <2>7, Zenon
    <2> QED
        BY <2>8, Zenon DEF AtLeastHalf
  <1> QED
      BY <1>3, <1>7, <1>8, <1>10 DEF Fits

-----------------------------------------------------------------------------
(* Detection: the observations that count, in the order of their times.    *)

Observations == Nat \X (Int \cup {NotFinite})
Numbers == Nat \X Int

IsKept(f, s) ==
    f = [n \in 0 .. Len(s) |->
            IF n = 0 THEN <<>>
            ELSE IF s[n][2] = NotFinite THEN f[n - 1] ELSE Append(f[n - 1], s[n])]
KeptChosen(s) == CHOOSE f : IsKept(f, s)

LEMMA KeptIsChosen ==
    ASSUME NEW s
    PROVE  Usable(s) = KeptChosen(s)[Len(s)]
  BY DEF Usable, KeptChosen, IsKept

\* What is left of a series is numbers.
LEMMA UsableAreNumbers ==
    ASSUME NEW s \in Seq(Observations)
    PROVE  Usable(s) \in Seq(Numbers)
  <1> DEFINE N == Len(s)
             D == Seq(Numbers)
             first == <<>>
             step == [k \in 1 .. N |-> [q \in D |-> IF s[k][2] = NotFinite THEN q ELSE Append(q, s[k])]]
  <1>1. N \in Nat /\ first \in D /\ \A k \in 1 .. N : s[k] \in Observations
      OBVIOUS
  <1>2. \A k \in 1 .. N : s[k][2] # NotFinite => s[k] \in Numbers
      BY <1>1 DEF Observations, Numbers
  <1>3. \A q \in D : \A x \in Numbers : Append(q, x) \in D
      OBVIOUS
  <1> HIDE DEF D
  <1>4. step \in [1 .. N -> [D -> D]]
      BY <1>2, <1>3
  <1>5. \A k \in 1 .. N : \A q \in D :
            step[k][q] = IF s[k][2] = NotFinite THEN q ELSE Append(q, s[k])
      OBVIOUS
  <1> HIDE DEF step
  <1>6. PICK f : Course(f, N, D, first, step)
    <2> HIDE DEF N, first
    <2> QED
        BY <1>1, <1>4, StepsCanBeTaken
  <1>7. f \in [0 .. N -> D] /\ f[0] = <<>> /\ \A k \in 1 .. N : f[k] = step[k][f[k - 1]]
      BY <1>6 DEF Course
  <1>8. \A k \in 1 .. N : f[k] = IF s[k][2] = NotFinite THEN f[k - 1] ELSE Append(f[k - 1], s[k])
    <2> TAKE k \in 1 .. N
    <2>1. k - 1 \in 0 .. N
        BY <1>1
    <2>2. f[k - 1] \in D /\ f[k] = step[k][f[k - 1]]
        BY <1>7, <2>1
    <2> QED
        BY <1>5, <2>2
  <1>9. IsKept(f, s)
    <2> DEFINE Next(k) == IF k = 0 THEN <<>>
                          ELSE IF s[k][2] = NotFinite THEN f[k - 1] ELSE Append(f[k - 1], s[k])
    <2>1. \A k \in 1 .. N : Next(k) = IF s[k][2] = NotFinite THEN f[k - 1] ELSE Append(f[k - 1], s[k])
        OBVIOUS
    <2>2. f[0] = Next(0) /\ \A k \in 1 .. N : f[k] = Next(k)
        BY <1>7, <1>8, <2>1
    <2>3. f = [k \in 0 .. N |-> Next(k)]
      <3> HIDE DEF Next
      <3> QED
          BY <1>1, <1>7, <2>2
    <2> QED
        BY <2>3 DEF IsKept
  <1>10. IsKept(KeptChosen(s), s)
      BY <1>9, Zenon DEF KeptChosen
  <1> DEFINE g == KeptChosen(s)
             T == {k \in 0 .. N : g[k] \in D}
  <1>11. \A k \in 0 .. N : k \in T
    <2> HIDE DEF g
    <2> DEFINE Next(k) == IF k = 0 THEN <<>>
                          ELSE IF s[k][2] = NotFinite THEN g[k - 1] ELSE Append(g[k - 1], s[k])
    <2>0. g = [k \in 0 .. N |-> Next(k)]
        BY <1>10 DEF g, IsKept
    <2>1. /\ g[0] = <<>>
          /\ \A k \in 1 .. N : g[k] = IF s[k][2] = NotFinite THEN g[k - 1] ELSE Append(g[k - 1], s[k])
      <3>1. g[0] = Next(0)
        <4> HIDE DEF Next
        <4> QED
            BY <1>1, <2>0
      <3>2. \A k \in 1 .. N : g[k] = Next(k) /\ k # 0
        <4> HIDE DEF Next
        <4> QED
            BY <1>1, <2>0
      <3> QED
          BY <3>1, <3>2
    <2>2. 0 \in T
        BY <1>1, <2>1
    <2>3. \A k \in 0 .. N - 1 : k \in T => k + 1 \in T
      <3> TAKE k \in 0 .. N - 1
      <3>1. k + 1 \in 1 .. N /\ k + 1 \in 0 .. N /\ (k + 1) - 1 = k
          BY <1>1
      <3>2. g[k + 1] = IF s[k + 1][2] = NotFinite THEN g[k] ELSE Append(g[k], s[k + 1])
          BY <2>1, <3>1, Zenon
      <3> QED
          BY <1>2, <1>3, <3>1, <3>2
    <2> HIDE DEF T
    <2> QED
        BY <1>1, <2>2, <2>3, StepByStep
  <1>12. g[N] \in D
      BY <1>1, <1>11
  <1> QED
      BY <1>12, KeptIsChosen DEF D

LEMMA ObservationsAreRearranged ==
    ASSUME NEW N \in Nat, NEW s \in [1 .. N -> Numbers]
    PROVE  Sorted(s, Earlier) \in [1 .. N -> Numbers]
  <1> DEFINE S == 1 .. N
             AheadOf(n) == {m \in DOMAIN s :
                 Earlier(s[m], s[n]) /\ (Earlier(s[n], s[m]) => m < n)}
             ahead == [n \in S |-> AheadOf(n)]
             place == [n \in DOMAIN s |-> Cardinality(AheadOf(n)) + 1]
  <1>1. DOMAIN s = S /\ \A n \in S : s[n] \in Numbers
      OBVIOUS
  <1>2. \A m, n \in S : Earlier(s[m], s[n]) \/ Earlier(s[n], s[m])
    <2>1. \A x, y \in Numbers : Earlier(x, y) \/ Earlier(y, x)
        BY DEF Earlier, Numbers
    <2> QED
        BY <1>1, <2>1
  <1>3. \A m, n, k \in S : Earlier(s[m], s[n]) /\ Earlier(s[n], s[k]) => Earlier(s[m], s[k])
    <2>1. \A x, y, z \in Numbers : Earlier(x, y) /\ Earlier(y, z) => Earlier(x, z)
        BY DEF Earlier, Numbers
    <2> QED
        BY <1>1, <2>1
  <1>4. ahead \in [S -> SUBSET S]
      BY <1>1
  <1>5. \A n \in S : n \notin ahead[n]
      OBVIOUS
  <1>6. \A m, n \in S : m # n => m \in ahead[n] \/ n \in ahead[m]
      BY <1>1, <1>2
  <1>7. \A n \in S : \A m \in ahead[n] : ahead[m] \subseteq ahead[n]
    <2> SUFFICES ASSUME NEW n \in S, NEW m \in ahead[n], NEW k \in ahead[m]
                 PROVE  k \in ahead[n]
        OBVIOUS
    <2>1. /\ m \in S /\ k \in S
          /\ Earlier(s[m], s[n]) /\ (Earlier(s[n], s[m]) => m < n)
          /\ Earlier(s[k], s[m]) /\ (Earlier(s[m], s[k]) => k < m)
        BY <1>1
    <2>2. Earlier(s[k], s[n])
        BY <1>3, <2>1
    <2>3. Earlier(s[n], s[k]) => k < n
        BY <1>3, <2>1
    <2> QED
        BY <1>1, <2>1, <2>2, <2>3
  <1>8. \A k \in S : \E n \in S : Cardinality(ahead[n]) + 1 = k
    <2> HIDE DEF ahead
    <2> QED
        BY <1>4, <1>5, <1>6, <1>7, EveryPlaceIsTaken
  <1>9. \A k \in S : \E n \in DOMAIN s : place[n] = k
      BY <1>1, <1>8
  <1>10. Sorted(s, Earlier) = [k \in DOMAIN s |-> s[CHOOSE n \in DOMAIN s : place[n] = k]]
    <2>1. 1 .. Cardinality(DOMAIN s) = DOMAIN s
        BY <1>1, FS_Interval
    <2> QED
        BY <2>1 DEF Sorted, SortedOf
  <1> HIDE DEF place
  <1>11. \A k \in S : (CHOOSE n \in DOMAIN s : place[n] = k) \in DOMAIN s
      BY <1>9
  <1> QED
      BY <1>1, <1>10, <1>11

\* The latest half of a series only falls.
LatestFalls(s) ==
    LET kept == Sorted(Usable(s), Earlier)
        n == Len(kept)
        half == IF (n + 1) \div 2 < 2 THEN 2 ELSE (n + 1) \div 2
    IN  /\ n >= MinObservations
        /\ \A k \in n - half + 1 .. n - 1 :
              kept[k][1] < kept[k + 1][1] /\ kept[k][2] > kept[k + 1][2]

Grows(s) == FitGrowth(s).fault = "none" /\ ~(FitGrowth(s).fit.num <= 0)

LEMMA FallingIsNoGrowth ==
    ASSUME NEW s \in Seq(Observations), LatestFalls(s)
    PROVE  ~Grows(s)
  <1> DEFINE kept == Sorted(Usable(s), Earlier)
             N == Len(Usable(s))
             from == kept[1][1]
             p == [k \in DOMAIN kept |-> <<kept[k][1] - from, kept[k][2]>>]
             fit == TrimmedFit(p)
             count == (Len(p) + 1) \div 2
             half == IF count < 2 THEN 2 ELSE count
  <1>1. N \in Nat /\ kept \in [1 .. N -> Numbers]
    <2>1. N \in Nat /\ Usable(s) \in [1 .. N -> Numbers]
        BY UsableAreNumbers
    <2> QED
        BY <2>1, ObservationsAreRearranged
  <1>2. /\ Len(kept) >= 3
        /\ LET n == Len(kept)
               h == IF (n + 1) \div 2 < 2 THEN 2 ELSE (n + 1) \div 2
           IN  \A k \in n - h + 1 .. n - 1 : kept[k][1] < kept[k + 1][1] /\ kept[k][2] > kept[k + 1][2]
      BY DEF LatestFalls, MinObservations
  <1>3. Grows(s) => TrendStillHolds(p, fit) /\ ~(fit.num <= 0)
      BY DEF Grows, FitGrowth
  <1> HIDE DEF kept, N
  <1>4. Len(kept) = N /\ DOMAIN kept = 1 .. N
      BY <1>1
  <1>5. \A k \in 1 .. N : kept[k][1] \in Nat /\ kept[k][2] \in Int
    <2>1. \A k \in 1 .. N : kept[k] \in Numbers
        BY <1>1
    <2> QED
        BY <2>1 DEF Numbers
  <1>6. N >= 3 /\ from \in Nat
      BY <1>1, <1>2, <1>4, <1>5
  <1> HIDE DEF from
  <1>7. \A k \in 1 .. N : /\ p[k] \in Points
                          /\ p[k][1] = kept[k][1] - from /\ p[k][2] = kept[k][2]
      BY <1>4, <1>5, <1>6 DEF Points
  <1>8. DOMAIN p = 1 .. N
      BY <1>4
  <1>9. p \in Seq(Points) /\ Len(p) = N
    <2>1. p \in [1 .. N -> Points]
        BY <1>4, <1>7
    <2> HIDE DEF p
    <2> QED
        BY <1>1, <2>1
  <1> HIDE DEF p
  <1>10. half \in Nat /\ half <= N
      BY <1>6, <1>9, <1>1
  <1>11. \A k \in N - half + 1 .. N - 1 : kept[k][1] < kept[k + 1][1] /\ kept[k][2] > kept[k + 1][2]
      BY <1>2, <1>4, <1>9
  <1>12. \A k \in Len(p) - half + 1 .. Len(p) - 1 : p[k][1] < p[k + 1][1] /\ p[k][2] > p[k + 1][2]
    <2> HIDE DEF half
    <2> TAKE k \in Len(p) - half + 1 .. Len(p) - 1
    <2>1. k \in 1 .. N /\ k + 1 \in 1 .. N /\ k \in N - half + 1 .. N - 1
        BY <1>1, <1>9, <1>10
    <2>2. kept[k][1] < kept[k + 1][1] /\ kept[k][2] > kept[k + 1][2]
        BY <1>11, <2>1
    <2>3. p[k][1] = kept[k][1] - from /\ p[k + 1][1] = kept[k + 1][1] - from
          /\ p[k][2] = kept[k][2] /\ p[k + 1][2] = kept[k + 1][2]
        BY <1>7, <2>1
    <2>4. kept[k][1] \in Nat /\ kept[k + 1][1] \in Nat
        BY <1>5, <2>1
    <2> QED
        BY <1>6, <2>2, <2>3, <2>4
  <1>13. fit.num \in Int /\ fit.den \in Int /\ fit.den >= 0
      BY <1>6, <1>9, <1>1, SlopesOfTrimmedFits
  <1> SUFFICES ASSUME fit.num > 0 PROVE ~TrendStillHolds(p, fit)
      BY <1>3, <1>13
  <1> HIDE DEF fit
  <1>14. Len(p) >= 2
      BY <1>6, <1>9, <1>1
  <1> QED
      BY <1>9, <1>12, <1>13, <1>14, FallenTrend, Zenon

-----------------------------------------------------------------------------
(* Detection: what is forecast.                                            *)

SeriesHolds ==
    /\ series \in Seq(Observations)
    /\ outlook = "forecast" => Grows(series)

LEMMA ObservationsKeep ==
    ASSUME SeriesHolds, AddObservation
    PROVE  SeriesHolds'
  <1>1. PICK t \in Instants, value \in Measured \cup {NotFinite} : series' = Append(series, <<t, value>>)
      BY DEF AddObservation
  <1>2. <<t, value>> \in Observations
      BY DetectionAssumption DEF Observations
  <1>3. series' \in Seq(Observations)
      BY <1>1, <1>2 DEF SeriesHolds
  <1>4. PICK used \in Measured, bound \in Measured : outlook' = Forecast(series', used, bound)
      BY DEF AddObservation
  <1>5. outlook' = "forecast" => Grows(series')
    <2> DEFINE g == FitGrowth(series')
    <2>1. outlook' = IF g.fault # "none" THEN g.fault
                     ELSE IF bound <= used \/ g.fit.num <= 0 THEN "not_trending"
                     ELSE "forecast"
        BY <1>4 DEF Forecast
    <2>2. g.fault \in {"too_few", "too_short", "no_trend", "none"}
        BY DEF FitGrowth
    <2> HIDE DEF g
    <2>3. outlook' = "forecast" => g.fault = "none" /\ ~(g.fit.num <= 0)
        BY <2>1, <2>2
    <2> QED
        BY <2>3 DEF g, Grows
  <1> QED
      BY <1>3, <1>5 DEF SeriesHolds

\* A threshold is never forecast from a series whose latest half only falls,
\* however steeply it rose before: estimate_growth and
\* forecast_time_to_threshold, for every series and every length of it.
THEOREM FallingTrendIsNoForecast == SurroundingsSpec => []StaleTrendIsNoForecast
  <1>1. SurroundingsInit => SeriesHolds
      BY DetectionAssumption DEF SurroundingsInit, DetectionInit, SeriesHolds, Observations
  <1>2. SeriesHolds /\ [SurroundingsNext]_surroundingsVars => SeriesHolds'
    <2> SUFFICES ASSUME SeriesHolds, [SurroundingsNext]_surroundingsVars PROVE SeriesHolds'
        OBVIOUS
    <2>1. AddObservation \/ UNCHANGED <<series, outlook>>
        BY DEF SurroundingsNext, surroundingsVars, detectionVars, BaselineWork, ForecastWork,
               ObserveAndAssess, LookAtLayout
    <2>2. CASE UNCHANGED <<series, outlook>>
        BY <2>2 DEF SeriesHolds
    <2> QED
        BY <2>1, <2>2, ObservationsKeep
  <1>3. SeriesHolds => StaleTrendIsNoForecast
    <2>1. SeriesHolds /\ LatestFalls(series) => outlook # "forecast"
        BY FallingIsNoGrowth DEF SeriesHolds
    <2> QED
        BY <2>1 DEF LatestFalls, StaleTrendIsNoForecast
  <1> QED
      BY <1>1, <1>2, <1>3, PTL DEF SurroundingsSpec

-----------------------------------------------------------------------------
(* Bridge: a connection to the engine.                                     *)

RequestKinds == {"hello", "status", "plan", "goodbye", "malformed", "too_large"}
Tokens == {"none", "guess", "session"}
RequestRecords == [kind : RequestKinds, days : Nat, token : Tokens]
LinkRecords ==
    [ours : BOOLEAN, requests : Seq(RequestRecords), answers : Seq(Documents),
     welcomed : BOOLEAN, began : Tokens, client : BOOLEAN, server : BOOLEAN]

Views2 == {"status", "plan"}

\* The dashboard begins with the token; who does not is never welcomed, gets no
\* document, and has nothing read after its first frame.
Guarded(link) ==
    /\ link.ours = TRUE => link.began = "session"
    /\ link.began # "session" =>
          /\ link.welcomed = FALSE
          /\ \A k \in DOMAIN link.answers : link.answers[k].kind \notin Views2
          /\ link.requests # <<>> => link.requests[1].token # "session"

\* All that is asked and answered on it is of one query.
OfQuery(link, days) ==
    /\ \A k \in DOMAIN link.requests : link.requests[k].kind \in Views2 => link.requests[k].days = days
    /\ \A k \in DOMAIN link.answers : link.answers[k].kind \in Views2 => link.answers[k].days = days

LEMMA HeadAndTail ==
    ASSUME NEW S, NEW s \in Seq(S), s # <<>>
    PROVE  /\ Head(s) \in S /\ Head(s) = s[1] /\ 1 \in DOMAIN s
           /\ Tail(s) \in Seq(S)
           /\ \A k \in DOMAIN Tail(s) : k + 1 \in DOMAIN s /\ Tail(s)[k] = s[k + 1]
  OBVIOUS

LEMMA Appended ==
    ASSUME NEW S, NEW s \in Seq(S), NEW e \in S
    PROVE  /\ Append(s, e) \in Seq(S)
           /\ \A k \in DOMAIN Append(s, e) :
                 (k \in DOMAIN s /\ Append(s, e)[k] = s[k]) \/ Append(s, e)[k] = e
  OBVIOUS

\* A document answers a request for it, on a connection that was welcomed, and
\* is of the query that was asked; nothing goes on before the token.
AnswersIt(link, request, handled) ==
    /\ handled.answer \in Documents
    /\ handled.answer.kind \in Views2 =>
          /\ link.welcomed = TRUE /\ request.kind = handled.answer.kind
          /\ handled.answer.days = request.days
    /\ handled.answer.kind = "welcome" => request.token = "session"
    /\ handled.goes \in BOOLEAN
    /\ handled.goes = TRUE => link.welcomed = TRUE \/ request.token = "session"

\* Session::handle answers so.
LEMMA HandledRequest ==
    ASSUME NEW link \in LinkRecords, NEW request \in RequestRecords,
           NEW partial \in BOOLEAN, NEW fails \in BOOLEAN
    PROVE  AnswersIt(link, request, Handle(link, request, partial, fails))
  <1> DEFINE handled == Handle(link, request, partial, fails)
             Says(kind) == IF kind \in {"status", "plan"} THEN Document(kind, request.days, partial)
                                                           ELSE Document(kind, 0, FALSE)
  <1>1. /\ request.kind \in RequestKinds /\ request.days \in Nat /\ link.welcomed \in BOOLEAN
        /\ request.token \in Tokens
      BY DEF LinkRecords, RequestRecords
  <1>2. \A kind \in Kinds : /\ Says(kind) \in Documents /\ Says(kind).kind = kind
                            /\ kind \in Views2 => Says(kind).days = request.days
      BY <1>1, 0 \in Nat, FALSE \in BOOLEAN DEF Document, Documents, Views2
  <1>3. \E kind \in Kinds : \E goes \in BOOLEAN :
            /\ handled = [answer |-> Says(kind), goes |-> goes]
            /\ kind \in Views2 => link.welcomed = TRUE /\ request.kind = kind
            /\ kind = "welcome" => request.token = "session"
            /\ goes = TRUE => link.welcomed = TRUE \/ request.token = "session"
    <2> HIDE DEF Says
    <2>1. CASE request.kind \in {"goodbye", "too_large"}
        BY <2>1, FALSE \in BOOLEAN DEF Handle, Kinds, Views2, Says
    <2>2. CASE request.kind \notin {"goodbye", "too_large"} /\ link.welcomed = FALSE
        BY <2>2 DEF Handle, TokenMatches, Kinds, Views2, Says
    <2>3. CASE request.kind \in {"status", "plan"} /\ link.welcomed = TRUE
        BY <2>3 DEF Handle, Kinds, Views2, Says
    <2>4. CASE request.kind \in {"hello", "malformed"} /\ link.welcomed = TRUE
        BY <2>4 DEF Handle, Kinds, Views2, Says
    <2> QED
        BY <1>1, <2>1, <2>2, <2>3, <2>4 DEF RequestKinds
  <1>4. PICK kind \in Kinds, goes \in BOOLEAN :
            /\ handled = [answer |-> Says(kind), goes |-> goes]
            /\ kind \in Views2 => link.welcomed = TRUE /\ request.kind = kind
            /\ kind = "welcome" => request.token = "session"
            /\ goes = TRUE => link.welcomed = TRUE \/ request.token = "session"
      BY <1>3, Zenon
  <1>5. /\ Says(kind) \in Documents /\ Says(kind).kind = kind
        /\ kind \in Views2 => Says(kind).days = request.days
      BY <1>2
  <1> HIDE DEF Says, handled
  <1>6. handled.answer = Says(kind) /\ handled.goes = goes
      BY <1>4
  <1>7. AnswersIt(link, request, handled)
      BY <1>4, <1>5, <1>6 DEF AnswersIt
  <1> QED
      BY <1>7 DEF handled

\* A step that asks nothing on a connection, and answers only what was asked.
Served(link, new) ==
    /\ new \in LinkRecords /\ Guarded(new) /\ new.ours = link.ours
    /\ \A days \in Nat : OfQuery(link, days) => OfQuery(new, days)

LEMMA EndsServe ==
    ASSUME NEW link \in LinkRecords, Guarded(link), NEW b \in BOOLEAN
    PROVE  /\ Served(link, link) /\ Served(link, [link EXCEPT !.client = b])
           /\ Served(link, [link EXCEPT !.server = b])
  <1>1. ASSUME NEW new \in {link, [link EXCEPT !.client = b], [link EXCEPT !.server = b]}
        PROVE  Served(link, new)
    <2>1. /\ new \in LinkRecords /\ new.ours = link.ours /\ new.requests = link.requests
          /\ new.answers = link.answers /\ new.welcomed = link.welcomed /\ new.began = link.began
        BY <1>1 DEF LinkRecords
    <2> QED
        BY <2>1 DEF Served, Guarded, OfQuery
  <1> QED
      BY <1>1

\* One frame: the request is taken, what is answered is one document more, and
\* the rest is read only when the connection goes on.
LEMMA FrameServes ==
    ASSUME NEW link \in LinkRecords, Guarded(link), link.requests # <<>>,
           NEW answer \in Documents, NEW welcomed \in BOOLEAN, NEW goes \in BOOLEAN,
           NEW answers \in {link.answers, Append(link.answers, answer)},
           NEW requests, requests = (IF goes THEN Tail(link.requests) ELSE <<>>),
           answer.kind \in Views2 =>
               /\ link.welcomed = TRUE /\ Head(link.requests).kind = answer.kind
               /\ answer.days = Head(link.requests).days,
           welcomed = TRUE => link.welcomed = TRUE \/ Head(link.requests).token = "session",
           goes = TRUE => link.welcomed = TRUE \/ Head(link.requests).token = "session"
    PROVE  Served(link, [link EXCEPT !.requests = requests, !.answers = answers,
                                     !.welcomed = welcomed, !.server = goes])
  <1> DEFINE new == [link EXCEPT !.requests = requests, !.answers = answers,
                                 !.welcomed = welcomed, !.server = goes]
  <1>1. link.requests \in Seq(RequestRecords) /\ link.answers \in Seq(Documents)
        /\ link.ours \in BOOLEAN /\ link.welcomed \in BOOLEAN /\ link.began \in Tokens
      BY DEF LinkRecords
  <1>2. /\ Head(link.requests) = link.requests[1] /\ 1 \in DOMAIN link.requests
        /\ Tail(link.requests) \in Seq(RequestRecords)
        /\ \A k \in DOMAIN Tail(link.requests) :
              k + 1 \in DOMAIN link.requests /\ Tail(link.requests)[k] = link.requests[k + 1]
    <2> QED
        BY <1>1, HeadAndTail
  <1>3. /\ answers \in Seq(Documents)
        /\ \A k \in DOMAIN answers :
              (k \in DOMAIN link.answers /\ answers[k] = link.answers[k]) \/ answers[k] = answer
    <2>1. CASE answers = link.answers
        BY <1>1, <2>1
    <2>2. CASE answers = Append(link.answers, answer)
        BY <1>1, <2>2, Appended
    <2> QED
        BY <2>1, <2>2
  <1>4. /\ requests \in Seq(RequestRecords)
        /\ \A k \in DOMAIN requests :
              k + 1 \in DOMAIN link.requests /\ requests[k] = link.requests[k + 1]
        /\ goes = FALSE => requests = <<>>
    <2>1. CASE goes = TRUE
        BY <1>2, <2>1
    <2>2. CASE goes = FALSE
        BY <2>2
    <2> QED
        BY <2>1, <2>2
  <1>5. /\ new \in LinkRecords /\ new.requests = requests /\ new.answers = answers
        /\ new.welcomed = welcomed /\ new.ours = link.ours /\ new.began = link.began
      BY <1>3, <1>4 DEF LinkRecords
  <1> HIDE DEF new
  <1>6. Guarded(new)
    <2>1. link.began # "session" => welcomed = FALSE /\ answer.kind \notin Views2 /\ goes = FALSE
        BY <1>1, <1>2 DEF Guarded
    <2>2. link.began # "session" => \A k \in DOMAIN answers : answers[k].kind \notin Views2
        BY <1>3, <2>1 DEF Guarded
    <2> QED
        BY <1>4, <1>5, <2>1, <2>2 DEF Guarded
  <1>7. ASSUME NEW days \in Nat, OfQuery(link, days)
        PROVE  OfQuery(new, days)
    <2>1. answer.kind \in Views2 => answer.days = days
        BY <1>2, <1>7 DEF OfQuery
    <2> QED
        BY <1>3, <1>4, <1>5, <1>7, <2>1 DEF OfQuery
  <1> QED
      BY <1>5, <1>6, <1>7 DEF Served, new

\* The connections: each guarded; and each step but the dashboard's own calls
\* only serves them.
LinksHold == links \in [Links -> LinkRecords] /\ \A n \in Links : Guarded(links[n])
OnlyServed == links' \in [Links -> LinkRecords] /\ \A n \in Links : Served(links[n], links'[n])

LEMMA ServedLinksHold ==
    ASSUME LinksHold, OnlyServed
    PROVE  LinksHold'
  BY DEF LinksHold, OnlyServed, Served

LEMMA UnchangedServe ==
    ASSUME LinksHold, links' = links
    PROVE  OnlyServed
  <1>1. \A n \in Links : Served(links[n], links[n])
      BY EndsServe, TRUE \in BOOLEAN DEF LinksHold
  <1> QED
      BY <1>1 DEF OnlyServed, LinksHold

LEMMA OneServed ==
    ASSUME LinksHold, NEW n \in Links, NEW new, Served(links[n], new),
           links' = [links EXCEPT ![n] = new]
    PROVE  OnlyServed
  <1>1. \A m \in Links : Served(links[m], links[m])
      BY EndsServe, TRUE \in BOOLEAN DEF LinksHold
  <1>2. links' \in [Links -> LinkRecords]
      BY DEF LinksHold, Served
  <1>3. \A m \in Links : links'[m] = IF m = n THEN new ELSE links[m]
      BY DEF LinksHold
  <1> QED
      BY <1>1, <1>2, <1>3 DEF OnlyServed

LEMMA GoneServes ==
    ASSUME LinksHold, EngineGone
    PROVE  OnlyServed
  <1>1. links' = [n \in Links |-> [links[n] EXCEPT !.server = FALSE]]
      BY DEF EngineGone
  <1>2. \A n \in Links : Served(links[n], [links[n] EXCEPT !.server = FALSE])
      BY EndsServe, FALSE \in BOOLEAN DEF LinksHold
  <1> QED
      BY <1>1, <1>2 DEF OnlyServed, Served

LEMMA HangUpServes ==
    ASSUME LinksHold, NEW n \in Links, links' = HangUp(n)
    PROVE  OnlyServed
  <1>1. Served(links[n], [links[n] EXCEPT !.client = FALSE])
      BY EndsServe, FALSE \in BOOLEAN DEF LinksHold
  <1>2. links' = [links EXCEPT ![n] = [links[n] EXCEPT !.client = FALSE]]
      BY DEF HangUp, LinksHold
  <1> QED
      BY <1>1, <1>2, OneServed

LEMMA EngineServesThem ==
    ASSUME LinksHold, serving \in {0} \cup Links, EngineServes
    PROVE  OnlyServed
  <1>1. CASE TakeConnection
      BY <1>1, UnchangedServe DEF TakeConnection
  <1>2. CASE HandleFrame
    <2> DEFINE link == links[serving]
    <2>1. serving \in Links /\ link \in LinkRecords /\ Guarded(link) /\ link.requests # <<>>
        BY <1>2 DEF HandleFrame, LinksHold, Current
    <2>2. PICK partial \in BOOLEAN, fails \in BOOLEAN :
              LET handled == Handle(Current, Head(Current.requests), partial, fails) IN
              links' = [links EXCEPT ![serving].requests = IF handled.goes THEN Tail(@) ELSE <<>>,
                                     ![serving].answers =
                                         IF Current.client THEN Append(@, handled.answer) ELSE @,
                                     ![serving].welcomed = @ \/ handled.answer.kind = "welcome",
                                     ![serving].server = handled.goes]
        BY <1>2, ZenonT(60) DEF HandleFrame
    <2> DEFINE request == Head(link.requests)
               handled == Handle(link, request, partial, fails)
               answers == IF link.client THEN Append(link.answers, handled.answer) ELSE link.answers
               welcomed == link.welcomed \/ handled.answer.kind = "welcome"
               requests == IF handled.goes THEN Tail(link.requests) ELSE <<>>
               new == [link EXCEPT !.requests = requests, !.answers = answers,
                                   !.welcomed = welcomed, !.server = handled.goes]
    <2>3. links' = [links EXCEPT ![serving] = new]
        BY <2>1, <2>2, Zenon DEF Current, LinksHold
    <2>4. request \in RequestRecords /\ link.welcomed \in BOOLEAN
        BY <2>1, HeadAndTail DEF LinkRecords
    <2>5. AnswersIt(link, request, handled)
        BY <2>1, <2>2, <2>4, HandledRequest, Zenon
    <2>6. /\ handled.answer \in Documents
          /\ handled.answer.kind \in Views2 =>
                /\ link.welcomed = TRUE /\ request.kind = handled.answer.kind
                /\ handled.answer.days = request.days
          /\ handled.answer.kind = "welcome" => request.token = "session"
          /\ handled.goes \in BOOLEAN
          /\ handled.goes = TRUE => link.welcomed = TRUE \/ request.token = "session"
      <3> HIDE DEF link, request, handled
      <3> QED
          BY <2>5 DEF AnswersIt
    <2>7. welcomed \in BOOLEAN /\ (welcomed = TRUE => link.welcomed = TRUE \/ handled.answer.kind = "welcome")
        BY <2>4, Zenon
    <2>8. answers \in {link.answers, Append(link.answers, handled.answer)}
        BY Zenon
    <2>9. Served(link, new)
      <3> HIDE DEF link, handled, answers, welcomed, requests
      <3> QED
          BY <2>1, <2>6, <2>7, <2>8, FrameServes DEF requests
    <2> QED
        BY <2>1, <2>3, <2>9, OneServed
  <1>3. CASE DropConnection
    <2>1. serving \in Links /\ links' = [links EXCEPT ![serving].server = FALSE]
        BY <1>3 DEF DropConnection
    <2>2. links' = [links EXCEPT ![serving] = [links[serving] EXCEPT !.server = FALSE]]
        BY <2>1 DEF LinksHold
    <2>3. Served(links[serving], [links[serving] EXCEPT !.server = FALSE])
        BY <2>1, EndsServe, FALSE \in BOOLEAN DEF LinksHold
    <2> QED
        BY <2>1, <2>2, <2>3, OneServed
  <1> QED
      BY <1>1, <1>2, <1>3 DEF EngineServes

-----------------------------------------------------------------------------
(* Bridge: a page of the dashboard.                                        *)

Replies1 == Codes \cup {"none", "waiting", "dropped"}
PageRecords == [ask : [shape : Shapes, days : Nat], reply : Replies1, shown : Seq(Documents),
                partial : BOOLEAN]
Calls1 == {"hello", "status", "plan", "goodbye"}
Busy1  == {"read", "connect", "stalled", "write"} \cup Calls1

\* What a page may show: both documents of its query, and their warning.
TruePage(page) ==
    /\ page.shown[1].kind = "status" /\ page.shown[1].days = page.ask.days
    /\ page.shown[2].kind = "plan" /\ page.shown[2].days = page.ask.days
    /\ page.partial <=> \E k \in {1, 2} : page.shown[k].partial

\* The page that is served waits; none after it was touched; and a page is
\* written only as it may be shown.
PagesHold ==
    /\ pages \in [Pages -> PageRecords] /\ taken \in {0} \cup Pages
    /\ vpc \in {"accept", "observe"} \cup Busy1
    /\ vpc # "accept" => taken \in Pages
    /\ vpc \in Busy1 => Page.reply = "waiting"
    /\ vpc \in {"stalled", "write"} => toWrite \in Codes /\ (toWrite = "200" => TruePage(Page))
    /\ \A n \in Pages : n > taken => pages[n].reply \in {"none", "waiting"}
    /\ \A n \in Pages : pages[n].reply = "200" => TruePage(pages[n])

\* The connection it uses is its own, and of its query; so is what it was told.
QueryHolds ==
    /\ lnk \in {0} \cup Links /\ status \in Documents
    /\ vpc \in Calls1 => /\ lnk \in Links /\ links[lnk].ours = TRUE
                         /\ OfQuery(links[lnk], Page.ask.days)
    /\ vpc \in {"plan", "goodbye"} => status.kind = "status" /\ status.days = Page.ask.days
    /\ vpc = "goodbye" => /\ Len(Page.shown) = 2 /\ Page.shown[1] = status
                          /\ Page.shown[2].kind = "plan"
                          /\ Page.shown[2].days = Page.ask.days

\* Before the browser is told, nothing was asked; the launcher page is written
\* once, and expires with the first page that is shown.
LauncherHolds ==
    /\ mpc \in {"engine", "bind", "private", "create", "write", "sync", "browser"} => ~Shown
    /\ mpc \in {"engine", "bind", "private", "create"} => handed = "none"
    /\ withOpen /\ ~unscrubbed =>
          /\ handed = "url" =>
                /\ mpc # "exited"
                /\ Shown => mpc = "killed" \/ (vpc = "observe" /\ Page.reply = "200")
          /\ handed = "expired" => Shown \/ mpc = "exited"

BridgeHolds ==
    LinksHold /\ PagesHold /\ QueryHolds /\ LauncherHolds /\ serving \in {0} \cup Links

-----------------------------------------------------------------------------
(* Bridge: steps that leave the pages alone.                               *)

LEMMA AsideKeeps ==
    ASSUME LinksHold, PagesHold, QueryHolds, OnlyServed, UNCHANGED viewVars
    PROVE  LinksHold' /\ PagesHold' /\ QueryHolds'
  <1>1. LinksHold'
      BY ServedLinksHold
  <1>2. /\ pages' = pages /\ taken' = taken /\ vpc' = vpc /\ toWrite' = toWrite /\ lnk' = lnk
        /\ status' = status /\ Page' = Page
      BY DEF viewVars, Page
  <1>3. PagesHold'
      BY <1>2 DEF PagesHold, TruePage
  <1>4. ASSUME vpc \in Calls1
        PROVE  lnk \in Links /\ links'[lnk].ours = TRUE /\ OfQuery(links'[lnk], Page.ask.days)
    <2>1. lnk \in Links /\ links[lnk].ours = TRUE /\ OfQuery(links[lnk], Page.ask.days)
        BY <1>4 DEF QueryHolds
    <2>2. Page.ask.days \in Nat
      <3>1. taken \in Pages
          BY <1>4 DEF PagesHold, Calls1
      <3> QED
          BY <3>1 DEF PagesHold, Page, PageRecords
    <2> QED
        BY <2>1, <2>2 DEF OnlyServed, Served
  <1>5. QueryHolds'
      BY <1>2, <1>4 DEF QueryHolds
  <1> QED
      BY <1>1, <1>3, <1>5

LEMMA ExitServes ==
    ASSUME LinksHold, Exit
    PROVE  OnlyServed
  BY GoneServes DEF Exit

LEMMA StartingServes ==
    ASSUME LinksHold, Starting
    PROVE  OnlyServed /\ UNCHANGED viewVars
  <1>1. CASE StartEngine
      BY <1>1, UnchangedServe DEF Starting, StartEngine, engineVars
  <1>2. CASE Prepare
      BY <1>2, UnchangedServe, ExitServes DEF Starting, Prepare, OnTo, engineVars
  <1>3. CASE WriteUrl
      BY <1>3, UnchangedServe, GoneServes DEF Starting, WriteUrl, OnTo, engineVars
  <1>4. CASE OpenInBrowser
      BY <1>4, UnchangedServe DEF Starting, OpenInBrowser, OnTo, engineVars
  <1> QED
      BY <1>1, <1>2, <1>3, <1>4 DEF Starting

\* The steps of the launcher.
LEMMA LeavesShown ==
    ASSUME UNCHANGED viewVars
    PROVE  Shown' = Shown /\ Page' = Page /\ vpc' = vpc
  BY DEF viewVars, Shown, Page

LEMMA ExitHolds ==
    ASSUME LauncherHolds, Exit, UNCHANGED <<withOpen, viewVars>>,
           mpc \in {"bind", "private", "create", "serve"}
    PROVE  LauncherHolds'
  <1>1. Shown' = Shown /\ Page' = Page /\ vpc' = vpc /\ withOpen' = withOpen /\ mpc' = "exited"
      BY LeavesShown DEF Exit
  <1>2. CASE withOpen /\ handed = "url" /\ mpc = "serve"
    <2>1. Scrub("expired")
        BY <1>2 DEF Exit
    <2> QED
        BY <1>1, <2>1 DEF LauncherHolds, Scrub
  <1>3. CASE ~(withOpen /\ handed = "url" /\ mpc = "serve")
    <2>1. handed' = handed /\ unscrubbed' = unscrubbed
        BY <1>3 DEF Exit
    <2> QED
        BY <1>1, <1>3, <2>1 DEF LauncherHolds
  <1> QED
      BY <1>2, <1>3

LEMMA StartingHolds ==
    ASSUME LauncherHolds, Starting
    PROVE  LauncherHolds'
  <1>1. /\ Shown' = Shown /\ Page' = Page /\ vpc' = vpc /\ withOpen' = withOpen
        /\ UNCHANGED <<withOpen, viewVars>>
      BY LeavesShown DEF Starting
  <1>2. CASE StartEngine
      BY <1>1, <1>2 DEF StartEngine, LauncherHolds
  <1>3. CASE Prepare
    <2>1. CASE Exit
        BY <1>1, <1>3, <2>1, ExitHolds DEF Prepare
    <2>2. CASE ~Exit
        BY <1>1, <1>3, <2>2 DEF Prepare, OnTo, LauncherHolds
    <2> QED
        BY <2>1, <2>2
  <1>4. CASE WriteUrl
      BY <1>1, <1>4 DEF WriteUrl, OnTo, Scrub, LauncherHolds
  <1>5. CASE OpenInBrowser
      BY <1>1, <1>5 DEF OpenInBrowser, OnTo, LauncherHolds
  <1> QED
      BY <1>2, <1>3, <1>4, <1>5 DEF Starting

\* The connections the engine serves.
LEMMA ServingTyped ==
    ASSUME LinksHold, serving \in {0} \cup Links, BridgeNext
    PROVE  serving' \in {0} \cup Links
  <1>1. CASE TakeConnection
    <2>1. done1 + 1 \in DOMAIN links /\ serving' = done1 + 1
        BY <1>1 DEF TakeConnection, Made1
    <2> QED
        BY <2>1 DEF LinksHold
  <1>2. CASE Starting \/ Enough \/ AcceptFails
      BY <1>2 DEF Starting, StartEngine, Prepare, WriteUrl, OpenInBrowser, Enough, AcceptFails, Exit, OnTo,
                  EngineGone, engineVars
  <1>3. CASE \/ Accept \/ ReadHead \/ Connect \/ Call \/ Farewell \/ CallFails1 \/ WriteReply
             \/ RemoveLauncher
      BY <1>3 DEF Accept, ReadHead, HeadStep, Connect, Call, Farewell, CallFails1, WriteReply,
                  RemoveLauncher, Unanswered, engineVars
  <1>4. CASE HandleFrame \/ DropConnection
      BY <1>4 DEF HandleFrame, DropConnection, EndConnection
  <1>5. CASE Visit \/ ClientTurns \/ Stranger \/ EngineDies \/ DashboardKilled
      BY <1>5 DEF Visit, ClientTurns, Stranger, EngineDies, EngineGone, DashboardKilled, engineVars
  <1> QED
      BY <1>1, <1>2, <1>3, <1>4, <1>5 DEF BridgeNext, BridgeWorks, Serving, EngineServes

-----------------------------------------------------------------------------
(* Bridge: steps of the page that is served.                               *)

\* A reply is decided on; what the page has is what may be shown, or it is refused.
LEMMA DecidedPage ==
    ASSUME PagesHold, taken \in Pages, Page.reply = "waiting", toWrite' \in Codes,
           toWrite' = "200" => TruePage(Page),
           vpc' \in {"stalled", "write"}, UNCHANGED <<pages, taken>>
    PROVE  PagesHold' /\ Shown' = Shown
  <1>1. Page' = Page /\ Shown' = Shown
      BY DEF Page, Shown
  <1>2. TruePage(Page)' <=> TruePage(Page)
      BY <1>1 DEF TruePage
  <1>3. \A n \in Pages : pages'[n].reply = "200" => TruePage(pages'[n])
      BY DEF PagesHold
  <1>4. toWrite' = "200" => TruePage(Page')
      BY <1>1
  <1> QED
      BY <1>1, <1>3, <1>4 DEF PagesHold, Busy1, Calls1, TruePage

\* A connection is dropped, or a reply is written.
LEMMA RepliedPage ==
    ASSUME PagesHold, taken \in Pages, Page.reply = "waiting",
           NEW code \in Replies1 \ {"none", "waiting"}, Reply(code),
           code = "200" => TruePage(Page),
           taken' = taken, vpc' \in {"accept", "observe"}
    PROVE  /\ PagesHold' /\ Page'.reply = code
           /\ code = "200" => Shown'
           /\ code # "200" => Shown' = Shown
  <1> DEFINE new == [pages[taken] EXCEPT !.reply = code]
  <1>1. pages' = [pages EXCEPT ![taken] = new]
      BY DEF Reply, PagesHold
  <1>2. pages[taken] \in PageRecords
      BY DEF PagesHold
  <1>3. /\ new \in PageRecords /\ new.reply = code /\ new.ask = pages[taken].ask
        /\ new.shown = pages[taken].shown /\ new.partial = pages[taken].partial
      BY <1>2 DEF PageRecords
  <1> HIDE DEF new
  <1>4. pages' \in [Pages -> PageRecords]
      BY <1>1, <1>3 DEF PagesHold
  <1>5. pages'[taken] = new /\ \A n \in Pages : n # taken => pages'[n] = pages[n]
      BY <1>1 DEF PagesHold
  <1>6. pages[taken].reply = "waiting"
      BY DEF Page
  <1>7. code = "200" => TruePage(new)
      BY <1>3 DEF TruePage, Page
  <1>8. \A n \in Pages : pages'[n].reply = "200" => TruePage(pages'[n])
      BY <1>3, <1>5, <1>7 DEF PagesHold
  <1>9. \A n \in Pages : n > taken => pages'[n].reply \in {"none", "waiting"}
      BY <1>5, BridgeAssumption DEF PagesHold, Pages
  <1>10. PagesHold'
      BY <1>4, <1>8, <1>9 DEF PagesHold, Busy1, Calls1
  <1>11. /\ code = "200" => Shown'
         /\ code # "200" => Shown' = Shown
      BY <1>3, <1>5, <1>6 DEF Shown
  <1>12. Page'.reply = code
      BY <1>3, <1>5 DEF Page
  <1> QED
      BY <1>10, <1>11, <1>12

LEMMA AcceptKeeps ==
    ASSUME BridgeHolds, Accept
    PROVE  BridgeHolds'
  <1>1. /\ mpc = "serve" /\ vpc = "accept" /\ taken' = taken + 1 /\ vpc' = "read"
        /\ taken + 1 \in Opened1 /\ pages' = pages /\ links' = links /\ serving' = serving
        /\ UNCHANGED <<mpc, withOpen, handed, unscrubbed, lnk, status>>
      BY DEF Accept, MoreToAccept, ViewStep, KeepsFile, engineVars
  <1>2. taken + 1 \in Pages /\ pages[taken + 1].reply # "none" /\ taken \in Int
      BY <1>1, BridgeAssumption DEF Opened1, BridgeHolds, PagesHold, Pages
  <1>3. pages[taken + 1].reply = "waiting"
      BY <1>2 DEF BridgeHolds, PagesHold
  <1>4. PagesHold'
    <2>1. \A n \in Pages : n > taken + 1 => pages[n].reply \in {"none", "waiting"}
        BY <1>2 DEF BridgeHolds, PagesHold, Pages
    <2> QED
        BY <1>1, <1>2, <1>3, <2>1 DEF BridgeHolds, PagesHold, Page, TruePage, Busy1
  <1>5. QueryHolds'
      BY <1>1 DEF BridgeHolds, QueryHolds, Calls1
  <1>6. LinksHold'
      BY <1>1 DEF BridgeHolds, LinksHold
  <1>7. LauncherHolds'
    <2>1. Shown' = Shown
        BY <1>1 DEF Shown
    <2> QED
        BY <1>1, <2>1 DEF BridgeHolds, LauncherHolds
  <1> QED
      BY <1>1, <1>4, <1>5, <1>6, <1>7 DEF BridgeHolds

\* While the page waits, the launcher page has the URL only if none was shown.
LEMMA WaitingHolds ==
    ASSUME BridgeHolds, vpc \in Busy1, mpc = "serve",
           UNCHANGED <<mpc, withOpen, handed, unscrubbed>>, Shown' = Shown
    PROVE  LauncherHolds'
  <1>1. vpc # "observe"
      BY DEF Busy1, Calls1
  <1> QED
      BY <1>1 DEF BridgeHolds, LauncherHolds

LEMMA ReadHeadKeeps ==
    ASSUME BridgeHolds, ReadHead
    PROVE  BridgeHolds'
  <1>1. /\ vpc = "read" /\ vpc \in Busy1 /\ mpc = "serve" /\ taken' = taken /\ links' = links
        /\ serving' = serving
        /\ UNCHANGED <<mpc, withOpen, handed, unscrubbed, lnk, status>>
        /\ taken \in Pages /\ Page.reply = "waiting" /\ Page.ask.shape \in Shapes
    <2>1. taken \in Pages /\ vpc = "read" /\ vpc \in Busy1
        BY DEF BridgeHolds, PagesHold, ReadHead, HeadStep, Busy1
    <2>2. Page \in PageRecords /\ Page.reply = "waiting"
        BY <2>1 DEF BridgeHolds, PagesHold, Page
    <2>3. mpc' = mpc /\ withOpen' = withOpen
        BY DEF ReadHead, ReadsAHead, TimesOut, Decide, ViewStep
    <2> QED
        BY <2>1, <2>2, <2>3 DEF ReadHead, HeadStep, KeepsFile, engineVars, PageRecords
  <1>2. PagesHold' /\ Shown' = Shown /\ vpc' \notin Calls1
    <2>1. CASE Page.ask.shape = "page"
      <3>1. pages' = pages /\ vpc' = "connect"
          BY <2>1 DEF ReadHead, ReadsAHead, TimesOut, ViewStep
      <3>2. PagesHold'
          BY <1>1, <3>1 DEF BridgeHolds, PagesHold, Page, TruePage, Busy1
      <3> QED
          BY <3>1, <3>2 DEF Shown, Calls1
    <2>2. CASE Page.ask.shape = "silent"
      <3>1. Reply("dropped") /\ vpc' = "accept"
          BY <2>2 DEF ReadHead, ReadsAHead, TimesOut, ViewStep
      <3>2. "dropped" \in Replies1 \ {"none", "waiting"}
          BY DEF Replies1, Codes
      <3> QED
          BY <1>1, <3>1, <3>2, RepliedPage DEF BridgeHolds, Calls1
    <2>3. CASE Page.ask.shape \notin {"page", "silent"}
      <3>1. pages' = pages /\ vpc' = "write" /\ toWrite' \in Codes \ {"200"}
          BY <1>1, <2>3 DEF ReadHead, ReadsAHead, TimesOut, Decide, ViewStep, Refusal, Codes, Shapes
      <3> QED
          BY <1>1, <3>1, DecidedPage DEF BridgeHolds, Calls1
    <2> QED
        BY <2>1, <2>2, <2>3
  <1>3. LauncherHolds'
      BY <1>1, <1>2, WaitingHolds
  <1>4. LinksHold' /\ QueryHolds'
      BY <1>1, <1>2 DEF BridgeHolds, LinksHold, QueryHolds, Calls1
  <1> QED
      BY <1>1, <1>2, <1>3, <1>4 DEF BridgeHolds

\* A new connection, of the dashboard or of somebody else.
LEMMA NewConnection ==
    ASSUME LinksHold, NEW n \in Links, NEW ours \in BOOLEAN,
           NEW requests \in Seq(RequestRecords),
           ours = TRUE => requests # <<>> /\ Head(requests).token = "session",
           links' = [links EXCEPT ![n] = Link(ours, requests)]
    PROVE  /\ LinksHold' /\ links'[n] = Link(ours, requests)
           /\ \A m \in Links : m # n => links'[m] = links[m]
  <1> DEFINE new == Link(ours, requests)
             began == IF requests = <<>> THEN "none" ELSE Head(requests).token
  <1>0. requests # <<>> => Head(requests) = requests[1] /\ Head(requests) \in RequestRecords
      BY HeadAndTail
  <1>1. /\ new \in LinkRecords /\ new.answers = <<>> /\ new.welcomed = FALSE
        /\ new.ours = ours /\ new.requests = requests /\ new.began = began
    <2>1. began \in Tokens
        BY <1>0 DEF Tokens, RequestRecords
    <2> HIDE DEF began
    <2>2. new = [ours |-> ours, requests |-> requests, answers |-> <<>>, welcomed |-> FALSE,
                 began |-> began, client |-> TRUE, server |-> TRUE]
        BY DEF Link, began
    <2> QED
        BY <2>1, <2>2 DEF LinkRecords
  <1>2. Guarded(new)
      BY <1>0, <1>1 DEF Guarded
  <1> HIDE DEF new
  <1>3. links' = [links EXCEPT ![n] = new]
      BY DEF new
  <1>4. LinksHold'
      BY <1>1, <1>2, <1>3 DEF LinksHold
  <1>5. links'[n] = new /\ \A m \in Links : m # n => links'[m] = links[m]
      BY <1>3 DEF LinksHold
  <1> QED
      BY <1>4, <1>5 DEF new

LEMMA NextIsNew ==
    ASSUME LinksHold, NEW n \in NextOf(Made1, Links)
    PROVE  n \in Links /\ links[n] = NoLink /\ links[n].ours = FALSE
  <1>1. n \in Links /\ n \notin Made1
      BY BridgeAssumption DEF NextOf, Links
  <1>2. links[n] = NoLink
      BY <1>1 DEF Made1, LinksHold
  <1>3. NoLink.ours = FALSE
      BY DEF NoLink, Link
  <1> QED
      BY <1>1, <1>2, <1>3

LEMMA ConnectKeeps ==
    ASSUME BridgeHolds, Connect
    PROVE  BridgeHolds'
  <1>1. /\ vpc = "connect" /\ vpc \in Busy1 /\ mpc = "serve" /\ taken' = taken
        /\ UNCHANGED <<mpc, withOpen, handed, unscrubbed, status, serving>>
        /\ taken \in Pages /\ Page.reply = "waiting" /\ Page.ask.days \in Nat
    <2>1. taken \in Pages /\ vpc = "connect" /\ vpc \in Busy1
        BY DEF BridgeHolds, PagesHold, Connect, Busy1
    <2>2. Page \in PageRecords
        BY <2>1 DEF BridgeHolds, PagesHold, Page
    <2> QED
        BY <2>1, <2>2 DEF Connect, Decide, ViewStep, KeepsFile, engineVars, BridgeHolds, PagesHold, PageRecords
  <1>2. /\ LinksHold' /\ PagesHold' /\ QueryHolds' /\ Shown' = Shown
    <2>1. CASE engine \in {"up", "other"}
      <3>1. PICK n \in NextOf(Made1, Links) :
                /\ links' = [links EXCEPT ![n] = Link(TRUE, <<Hello("session")>>)]
                /\ lnk' = n /\ vpc' = "hello" /\ pages' = pages
          BY <2>1 DEF Connect, ViewStep
      <3>2. <<Hello("session")>> \in Seq(RequestRecords) /\ Head(<<Hello("session")>>).token = "session"
        <4>1. Hello("session") \in RequestRecords /\ Hello("session").token = "session"
              /\ Hello("session").kind = "hello"
            BY DEF Hello, RequestRecords, RequestKinds, Tokens
        <4> DEFINE hello == Hello("session")
        <4> HIDE DEF hello
        <4> QED
            BY <4>1 DEF hello
      <3>3. n \in Links /\ LinksHold' /\ links'[n] = Link(TRUE, <<Hello("session")>>)
          BY <3>1, <3>2, NewConnection, NextIsNew, TRUE \in BOOLEAN DEF BridgeHolds
      <3>4. PagesHold' /\ Page' = Page
          BY <1>1, <3>1 DEF BridgeHolds, PagesHold, Page, TruePage, Calls1, Busy1
      <3>5. links'[n].ours = TRUE /\ OfQuery(links'[n], Page.ask.days)
        <4>1. links'[n].ours = TRUE /\ links'[n].requests = <<Hello("session")>> /\ links'[n].answers = <<>>
            BY <3>3 DEF Link
        <4>2. Hello("session").kind \notin Views2
            BY DEF Hello, Views2
        <4> QED
            BY <4>1, <4>2 DEF OfQuery
      <3>6. QueryHolds'
          BY <1>1, <3>1, <3>3, <3>4, <3>5 DEF BridgeHolds, QueryHolds
      <3> QED
          BY <3>1, <3>3, <3>4, <3>6 DEF Shown
    <2>2. CASE engine \notin {"up", "other"}
      <3>1. toWrite' = "502" /\ vpc' = "write" /\ pages' = pages /\ lnk' = lnk /\ links' = links
          BY <2>2 DEF Connect, Decide, ViewStep, engineVars
      <3>2. "502" \in Codes
          BY DEF Codes
      <3>3. PagesHold' /\ Shown' = Shown
          BY <1>1, <3>1, <3>2, DecidedPage DEF BridgeHolds
      <3> QED
          BY <1>1, <3>1, <3>3 DEF BridgeHolds, LinksHold, QueryHolds, Calls1
    <2> QED
        BY <2>1, <2>2
  <1>3. LauncherHolds'
      BY <1>1, <1>2, WaitingHolds
  <1> QED
      BY <1>1, <1>2, <1>3 DEF BridgeHolds

LEMMA CallFailsKeeps ==
    ASSUME BridgeHolds, CallFails1
    PROVE  BridgeHolds'
  <1>1. /\ vpc \in Calls1 /\ vpc \in Busy1 /\ mpc = "serve" /\ UNCHANGED <<pages, taken>>
        /\ vpc' = "write" /\ toWrite' = "502"
        /\ UNCHANGED <<mpc, withOpen, handed, unscrubbed, status, serving, lnk>>
        /\ taken \in Pages /\ Page.reply = "waiting" /\ lnk \in Links
        /\ links' = IF lnk = 0 THEN links ELSE HangUp(lnk)
    <2>1. vpc \in Calls1 /\ vpc \in Busy1
        BY DEF CallFails1, Expected, Calls1, Busy1
    <2> QED
        BY <2>1 DEF CallFails1, Unanswered, Decide, ViewStep, KeepsFile, BridgeHolds, PagesHold, QueryHolds,
                    Calls1
  <1>2. "502" \in Codes
      BY DEF Codes
  <1>3. PagesHold' /\ Shown' = Shown
      BY <1>1, <1>2, DecidedPage DEF BridgeHolds
  <1>4. OnlyServed
      BY <1>1, HangUpServes, UnchangedServe DEF BridgeHolds
  <1>5. LinksHold' /\ QueryHolds'
      BY <1>1, <1>4, ServedLinksHold DEF BridgeHolds, QueryHolds, Calls1
  <1>6. LauncherHolds'
      BY <1>1, <1>3, WaitingHolds
  <1> QED
      BY <1>1, <1>3, <1>5, <1>6 DEF BridgeHolds

\* What was decided is written, or its client had left.
LEMMA WriteReplyKeeps ==
    ASSUME BridgeHolds, WriteReply
    PROVE  BridgeHolds'
  <1>1. /\ vpc = "write" /\ mpc = "serve" /\ taken' = taken /\ links' = links /\ serving' = serving
        /\ UNCHANGED <<mpc, withOpen, handed, unscrubbed, lnk, status>>
        /\ vpc' \in {"accept", "observe"}
      BY DEF WriteReply, ViewStep, KeepsFile, engineVars
  <1>2. /\ taken \in Pages /\ Page.reply = "waiting" /\ toWrite \in Codes
        /\ toWrite = "200" => TruePage(Page)
        /\ vpc # "observe"
      BY <1>1 DEF BridgeHolds, PagesHold, Busy1
  <1>3. PICK code \in {toWrite, "dropped"} : Reply(code) /\ (code # "dropped" => vpc' = "observe")
      BY DEF WriteReply, ViewStep
  <1>4. code \in Replies1 \ {"none", "waiting"} /\ (code = "200" => TruePage(Page))
        /\ (code = "200" => vpc' = "observe")
      BY <1>2, <1>3 DEF Replies1, Codes
  <1>5. /\ PagesHold' /\ Page'.reply = code
        /\ code = "200" => Shown'
        /\ code # "200" => Shown' = Shown
    <2>1. PagesHold
        BY DEF BridgeHolds
    <2> QED
        BY <1>1, <1>2, <1>3, <1>4, <2>1, RepliedPage
  <1>6. LinksHold' /\ QueryHolds'
      BY <1>1 DEF BridgeHolds, LinksHold, QueryHolds, Calls1
  <1>7. LauncherHolds'
    <2>1. CASE code = "200"
        BY <1>1, <1>2, <1>4, <1>5, <2>1 DEF BridgeHolds, LauncherHolds
    <2>2. CASE code # "200"
        BY <1>1, <1>2, <1>5, <2>2 DEF BridgeHolds, LauncherHolds
    <2> QED
        BY <2>1, <2>2
  <1> QED
      BY <1>1, <1>5, <1>6, <1>7 DEF BridgeHolds

LEMMA ClientTurnsKeeps ==
    ASSUME BridgeHolds, ClientTurns
    PROVE  BridgeHolds'
  <1>1. /\ vpc = "stalled" /\ vpc' = "write" /\ mpc = "serve"
        /\ UNCHANGED <<mpc, withOpen, handed, unscrubbed, pages, taken, toWrite, lnk, status, links,
                       serving>>
      BY DEF ClientTurns, mainVars, engineVars
  <1>2. /\ taken \in Pages /\ Page.reply = "waiting" /\ toWrite \in Codes
        /\ toWrite = "200" => TruePage(Page)
        /\ vpc \in Busy1
      BY <1>1 DEF BridgeHolds, PagesHold, Busy1
  <1>3. PagesHold' /\ Shown' = Shown
      BY <1>1, <1>2, DecidedPage DEF BridgeHolds
  <1>4. LinksHold' /\ QueryHolds'
      BY <1>1 DEF BridgeHolds, LinksHold, QueryHolds, Calls1
  <1>5. LauncherHolds'
      BY <1>1, <1>2, <1>3, WaitingHolds
  <1> QED
      BY <1>1, <1>3, <1>4, <1>5 DEF BridgeHolds

LEMMA RemoveLauncherKeeps ==
    ASSUME BridgeHolds, RemoveLauncher
    PROVE  BridgeHolds'
  <1>1. /\ vpc = "observe" /\ mpc = "serve" /\ vpc' = "accept"
        /\ UNCHANGED <<mpc, withOpen, pages, taken, lnk, status, links, serving>>
      BY DEF RemoveLauncher, ViewStep, engineVars
  <1>2. PagesHold' /\ LinksHold' /\ QueryHolds' /\ Shown' = Shown
      BY <1>1 DEF BridgeHolds, PagesHold, LinksHold, QueryHolds, TruePage, Calls1, Busy1, Shown
  <1>3. LauncherHolds'
    <2>1. CASE Page.reply = "200" /\ withOpen
      <3>1. Scrub("expired") /\ taken \in Pages
          BY <1>1, <2>1 DEF RemoveLauncher, BridgeHolds, PagesHold
      <3>2. Shown
          BY <2>1, <3>1 DEF Shown, Page
      <3> QED
          BY <1>1, <1>2, <3>1, <3>2 DEF Scrub, BridgeHolds, LauncherHolds
    <2>2. CASE ~(Page.reply = "200" /\ withOpen)
      <3>1. handed' = handed /\ unscrubbed' = unscrubbed
          BY <2>2 DEF RemoveLauncher, KeepsFile
      <3> QED
          BY <1>1, <1>2, <2>2, <3>1 DEF BridgeHolds, LauncherHolds
    <2> QED
        BY <2>1, <2>2
  <1> QED
      BY <1>1, <1>2, <1>3 DEF BridgeHolds

LEMMA VisitKeeps ==
    ASSUME BridgeHolds, Visit
    PROVE  BridgeHolds'
  <1>1. PICK n \in NextOf(Opened1, Pages), shape \in Asks :
            pages' = [pages EXCEPT ![n].ask = Ask(shape, n), ![n].reply = "waiting"]
      BY DEF Visit
  <1>2. /\ mpc = "serve"
        /\ UNCHANGED <<mpc, withOpen, handed, unscrubbed, taken, vpc, toWrite, lnk, status, links,
                       serving>>
      BY DEF Visit, mainVars, engineVars
  <1>3. n \in Pages /\ n \notin Opened1 /\ n \in Nat
      BY <1>1, BridgeAssumption DEF NextOf, Pages
  <1>4. pages[n].reply = "none" /\ pages[n] \in PageRecords
      BY <1>3 DEF Opened1, BridgeHolds, PagesHold
  <1>5. [pages[n] EXCEPT !.ask = Ask(shape, n), !.reply = "waiting"] \in PageRecords
      BY <1>3, <1>4, BridgeAssumption DEF PageRecords, Ask, Replies1
  <1>6. pages' = [pages EXCEPT ![n] = [pages[n] EXCEPT !.ask = Ask(shape, n), !.reply = "waiting"]]
      BY <1>1, <1>3 DEF BridgeHolds, PagesHold
  <1>7. /\ pages' \in [Pages -> PageRecords]
        /\ \A m \in Pages : m # n => pages'[m] = pages[m]
        /\ pages'[n].reply = "waiting"
    <2>1. [pages[n] EXCEPT !.ask = Ask(shape, n), !.reply = "waiting"].reply = "waiting"
        BY <1>4 DEF PageRecords
    <2> DEFINE new == [pages[n] EXCEPT !.ask = Ask(shape, n), !.reply = "waiting"]
    <2> HIDE DEF new
    <2>2. pages' = [pages EXCEPT ![n] = new] /\ new \in PageRecords /\ new.reply = "waiting"
        BY <1>5, <1>6, <2>1 DEF new
    <2> QED
        BY <1>3, <2>2 DEF BridgeHolds, PagesHold
  <1>8. vpc \in Busy1 => taken # n /\ Page' = Page
    <2> SUFFICES ASSUME vpc \in Busy1 PROVE taken # n /\ Page' = Page
        OBVIOUS
    <2>1. taken \in Pages /\ Page.reply = "waiting"
        BY DEF BridgeHolds, PagesHold, Busy1, Calls1
    <2> QED
        BY <1>2, <1>4, <1>7, <2>1 DEF Page
  <1>9. PagesHold'
    <2>1. \A m \in Pages : m > taken => pages'[m].reply \in {"none", "waiting"}
        BY <1>3, <1>7 DEF BridgeHolds, PagesHold
    <2>2. \A m \in Pages : pages'[m].reply = "200" => TruePage(pages'[m])
        BY <1>3, <1>7 DEF BridgeHolds, PagesHold
    <2>3. vpc' \in Busy1 => Page'.reply = "waiting"
        BY <1>2, <1>8 DEF BridgeHolds, PagesHold
    <2>4. vpc' \in {"stalled", "write"} =>
              toWrite' \in Codes /\ (toWrite' = "200" => TruePage(Page'))
        BY <1>2, <1>8 DEF BridgeHolds, PagesHold, Busy1
    <2>5. vpc' \in {"stalled", "write"} => (toWrite' = "200" => TruePage(Page)')
        BY <2>4 DEF TruePage
    <2> QED
        BY <1>2, <1>7, <2>1, <2>2, <2>3, <2>4, <2>5 DEF BridgeHolds, PagesHold
  <1>10. QueryHolds' /\ LinksHold'
      BY <1>2, <1>8 DEF BridgeHolds, LinksHold, QueryHolds, Busy1, Calls1
  <1>11. Shown' = Shown
      BY <1>3, <1>4, <1>7 DEF Shown
  <1>12. Page.reply = "200" /\ taken \in Pages => Page'.reply = "200"
      BY <1>2, <1>4, <1>7 DEF Page
  <1>13. LauncherHolds'
    <2>1. vpc = "observe" => taken \in Pages
        BY DEF BridgeHolds, PagesHold
    <2> QED
        BY <1>2, <1>11, <1>12, <2>1 DEF BridgeHolds, LauncherHolds
  <1> QED
      BY <1>2, <1>9, <1>10, <1>13 DEF BridgeHolds

LEMMA StrangerKeeps ==
    ASSUME BridgeHolds, Stranger
    PROVE  BridgeHolds'
  <1>1. PICK n \in NextOf(Made1, Links), beginning \in Begins :
            links' = [links EXCEPT ![n] = Link(FALSE, Frames(beginning))]
      BY DEF Stranger
  <1>2. UNCHANGED <<mpc, withOpen, handed, unscrubbed, pages, taken, vpc, toWrite, lnk, status, serving>>
      BY DEF Stranger, mainVars, viewVars
  <1>3. Frames(beginning) \in Seq(RequestRecords)
    <2>1. ASSUME NEW first \in RequestRecords, NEW second \in RequestRecords
          PROVE  <<first, second>> \in Seq(RequestRecords)
        OBVIOUS
    <2>2. Hello("guess") \in RequestRecords /\ Request("plan", 1) \in RequestRecords
        BY DEF Hello, Request, RequestRecords, RequestKinds, Tokens
    <2>3. beginning \in {"malformed", "plan", "too_large"} => Request(beginning, 1) \in RequestRecords
        BY DEF Request, RequestRecords, RequestKinds, Tokens
    <2>4. beginning \in {"nothing", "guess", "malformed", "plan", "too_large"}
        BY BridgeAssumption
    <2>5. CASE beginning = "nothing"
        BY <2>5 DEF Frames
    <2>6. CASE beginning = "guess"
        BY <2>1, <2>2, <2>6 DEF Frames
    <2>7. CASE beginning \in {"malformed", "plan", "too_large"}
        BY <2>1, <2>2, <2>3, <2>7 DEF Frames
    <2> QED
        BY <2>4, <2>5, <2>6, <2>7
  <1>4. n \in Links /\ links[n].ours = FALSE
      BY NextIsNew DEF BridgeHolds
  <1>5. LinksHold' /\ \A m \in Links : m # n => links'[m] = links[m]
      BY <1>1, <1>3, <1>4, NewConnection, FALSE \in BOOLEAN DEF BridgeHolds
  <1>6. vpc \in Calls1 => lnk \in Links /\ links'[lnk] = links[lnk]
      BY <1>4, <1>5 DEF BridgeHolds, QueryHolds
  <1>7. PagesHold' /\ QueryHolds' /\ LauncherHolds'
    <2>1. Page' = Page /\ Shown' = Shown
        BY <1>2 DEF Page, Shown
    <2>2. PagesHold'
        BY <1>2, <2>1 DEF BridgeHolds, PagesHold, TruePage, Busy1
    <2>3. QueryHolds'
        BY <1>2, <1>6, <2>1 DEF BridgeHolds, QueryHolds
    <2>4. LauncherHolds'
        BY <1>2, <2>1 DEF BridgeHolds, LauncherHolds
    <2> QED
        BY <2>2, <2>3, <2>4
  <1> QED
      BY <1>2, <1>5, <1>7 DEF BridgeHolds

\* What the dashboard hears is of its query.
LEMMA HeardIsOfTheQuery ==
    ASSUME BridgeHolds, vpc \in Calls1, Hears
    PROVE  /\ Heard \in Documents /\ Tail(links[lnk].answers) \in Seq(Documents)
           /\ Heard.kind \in Views2 => Heard.days = Page.ask.days
           /\ \A k \in DOMAIN Tail(links[lnk].answers) :
                 Tail(links[lnk].answers)[k].kind \in Views2 =>
                    Tail(links[lnk].answers)[k].days = Page.ask.days
  <1>1. lnk \in Links /\ links[lnk] \in LinkRecords /\ OfQuery(links[lnk], Page.ask.days)
      BY DEF BridgeHolds, QueryHolds, LinksHold
  <1> DEFINE answers == links[lnk].answers
  <1>2. answers \in Seq(Documents) /\ answers # <<>>
      BY <1>1 DEF LinkRecords, Hears
  <1>3. /\ Head(answers) \in Documents /\ Head(answers) = answers[1] /\ 1 \in DOMAIN answers
        /\ Tail(answers) \in Seq(Documents)
        /\ \A k \in DOMAIN Tail(answers) :
              k + 1 \in DOMAIN answers /\ Tail(answers)[k] = answers[k + 1]
    <2> HIDE DEF answers
    <2> QED
        BY <1>2, HeadAndTail
  <1> QED
      BY <1>1, <1>3 DEF Heard, OfQuery

LEMMA CallKeeps ==
    ASSUME BridgeHolds, Call
    PROVE  BridgeHolds'
  <1>1. /\ vpc \in {"hello", "status", "plan"} /\ mpc = "serve" /\ taken' = taken
        /\ vpc' = After[vpc] /\ vpc' \in {"status", "plan", "goodbye"}
        /\ UNCHANGED <<mpc, withOpen, handed, unscrubbed, serving, lnk>>
        /\ Hears /\ Heard.kind = Expected[vpc]
      BY DEF Call, After, ViewStep, KeepsFile
  <1>2. /\ vpc \in Calls1 /\ vpc' \in Calls1 /\ vpc' \in Busy1 /\ taken \in Pages
        /\ Page.reply = "waiting" /\ lnk \in Links /\ Page \in PageRecords
        /\ vpc \in Busy1 /\ vpc' \notin {"stalled", "write"}
      BY <1>1 DEF BridgeHolds, PagesHold, QueryHolds, Calls1, Busy1, Page
  <1>3. Page.ask.days \in Nat
      BY <1>2 DEF PageRecords
  <1> DEFINE link == links[lnk]
             request == Request(After[vpc], Page.ask.days)
             answers == Tail(link.answers)
             requests == Append(link.requests, request)
             new == [link EXCEPT !.answers = answers, !.requests = requests]
  <1>4. /\ link \in LinkRecords /\ Guarded(link) /\ link.ours = TRUE /\ OfQuery(link, Page.ask.days)
        /\ link.requests \in Seq(RequestRecords) /\ link.answers \in Seq(Documents)
      BY <1>2 DEF BridgeHolds, LinksHold, QueryHolds, LinkRecords
  <1>5. request \in RequestRecords /\ request.days = Page.ask.days
      BY <1>1, <1>3 DEF Request, RequestRecords, RequestKinds, Tokens, After
  <1>6. /\ requests \in Seq(RequestRecords)
        /\ \A k \in DOMAIN requests :
              (k \in DOMAIN link.requests /\ requests[k] = link.requests[k]) \/ requests[k] = request
    <2> HIDE DEF request, link
    <2> QED
        BY <1>4, <1>5, Appended
  <1>7. /\ answers \in Seq(Documents)
        /\ \A k \in DOMAIN answers : answers[k].kind \in Views2 => answers[k].days = Page.ask.days
        /\ Heard \in Documents /\ (Heard.kind \in Views2 => Heard.days = Page.ask.days)
      BY <1>1, <1>2, HeardIsOfTheQuery
  <1>8. links' = [links EXCEPT ![lnk] = new]
    <2>1. links' = [links EXCEPT ![lnk].answers = Tail(@), ![lnk].requests = Append(@, request)]
        BY DEF Call
    <2> QED
        BY <1>2, <2>1, Zenon DEF LinksHold, BridgeHolds
  <1> HIDE DEF request, answers, requests
  <1>9. /\ new \in LinkRecords /\ new.ours = TRUE /\ new.answers = answers
        /\ new.requests = requests /\ new.began = link.began /\ new.welcomed = link.welcomed
    <2> HIDE DEF link
    <2> QED
        BY <1>4, <1>6, <1>7 DEF LinkRecords
  <1> HIDE DEF link, new
  <1>10. Guarded(new) /\ OfQuery(new, Page.ask.days)
      BY <1>4, <1>5, <1>6, <1>7, <1>9 DEF Guarded, OfQuery
  <1>11. LinksHold' /\ links'[lnk] = new
      BY <1>2, <1>8, <1>9, <1>10 DEF BridgeHolds, LinksHold
  <1>12. /\ pages' \in [Pages -> PageRecords] /\ Page'.ask = Page.ask /\ Page'.reply = "waiting"
         /\ \A n \in Pages : n # taken => pages'[n] = pages[n]
         /\ vpc # "plan" => Page'.shown = Page.shown
         /\ vpc = "plan" => Page'.shown = <<status, Heard>>
    <2>1. CASE vpc = "plan"
      <3>1. pages' = [pages EXCEPT ![taken].shown = <<status, Heard>>]
          BY <2>1 DEF Call
      <3>2. pages' = [pages EXCEPT ![taken] = [pages[taken] EXCEPT !.shown = <<status, Heard>>]]
          BY <1>2, <3>1 DEF BridgeHolds, PagesHold
      <3>3. <<status, Heard>> \in Seq(Documents)
          BY <1>7 DEF BridgeHolds, QueryHolds
      <3> DEFINE page == [pages[taken] EXCEPT !.shown = <<status, Heard>>]
      <3>4. page \in PageRecords /\ page.ask = Page.ask /\ page.reply = Page.reply
            /\ page.shown = <<status, Heard>>
          BY <1>2, <3>3 DEF PageRecords, Page
      <3> HIDE DEF page
      <3>5. pages' = [pages EXCEPT ![taken] = page]
          BY <3>2 DEF page
      <3> QED
          BY <1>1, <1>2, <2>1, <3>4, <3>5 DEF BridgeHolds, PagesHold, Page
    <2>2. CASE vpc # "plan"
      <3>1. pages' = pages
          BY <2>2 DEF Call
      <3> QED
          BY <1>1, <1>2, <2>2, <3>1 DEF BridgeHolds, PagesHold, Page
    <2> QED
        BY <2>1, <2>2
  <1>13. PagesHold' /\ Shown' = Shown
    <2>1. \A n \in Pages : pages'[n].reply = pages[n].reply
        BY <1>1, <1>2, <1>12 DEF Page
    <2>2. \A n \in Pages : pages'[n].reply = "200" => TruePage(pages'[n])
        BY <1>1, <1>2, <1>12, <2>1 DEF BridgeHolds, PagesHold, Page
    <2>3. PagesHold'
        BY <1>1, <1>2, <1>12, <2>1, <2>2 DEF BridgeHolds, PagesHold
    <2> QED
        BY <2>1, <2>3 DEF Shown
  <1>14. QueryHolds'
    <2>1. /\ vpc = "status" => status' = Heard
          /\ vpc # "status" => status' = status
        BY DEF Call
    <2>2. status' \in Documents
        BY <1>7, <2>1 DEF BridgeHolds, QueryHolds
    <2>3. lnk' \in Links /\ links'[lnk'].ours = TRUE /\ OfQuery(links'[lnk'], Page'.ask.days)
        BY <1>1, <1>2, <1>9, <1>10, <1>11, <1>12
    <2>4. vpc' \in {"plan", "goodbye"} => status'.kind = "status" /\ status'.days = Page'.ask.days
        BY <1>1, <1>7, <1>12, <2>1 DEF BridgeHolds, QueryHolds, After, Expected, Views2
    <2>5. vpc' = "goodbye" => /\ Len(Page'.shown) = 2 /\ Page'.shown[1] = status'
                              /\ Page'.shown[2].kind = "plan"
                              /\ Page'.shown[2].days = Page'.ask.days
      <3> SUFFICES ASSUME vpc' = "goodbye"
                   PROVE  /\ Len(Page'.shown) = 2 /\ Page'.shown[1] = status'
                          /\ Page'.shown[2].kind = "plan"
                          /\ Page'.shown[2].days = Page'.ask.days
          OBVIOUS
      <3>1. vpc = "plan"
          BY <1>1 DEF After
      <3>2. Heard.kind = "plan" /\ Heard.days = Page'.ask.days
          BY <1>1, <1>7, <1>12, <3>1 DEF Expected, Views2
      <3> QED
          BY <1>12, <2>1, <3>1, <3>2
    <2> QED
        BY <1>2, <2>2, <2>3, <2>4, <2>5 DEF QueryHolds
  <1>15. LauncherHolds'
      BY <1>1, <1>2, <1>13, WaitingHolds
  <1> QED
      BY <1>1, <1>11, <1>13, <1>14, <1>15 DEF BridgeHolds

LEMMA FarewellKeeps ==
    ASSUME BridgeHolds, Farewell
    PROVE  BridgeHolds'
  <1>1. /\ vpc = "goodbye" /\ mpc = "serve" /\ taken' = taken /\ vpc' \in {"stalled", "write"}
        /\ UNCHANGED <<mpc, withOpen, handed, unscrubbed, serving, lnk, status>>
        /\ links' = HangUp(lnk)
      BY DEF Farewell, ViewStep, KeepsFile
  <1>2. /\ taken \in Pages /\ Page.reply = "waiting" /\ Page \in PageRecords /\ lnk \in Links
        /\ Len(Page.shown) = 2 /\ Page.shown[1] = status /\ status \in Documents
        /\ status.kind = "status" /\ status.days = Page.ask.days
        /\ Page.shown[2].kind = "plan" /\ Page.shown[2].days = Page.ask.days
        /\ vpc \in Busy1
      BY <1>1 DEF BridgeHolds, PagesHold, QueryHolds, Page, Calls1, Busy1
  <1>3. LinksHold'
      BY <1>1, <1>2, HangUpServes, ServedLinksHold DEF BridgeHolds
  <1>4. toWrite' = "200"
      BY <1>2 DEF SameQuery, Farewell
  <1>5. PICK partial \in BOOLEAN :
            /\ pages' = [pages EXCEPT ![taken] = [Page EXCEPT !.partial = partial]]
            /\ partial <=> \E k \in {1, 2} : Page.shown[k].partial
    <2> DEFINE warns == Page.shown[1].partial \/ Page.shown[2].partial
    <2>1. warns \in BOOLEAN
        BY Zenon
    <2>2. warns <=> \E k \in {1, 2} : Page.shown[k].partial
        BY Zenon
    <2>3. pages' = [pages EXCEPT ![taken].partial = warns]
        BY DEF Farewell
    <2> HIDE DEF warns
    <2>4. pages' = [pages EXCEPT ![taken] = [Page EXCEPT !.partial = warns]]
        BY <1>2, <2>3 DEF BridgeHolds, PagesHold, Page
    <2> QED
        BY <2>1, <2>2, <2>4
  <1> DEFINE page == [Page EXCEPT !.partial = partial]
  <1>6. /\ page \in PageRecords /\ page.reply = "waiting" /\ page.partial = partial
        /\ page.shown = Page.shown /\ page.ask = Page.ask
      BY <1>2 DEF PageRecords
  <1> HIDE DEF page
  <1>7. TruePage(page)
      BY <1>2, <1>5, <1>6 DEF TruePage
  <1>8. /\ pages' \in [Pages -> PageRecords] /\ pages'[taken] = page /\ Page' = page
        /\ \A n \in Pages : n # taken => pages'[n] = pages[n]
      BY <1>1, <1>2, <1>5, <1>6 DEF BridgeHolds, PagesHold, Page, page
  <1>9. PagesHold' /\ Shown' = Shown
    <2>1. \A n \in Pages : pages'[n].reply = pages[n].reply
        BY <1>2, <1>6, <1>8 DEF Page
    <2>2. \A n \in Pages : pages'[n].reply = "200" => TruePage(pages'[n])
        BY <1>6, <1>8 DEF BridgeHolds, PagesHold
    <2>3. \A n \in Pages : n > taken => pages'[n].reply \in {"none", "waiting"}
        BY <2>1 DEF BridgeHolds, PagesHold
    <2>4. toWrite' \in Codes /\ vpc' \in Busy1 /\ TruePage(page)
        BY <1>1, <1>4, <1>7 DEF Codes, Busy1
    <2>5. TruePage(Page)'
        BY <1>7, <1>8 DEF TruePage
    <2>6. PagesHold'
        BY <1>1, <1>2, <1>6, <1>8, <2>2, <2>3, <2>4, <2>5 DEF PagesHold
    <2> QED
        BY <2>1, <2>6 DEF Shown
  <1>10. QueryHolds'
      BY <1>1, <1>2 DEF BridgeHolds, QueryHolds, Calls1
  <1>11. LauncherHolds'
      BY <1>1, <1>2, <1>9, WaitingHolds
  <1> QED
      BY <1>1, <1>3, <1>9, <1>10, <1>11 DEF BridgeHolds

-----------------------------------------------------------------------------
(* Bridge: the invariant.                                                  *)

LEMMA BridgeInitially == BridgeInit => BridgeHolds
  <1> SUFFICES ASSUME BridgeInit PROVE BridgeHolds
      OBVIOUS
  <1>1. NoPage \in PageRecords /\ NoPage.reply = "none"
      BY DEF NoPage, PageRecords, Ask, Shapes, Replies1, Codes
  <1>2. NoLink \in LinkRecords /\ Guarded(NoLink)
    <2> DEFINE blank == Link(FALSE, <<>>)
    <2>1. blank \in LinkRecords /\ blank.answers = <<>> /\ blank.requests = <<>>
          /\ blank.welcomed = FALSE /\ blank.ours = FALSE
        BY DEF Link, LinkRecords, Tokens
    <2> HIDE DEF blank
    <2>2. NoLink = [blank EXCEPT !.client = FALSE, !.server = FALSE]
        BY DEF NoLink, blank
    <2>3. NoLink \in LinkRecords /\ NoLink.answers = <<>> /\ NoLink.requests = <<>>
          /\ NoLink.welcomed = FALSE /\ NoLink.ours = FALSE
        BY <2>1, <2>2 DEF LinkRecords
    <2> QED
        BY <2>3 DEF Guarded
  <1>3. LinksHold
      BY <1>2 DEF BridgeInit, LinksHold
  <1>4. PagesHold /\ ~Shown
      BY <1>1 DEF BridgeInit, PagesHold, Shown, Calls1, Busy1
  <1>5. QueryHolds
      BY DEF BridgeInit, QueryHolds, Calls1, NoDocument, Document, Documents, Kinds
  <1>6. LauncherHolds
      BY <1>4 DEF BridgeInit, LauncherHolds
  <1> QED
      BY <1>3, <1>4, <1>5, <1>6 DEF BridgeInit, BridgeHolds

LEMMA BridgeStep ==
    ASSUME BridgeHolds, [BridgeNext]_bridgeVars
    PROVE  BridgeHolds'
  <1>1. ASSUME BridgeNext PROVE serving' \in {0} \cup Links
      BY <1>1, ServingTyped DEF BridgeHolds
  <1>2. CASE Starting
      BY <1>1, <1>2, StartingServes, AsideKeeps, StartingHolds DEF BridgeHolds, BridgeNext, BridgeWorks
  <1>3. CASE Enough \/ AcceptFails
    <2>1. Exit /\ UNCHANGED viewVars /\ UNCHANGED <<withOpen, viewVars>> /\ mpc = "serve"
        BY <1>3 DEF Enough, AcceptFails, MoreToAccept
    <2> QED
        BY <1>1, <1>3, <2>1, ExitServes, AsideKeeps, ExitHolds
           DEF BridgeHolds, BridgeNext, BridgeWorks, Serving
  <1>4. CASE EngineServes
    <2>1. UNCHANGED mainVars /\ UNCHANGED viewVars /\ OnlyServed
        BY <1>4, EngineServesThem
           DEF EngineServes, TakeConnection, HandleFrame, DropConnection, EngineStep, BridgeHolds
    <2>2. LauncherHolds'
        BY <2>1, LeavesShown DEF BridgeHolds, LauncherHolds, mainVars
    <2> QED
        BY <1>1, <1>4, <2>1, <2>2, AsideKeeps DEF BridgeHolds, BridgeNext
  <1>5. CASE EngineDies \/ DashboardKilled
    <2>1. UNCHANGED viewVars /\ OnlyServed
        BY <1>5, GoneServes, UnchangedServe DEF EngineDies, DashboardKilled, BridgeHolds, engineVars
    <2>2. LauncherHolds'
      <3>1. CASE EngineDies
          BY <2>1, <3>1, LeavesShown DEF EngineDies, BridgeHolds, LauncherHolds, mainVars
      <3>2. CASE DashboardKilled
          BY <2>1, <3>2, LeavesShown DEF DashboardKilled, BridgeHolds, LauncherHolds
      <3> QED
          BY <1>5, <3>1, <3>2
    <2> QED
        BY <1>1, <1>5, <2>1, <2>2, AsideKeeps DEF BridgeHolds, BridgeNext
  <1>6. CASE UNCHANGED bridgeVars
    <2>1. UNCHANGED viewVars /\ UNCHANGED mainVars /\ links' = links /\ serving' = serving
        BY <1>6 DEF bridgeVars, engineVars
    <2>2. OnlyServed
        BY <2>1, UnchangedServe DEF BridgeHolds
    <2>3. LauncherHolds'
        BY <2>1, LeavesShown DEF BridgeHolds, LauncherHolds, mainVars
    <2> QED
        BY <2>1, <2>2, <2>3, AsideKeeps DEF BridgeHolds
  <1> QED
      BY <1>2, <1>3, <1>4, <1>5, <1>6, AcceptKeeps, ReadHeadKeeps, ConnectKeeps, CallKeeps,
         FarewellKeeps, CallFailsKeeps, WriteReplyKeeps, RemoveLauncherKeeps, VisitKeeps,
         ClientTurnsKeeps, StrangerKeeps
         DEF BridgeNext, BridgeWorks, Serving

\* Every use of the program but the desktop leaves the bridge alone.
LEMMA BridgeAlone ==
    ASSUME [SurroundingsNext]_surroundingsVars
    PROVE  [BridgeNext]_bridgeVars
  <1>1. CASE UNCHANGED surroundingsVars
      BY <1>1 DEF surroundingsVars
  <1>2. CASE SurroundingsNext
      BY <1>2, Zenon DEF SurroundingsNext, BridgeWork
  <1> QED
      BY <1>1, <1>2

LEMMA BridgeAlways == SurroundingsSpec => []BridgeHolds
  <1>1. SurroundingsInit => BridgeHolds
      BY BridgeInitially DEF SurroundingsInit
  <1>2. BridgeHolds /\ [SurroundingsNext]_surroundingsVars => BridgeHolds'
      BY BridgeAlone, BridgeStep
  <1> QED
      BY <1>1, <1>2, PTL DEF SurroundingsSpec

\* Whatever is late, dies, is dropped or never reads, a page that is shown has both
\* documents of its own query and warns when a scan was incomplete; and a
\* connection that did not begin with the session's token gets no document, whatever
\* it sends, guesses included (ApiViewSource::view, Session::handle).
THEOREM ShownPagesAreTrue == SurroundingsSpec => []PagesAreTrue
  <1>1. BridgeHolds => PagesAreTrue
    <2> SUFFICES ASSUME BridgeHolds PROVE PagesAreTrue
        OBVIOUS
    <2>1. ASSUME NEW n \in Pages, pages[n].reply = "200"
          PROVE  /\ [k \in {1, 2} |-> <<pages[n].shown[k].kind, pages[n].shown[k].days>>]
                       = <<<<"status", pages[n].ask.days>>, <<"plan", pages[n].ask.days>>>>
                 /\ pages[n].partial <=> \E k \in {1, 2} : pages[n].shown[k].partial
      <3>1. TruePage(pages[n])
          BY <2>1 DEF BridgeHolds, PagesHold
      <3> QED
          BY <3>1 DEF TruePage
    <2>2. \A n \in Links : \A k \in DOMAIN links[n].answers :
              links[n].answers[k].kind \in {"status", "plan"} => links[n].began = "session"
        BY DEF BridgeHolds, LinksHold, Guarded, Views2
    <2> QED
        BY <2>1, <2>2 DEF PagesAreTrue
  <1> QED
      BY <1>1, BridgeAlways, PTL

\* However many requests fail first, the launcher page holds the URL until a
\* page was shown, and no longer, nor when the program ended, by --requests or by
\* an accept that fails; unless emptying it fails or the program is killed
\* (Launcher and its drop, write_private_with).
THEOREM LauncherPageExpires == SurroundingsSpec => []LauncherForgets
  <1>1. BridgeHolds => LauncherForgets
      BY DEF BridgeHolds, LauncherHolds, LauncherForgets
  <1> QED
      BY <1>1, BridgeAlways, PTL
=============================================================================
