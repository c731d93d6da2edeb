-------------------------- MODULE ContainmentProofs --------------------------
(***************************************************************************)
(* Proofs about Containment, for every number of commands, notices, events *)
(* and edits of the trust file, and that it implements ContainmentRegister.*)
(*                                                                         *)
(* The register is a fold over the history.  What one more event adds to   *)
(* it is proved by induction over the rows (RowByRow, with a set in the    *)
(* place of a predicate); the rest is the invariant IInv: whoever holds    *)
(* the lock decided on the history as it still is, so what it commits is   *)
(* what the next replay accepts, and what a recheck saw was so at one      *)
(* instant since it began.                                                 *)
(***************************************************************************)
EXTENDS Containment, SequenceTheorems, WellFoundedInduction, TLAPS

-----------------------------------------------------------------------------
(* Induction over the rows of a history, with sets in the place of         *)
(* predicates.                                                             *)

\* A set of natural numbers that is not empty has a least member.
LEMMA LeastExists ==
    ASSUME NEW S \in SUBSET Nat, S # {}
    PROVE  \E i \in S : \A j \in S : i <= j
  <1>1. PICK i \in S : \A j \in S : <<j, i>> \notin OpToRel(<, Nat)
      BY NatLessThanWellFounded, WFMin
  <1>2. \A j \in S : ~(j < i)
      BY <1>1 DEF OpToRel
  <1> QED
      BY <1>2

\* What holds of no row and is kept by each row holds of all rows.
LEMMA RowByRow ==
    ASSUME NEW length \in Nat, NEW T,
           0 \in T,
           \A n \in 0 .. length - 1 : n \in T => n + 1 \in T
    PROVE  \A n \in 0 .. length : n \in T
  <1> DEFINE Missing == {n \in 0 .. length : n \notin T}
  <1>1. SUFFICES ASSUME Missing # {} PROVE FALSE
      OBVIOUS
  <1>2. Missing \in SUBSET Nat
      OBVIOUS
  <1>3. PICK m \in Missing : \A n \in Missing : m <= n
    <2> HIDE DEF Missing
    <2> QED
        BY <1>1, <1>2, LeastExists
  <1>4. m # 0 /\ m \in 1 .. length
      BY <1>3
  <1>5. m - 1 \in 0 .. length - 1 /\ m - 1 \notin Missing
      BY <1>3, <1>4
  <1>6. m - 1 \in T
      BY <1>5
  <1>7. (m - 1) + 1 \in T
      BY <1>5, <1>6
  <1> QED
      BY <1>3, <1>7

-----------------------------------------------------------------------------
(* Replay is what its definition says.                                     *)

IsReplay(f, rows, policy) ==
    f = [n \in 0 .. Len(rows) |->
            IF n = 0 THEN Empty ELSE ReplayEvent(f[n - 1], rows[n], policy)]

Chosen(rows, policy) == CHOOSE f : IsReplay(f, rows, policy)

LEMMA ReplayIsChosen ==
    ASSUME NEW rows, NEW policy
    PROVE  Replay(rows, policy) = Chosen(rows, policy)[Len(rows)]
  BY DEF Replay, IsReplay, Chosen

LEMMA ReplayExists ==
    ASSUME NEW rows, NEW policy, Len(rows) \in Nat
    PROVE  IsReplay(Chosen(rows, policy), rows, policy)
  <1> DEFINE
        Upto(m, g) == g = [n \in 0 .. m |->
            IF n = 0 THEN Empty ELSE ReplayEvent(g[n - 1], rows[n], policy)]
        T == {m \in Nat : \E g : Upto(m, g)}
  <1>1. 0 \in T
    <2>1. Upto(0, [n \in 0 .. 0 |-> Empty])
        OBVIOUS
    <2> QED
        BY <2>1
  <1>2. ASSUME NEW m \in 0 .. Len(rows) - 1, m \in T
        PROVE  m + 1 \in T
    <2>1. PICK g : Upto(m, g)
        BY <1>2
    <2> DEFINE h == [n \in 0 .. m + 1 |->
               IF n = m + 1 THEN ReplayEvent(g[m], rows[m + 1], policy) ELSE g[n]]
    <2>2. ASSUME NEW n \in 0 .. m + 1
          PROVE  h[n] = IF n = 0 THEN Empty ELSE ReplayEvent(h[n - 1], rows[n], policy)
      <3>1. CASE n = 0
          BY <3>1, <2>1
      <3>2. CASE n \in 1 .. m
        <4>1. h[n] = g[n] /\ h[n - 1] = g[n - 1] /\ n # 0
            BY <3>2
        <4>2. g[n] = ReplayEvent(g[n - 1], rows[n], policy)
            BY <3>2, <2>1
        <4> QED
            BY <4>1, <4>2
      <3>3. CASE n = m + 1
        <4>1. h[n] = ReplayEvent(g[m], rows[n], policy) /\ n # 0 /\ n - 1 = m
            BY <3>3
        <4>2. h[m] = g[m]
            OBVIOUS
        <4> QED
            BY <4>1, <4>2
      <3> QED
          BY <3>1, <3>2, <3>3
    <2>3. h = [n \in 0 .. m + 1 |-> h[n]]
        OBVIOUS
    <2>4. Upto(m + 1, h)
      <3> HIDE DEF h
      <3> QED
          BY <2>2, <2>3
    <2> HIDE DEF h, Upto
    <2> QED
        BY <2>4
  <1>3. Len(rows) \in T
    <2> HIDE DEF T
    <2>1. \A n \in 0 .. Len(rows) : n \in T
        BY <1>1, <1>2, RowByRow
    <2> QED
        BY <2>1
  <1>4. \E g : IsReplay(g, rows, policy)
      BY <1>3 DEF IsReplay
  <1> QED
      BY <1>4, Zenon DEF Chosen

\* Two histories that agree on a prefix have the same ledger after it.
LEMMA SamePrefixSameLedger ==
    ASSUME NEW rows, NEW others, NEW policy, Len(rows) \in Nat, Len(others) \in Nat,
           NEW length \in Nat, length <= Len(rows), length <= Len(others),
           \A n \in 1 .. length : rows[n] = others[n]
    PROVE  Chosen(rows, policy)[length] = Chosen(others, policy)[length]
  <1> DEFINE f == Chosen(rows, policy)
             g == Chosen(others, policy)
             T == {n \in 0 .. length : f[n] = g[n]}
  <1>1. IsReplay(f, rows, policy) /\ IsReplay(g, others, policy)
      BY ReplayExists
  <1> HIDE DEF f, g
  <1>2. 0 \in T
      BY <1>1 DEF IsReplay
  <1>3. ASSUME NEW n \in 0 .. length - 1, n \in T
        PROVE  n + 1 \in T
    <2>1. n + 1 \in 1 .. length /\ n + 1 \in 0 .. Len(rows) /\ n + 1 \in 0 .. Len(others)
        OBVIOUS
    <2>2. f[n + 1] = ReplayEvent(f[n], rows[n + 1], policy)
        BY <1>1, <2>1 DEF IsReplay
    <2>3. g[n + 1] = ReplayEvent(g[n], others[n + 1], policy)
        BY <1>1, <2>1 DEF IsReplay
    <2> QED
        BY <2>1, <2>2, <2>3, <1>3
  <1>4. \A n \in 0 .. length : n \in T
    <2> HIDE DEF T
    <2> QED
        BY <1>2, <1>3, RowByRow
  <1> QED
      BY <1>4 DEF f, g

LEMMA ReplayOfNothing ==
    ASSUME NEW policy
    PROVE  Replay(<< >>, policy) = Empty
  <1>1. IsReplay(Chosen(<< >>, policy), << >>, policy)
      BY ReplayExists
  <1> QED
      BY <1>1, ReplayIsChosen DEF IsReplay

\* One more row is one more step.
LEMMA ReplayOfOneMore ==
    ASSUME NEW E, NEW rows \in Seq(E), NEW event \in E, NEW policy
    PROVE  Replay(Append(rows, event), policy)
             = ReplayEvent(Replay(rows, policy), event, policy)
  <1> DEFINE more == Append(rows, event)
             f == Chosen(more, policy)
  <1>1. /\ Len(rows) \in Nat /\ Len(more) = Len(rows) + 1
        /\ more[Len(rows) + 1] = event
        /\ \A n \in 1 .. Len(rows) : rows[n] = more[n]
      OBVIOUS
  <1> HIDE DEF more
  <1>2. f[Len(rows)] = Chosen(rows, policy)[Len(rows)]
    <2>1. Len(more) \in Nat /\ Len(rows) <= Len(more)
        BY <1>1
    <2> QED
        BY <1>1, <2>1, SamePrefixSameLedger
  <1>3. IsReplay(f, more, policy)
      BY <1>1, ReplayExists
  <1> HIDE DEF f
  <1>4. f[Len(rows) + 1] = ReplayEvent(f[Len(rows)], event, policy)
      BY <1>1, <1>3 DEF IsReplay
  <1> QED
      BY <1>1, <1>2, <1>4, ReplayIsChosen DEF more, f
-----------------------------------------------------------------------------
(* What a replay gives.                                                    *)

Entries == UNION {n.entries : n \in Notices}
Ledgers == [active : SUBSET Entries, seen : [Publishers -> Nat]]

LEMMA EmptyIsALedger == Empty \in Ledgers /\ Empty # Unusable
  BY ContainmentAssumption DEF Empty, Unusable, Ledgers

\* One event takes a ledger to a ledger, or makes it unusable.
LEMMA EventGivesALedger ==
    ASSUME NEW ledger \in Ledgers \cup {Unusable}, NEW event \in Events, NEW policy
    PROVE  /\ ReplayEvent(ledger, event, policy) \in Ledgers \cup {Unusable}
           /\ ledger = Unusable => ReplayEvent(ledger, event, policy) = Unusable
  <1>1. Unusable \notin Ledgers
      BY ContainmentAssumption DEF Unusable, Ledgers
  <1>2. CASE ledger = Unusable
      BY <1>2 DEF ReplayEvent
  <1>3. CASE ledger \in Ledgers /\ event \in Installs
    <2>1. /\ ledger # Unusable /\ event.kind = "install" /\ event.notice \in Notices
          /\ event.kind # "lift"
        BY <1>1, <1>3 DEF Installs
    <2>2. Ingest(ledger, event.notice) \in Ledgers
        BY <1>3, <2>1, ContainmentAssumption DEF Ingest, Ledgers, Entries
    <2> QED
        BY <2>1, <2>2 DEF ReplayEvent
  <1>4. CASE ledger \in Ledgers /\ event \in Lifts
    <2>1. ledger # Unusable /\ event.kind = "lift" /\ event.kind # "install"
        BY <1>1, <1>4 DEF Lifts
    <2>2. LiftLocally(ledger, event.incident) \in Ledgers
        BY <1>4, <2>1 DEF LiftLocally, Ledgers
    <2> QED
        BY <2>1, <2>2 DEF ReplayEvent
  <1> QED
      BY <1>2, <1>3, <1>4 DEF Events

LEMMA ReplayGivesALedger ==
    ASSUME NEW rows \in Seq(Events), NEW policy
    PROVE  Replay(rows, policy) \in Ledgers \cup {Unusable}
  <1> DEFINE f == Chosen(rows, policy)
             T == {n \in 0 .. Len(rows) : f[n] \in Ledgers \cup {Unusable}}
  <1>1. Len(rows) \in Nat /\ \A n \in 1 .. Len(rows) : rows[n] \in Events
      OBVIOUS
  <1>2. IsReplay(f, rows, policy)
      BY <1>1, ReplayExists
  <1> HIDE DEF f
  <1>3. 0 \in T
      BY <1>1, <1>2, EmptyIsALedger DEF IsReplay
  <1>4. ASSUME NEW n \in 0 .. Len(rows) - 1, n \in T
        PROVE  n + 1 \in T
    <2>1. f[n + 1] = ReplayEvent(f[n], rows[n + 1], policy)
        BY <1>1, <1>2 DEF IsReplay
    <2>2. rows[n + 1] \in Events
        BY <1>1
    <2>3. f[n + 1] \in Ledgers \cup {Unusable}
        BY <1>4, <2>1, <2>2, EventGivesALedger
    <2> QED
        BY <1>1, <2>3
  <1>5. \A n \in 0 .. Len(rows) : n \in T
    <2> HIDE DEF T
    <2> QED
        BY <1>1, <1>3, <1>4, RowByRow
  <1> QED
      BY <1>1, <1>5, ReplayIsChosen DEF f

\* A trust policy decides whether the history can be replayed, never what it
\* then contains.
LEMMA PolicyOnlyRefuses ==
    ASSUME NEW rows \in Seq(Events), NEW policy \in SUBSET Publishers,
           Replay(rows, policy) # Unusable
    PROVE  Replay(rows, policy) = Replay(rows, Publishers)
  <1> DEFINE f == Chosen(rows, policy)
             g == Chosen(rows, Publishers)
             T == {n \in 0 .. Len(rows) : f[n] \in {Unusable, g[n]}}
  <1>1. Len(rows) \in Nat /\ \A n \in 1 .. Len(rows) : rows[n] \in Events
      OBVIOUS
  <1>2. IsReplay(f, rows, policy) /\ IsReplay(g, rows, Publishers)
      BY <1>1, ReplayExists
  <1> HIDE DEF f, g
  <1>3. 0 \in T
      BY <1>1, <1>2 DEF IsReplay
  <1>4. ASSUME NEW n \in 0 .. Len(rows) - 1, n \in T
        PROVE  n + 1 \in T
    <2>1. /\ f[n + 1] = ReplayEvent(f[n], rows[n + 1], policy)
          /\ g[n + 1] = ReplayEvent(g[n], rows[n + 1], Publishers)
        BY <1>1, <1>2 DEF IsReplay
    <2>2. rows[n + 1] \in Events
        BY <1>1
    <2>3. CASE f[n] = Unusable
        BY <1>1, <2>1, <2>3 DEF ReplayEvent
    <2>4. CASE f[n] # Unusable /\ f[n] = g[n]
      <3>1. CASE rows[n + 1] \in Installs
        <4>1. /\ rows[n + 1].kind = "install" /\ rows[n + 1].kind # "lift"
              /\ rows[n + 1].notice.publisher \in Publishers
            BY <3>1, ContainmentAssumption DEF Installs
        <4> QED
            BY <1>1, <2>1, <2>4, <4>1 DEF ReplayEvent
      <3>2. CASE rows[n + 1] \in Lifts
        <4>1. rows[n + 1].kind = "lift" /\ rows[n + 1].kind # "install"
            BY <3>2 DEF Lifts
        <4> QED
            BY <1>1, <2>1, <2>4, <4>1 DEF ReplayEvent
      <3> QED
          BY <2>2, <3>1, <3>2 DEF Events
    <2> QED
        BY <1>4, <2>3, <2>4
  <1>5. \A n \in 0 .. Len(rows) : n \in T
    <2> HIDE DEF T
    <2> QED
        BY <1>1, <1>3, <1>4, RowByRow
  <1> QED
      BY <1>1, <1>5, ReplayIsChosen DEF f, g
-----------------------------------------------------------------------------
(* The inductive invariant.                                                *)

InHistory(event) == \E i \in 1 .. Len(events) : events[i] = event

WorkIsHeld == DOMAIN cmd = Commands

\* Between Begin and Commit the transaction is the command's own.
LockIsHeld == \A c \in Commands : pc[c] \in {"decide", "commit"} => lock = c

\* What was decided still holds when it is committed.
DecisionStands ==
    \A c \in Commands :
        pc[c] = "commit" =>
            ReplayEvent(Replay(events, Publishers), cmd[c].event, Publishers) # Unusable

CheckedIsThere ==
    \A c \in Commands :
        /\ pc[c] = "check" => InHistory(cmd[c].event)
        /\ pc[c] # "done" => result[c] = "pending"

\* What a cleaner decided on was the history at some instant of its recheck.
CleanerSaw ==
    \A d \in Cleaners :
        /\ recheck[d].pc = "rows" => recheck[d].since <= Len(events)
        /\ recheck[d].pc = "decided" /\ recheck[d].allowed =>
              /\ recheck[d].at \in recheck[d].since .. Len(events)
              /\ ~Binds(Replay(SubSeq(events, 1, recheck[d].at), Publishers))

IInv == /\ TypeOK /\ WorkIsHeld /\ LockIsHeld /\ DecisionStands /\ HistoryReplays
        /\ CheckedIsThere /\ ReportsAreTrue /\ CleanerSaw

-----------------------------------------------------------------------------
(* Types.                                                                  *)

LEMMA TypesInitially == Init => TypeOK /\ WorkIsHeld
  BY ContainmentAssumption DEF Init, TypeOK, WorkIsHeld, Policies, Steps, Results

LEMMA OwnerTypes ==
    ASSUME TypeOK, WorkIsHeld,
           \/ \E p \in Publishers : EditTrust(p)
           \/ DamageOrRepair
           \/ \E n \in Notices : Expire(n)
    PROVE  TypeOK' /\ WorkIsHeld'
  <1>1. edits' \in 0 .. MaxEdits
      BY ContainmentAssumption DEF TypeOK, EditTrust, DamageOrRepair, Expire, Edit
  <1>2. trusted' \in Policies
    <2>1. CASE UNCHANGED trusted
        BY <2>1 DEF TypeOK
    <2>2. ASSUME NEW p \in Publishers, EditTrust(p)
          PROVE  trusted' \in Policies
        BY <2>2, ContainmentAssumption DEF TypeOK, EditTrust, Policies
    <2> QED
        BY <2>1, <2>2 DEF DamageOrRepair, Expire
  <1>3. readable' \in BOOLEAN /\ expired' \in SUBSET Notices
      BY DEF TypeOK, EditTrust, DamageOrRepair, Expire
  <1>4. UNCHANGED <<ledgerVars, pc, cmd, result, recheck>>
      BY DEF EditTrust, DamageOrRepair, Expire, Edit
  <1> QED
      BY <1>1, <1>2, <1>3, <1>4 DEF TypeOK, WorkIsHeld, ledgerVars

LEMMA CommandTypes ==
    ASSUME TypeOK, WorkIsHeld, NEW c \in Commands, Command(c)
    PROVE  TypeOK' /\ WorkIsHeld'
  <1> USE DEF TypeOK, WorkIsHeld, Report, Goto, ledgerVars, ownerVars, Steps, Results
  <1>1. CASE Start(c)
    <2>1. PICK event \in Events, feed \in BOOLEAN :
              cmd' = [cmd EXCEPT ![c] = [event |-> event, feed |-> feed, policy |-> trusted]]
        BY <1>1 DEF Start
    <2>2. \A x \in Commands : pc'[x] # "idle" =>
              cmd'[x] \in [event : Events, feed : BOOLEAN, policy : Policies]
        BY <1>1, <2>1 DEF Start
    <2>3. pc' \in [Commands -> Steps] /\ result' \in [Commands -> Results]
        BY <1>1 DEF Start
    <2>4. DOMAIN cmd' = Commands
        BY <2>1
    <2>5. UNCHANGED <<events, lock, readable, trusted, expired, edits, recheck>>
        BY <1>1 DEF Start
    <2> QED
        BY <2>2, <2>3, <2>4, <2>5
  <1>2. CASE Begin(c)
      BY <1>2 DEF Begin
  <1>3. CASE Decide(c)
      BY <1>3 DEF Decide
  <1>4. CASE Commit(c)
    <2>1. cmd[c].event \in Events
        BY <1>4 DEF Commit
    <2>2. events' \in Seq(Events)
      <3>1. events' = Append(events, cmd[c].event) \/ events' = events
          BY <1>4 DEF Commit
      <3> HIDE DEF Report, Goto, Steps, Results
      <3> QED
          BY <2>1, <3>1, AppendProperties
    <2>3. pc' \in [Commands -> Steps] /\ result' \in [Commands -> Results]
        BY <1>4 DEF Commit
    <2>4. \A x \in Commands : pc'[x] # "idle" => pc[x] # "idle"
        BY <1>4 DEF Commit
    <2> QED
        BY <1>4, <2>2, <2>3, <2>4 DEF Commit
  <1>5. CASE Check(c)
      BY <1>5 DEF Check
  <1>6. CASE Crash(c)
      BY <1>6 DEF Crash
  <1> QED
      BY <1>1, <1>2, <1>3, <1>4, <1>5, <1>6 DEF Command

LEMMA CleanerTypes ==
    ASSUME TypeOK, WorkIsHeld, NEW d \in Cleaners, Cleaner(d)
    PROVE  TypeOK' /\ WorkIsHeld'
  <1> USE DEF TypeOK, WorkIsHeld, ledgerVars, ownerVars
  <1>1. CASE ReadTrust(d)
      BY <1>1 DEF ReadTrust
  <1>2. CASE ReadRows(d)
    <2>1. PICK allowed \in BOOLEAN :
              recheck' = [recheck EXCEPT ![d].pc = "decided", ![d].at = Len(events),
                                         ![d].allowed = allowed]
        BY <1>2 DEF ReadRows
    <2>2. Len(events) \in Nat
        OBVIOUS
    <2>3. recheck'[d] = [pc |-> "decided", policy |-> recheck[d].policy,
                         since |-> recheck[d].since, at |-> Len(events),
                         allowed |-> allowed]
        BY <2>1
    <2>4. recheck' \in [Cleaners -> [pc : {"idle", "rows", "decided"}, policy : Policies,
                                     since : Nat, at : Nat, allowed : BOOLEAN]]
        BY <2>1, <2>2, <2>3
    <2> QED
        BY <1>2, <2>4 DEF ReadRows
  <1>3. CASE NextDeletion(d)
      BY <1>3 DEF NextDeletion
  <1> QED
      BY <1>1, <1>2, <1>3 DEF Cleaner
-----------------------------------------------------------------------------
(* One step per action.                                                    *)

Kept == LockIsHeld /\ DecisionStands /\ HistoryReplays /\ CheckedIsThere
        /\ ReportsAreTrue /\ CleanerSaw

LEMMA KeptInitially == Init => Kept
  <1> SUFFICES ASSUME Init PROVE Kept
      OBVIOUS
  <1>1. HistoryReplays
      BY ReplayOfNothing, EmptyIsALedger DEF Init, HistoryReplays
  <1> QED
      BY <1>1 DEF Init, Kept, LockIsHeld, DecisionStands, CheckedIsThere, ReportsAreTrue,
                  CleanerSaw

\* What a step leaves alone that neither commits nor is a command's.
LEMMA OthersKeep ==
    ASSUME Kept, UNCHANGED <<events, lock, pc, cmd, result>>
    PROVE  (LockIsHeld /\ DecisionStands /\ HistoryReplays /\ CheckedIsThere /\ ReportsAreTrue)'
  BY DEF Kept, LockIsHeld, DecisionStands, HistoryReplays, CheckedIsThere, ReportsAreTrue,
         InHistory

LEMMA OwnerKeeps ==
    ASSUME Kept,
           \/ \E p \in Publishers : EditTrust(p)
           \/ DamageOrRepair
           \/ \E n \in Notices : Expire(n)
    PROVE  Kept'
  <1>1. UNCHANGED <<events, lock, pc, cmd, result, recheck>>
      BY DEF EditTrust, DamageOrRepair, Expire, Edit, ledgerVars
  <1>2. CleanerSaw'
      BY <1>1 DEF Kept, CleanerSaw
  <1> QED
      BY <1>1, <1>2, OthersKeep DEF Kept

\* A cleaner may see an older trust file than the history it then reads, and
\* sees the same history under it or none.
LEMMA CleanerKeeps ==
    ASSUME TypeOK, Kept, NEW d \in Cleaners, Cleaner(d)
    PROVE  Kept'
  <1>1. UNCHANGED <<events, lock, pc, cmd, result>>
      BY DEF Cleaner, ReadTrust, ReadRows, NextDeletion, ledgerVars
  <1>2. Len(events) \in Nat
      BY DEF TypeOK
  <1>3. \A e \in Cleaners : e # d => recheck'[e] = recheck[e]
      BY DEF Cleaner, ReadTrust, ReadRows, NextDeletion, TypeOK
  <1>4. CASE ReadTrust(d)
    <2>1. recheck'[d].pc = "rows" /\ recheck'[d].since = Len(events)
        BY <1>4 DEF ReadTrust, TypeOK
    <2>2. CleanerSaw'
        BY <1>1, <1>2, <1>3, <2>1 DEF Kept, CleanerSaw
    <2> QED
        BY <1>1, <2>2, OthersKeep DEF Kept
  <1>5. CASE ReadRows(d)
    <2> DEFINE policy == recheck[d].policy
    <2>1. /\ recheck[d].pc = "rows" /\ recheck'[d].pc = "decided"
          /\ recheck'[d].since = recheck[d].since /\ recheck'[d].at = Len(events)
          /\ recheck[d].since \in Nat /\ policy \in SUBSET Publishers
        BY <1>5 DEF ReadRows, TypeOK, Policies
    <2>2. recheck[d].since <= Len(events)
        BY <2>1 DEF Kept, CleanerSaw
    <2>3. ASSUME recheck'[d].allowed
          PROVE  ~Binds(Replay(SubSeq(events, 1, Len(events)), Publishers))
      <3>1. Known(events, policy) /\ ~Binds(Replay(events, policy))
          BY <1>5, <2>3 DEF ReadRows, TypeOK
      <3>2. Replay(events, policy) = Replay(events, Publishers)
          BY <2>1, <3>1, PolicyOnlyRefuses DEF Known, TypeOK
      <3>3. SubSeq(events, 1, Len(events)) = events
          BY DEF TypeOK
      <3> QED
          BY <3>1, <3>2, <3>3
    <2>4. recheck'[d].at \in recheck'[d].since .. Len(events)
        BY <1>2, <2>1, <2>2
    <2>5. CleanerSaw'
        BY <1>1, <1>3, <2>1, <2>3, <2>4 DEF Kept, CleanerSaw
    <2> QED
        BY <1>1, <2>5, OthersKeep DEF Kept
  <1>6. CASE NextDeletion(d)
    <2>1. recheck'[d].pc = "idle"
        BY <1>6 DEF NextDeletion, TypeOK
    <2>2. CleanerSaw'
        BY <1>1, <1>3, <2>1 DEF Kept, CleanerSaw
    <2> QED
        BY <1>1, <2>2, OthersKeep DEF Kept
  <1> QED
      BY <1>4, <1>5, <1>6 DEF Cleaner
\* What a command decides to write, the replay under all keys accepts too.
LEMMA DecisionIsSound ==
    ASSUME TypeOK, Kept, NEW c \in Commands, Decide(c), pc'[c] = "commit"
    PROVE  ReplayEvent(Replay(events, Publishers), cmd[c].event, Publishers) # Unusable
  <1> DEFINE policy == cmd[c].policy
             event  == cmd[c].event
             ledger == Replay(events, policy)
  <1>1. event \in Events /\ policy \in SUBSET Publishers /\ events \in Seq(Events)
      BY DEF TypeOK, Decide, Policies
  <1>2. /\ ledger # Unusable
        /\ event.kind = "install" => ~InstallRefused(c, ledger)
        /\ event.kind # "install" => Contained(ledger, event.incident)
      BY DEF Decide, Report, Goto, TypeOK
  <1>3. ledger = Replay(events, Publishers)
      BY <1>1, <1>2, PolicyOnlyRefuses
  <1>4. ledger \in Ledgers /\ Unusable \notin Ledgers
      BY <1>1, <1>2, ReplayGivesALedger, ContainmentAssumption DEF Ledgers, Unusable
  <1> HIDE DEF ledger
  <1>5. CASE event \in Installs
    <2>1. /\ event.kind = "install" /\ event.kind # "lift" /\ event.notice \in Notices
          /\ event.notice.publisher \in Publishers
        BY <1>5, ContainmentAssumption DEF Installs
    <2>2. ~IngestRefused(ledger, event.notice)
        BY <1>2, <2>1 DEF InstallRefused
    <2>3. ReplayEvent(ledger, event, Publishers) = Ingest(ledger, event.notice)
        BY <1>2, <2>1, <2>2 DEF ReplayEvent
    <2>4. Ingest(ledger, event.notice) \in Ledgers
        BY <1>4, <2>1, ContainmentAssumption DEF Ingest, Ledgers, Entries
    <2> QED
        BY <1>3, <1>4, <2>3, <2>4
  <1>6. CASE event \in Lifts
    <2>1. event.kind = "lift" /\ event.kind # "install"
        BY <1>6 DEF Lifts
    <2>2. ReplayEvent(ledger, event, Publishers) = LiftLocally(ledger, event.incident)
        BY <1>2, <2>1 DEF ReplayEvent
    <2>3. LiftLocally(ledger, event.incident) \in Ledgers
        BY <1>4 DEF LiftLocally, Ledgers
    <2> QED
        BY <1>3, <1>4, <2>2, <2>3
  <1> QED
      BY <1>1, <1>5, <1>6 DEF Events

\* A row that is there is there after a commit, at the same place.
LEMMA AppendKeepsRows ==
    ASSUME TypeOK, NEW event \in Events, events' = Append(events, event)
    PROVE  /\ events' \in Seq(Events) /\ Len(events') = Len(events) + 1 /\ Len(events) \in Nat
           /\ InHistory(event)'
           /\ \A other : InHistory(other) => InHistory(other)'
           /\ \A n \in 0 .. Len(events) : SubSeq(events', 1, n) = SubSeq(events, 1, n)
  <1>1. events \in Seq(Events) /\ Len(events) \in Nat
      BY DEF TypeOK
  <1>2. /\ events' \in Seq(Events) /\ Len(events') = Len(events) + 1
        /\ events'[Len(events) + 1] = event
        /\ \A i \in 1 .. Len(events) : events'[i] = events[i]
      BY <1>1
  <1>3. \A n \in 0 .. Len(events) : SubSeq(events', 1, n) = SubSeq(events, 1, n)
      BY <1>1, <1>2
  <1> QED
      BY <1>1, <1>2, <1>3 DEF InHistory

LEMMA CommitKeeps ==
    ASSUME TypeOK, WorkIsHeld, Kept, NEW c \in Commands, Commit(c)
    PROVE  Kept'
  <1>1. pc[c] = "commit" /\ lock = c /\ cmd[c].event \in Events
      BY DEF Commit, TypeOK, Kept, LockIsHeld
  <1>2. \A o \in Commands \ {c} : pc'[o] = pc[o] /\ result'[o] = result[o] /\ pc[o] \notin {"decide", "commit"}
      BY <1>1 DEF Commit, Report, Goto, TypeOK, Kept, LockIsHeld
  <1>3. /\ UNCHANGED <<cmd, recheck>>
        /\ pc'[c] \in {"check", "done"} /\ (pc'[c] = "check" => result'[c] = "pending")
      BY <1>1 DEF Commit, Report, Goto, TypeOK, Kept, CheckedIsThere
  <1>4. LockIsHeld' /\ DecisionStands'
      BY <1>2, <1>3 DEF LockIsHeld, DecisionStands
  <1>5. CASE events' = Append(events, cmd[c].event)
    <2>1. HistoryReplays'
        BY <1>1, <1>5, ReplayOfOneMore DEF Kept, DecisionStands, HistoryReplays, TypeOK
    <2>2. CheckedIsThere'
        BY <1>1, <1>2, <1>3, <1>5, AppendKeepsRows DEF Kept, CheckedIsThere
    <2>3. ReportsAreTrue'
      <3>1. \A o \in Commands : result[o] \in {"ok", "current", "no_longer_replays"} =>
                InHistory(cmd[o].event)
          BY DEF Kept, ReportsAreTrue, InHistory
      <3>2. \A o \in Commands : result'[o] \in {"ok", "current", "no_longer_replays"} =>
                InHistory(cmd[o].event)'
          BY <1>1, <1>2, <1>3, <1>5, <3>1, AppendKeepsRows
      <3> QED
          BY <3>2 DEF ReportsAreTrue, InHistory
    <2>4. CleanerSaw'
      <3>1. /\ Len(events') = Len(events) + 1 /\ Len(events) \in Nat
            /\ \A n \in 0 .. Len(events) : SubSeq(events', 1, n) = SubSeq(events, 1, n)
          BY <1>1, <1>5, AppendKeepsRows
      <3>2. \A d \in Cleaners : recheck[d].since \in Nat /\ recheck[d].at \in Nat
          BY DEF TypeOK
      <3>3. \A d \in Cleaners : recheck[d].pc = "rows" => recheck[d].since <= Len(events')
          BY <3>1, <3>2 DEF Kept, CleanerSaw
      <3>4. ASSUME NEW d \in Cleaners, recheck[d].pc = "decided", recheck[d].allowed
            PROVE  /\ recheck[d].at \in recheck[d].since .. Len(events')
                   /\ ~Binds(Replay(SubSeq(events', 1, recheck[d].at), Publishers))
        <4>1. /\ recheck[d].at \in recheck[d].since .. Len(events)
              /\ ~Binds(Replay(SubSeq(events, 1, recheck[d].at), Publishers))
            BY <3>4 DEF Kept, CleanerSaw
        <4>2. recheck[d].at \in 0 .. Len(events)
            BY <3>2, <4>1
        <4>3. SubSeq(events', 1, recheck[d].at) = SubSeq(events, 1, recheck[d].at)
            BY <3>1, <4>2
        <4>4. ~Binds(Replay(SubSeq(events', 1, recheck[d].at), Publishers))
            BY <4>1, <4>3, Zenon
        <4>5. recheck[d].at \in recheck[d].since .. Len(events')
            BY <3>1, <3>2, <4>1
        <4> QED
            BY <4>4, <4>5
      <3> QED
          BY <1>3, <3>3, <3>4 DEF CleanerSaw
    <2> QED
        BY <1>4, <2>1, <2>2, <2>3, <2>4 DEF Kept
  <1>6. CASE events' = events
    <2>1. pc'[c] = "done" /\ result'[c] \notin {"ok", "current", "no_longer_replays"}
      <3>1. events' # Append(events, cmd[c].event)
        <4>1. Len(Append(events, cmd[c].event)) = Len(events) + 1 /\ Len(events) \in Nat
            BY <1>1 DEF TypeOK
        <4> QED
            BY <1>6, <4>1
      <3> QED
          BY <3>1 DEF Commit, Report, TypeOK
    <2>2. HistoryReplays' /\ CleanerSaw'
        BY <1>3, <1>6 DEF Kept, HistoryReplays, CleanerSaw
    <2>3. CheckedIsThere' /\ ReportsAreTrue'
        BY <1>2, <1>3, <1>6, <2>1 DEF Kept, CheckedIsThere, ReportsAreTrue, InHistory
    <2> QED
        BY <1>4, <2>2, <2>3 DEF Kept
  <1> QED
      BY <1>5, <1>6 DEF Commit

LEMMA CommandKeeps ==
    ASSUME TypeOK, WorkIsHeld, Kept, NEW c \in Commands, Command(c)
    PROVE  Kept'
  <1>1. CASE Commit(c)
      BY <1>1, CommitKeeps
  <1>2. ASSUME ~Commit(c)
        PROVE  UNCHANGED <<events, recheck>>
      BY <1>2 DEF Command, Start, Begin, Decide, Check, Crash, ledgerVars
  <1>3. ASSUME UNCHANGED <<events, recheck>>
        PROVE  HistoryReplays' /\ CleanerSaw'
      BY <1>3 DEF Kept, HistoryReplays, CleanerSaw
  <1>4. ASSUME ~Commit(c), UNCHANGED events
        PROVE  LockIsHeld' /\ DecisionStands' /\ CheckedIsThere' /\ ReportsAreTrue'
    <2>1. \A o \in Commands \ {c} :
              pc'[o] = pc[o] /\ result'[o] = result[o] /\ cmd'[o] = cmd[o]
        BY <1>4 DEF Command, Start, Begin, Decide, Check, Crash, Report, Goto, TypeOK, WorkIsHeld
    <2> USE DEF Kept, LockIsHeld, DecisionStands, CheckedIsThere, ReportsAreTrue, InHistory
    <2>2. CASE Start(c)
      <3>1. /\ pc'[c] \in {"begin", "done"} /\ result'[c] \in {"pending", "refused"}
            /\ pc'[c] = "begin" => result'[c] = "pending"
          BY <2>2 DEF Start, Report, Goto, TypeOK
      <3>2. lock' = lock
          BY <2>2 DEF Start, ledgerVars
      <3> QED
          BY <1>4, <2>1, <3>1, <3>2
    <2>3. CASE Begin(c)
      <3>1. /\ \/ pc'[c] = "done" /\ result'[c] = "refused" /\ lock' = lock
               \/ pc'[c] = "decide" /\ result'[c] = "pending" /\ lock = None /\ lock' = c
            /\ cmd' = cmd
          BY <2>3 DEF Begin, Report, Goto, TypeOK
      <3>2. \A o \in Commands : o # None
          BY ContainmentAssumption
      <3> QED
          BY <1>4, <2>1, <3>1, <3>2
    <2>4. CASE Decide(c)
      <3>1. lock = c /\ cmd' = cmd
          BY <2>4 DEF Decide
      <3>2. \A o \in Commands \ {c} : pc[o] \notin {"decide", "commit"}
          BY <3>1
      <3>3. \/ pc'[c] = "commit" /\ result'[c] = "pending" /\ lock' = lock
            \/ pc'[c] = "done" /\ result'[c] = "refused"
            \/ pc'[c] = "done" /\ result'[c] = "current" /\ InHistory(cmd[c].event)
          BY <2>4 DEF Decide, Report, Goto, TypeOK, AlreadyCurrent
      <3>4. pc'[c] = "commit" =>
                ReplayEvent(Replay(events, Publishers), cmd[c].event, Publishers) # Unusable
          BY <2>4, DecisionIsSound
      <3> QED
          BY <1>4, <2>1, <3>1, <3>2, <3>3, <3>4
    <2>5. CASE Check(c)
      <3>1. pc[c] = "check" /\ pc'[c] = "done" /\ cmd' = cmd /\ lock' = lock
          BY <2>5 DEF Check, Report, TypeOK, ledgerVars
      <3> QED
          BY <1>4, <2>1, <3>1
    <2>6. CASE Crash(c)
      <3>1. /\ pc'[c] = "done" /\ result'[c] = "crashed" /\ cmd' = cmd
            /\ lock' = IF lock = c THEN None ELSE lock
          BY <2>6 DEF Crash, Report, TypeOK
      <3> QED
          BY <1>4, <2>1, <3>1
    <2> QED
        BY <1>4, <2>2, <2>3, <2>4, <2>5, <2>6 DEF Command
  <1> QED
      BY <1>1, <1>2, <1>3, <1>4 DEF Kept
LEMMA StepTypes == TypeOK /\ WorkIsHeld /\ [Next]_vars => TypeOK' /\ WorkIsHeld'
  <1> SUFFICES ASSUME TypeOK, WorkIsHeld, [Next]_vars
               PROVE  TypeOK' /\ WorkIsHeld'
      OBVIOUS
  <1>1. CASE UNCHANGED vars
      BY <1>1 DEF TypeOK, WorkIsHeld, vars, ledgerVars, ownerVars
  <1>2. CASE Next
      BY <1>2, CommandTypes, CleanerTypes, OwnerTypes DEF Next
  <1> QED
      BY <1>1, <1>2

LEMMA StepKeeps == IInv /\ [Next]_vars => Kept'
  <1> SUFFICES ASSUME IInv, [Next]_vars
               PROVE  Kept'
      OBVIOUS
  <1> USE DEF IInv
  <1>1. Kept
      BY DEF Kept
  <1>2. CASE UNCHANGED vars
    <2>1. UNCHANGED <<events, lock, pc, cmd, result, recheck>>
        BY <1>2 DEF vars, ledgerVars
    <2>2. CleanerSaw'
        BY <1>1, <2>1 DEF Kept, CleanerSaw
    <2> QED
        BY <1>1, <2>1, <2>2, OthersKeep DEF Kept
  <1>3. CASE Next
      BY <1>1, <1>3, CommandKeeps, CleanerKeeps, OwnerKeeps DEF Next
  <1> QED
      BY <1>2, <1>3

\* The inductive invariant: no step of a command, of a cleaner or of the owner
\* separates what a transaction decided from the history it will commit to.
THEOREM Inductive == Spec => []IInv
  <1>1. Init => IInv
      BY TypesInitially, KeptInitially DEF IInv, Kept
  <1>2. IInv /\ [Next]_vars => IInv'
      BY StepTypes, StepKeeps DEF IInv, Kept
  <1> QED
      BY <1>1, <1>2, PTL DEF Spec

-----------------------------------------------------------------------------
(* The theorems.                                                           *)

\* Whatever the number of commands, of notices and of edits, no event is
\* committed that the next replay would refuse (decide_install on the rows
\* of the transaction).
THEOREM HistoryAlwaysReplays == Spec => []HistoryReplays
  <1>1. IInv => HistoryReplays
      BY DEF IInv
  <1> QED
      BY <1>1, Inductive, PTL

\* What install, lift and refresh report is in the history for good.
THEOREM ReportsStayTrue == Spec => []ReportsAreTrue
  <1>1. IInv => ReportsAreTrue
      BY DEF IInv
  <1> QED
      BY <1>1, Inductive, PTL

\* A deletion a recheck let through was contained by nothing at some instant
\* of the recheck, though trust file, rows and the file's state are read one
\* after another (snapshot, delete_authority).
THEOREM NoDeletionOfTheContained == Spec => []LaterDeletionsBound
  <1>1. IInv => LaterDeletionsBound
      BY DEF IInv, TypeOK, CleanerSaw, LaterDeletionsBound
  <1> QED
      BY <1>1, Inductive, PTL

\* A commit is a step of the register: Install for a notice, Lift for a lift.
LEMMA CommitIsARegisterStep ==
    ASSUME IInv, NEW c \in Commands, Commit(c), events' = Append(events, cmd[c].event)
    PROVE  Register!Next
  <1> DEFINE ledger == Replay(events, Publishers)
             event  == cmd[c].event
  <1>1. event \in Events /\ events \in Seq(Events) /\ pc[c] = "commit"
      BY DEF IInv, TypeOK, Commit
  <1>2. /\ Replay(events', Publishers) = ReplayEvent(ledger, event, Publishers)
        /\ Replay(events', Publishers) # Unusable
      BY <1>1, ReplayOfOneMore DEF IInv, DecisionStands
  <1>3. ledger \in Ledgers /\ ledger # Unusable
      BY <1>1, ReplayGivesALedger DEF IInv, HistoryReplays
  <1>4. CASE event \in Installs
    <2> DEFINE n == event.notice
    <2>1. /\ event.kind = "install" /\ event.kind # "lift"
          /\ n \in Notices /\ n.publisher \in Publishers /\ n.sequence \in Nat
        BY <1>4, ContainmentAssumption DEF Installs
    <2>2. ~IngestRefused(ledger, n) /\ Replay(events', Publishers) = Ingest(ledger, n)
        BY <1>2, <1>3, <2>1 DEF ReplayEvent
    <2>3. n.sequence > ledger.seen[n.publisher]
        BY <1>3, <2>1, <2>2 DEF IngestRefused, Ledgers
    <2>4. Register!Install(n)
        BY <2>2, <2>3 DEF Register!Install, Ingest
    <2> QED
        BY <2>1, <2>4 DEF Register!Next
  <1>5. CASE event \in Lifts
    <2>1. event.kind = "lift" /\ event.kind # "install" /\ event.incident \in Register!Incidents
        BY <1>5 DEF Lifts, Incidents, Register!Incidents
    <2>2. /\ Contained(ledger, event.incident)
          /\ Replay(events', Publishers) = LiftLocally(ledger, event.incident)
        BY <1>2, <1>3, <2>1 DEF ReplayEvent
    <2>3. /\ Replay(events', Publishers).active = {e \in ledger.active : e.incident # event.incident}
          /\ Replay(events', Publishers).seen = ledger.seen
        BY <1>3, <2>2 DEF LiftLocally, Ledgers
    <2>4. Register!Lift(event.incident)
        BY <2>2, <2>3 DEF Register!Lift, Contained
    <2> QED
        BY <2>1, <2>4 DEF Register!Next
  <1> QED
      BY <1>1, <1>4, <1>5 DEF Events

\* The containment ledger keeps the promise of ContainmentRegister: the
\* history under all keys is a register whose only steps are commits.
THEOREM ImplementsTheRegister == Spec => ImplementsRegister
  <1>1. Init => Register!Init
      BY ReplayOfNothing DEF Init, Register!Init, Empty
  <1>2. IInv /\ [Next]_vars => [Register!Next]_(Register!vars)
    <2> SUFFICES ASSUME IInv, [Next]_vars
                 PROVE  [Register!Next]_(Register!vars)
        OBVIOUS
    <2>1. CASE UNCHANGED events
        BY <2>1 DEF Register!vars
    <2>2. CASE events' # events
      <3>1. PICK c \in Commands : Commit(c) /\ events' = Append(events, cmd[c].event)
          BY <2>2 DEF Next, Command, Start, Begin, Decide, Commit, Check, Crash, Cleaner,
                      ReadTrust, ReadRows, NextDeletion, EditTrust, DamageOrRepair, Expire, Edit,
                      vars, ledgerVars
      <3> QED
          BY <3>1, CommitIsARegisterStep
    <2> QED
        BY <2>1, <2>2
  <1> QED
      BY <1>1, <1>2, Inductive, PTL DEF Spec, ImplementsRegister, Register!Spec

=============================================================================
