----------------------------- MODULE StoreProofs -----------------------------
(***************************************************************************)
(* What the store keeps, whatever the number of processes, of rows and of  *)
(* versions of the program, and whichever layers are reset meanwhile.      *)
(*                                                                         *)
(* The event ledger forgets nothing it did not count and counts nothing    *)
(* twice: a compaction takes a range only if the number of its rows is its *)
(* length (Contiguous), so that every event of the range is a row, and     *)
(* none of them was summarized before.  A sample moves down the tiers no   *)
(* faster than it ages and no slower than compactions come, and is in one  *)
(* of them all the time: merging what groups of rows merge to is merging   *)
(* the rows, whatever the groups, which is shown set by set from the       *)
(* definition of a sum.  A key is that of the row it was attached to.      *)
(* Openers that race leave a whole schema; a reset tells what it has left. *)
(***************************************************************************)
EXTENDS LocalState, FiniteSetTheorems, SequenceTheorems, WellFoundedInduction, TLAPS

-----------------------------------------------------------------------------
(* EventLedger: what the tables and the writers' work are.                 *)

Summaries == [from : Int, to : Int, tally : [EventKind -> Nat]]

\* What the bounds of a budgeted append may be between two transactions.
WorkIsTyped ==
    lop \in [Writers -> [event : [kind : EventKind, referenced : BOOLEAN],
                         round : {1, 2}, from : Int, to : Int]]

TablesAreTyped ==
    /\ highest \in Nat
    /\ Ids \subseteq 1 .. highest
    /\ written \in Seq(EventKind)
    /\ summaries \in Seq(Summaries)

LInv == TablesAreTyped /\ WorkIsTyped /\ EachEventOnce

-----------------------------------------------------------------------------
(* Ranges.                                                                 *)

\* A set of natural numbers that is not empty has a least member.
LEMMA LeastExists ==
    ASSUME NEW S \in SUBSET Nat, S # {}
    PROVE  \E i \in S : \A j \in S : i <= j
  <1>1. PICK i \in S : \A j \in S : <<j, i>> \notin OpToRel(<, Nat)
      BY NatLessThanWellFounded, WFMin
  <1>2. \A j \in S : ~(j < i)
      BY <1>1 DEF OpToRel
  <1> QED
      BY <1>2

\* A range with as many rows as it is long consists of rows
\* (compact_range's count).
LEMMA ContiguousIsAllRows ==
    ASSUME NEW from \in Int, NEW to \in Int, Contiguous(from, to)
    PROVE  from .. to \subseteq Ids
  <1>1. CASE from > to
      BY <1>1
  <1>2. CASE from <= to
    <2>1. IsFiniteSet(from .. to) /\ Cardinality(from .. to) = to - from + 1
        BY <1>2, FS_Interval
    <2>2. (from .. to) \cap Ids \in SUBSET (from .. to)
        OBVIOUS
    <2>3. (from .. to) \cap Ids = from .. to
        BY <2>1, <2>2, FS_Subset DEF Contiguous
    <2> QED
        BY <2>3
  <1> QED
      BY <1>1, <1>2

\* A summary counts natural numbers of events.
LEMMA TallyIsTyped ==
    ASSUME NEW from \in Int, NEW to \in Int
    PROVE  Tally(from, to) \in [EventKind -> Nat]
  <1>1. \A k : IsFiniteSet({i \in from .. to : rows[i] = k})
      BY FS_Interval, FS_Subset
  <1>2. \A k : Cardinality({i \in from .. to : rows[i] = k}) \in Nat
      BY <1>1, FS_CardinalityType
  <1> QED
      BY <1>2 DEF Tally

-----------------------------------------------------------------------------
(* The transactions.                                                       *)

LEMMA LInitially == LedgerInit => LInv
  <1> SUFFICES ASSUME LedgerInit PROVE LInv
      OBVIOUS
  <1>1. TablesAreTyped
      BY DEF LedgerInit, TablesAreTyped, Ids
  <1>2. WorkIsTyped
      BY DEF LedgerInit, WorkIsTyped, Start, EventKind, Observations
  <1>3. EachEventOnce
      BY DEF LedgerInit, EachEventOnce, RowsAreHistory, RowOrSummary, SummariesDisjoint,
             TalliesAreHistory, Ids
  <1> QED
      BY <1>1, <1>2, <1>3 DEF LInv

\* An appended event becomes a row with the next id.
LEMMA InsertKeeps ==
    ASSUME TablesAreTyped, EachEventOnce, NEW kind \in EventKind, Insert(kind)
    PROVE  TablesAreTyped' /\ EachEventOnce'
  <1>1. /\ Ids' = Ids \cup {highest + 1} /\ highest' = highest + 1
        /\ \A i \in Ids : rows'[i] = rows[i]
        /\ rows'[highest + 1] = kind
        /\ summaries' = summaries /\ written' = Append(written, kind)
    <2>1. rows' = [i \in Ids \cup {highest + 1} |-> IF i = highest + 1 THEN kind ELSE rows[i]]
        BY DEF Insert
    <2>2. highest + 1 \notin Ids
        BY DEF TablesAreTyped
    <2>3. Ids' = Ids \cup {highest + 1}
        BY <2>1 DEF Ids
    <2>4. \A i \in Ids : rows'[i] = rows[i]
        BY <2>1, <2>2
    <2>5. rows'[highest + 1] = kind
        BY <2>1
    <2>6. highest' = highest + 1 /\ summaries' = summaries /\ written' = Append(written, kind)
        BY DEF Insert
    <2> QED
        BY <2>3, <2>4, <2>5, <2>6
  <1>2. TablesAreTyped'
    <2>1. Ids' \subseteq 1 .. highest'
        BY <1>1 DEF TablesAreTyped
    <2> QED
        BY <1>1, <2>1 DEF TablesAreTyped
  <1>3. /\ Len(written) = highest /\ Len(written') = highest + 1
        /\ \A i \in 1 .. highest : written'[i] = written[i]
        /\ written'[highest + 1] = kind
      BY <1>1 DEF TablesAreTyped, EachEventOnce, RowsAreHistory
  <1>4. RowsAreHistory'
      BY <1>1, <1>3 DEF TablesAreTyped, EachEventOnce, RowsAreHistory
  <1>5. \A n \in DOMAIN summaries : Covered(summaries[n]) \subseteq 1 .. highest
      BY DEF EachEventOnce, TalliesAreHistory
  <1>6. RowOrSummary'
    <2> SUFFICES ASSUME NEW i \in 1 .. highest + 1
                 PROVE  i \in Ids' <=> ~ \E n \in DOMAIN summaries : i \in Covered(summaries[n])
        BY <1>1 DEF RowOrSummary
    <2>1. CASE i = highest + 1
        BY <1>1, <1>5, <2>1 DEF TablesAreTyped
    <2>2. CASE i # highest + 1
        BY <1>1, <2>2 DEF TablesAreTyped, EachEventOnce, RowOrSummary
    <2> QED
        BY <2>1, <2>2
  <1>7. SummariesDisjoint'
      BY <1>1 DEF EachEventOnce, SummariesDisjoint
  <1>8. TalliesAreHistory'
    <2> SUFFICES ASSUME NEW n \in DOMAIN summaries, NEW k \in EventKind
                 PROVE  /\ Covered(summaries[n]) \subseteq 1 .. highest + 1
                        /\ summaries[n].tally[k]
                             = Cardinality({i \in Covered(summaries[n]) : written'[i] = k})
        BY <1>1 DEF TalliesAreHistory
    <2>1. Covered(summaries[n]) \subseteq 1 .. highest + 1
        BY <1>5 DEF TablesAreTyped
    <2>2. {i \in Covered(summaries[n]) : written'[i] = k}
            = {i \in Covered(summaries[n]) : written[i] = k}
        BY <1>3, <1>5
    <2> QED
        BY <2>1, <2>2 DEF EachEventOnce, TalliesAreHistory
  <1> QED
      BY <1>2, <1>4, <1>6, <1>7, <1>8 DEF EachEventOnce

\* A compaction of a range that is all rows puts one summary in their place.
LEMMA CompactKeeps ==
    ASSUME TablesAreTyped, EachEventOnce, NEW from \in Int, NEW to \in Int,
           Contiguous(from, to), Compact(from, to)
    PROVE  TablesAreTyped' /\ EachEventOnce'
  <1> DEFINE s == [from |-> from, to |-> to, tally |-> Tally(from, to)]
             N == Len(summaries) + 1
  <1>1. from .. to \subseteq Ids
      BY ContiguousIsAllRows
  <1>2. s \in Summaries /\ Covered(s) = from .. to
      BY TallyIsTyped DEF Summaries, Covered
  <1> HIDE DEF s
  <1>3. /\ Ids' = Ids \ (from .. to)
        /\ \A i \in Ids' : rows'[i] = rows[i]
        /\ highest' = highest /\ written' = written
        /\ summaries' = Append(summaries, s)
      BY DEF Compact, Ids, s
  <1>4. /\ summaries' \in Seq(Summaries)
        /\ DOMAIN summaries' = DOMAIN summaries \cup {N} /\ N \notin DOMAIN summaries
        /\ \A n \in DOMAIN summaries : summaries'[n] = summaries[n]
        /\ summaries'[N] = s
      BY <1>2, <1>3 DEF TablesAreTyped
  <1> HIDE DEF N
  <1>5. TablesAreTyped'
      BY <1>3, <1>4 DEF TablesAreTyped
  <1>6. RowsAreHistory'
      BY <1>3 DEF EachEventOnce, RowsAreHistory
  <1>7. RowOrSummary'
    <2> SUFFICES ASSUME NEW i \in 1 .. highest
                 PROVE  i \in Ids' <=> ~ \E n \in DOMAIN summaries' : i \in Covered(summaries'[n])
        BY <1>3 DEF RowOrSummary
    <2>1. (\E n \in DOMAIN summaries' : i \in Covered(summaries'[n]))
            <=> i \in from .. to \/ \E n \in DOMAIN summaries : i \in Covered(summaries[n])
        BY <1>2, <1>4
    <2> QED
        BY <1>3, <2>1 DEF EachEventOnce, RowOrSummary
  <1>8. SummariesDisjoint'
    <2>1. \A n \in DOMAIN summaries : Covered(summaries[n]) \cap Covered(s) = {}
        BY <1>1, <1>2 DEF TablesAreTyped, EachEventOnce, RowOrSummary
    <2> QED
        BY <1>4, <2>1 DEF EachEventOnce, SummariesDisjoint
  <1>9. TalliesAreHistory'
    <2> SUFFICES ASSUME NEW n \in DOMAIN summaries'
                 PROVE  /\ Covered(summaries'[n]) \subseteq 1 .. highest
                        /\ \A k \in EventKind :
                              summaries'[n].tally[k]
                                = Cardinality({i \in Covered(summaries'[n]) : written[i] = k})
        BY <1>3 DEF TalliesAreHistory
    <2>1. CASE n \in DOMAIN summaries
        BY <1>4, <2>1 DEF EachEventOnce, TalliesAreHistory
    <2>2. CASE n = N
      <3>1. \A k : {i \in from .. to : rows[i] = k} = {i \in Covered(s) : written[i] = k}
          BY <1>1, <1>2 DEF EachEventOnce, RowsAreHistory
      <3>2. \A k \in EventKind : s.tally[k] = Cardinality({i \in from .. to : rows[i] = k})
          BY DEF s, Tally
      <3> QED
          BY <1>1, <1>2, <1>4, <2>2, <3>1, <3>2 DEF TablesAreTyped
    <2> QED
        BY <1>4, <2>1, <2>2
  <1> QED
      BY <1>5, <1>6, <1>7, <1>8, <1>9 DEF EachEventOnce

LEMMA ResetKeeps ==
    ASSUME ResetTables
    PROVE  TablesAreTyped' /\ EachEventOnce'
  <1>1. TablesAreTyped'
      BY DEF ResetTables, TablesAreTyped, Ids
  <1>2. EachEventOnce'
      BY DEF ResetTables, EachEventOnce, RowsAreHistory, RowOrSummary, SummariesDisjoint,
             TalliesAreHistory, Ids
  <1> QED
      BY <1>1, <1>2

LEMMA UnchangedKeeps ==
    ASSUME TablesAreTyped, EachEventOnce, UNCHANGED tableVars
    PROVE  TablesAreTyped' /\ EachEventOnce'
  BY DEF tableVars, TablesAreTyped, EachEventOnce, RowsAreHistory, RowOrSummary,
         SummariesDisjoint, TalliesAreHistory, Ids

LEMMA ReturnKeeps ==
    ASSUME WorkIsTyped, NEW w \in Writers, NEW how, Return(w, how)
    PROVE  WorkIsTyped'
  BY DEF WorkIsTyped, Return, Start, EventKind, Observations

LEMMA AfterCompactionKeeps ==
    ASSUME WorkIsTyped, NEW w \in Writers, AfterCompaction(w)
    PROVE  WorkIsTyped'
  BY ReturnKeeps DEF AfterCompaction, WorkIsTyped

-----------------------------------------------------------------------------
(* The writers.                                                            *)

LEMMA WriterKeeps ==
    ASSUME LInv, NEW w \in Writers, LedgerStep(w)
    PROVE  LInv'
  <1> USE DEF LInv
  <1>0. \A e \in NewEvent : e.kind \in EventKind
      BY KindsAssumption DEF NewEvent
  <1>1. CASE AppendDirectly(w)
    <2>1. PICK e \in NewEvent :
            \/ Insert(e.kind) /\ Return(w, "ok")
            \/ UNCHANGED tableVars /\ Return(w, "refused")
        BY <1>1 DEF AppendDirectly
    <2> QED
        BY <1>0, <2>1, InsertKeeps, UnchangedKeeps, ReturnKeeps
  <1>2. CASE RecordPurge(w)
    <2>1. \/ Insert("purged") /\ Return(w, "ok")
          \/ UNCHANGED tableVars /\ Return(w, "refused")
        BY <1>2 DEF RecordPurge
    <2>2. "purged" \in EventKind
        BY DEF EventKind, Mutations
    <2> QED
        BY <2>1, <2>2, InsertKeeps, UnchangedKeeps, ReturnKeeps
  <1>3. CASE CompactRange(w)
    <2>1. PICK from \in 1 .. highest + 1, to \in 1 .. highest + 1 :
            \/ Contiguous(from, to) /\ Compact(from, to) /\ Return(w, "ok")
            \/ UNCHANGED tableVars /\ Return(w, "refused")
        BY <1>3 DEF CompactRange
    <2>2. from \in Int /\ to \in Int
        BY DEF TablesAreTyped
    <2> QED
        BY <2>1, <2>2, CompactKeeps, UnchangedKeeps, ReturnKeeps
  <1>4. CASE ResetLedger(w)
      BY <1>4, ResetKeeps, ReturnKeeps DEF ResetLedger
  <1>5. CASE AppendWithinBudget(w)
    <2>1. WorkIsTyped'
      <3>1. PICK e \in NewEvent : lop' = [lop EXCEPT ![w] = [Start EXCEPT !.event = e]]
          BY <1>5 DEF AppendWithinBudget
      <3>2. e \in [kind : EventKind, referenced : BOOLEAN]
          BY KindsAssumption DEF NewEvent
      <3> QED
          BY <3>1, <3>2 DEF WorkIsTyped, Start
    <2> QED
        BY <1>5, <2>1, UnchangedKeeps DEF AppendWithinBudget
  <1>6. CASE ReadBounds(w)
    <2>1. UNCHANGED tableVars
        BY <1>6 DEF ReadBounds
    <2>2. CASE LedgerCount <= MaxLedgerEvents
        BY <1>6, <2>1, <2>2, UnchangedKeeps, AfterCompactionKeeps DEF ReadBounds
    <2>3. CASE ~(LedgerCount <= MaxLedgerEvents)
      <3>1. IsFiniteSet(Ids) /\ LedgerCount \in Nat
        <4>1. Ids \in SUBSET (1 .. highest) /\ IsFiniteSet(1 .. highest)
            BY FS_Interval DEF TablesAreTyped
        <4>2. IsFiniteSet(Ids)
            BY <4>1, FS_Subset
        <4> QED
            BY <4>2, FS_CardinalityType DEF LedgerCount
      <3>2. Ids # {}
          BY <2>3, FS_EmptySet, LedgerAssumption DEF LedgerCount
      <3>3. Oldest \in Nat
        <4>1. Ids \in SUBSET Nat
            BY DEF TablesAreTyped
        <4>2. \E i \in Ids : \A j \in Ids : i <= j
            BY <3>2, <4>1, LeastExists
        <4> QED
            BY <4>1, <4>2 DEF Oldest
      <3>4. lop' = [lop EXCEPT ![w].from = Oldest,
                               ![w].to = Oldest + (LedgerCount - MaxLedgerEvents) - 1]
          BY <1>6, <2>3 DEF ReadBounds
      <3>5. Oldest \in Int /\ Oldest + (LedgerCount - MaxLedgerEvents) - 1 \in Int
          BY <3>1, <3>3, LedgerAssumption
      <3>6. WorkIsTyped'
          BY <3>4, <3>5 DEF WorkIsTyped
      <3> QED
          BY <2>1, <3>6, UnchangedKeeps
    <2> QED
        BY <2>2, <2>3
  <1>7. CASE CompactOldest(w)
    <2>1. lop[w].from \in Int /\ lop[w].to \in Int
        BY DEF WorkIsTyped
    <2>2. \/ /\ Contiguous(lop[w].from, lop[w].to) /\ Compact(lop[w].from, lop[w].to)
             /\ AfterCompaction(w)
          \/ UNCHANGED tableVars /\ Return(w, "gap")
        BY <1>7 DEF CompactOldest
    <2> QED
        BY <2>1, <2>2, CompactKeeps, UnchangedKeeps, ReturnKeeps, AfterCompactionKeeps
  <1>8. CASE AppendNow(w)
    <2>1. lop[w].event.kind \in EventKind
        BY DEF WorkIsTyped
    <2>2. \/ Insert(lop[w].event.kind) /\ lop' = [lop EXCEPT ![w].round = 2]
          \/ UNCHANGED tableVars /\ Return(w, "refused")
        BY <1>8 DEF AppendNow
    <2>3. CASE Insert(lop[w].event.kind) /\ lop' = [lop EXCEPT ![w].round = 2]
      <3>1. WorkIsTyped'
          BY <2>3 DEF WorkIsTyped
      <3> QED
          BY <2>1, <2>3, <3>1, InsertKeeps
    <2>4. CASE UNCHANGED tableVars /\ Return(w, "refused")
        BY <2>4, UnchangedKeeps, ReturnKeeps
    <2> QED
        BY <2>2, <2>3, <2>4
  <1>9. CASE Busy(w)
      BY <1>9, UnchangedKeeps, ReturnKeeps DEF Busy
  <1> QED
      BY <1>1, <1>2, <1>3, <1>4, <1>5, <1>6, <1>7, <1>8, <1>9 DEF LedgerStep

\* One step of the writers, or of a reset by whoever resets all layers.
LedgerMoves ==
    \/ [LedgerNext]_ledgerVars
    \/ ResetTables /\ UNCHANGED writerVars

LEMMA LedgerKeeps == LInv /\ LedgerMoves => LInv'
  <1> SUFFICES ASSUME LInv, LedgerMoves PROVE LInv'
      OBVIOUS
  <1>1. CASE UNCHANGED ledgerVars
      BY <1>1, UnchangedKeeps DEF ledgerVars, writerVars, LInv, WorkIsTyped
  <1>2. CASE \E w \in Writers : LedgerStep(w)
      BY <1>2, WriterKeeps
  <1>3. CASE ResetTables /\ UNCHANGED writerVars
      BY <1>3, ResetKeeps DEF writerVars, LInv, WorkIsTyped
  <1> QED
      BY <1>1, <1>2, <1>3 DEF LedgerMoves, LedgerNext

\* Whatever the rest of the store does, it moves the ledger like that.
LEMMA StoreMovesTheLedger == [StoreNext]_storeVars => LedgerMoves
  <1> SUFFICES ASSUME [StoreNext]_storeVars PROVE LedgerMoves
      OBVIOUS
  <1>1. CASE UNCHANGED storeVars
      BY <1>1 DEF storeVars, layerVars, LedgerMoves
  <1>2. CASE LedgerWork
      BY <1>2 DEF LedgerWork, LedgerMoves
  <1>3. CASE MemoryWork \/ CacheWork \/ OpenWork
      BY <1>3 DEF MemoryWork, CacheWork, OpenWork, layerVars, LedgerMoves
  <1>4. CASE LayerWork
    <2>1. CASE WriteBeside
        BY <2>1 DEF WriteBeside, LedgerMoves, LedgerNext, LedgerStep
    <2>2. ASSUME NEW m \in Managers, ManagerStep(m)
          PROVE  LedgerMoves
      <3>1. CASE ResetEvents(m)
          BY <3>1 DEF ResetEvents, LedgerMoves
      <3>2. CASE \/ RebuildWithinBudget(m) \/ CheckRows(m) \/ CountCeiling(m) \/ BeginReset(m)
                 \/ Degrade(m) \/ ResetCurrentState(m) \/ ResetSamples(m) \/ ResetFails(m)
          BY <3>2 DEF RebuildWithinBudget, CheckRows, CountCeiling, BeginReset, Degrade,
             ResetCurrentState, ResetSamples, ResetFails, layerVars, LedgerMoves
      <3> QED
          BY <2>2, <3>1, <3>2 DEF ManagerStep
    <2> QED
        BY <1>4, <2>1, <2>2 DEF LayerWork
  <1> QED
      BY <1>1, <1>2, <1>3, <1>4 DEF StoreNext

\* Whatever is appended, purged, compacted and reset, by however many
\* processes and in whatever order: every event recorded since the last reset is
\* a row or in exactly one summary, which counts it by its kind (compact_range,
\* reset_local_state).
THEOREM NothingIsForgotten == StoreSpec => []EachEventOnce
  <1>1. StoreInit => LInv
      BY LInitially DEF StoreInit
  <1>2. LInv /\ [StoreNext]_storeVars => LInv'
      BY LedgerKeeps, StoreMovesTheLedger
  <1>3. LInv => EachEventOnce
      BY DEF LInv
  <1> QED
      BY <1>1, <1>2, <1>3, PTL DEF StoreSpec

-----------------------------------------------------------------------------
(* The limit at rest.  A row too many is always in somebody's hands: a     *)
(* writer that has appended and has not looked yet, or one that looked and *)
(* whose compaction is either enough or no longer possible (and then the   *)
(* append fails, and says so).                                             *)

Enough(w) == LedgerCount - (lop[w].to - lop[w].from + 1) <= MaxLedgerEvents

Pending(w) ==
    /\ lop[w].round = 2
    /\ \/ lpc[w] = "bounds"
       \/ lpc[w] = "compact" /\ (Contiguous(lop[w].from, lop[w].to) => Enough(w))

OverIsPending ==
    strict => LedgerCount <= MaxLedgerEvents \/ \E w \in Writers : Pending(w)

WriterSteps == {"idle", "bounds", "compact", "append"}

BInv == LInv /\ lpc \in [Writers -> WriterSteps] /\ OverIsPending

LEMMA CountIsNatural ==
    ASSUME TablesAreTyped
    PROVE  IsFiniteSet(Ids) /\ LedgerCount \in Nat
  <1>1. Ids \in SUBSET (1 .. highest) /\ IsFiniteSet(1 .. highest)
      BY FS_Interval DEF TablesAreTyped
  <1>2. IsFiniteSet(Ids)
      BY <1>1, FS_Subset
  <1> QED
      BY <1>2, FS_CardinalityType DEF LedgerCount

\* A compaction takes as many rows as its range is long.
LEMMA CompactedCount ==
    ASSUME TablesAreTyped, NEW from \in Int, NEW to \in Int,
           Contiguous(from, to), Compact(from, to)
    PROVE  /\ Ids' \subseteq Ids
           /\ LedgerCount' = LedgerCount - (to - from + 1)
           /\ LedgerCount' <= LedgerCount
  <1>1. Ids' = Ids \ (from .. to)
      BY DEF Compact, Ids
  <1>2. IsFiniteSet(Ids) /\ LedgerCount \in Nat
      BY CountIsNatural
  <1>3. Cardinality(Ids \ (from .. to)) = Cardinality(Ids) - Cardinality(Ids \cap (from .. to))
      BY <1>2, FS_Difference
  <1>4. Ids \cap (from .. to) = (from .. to) \cap Ids
      OBVIOUS
  <1>5. LedgerCount' = LedgerCount - (to - from + 1)
      BY <1>1, <1>3, <1>4 DEF LedgerCount, Contiguous
  <1>6. Ids \ (from .. to) \in SUBSET Ids
      OBVIOUS
  <1>7. LedgerCount' <= LedgerCount
      BY <1>1, <1>2, <1>6, FS_Subset DEF LedgerCount
  <1> QED
      BY <1>1, <1>5, <1>7

\* A range that has lost a row does not get it back by losing others.
LEMMA RowsOnlyGo ==
    ASSUME NEW S, NEW T \in SUBSET S, NEW from \in Int, NEW to \in Int,
           Cardinality((from .. to) \cap T) = to - from + 1
    PROVE  Cardinality((from .. to) \cap S) = to - from + 1
  <1>1. CASE from > to
    <2>1. (from .. to) \cap T = {} /\ (from .. to) \cap S = {}
        BY <1>1
    <2> QED
        BY <2>1
  <1>2. CASE from <= to
    <2>1. IsFiniteSet(from .. to) /\ Cardinality(from .. to) = to - from + 1
        BY <1>2, FS_Interval
    <2>2. (from .. to) \cap T \in SUBSET (from .. to)
        OBVIOUS
    <2>3. (from .. to) \cap T = from .. to
        BY <2>1, <2>2, FS_Subset
    <2>4. (from .. to) \cap S = from .. to
        BY <2>3
    <2> QED
        BY <2>1, <2>4
  <1> QED
      BY <1>1, <1>2

\* Whoever had the row too many still has it after another writer's compaction.
LEMMA OthersStayPending ==
    ASSUME TablesAreTyped, WorkIsTyped, TablesAreTyped', NEW x \in Writers, Pending(x),
           lpc'[x] = lpc[x], lop'[x] = lop[x],
           Ids' \subseteq Ids, LedgerCount' <= LedgerCount
    PROVE  Pending(x)'
  <1>1. lop[x].from \in Int /\ lop[x].to \in Int
      BY DEF WorkIsTyped
  <1>2. Contiguous(lop[x].from, lop[x].to)' => Contiguous(lop[x].from, lop[x].to)
    <2>1. Cardinality((lop[x].from .. lop[x].to) \cap Ids') = lop[x].to - lop[x].from + 1
            => Cardinality((lop[x].from .. lop[x].to) \cap Ids) = lop[x].to - lop[x].from + 1
      <3>1. Ids' \in SUBSET Ids
          OBVIOUS
      <3> HIDE DEF Ids
      <3> QED
          BY <1>1, <3>1, RowsOnlyGo
    <2> QED
        BY <2>1 DEF Contiguous
  <1>3. LedgerCount \in Nat
      BY CountIsNatural
  <1>4. LedgerCount' \in Nat
    <2>1. IsFiniteSet(Ids) /\ Ids' \in SUBSET Ids
        BY CountIsNatural
    <2>2. IsFiniteSet(Ids')
        BY <2>1, FS_Subset
    <2> QED
        BY <2>2, FS_CardinalityType DEF LedgerCount
  <1>5. Enough(x) => Enough(x)'
      BY <1>1, <1>3, <1>4, LedgerAssumption DEF Enough
  <1>6. /\ lop'[x].round = 2
        /\ \/ lpc'[x] = "bounds"
           \/ /\ lpc'[x] = "compact"
              /\ Contiguous(lop[x].from, lop[x].to) => Enough(x)
      BY DEF Pending
  <1>7. CASE lpc'[x] = "bounds"
      BY <1>6, <1>7 DEF Pending
  <1>8. CASE /\ lpc'[x] = "compact"
             /\ Contiguous(lop[x].from, lop[x].to) => Enough(x)
    <2>1. Contiguous(lop[x].from, lop[x].to)' => Enough(x)'
        BY <1>2, <1>5, <1>8
    <2> QED
        BY <1>6, <1>8, <2>1 DEF Pending
  <1> QED
      BY <1>6, <1>7, <1>8

\* The steps that leave the rows, and those that remove some, leave the row too
\* many to who has it, unless it is the writer of the step.
LEMMA OverIsOthers ==
    ASSUME BInv, LInv', strict', strict, NEW w \in Writers,
           \A x \in Writers \ {w} : lpc'[x] = lpc[x] /\ lop'[x] = lop[x],
           Ids' \subseteq Ids, LedgerCount' <= LedgerCount,
           Pending(w) => Pending(w)' \/ LedgerCount' <= MaxLedgerEvents
    PROVE  OverIsPending'
  <1>1. LedgerCount \in Nat /\ LedgerCount' \in Nat
    <2>1. IsFiniteSet(Ids) /\ LedgerCount \in Nat
        BY CountIsNatural DEF BInv, LInv
    <2>2. Ids' \in SUBSET Ids
        OBVIOUS
    <2>3. IsFiniteSet(Ids')
        BY <2>1, <2>2, FS_Subset
    <2> QED
        BY <2>1, <2>3, FS_CardinalityType DEF LedgerCount
  <1>2. CASE LedgerCount <= MaxLedgerEvents
      BY <1>1, <1>2, LedgerAssumption DEF OverIsPending
  <1>3. CASE \E x \in Writers : Pending(x)
    <2>1. PICK x \in Writers : Pending(x)
        BY <1>3
    <2>2. CASE x = w
        BY <2>1, <2>2 DEF OverIsPending
    <2>3. CASE x # w
      <3>1. Pending(x)'
          BY <2>1, <2>3, OthersStayPending DEF BInv, LInv
      <3> QED
          BY <3>1 DEF OverIsPending
    <2> QED
        BY <2>2, <2>3
  <1> QED
      BY <1>2, <1>3 DEF BInv, OverIsPending

LEMMA RowsUnchanged ==
    ASSUME TablesAreTyped, UNCHANGED tableVars
    PROVE  Ids' \subseteq Ids /\ LedgerCount' <= LedgerCount /\ LedgerCount' = LedgerCount
  <1>1. Ids' = Ids /\ LedgerCount' = LedgerCount
      BY DEF tableVars, Ids, LedgerCount
  <1>2. LedgerCount \in Nat
      BY CountIsNatural
  <1> QED
      BY <1>1, <1>2

LEMMA OverStaysPending ==
    ASSUME BInv, LInv', NEW w \in Writers, LedgerStep(w)
    PROVE  OverIsPending'
  <1> USE DEF BInv, LInv
  <1> SUFFICES ASSUME strict' PROVE OverIsPending'
      BY DEF OverIsPending
  <1>0. LedgerCount \in Nat
      BY CountIsNatural
  <1>1. CASE AppendDirectly(w) \/ RecordPurge(w) \/ CompactRange(w) \/ Busy(w)
      BY <1>1 DEF AppendDirectly, RecordPurge, CompactRange, Busy
  <1>2. CASE ResetLedger(w)
    <2>1. Ids' = {}
        BY <1>2 DEF ResetLedger, ResetTables, Ids
    <2>2. LedgerCount' = 0
        BY <2>1, FS_EmptySet DEF LedgerCount
    <2> QED
        BY <2>2, LedgerAssumption DEF OverIsPending
  <1>3. CASE AppendWithinBudget(w)
    <2>1. /\ strict /\ lpc[w] = "idle" /\ UNCHANGED tableVars
          /\ \A x \in Writers \ {w} : lpc'[x] = lpc[x] /\ lop'[x] = lop[x]
        BY <1>3 DEF AppendWithinBudget, WorkIsTyped
    <2>2. ~Pending(w)
        BY <2>1 DEF Pending
    <2> QED
        BY <2>1, <2>2, RowsUnchanged, OverIsOthers
  <1>4. CASE ReadBounds(w)
    <2>1. strict /\ lpc[w] = "bounds" /\ UNCHANGED tableVars
        BY <1>4 DEF ReadBounds
    <2>2. LedgerCount' = LedgerCount
        BY <2>1, RowsUnchanged
    <2>3. CASE LedgerCount <= MaxLedgerEvents
        BY <2>2, <2>3 DEF OverIsPending
    <2>4. CASE ~(LedgerCount <= MaxLedgerEvents)
      <3> DEFINE excess == LedgerCount - MaxLedgerEvents
      <3>1. /\ lop' = [lop EXCEPT ![w].from = Oldest, ![w].to = Oldest + excess - 1]
            /\ lpc' = [lpc EXCEPT ![w] = "compact"]
          BY <1>4, <2>4 DEF ReadBounds
      <3>2. \A x \in Writers \ {w} : lpc'[x] = lpc[x] /\ lop'[x] = lop[x]
          BY <3>1 DEF WorkIsTyped
      <3>3. /\ lpc'[w] = "compact" /\ lop'[w].round = lop[w].round
            /\ lop'[w].from = Oldest /\ lop'[w].to = Oldest + excess - 1
          BY <3>1 DEF WorkIsTyped
      <3>4. Oldest \in Int
          BY <3>3 DEF WorkIsTyped
      <3>5. Enough(w)'
          BY <1>0, <2>2, <3>3, <3>4, LedgerAssumption DEF Enough
      <3>6. Pending(w) => Pending(w)'
          BY <3>3, <3>5 DEF Pending
      <3> QED
          BY <2>1, <3>2, <3>6, RowsUnchanged, OverIsOthers
    <2> QED
        BY <2>3, <2>4
  <1>5. CASE CompactOldest(w)
    <2>1. /\ strict /\ lpc[w] = "compact" /\ Contiguous(lop[w].from, lop[w].to)
          /\ Compact(lop[w].from, lop[w].to) /\ AfterCompaction(w)
        BY <1>5 DEF CompactOldest
    <2>2. lop[w].from \in Int /\ lop[w].to \in Int
        BY DEF WorkIsTyped
    <2>3. /\ Ids' \subseteq Ids /\ LedgerCount' <= LedgerCount
          /\ LedgerCount' = LedgerCount - (lop[w].to - lop[w].from + 1)
        BY <2>1, <2>2, CompactedCount
    <2>4. \A x \in Writers \ {w} : lpc'[x] = lpc[x] /\ lop'[x] = lop[x]
        BY <2>1 DEF AfterCompaction, Return, WorkIsTyped
    <2>5. Pending(w) => LedgerCount' <= MaxLedgerEvents
        BY <2>1, <2>3 DEF Pending, Enough
    <2> QED
        BY <2>1, <2>3, <2>4, <2>5, OverIsOthers
  <1>6. CASE AppendNow(w)
    <2>1. CASE /\ lpc' = [lpc EXCEPT ![w] = "bounds"]
               /\ lop' = [lop EXCEPT ![w].round = 2]
      <3>1. lpc'[w] = "bounds" /\ lop'[w].round = 2
          BY <2>1 DEF WorkIsTyped
      <3> QED
          BY <3>1 DEF OverIsPending, Pending
    <2>2. CASE UNCHANGED tableVars /\ Return(w, "refused")
      <3>1. strict /\ lpc[w] = "append"
          BY <1>6 DEF AppendNow
      <3>2. \A x \in Writers \ {w} : lpc'[x] = lpc[x] /\ lop'[x] = lop[x]
          BY <2>2 DEF Return, WorkIsTyped
      <3>3. ~Pending(w)
          BY <3>1 DEF Pending
      <3> QED
          BY <2>2, <3>1, <3>2, <3>3, RowsUnchanged, OverIsOthers
    <2> QED
        BY <1>6, <2>1, <2>2 DEF AppendNow
  <1> QED
      BY <1>1, <1>2, <1>3, <1>4, <1>5, <1>6 DEF LedgerStep

\* However many writers append within the budget, each compacting what the
\* others added: as long as every append succeeds, the ledger is within its
\* limit when none is under way (append_within_ledger_budget).
THEOREM WithinBudgetAtRest == StoreSpec => []BudgetAtRest
  <1>1. StoreInit => BInv
    <2> SUFFICES ASSUME LedgerInit PROVE BInv
        BY DEF StoreInit
    <2>1. LedgerCount = 0
        BY FS_EmptySet DEF LedgerInit, LedgerCount, Ids
    <2>2. OverIsPending
        BY <2>1, LedgerAssumption DEF OverIsPending
    <2>3. lpc \in [Writers -> WriterSteps]
        BY DEF LedgerInit, WriterSteps
    <2> QED
        BY <2>2, <2>3, LInitially DEF BInv
  <1>2. BInv /\ [StoreNext]_storeVars => BInv'
    <2> SUFFICES ASSUME BInv, LedgerMoves PROVE BInv'
        BY StoreMovesTheLedger
    <2>1. CASE UNCHANGED ledgerVars
      <3>1. LInv'
          BY <2>1, UnchangedKeeps DEF BInv, ledgerVars, writerVars, LInv, WorkIsTyped
      <3>2. UNCHANGED <<rows, lpc, lop, strict>>
          BY <2>1 DEF ledgerVars, tableVars, writerVars
      <3> QED
          BY <3>1, <3>2 DEF BInv, OverIsPending, Pending, Contiguous, Enough, LedgerCount, Ids
    <2>2. CASE \E w \in Writers : LedgerStep(w)
      <3>1. PICK w \in Writers : LedgerStep(w)
          BY <2>2
      <3>2. LInv'
          BY <3>1, WriterKeeps DEF BInv
      <3>3. lpc' \in [Writers -> WriterSteps]
        <4>1. \/ lpc' = [lpc EXCEPT ![w] = "idle"] \/ lpc' = [lpc EXCEPT ![w] = "bounds"]
              \/ lpc' = [lpc EXCEPT ![w] = "compact"] \/ lpc' = [lpc EXCEPT ![w] = "append"]
          <5>1. CASE AppendDirectly(w) \/ RecordPurge(w) \/ CompactRange(w)
              BY <5>1 DEF AppendDirectly, RecordPurge, CompactRange, Return
          <5>2. CASE ResetLedger(w) \/ AppendWithinBudget(w) \/ Busy(w)
              BY <5>2 DEF ResetLedger, AppendWithinBudget, Busy, Return
          <5>3. CASE ReadBounds(w)
              BY <5>3 DEF ReadBounds, AfterCompaction, Return
          <5>4. CASE CompactOldest(w)
              BY <5>4 DEF CompactOldest, AfterCompaction, Return
          <5>5. CASE AppendNow(w)
              BY <5>5 DEF AppendNow, Return
          <5> QED
              BY <3>1, <5>1, <5>2, <5>3, <5>4, <5>5 DEF LedgerStep
        <4> QED
            BY <4>1 DEF BInv, WriterSteps
      <3> QED
          BY <3>1, <3>2, <3>3, OverStaysPending DEF BInv
    <2>3. CASE ResetTables /\ UNCHANGED writerVars
      <3>1. LInv'
          BY <2>3, ResetKeeps DEF BInv, writerVars, LInv, WorkIsTyped
      <3>2. Ids' = {}
          BY <2>3 DEF ResetTables, Ids
      <3>3. LedgerCount' = 0 /\ lpc' = lpc
          BY <2>3, <3>2, FS_EmptySet DEF LedgerCount, writerVars
      <3> QED
          BY <3>1, <3>3, LedgerAssumption DEF BInv, OverIsPending
    <2> QED
        BY <2>1, <2>2, <2>3 DEF LedgerMoves, LedgerNext
  <1>3. BInv => BudgetAtRest
      BY DEF BInv, OverIsPending, Pending, BudgetAtRest
  <1> QED
      BY <1>1, <1>2, <1>3, PTL DEF StoreSpec

-----------------------------------------------------------------------------
(* AnalyticalMemory: what a promotion does to the rows of a tier.          *)

\* A bucket begins no later than the times in it.
LEMMA BucketsBeginBefore ==
    ASSUME NEW a \in Nat, NEW w \in Nat \ {0}
    PROVE  (a \div w) * w \in Nat /\ (a \div w) * w <= a
  <1>1. a \div w \in Nat
      OBVIOUS
  <1>2. a = w * (a \div w) + (a % w) /\ a % w \in 0 .. w - 1
      OBVIOUS
  <1> QED
      BY <1>1, <1>2

LEMMA ImagesAreFinite ==
    ASSUME NEW S, IsFiniteSet(S), NEW T, NEW f \in [S -> T]
    PROVE  IsFiniteSet({f[x] : x \in S})
  <1>1. f \in Surjection(S, {f[x] : x \in S})
      BY DEF Surjection
  <1> QED
      BY <1>1, FS_Surjection

\* The greatest of a finite number of times is one of them; so is the least.
LEMMA GreatestIsOne ==
    ASSUME NEW S \in SUBSET Nat, NEW bound \in Nat, S # {}, \A a \in S : a <= bound
    PROVE  Max(S) \in S /\ \A a \in S : a <= Max(S)
  <1> DEFINE Beyond == {b \in Nat : \A a \in S : a <= b}
  <1>1. Beyond # {} /\ Beyond \in SUBSET Nat
      OBVIOUS
  <1>2. PICK b \in Beyond : \A c \in Beyond : b <= c
      BY <1>1, LeastExists
  <1>3. b \in S
    <2>1. CASE b = 0
      <3>1. PICK a \in S : a <= b
          BY <1>2
      <3>2. a = b
          BY <2>1, <3>1
      <3> QED
          BY <3>1, <3>2
    <2>2. CASE b # 0
      <3>1. b - 1 \in Nat /\ b - 1 \notin Beyond
          BY <1>2, <2>2
      <3>2. PICK a \in S : ~(a <= b - 1)
          BY <3>1
      <3>3. a = b
          BY <3>1, <3>2
      <3> QED
          BY <3>2, <3>3
    <2> QED
        BY <2>1, <2>2
  <1>4. \E m \in S : \A a \in S : m >= a
      BY <1>3
  <1> QED
      BY <1>4 DEF Max

LEMMA LeastIsOne ==
    ASSUME NEW S \in SUBSET Nat, S # {}
    PROVE  Min(S) \in S
  <1>1. \E m \in S : \A a \in S : m =< a
      BY LeastExists
  <1> QED
      BY <1>1 DEF Min

\* The rows of a tier, finitely many, each at a time.
RowsAreTimed(t) == IsFiniteSet(DOMAIN t) /\ \A r \in DOMAIN t : r.at \in Nat

\* All rows of a tier are older than a window at that time.
OlderThan(t, window, time) == \A r \in DOMAIN t : r.at + window <= time

LEMMA UpsertedRows ==
    ASSUME NEW dest, NEW tier, NEW old, NEW width \in Nat \ {0},
           RowsAreTimed(dest), IsFiniteSet(old), \A r \in old : r.at \in Nat,
           NEW window \in Nat, NEW time \in Nat,
           OlderThan(dest, window, time), \A r \in old : r.at + window <= time
    PROVE  LET next == Upserted(dest, tier, [r \in old |-> BucketOf(r, width)])
           IN  RowsAreTimed(next) /\ OlderThan(next, window, time)
  <1> DEFINE home == [r \in old |-> BucketOf(r, width)]
             next == Upserted(dest, tier, home)
  <1>1. DOMAIN next = DOMAIN dest \cup {home[r] : r \in old}
      BY DEF Upserted, Range
  <1>2. IsFiniteSet({home[r] : r \in old})
    <2>1. home \in [old -> {BucketOf(r, width) : r \in old}]
        OBVIOUS
    <2> HIDE DEF home
    <2> QED
        BY <2>1, ImagesAreFinite
  <1>3. ASSUME NEW r \in old
        PROVE  home[r].at \in Nat /\ home[r].at + window <= time
    <2>1. home[r].at = (r.at \div width) * width
        BY DEF BucketOf
    <2>2. (r.at \div width) * width \in Nat /\ (r.at \div width) * width <= r.at
        BY BucketsBeginBefore
    <2>3. r.at \in Nat /\ r.at + window <= time
        OBVIOUS
    <2> HIDE DEF home
    <2>4. home[r].at \in Nat /\ home[r].at <= r.at
        BY <2>1, <2>2
    <2> QED
        BY <2>3, <2>4
  <1> HIDE DEF home, next
  <1>4. IsFiniteSet(DOMAIN next)
      BY <1>1, <1>2, FS_Union DEF RowsAreTimed
  <1>5. \A r \in DOMAIN next : r.at \in Nat /\ r.at + window <= time
      BY <1>1, <1>3 DEF RowsAreTimed, OlderThan
  <1>6. RowsAreTimed(next) /\ OlderThan(next, window, time)
      BY <1>4, <1>5 DEF RowsAreTimed, OlderThan
  <1> QED
      BY <1>6 DEF next, home

LEMMA KeptRows ==
    ASSUME NEW tier, NEW gone, RowsAreTimed(tier)
    PROVE  RowsAreTimed(Kept(tier, gone)) /\ DOMAIN Kept(tier, gone) = DOMAIN tier \ gone
  <1>1. DOMAIN Kept(tier, gone) = DOMAIN tier \ gone
      BY DEF Kept
  <1>2. IsFiniteSet(DOMAIN tier \ gone)
      BY FS_Difference DEF RowsAreTimed
  <1> QED
      BY <1>1, <1>2 DEF RowsAreTimed

LEMMA AgedRows ==
    ASSUME NEW tier, NEW window \in Nat, NEW now \in Nat, RowsAreTimed(tier)
    PROVE  /\ Aged(tier, window, now) \subseteq DOMAIN tier
           /\ IsFiniteSet(Aged(tier, window, now))
           /\ \A r \in Aged(tier, window, now) : r.at \in Nat /\ r.at + window <= now
           /\ \A r \in DOMAIN tier \ Aged(tier, window, now) : ~(r.at + window <= now)
  <1>1. Aged(tier, window, now) \subseteq DOMAIN tier
      BY DEF Aged
  <1>2. IsFiniteSet(Aged(tier, window, now))
      BY <1>1, FS_Subset DEF RowsAreTimed
  <1> QED
      BY <1>1, <1>2 DEF Aged, RowsAreTimed

-----------------------------------------------------------------------------
(* AnalyticalMemory: the age of every row.                                 *)

AgesHold ==
    /\ RowsAreTimed(raw) /\ RowsAreTimed(hourly) /\ RowsAreTimed(daily)
    /\ latest \in Nat /\ settled \in Nat
    /\ OlderThan(hourly, Recent, latest) /\ OlderThan(daily, Medium, latest)
    /\ \A s \in DOMAIN span :
          /\ span[s].first \in Nat /\ span[s].first + Long <= latest
          /\ span[s].last \in Nat /\ span[s].last + Long <= latest
    /\ settled # NoTime =>
          /\ Aged(raw, Recent, settled) = {}
          /\ \A r \in DOMAIN hourly : ~(r.at + Medium <= settled)
          /\ \A r \in DOMAIN daily  : ~(r.at + Long <= settled)

LEMMA TheTimes ==
    /\ Times \subseteq Nat /\ NoTime \in Nat /\ NoTime \notin Times
    /\ Recent \in Nat /\ Medium \in Nat /\ Long \in Nat
    /\ Hour \in Nat \ {0} /\ Day \in Nat \ {0}
    /\ \A t \in SampleTimes : t \in Nat
  BY MemoryAssumption DEF Times, NoTime

\* The aggregate's first and last times are those of rows or of the aggregate.
LEMMA SpansAreOld ==
    ASSUME NEW gone, NEW time \in Nat,
           \A r \in gone : r.at \in Nat /\ r.at + Long <= time,
           \A s \in DOMAIN span :
              /\ span[s].first \in Nat /\ span[s].first + Long <= time
              /\ span[s].last \in Nat /\ span[s].last + Long <= time,
           NEW s \in DOMAIN Spans(gone)
    PROVE  /\ Spans(gone)[s].first \in Nat /\ Spans(gone)[s].first + Long <= time
           /\ Spans(gone)[s].last \in Nat /\ Spans(gone)[s].last + Long <= time
  <1> DEFINE starts == {r.at : r \in {x \in gone : x.scope = s}}
                       \cup (IF s \in DOMAIN span THEN {span[s].first, span[s].last} ELSE {})
  <1>1. s \in DOMAIN span \cup {r.scope : r \in gone}
        /\ Spans(gone)[s] = [first |-> Min(starts), last |-> Max(starts)]
      BY DEF Spans
  <1>2. starts # {} /\ \A a \in starts : a \in Nat /\ a + Long <= time
      BY <1>1
  <1> HIDE DEF starts
  <1>3. starts \in SUBSET Nat /\ \A a \in starts : a <= time
      BY <1>2, TheTimes
  <1>4. Min(starts) \in starts /\ Max(starts) \in starts
      BY <1>2, <1>3, LeastIsOne, GreatestIsOne
  <1> QED
      BY <1>1, <1>2, <1>4

\* One compaction: a row moves as far as its age allows, and no further.
LEMMA CompactionAges ==
    ASSUME AgesHold, NEW now \in Times, Compaction(now)
    PROVE  AgesHold' /\ DOMAIN raw' \subseteq DOMAIN raw
  <1> DEFINE oldRaw  == Aged(raw, Recent, now)
             hours   == Upserted(hourly, raw, [r \in oldRaw |-> BucketOf(r, Hour)])
             oldHour == Aged(hours, Medium, now)
             days    == Upserted(daily, hours, [r \in oldHour |-> BucketOf(r, Day)])
             oldDay  == Aged(days, Long, now)
             time    == Max({latest, now})
  <1>1. /\ raw' = Kept(raw, oldRaw) /\ hourly' = Kept(hours, oldHour)
        /\ daily' = Kept(days, oldDay) /\ span' = Spans(oldDay)
        /\ latest' = time /\ settled' = now
      BY DEF Compaction, Promoted
  <1>2. now \in Nat /\ latest \in Nat
      BY TheTimes DEF AgesHold
  <1>3. time \in Nat /\ now <= time /\ latest <= time
    <2>1. {latest, now} \in SUBSET Nat /\ {latest, now} # {}
          /\ \A a \in {latest, now} : a <= latest + now
        BY <1>2
    <2>2. Max({latest, now}) \in {latest, now} /\ \A a \in {latest, now} : a <= Max({latest, now})
        BY <1>2, <2>1, GreatestIsOne
    <2> QED
        BY <1>2, <2>2
  <1> HIDE DEF time
  <1>4. /\ IsFiniteSet(oldRaw)
        /\ \A r \in oldRaw : r.at \in Nat /\ r.at + Recent <= now
        /\ \A r \in DOMAIN raw \ oldRaw : ~(r.at + Recent <= now)
      BY <1>2, TheTimes, AgedRows DEF AgesHold
  <1> HIDE DEF oldRaw
  <1>5. RowsAreTimed(hours) /\ OlderThan(hours, Recent, time)
    <2>1. OlderThan(hourly, Recent, time) /\ \A r \in oldRaw : r.at + Recent <= time
      <3>1. \A r \in DOMAIN hourly : r.at \in Nat /\ r.at + Recent <= latest
          BY DEF AgesHold, OlderThan, RowsAreTimed
      <3> QED
          BY <3>1, <1>2, <1>3, <1>4, TheTimes DEF OlderThan
    <2> QED
        BY <1>3, <1>4, <2>1, TheTimes, UpsertedRows DEF AgesHold
  <1> HIDE DEF hours
  <1>6. /\ IsFiniteSet(oldHour)
        /\ \A r \in oldHour : r.at \in Nat /\ r.at + Medium <= now
        /\ \A r \in DOMAIN hours \ oldHour : ~(r.at + Medium <= now)
      BY <1>2, <1>5, TheTimes, AgedRows
  <1> HIDE DEF oldHour
  <1>7. RowsAreTimed(days) /\ OlderThan(days, Medium, time)
    <2>1. OlderThan(daily, Medium, time) /\ \A r \in oldHour : r.at + Medium <= time
      <3>1. \A r \in DOMAIN daily : r.at \in Nat /\ r.at + Medium <= latest
          BY DEF AgesHold, OlderThan, RowsAreTimed
      <3> QED
          BY <3>1, <1>2, <1>3, <1>6, TheTimes DEF OlderThan
    <2> QED
        BY <1>3, <1>6, <2>1, TheTimes, UpsertedRows DEF AgesHold
  <1> HIDE DEF days
  <1>8. /\ \A r \in oldDay : r.at \in Nat /\ r.at + Long <= now
        /\ \A r \in DOMAIN days \ oldDay : ~(r.at + Long <= now)
      BY <1>2, <1>7, TheTimes, AgedRows
  <1> HIDE DEF oldDay
  <1>9. /\ RowsAreTimed(Kept(raw, oldRaw)) /\ DOMAIN Kept(raw, oldRaw) = DOMAIN raw \ oldRaw
        /\ RowsAreTimed(Kept(hours, oldHour)) /\ DOMAIN Kept(hours, oldHour) = DOMAIN hours \ oldHour
        /\ RowsAreTimed(Kept(days, oldDay)) /\ DOMAIN Kept(days, oldDay) = DOMAIN days \ oldDay
      BY <1>5, <1>7, KeptRows DEF AgesHold
  <1>10. /\ OlderThan(Kept(hours, oldHour), Recent, time)
         /\ OlderThan(Kept(days, oldDay), Medium, time)
      BY <1>5, <1>7, <1>9 DEF OlderThan
  <1>11. \A s \in DOMAIN Spans(oldDay) :
            /\ Spans(oldDay)[s].first \in Nat /\ Spans(oldDay)[s].first + Long <= time
            /\ Spans(oldDay)[s].last \in Nat /\ Spans(oldDay)[s].last + Long <= time
    <2>1. \A r \in oldDay : r.at \in Nat /\ r.at + Long <= time
        BY <1>2, <1>3, <1>8, TheTimes
    <2>2. \A s \in DOMAIN span :
              /\ span[s].first \in Nat /\ span[s].first + Long <= time
              /\ span[s].last \in Nat /\ span[s].last + Long <= time
        BY <1>2, <1>3, TheTimes DEF AgesHold
    <2> QED
        BY <1>3, <2>1, <2>2, SpansAreOld
  <1>12. Aged(Kept(raw, oldRaw), Recent, now) = {}
    <2>1. ASSUME NEW r \in DOMAIN raw \ oldRaw PROVE ~(Recent <= now /\ r.at <= now - Recent)
      <3>1. r.at \in Nat /\ ~(r.at + Recent <= now)
          BY <1>4 DEF AgesHold, RowsAreTimed
      <3> QED
          BY <3>1, <1>2, TheTimes
    <2> QED
        BY <1>9, <2>1 DEF Aged
  <1>13. /\ \A r \in DOMAIN Kept(hours, oldHour) : ~(r.at + Medium <= now)
         /\ \A r \in DOMAIN Kept(days, oldDay) : ~(r.at + Long <= now)
      BY <1>6, <1>8, <1>9
  <1>14. AgesHold'
    <2>1. RowsAreTimed(raw)' /\ RowsAreTimed(hourly)' /\ RowsAreTimed(daily)'
        BY <1>1, <1>9 DEF RowsAreTimed
    <2>2. latest' \in Nat /\ settled' \in Nat
        BY <1>1, <1>2, <1>3
    <2>3. OlderThan(hourly, Recent, latest)' /\ OlderThan(daily, Medium, latest)'
        BY <1>1, <1>10 DEF OlderThan
    <2>4. \A s \in DOMAIN span' :
          /\ span'[s].first \in Nat /\ span'[s].first + Long <= latest'
          /\ span'[s].last \in Nat /\ span'[s].last + Long <= latest'
        BY <1>1, <1>11
    <2>5. /\ Aged(raw, Recent, settled)' = {}
          /\ \A r \in DOMAIN hourly' : ~(r.at + Medium <= settled')
          /\ \A r \in DOMAIN daily'  : ~(r.at + Long <= settled')
        BY <1>1, <1>12, <1>13 DEF Aged
    <2> QED
        BY <2>1, <2>2, <2>3, <2>4, <2>5 DEF AgesHold
  <1> QED
      BY <1>1, <1>9, <1>14

\* A new row is at its sample's time.
LEMMA RecordAges ==
    ASSUME AgesHold, NEW sample \in NewSample, Record(sample)
    PROVE  /\ AgesHold'
           /\ IsFiniteSet(DOMAIN raw') /\ Cardinality(DOMAIN raw') <= Cardinality(DOMAIN raw) + 1
  <1> DEFINE row == Row(sample)
  <1>1. row.at \in Nat
    <2> DEFINE base == [scope |-> sample.scope, at |-> sample.at, id |-> 0]
               number == CHOOSE n \in 1 .. MaxSamples :
                            /\ [base EXCEPT !.id = n] \notin DOMAIN raw
                            /\ \A k \in 1 .. n - 1 : [base EXCEPT !.id = k] \in DOMAIN raw
    <2>1. row = [base EXCEPT !.id = number]
        BY Zenon DEF Row
    <2> HIDE DEF row, number
    <2>2. row.at = sample.at
        BY <2>1
    <2>3. sample.at \in SampleTimes
        BY DEF NewSample
    <2> QED
        BY <2>2, <2>3, TheTimes, Zenon
  <1>2. /\ DOMAIN raw' = DOMAIN raw \cup {row}
        /\ settled' = NoTime /\ hourly' = hourly /\ daily' = daily /\ span' = span
        /\ latest' = latest
    <2>1. raw' = Put(raw, row, Statistic(sample.value))
        BY DEF Record
    <2>2. DOMAIN raw' = DOMAIN raw \cup {row}
        BY <2>1 DEF Put
    <2> QED
        BY <2>2 DEF Record
  <1> HIDE DEF row
  <1>3. IsFiniteSet(DOMAIN raw') /\ Cardinality(DOMAIN raw') <= Cardinality(DOMAIN raw) + 1
    <2>1. IsFiniteSet(DOMAIN raw) /\ Cardinality(DOMAIN raw) \in Nat
        BY FS_CardinalityType DEF AgesHold, RowsAreTimed
    <2> QED
        BY <1>2, <2>1, FS_AddElement
  <1>4. RowsAreTimed(raw)'
      BY <1>1, <1>2, <1>3 DEF AgesHold, RowsAreTimed
  <1>5. AgesHold'
      BY <1>2, <1>4, TheTimes DEF AgesHold, RowsAreTimed, OlderThan
  <1> QED
      BY <1>3, <1>5

\* A reset leaves no row.
LEMMA ClearingAges ==
    ASSUME ClearTiers
    PROVE  AgesHold' /\ DOMAIN raw' = {}
  <1>1. /\ DOMAIN raw' = {} /\ DOMAIN hourly' = {} /\ DOMAIN daily' = {} /\ DOMAIN span' = {}
        /\ latest' = 0 /\ settled' = NoTime
      BY DEF ClearTiers
  <1> QED
      BY <1>1, TheTimes, FS_EmptySet DEF AgesHold, RowsAreTimed, OlderThan

\* The samplers that counted and have not recorded yet.
Recording == {s \in Samplers : mpc[s] = "record"}

PipelineHolds ==
    /\ mpc \in [Samplers -> {"idle", "count", "record"}]
    /\ DOMAIN msample = Samplers
    /\ \A s \in Samplers : mpc[s] # "idle" => msample[s] \in NewSample

WithinTheCeiling ==
    Cardinality(DOMAIN raw) + Cardinality(Recording) <= MaxRawSamples + Cardinality(Samplers) - 1

MemoryHolds == AgesHold /\ PipelineHolds /\ (budgeted => WithinTheCeiling)

\* The numbers of rows and of samplers are numbers, however many they are.
LEMMA TheCounts ==
    ASSUME AgesHold
    PROVE  /\ Cardinality(DOMAIN raw) \in Nat /\ IsFiniteSet(DOMAIN raw)
           /\ IsFiniteSet(Recording) /\ Cardinality(Recording) \in Nat
           /\ Cardinality(Recording) <= Cardinality(Samplers)
           /\ Cardinality(Samplers) \in Nat /\ MaxRawSamples \in Nat \ {0}
  <1>1. IsFiniteSet(Samplers) /\ Recording \in SUBSET Samplers /\ MaxRawSamples \in Nat \ {0}
      BY MemoryAssumption DEF Recording
  <1> QED
      BY <1>1, FS_Subset, FS_CardinalityType DEF AgesHold, RowsAreTimed

\* No more rows and no more samplers between the count and the record.
LEMMA NoMoreRows ==
    ASSUME AgesHold, AgesHold', WithinTheCeiling, DOMAIN raw' \subseteq DOMAIN raw,
           Recording' \subseteq Recording
    PROVE  WithinTheCeiling'
  <1>1. /\ Cardinality(DOMAIN raw') <= Cardinality(DOMAIN raw)
        /\ Cardinality(Recording') <= Cardinality(Recording)
        /\ Cardinality(DOMAIN raw') \in Nat /\ Cardinality(Recording') \in Nat
    <2>1. DOMAIN raw' \in SUBSET DOMAIN raw /\ Recording' \in SUBSET Recording
        OBVIOUS
    <2>2. IsFiniteSet(DOMAIN raw) /\ IsFiniteSet(Recording)
        BY TheCounts
    <2>3. IsFiniteSet(DOMAIN raw') /\ Cardinality(DOMAIN raw') <= Cardinality(DOMAIN raw)
        BY <2>1, <2>2, FS_Subset
    <2>4. IsFiniteSet(Recording') /\ Cardinality(Recording') <= Cardinality(Recording)
        BY <2>1, <2>2, FS_Subset
    <2> QED
        BY <2>3, <2>4, FS_CardinalityType
  <1> QED
      BY <1>1, TheCounts DEF WithinTheCeiling

LEMMA CompactionKeeps ==
    ASSUME MemoryHolds, NEW now \in Times, Compaction(now), budgeted' = budgeted,
           PipelineHolds', Recording' \subseteq Recording
    PROVE  MemoryHolds'
  <1>1. AgesHold' /\ DOMAIN raw' \subseteq DOMAIN raw
      BY CompactionAges DEF MemoryHolds
  <1> QED
      BY <1>1, NoMoreRows DEF MemoryHolds

LEMMA ClearingKeeps ==
    ASSUME MemoryHolds, ClearTiers, budgeted' = budgeted, mpc' = mpc, msample' = msample
    PROVE  MemoryHolds'
  <1>1. AgesHold' /\ DOMAIN raw' = {}
      BY ClearingAges
  <1>2. Recording' = Recording /\ PipelineHolds'
      BY DEF Recording, PipelineHolds, MemoryHolds
  <1>3. WithinTheCeiling'
      BY <1>1, <1>2, TheCounts, FS_EmptySet DEF WithinTheCeiling, MemoryHolds
  <1> QED
      BY <1>1, <1>2, <1>3 DEF MemoryHolds

LEMMA DirectRecordKeeps ==
    ASSUME MemoryHolds, NEW s \in Samplers, RecordSample(s)
    PROVE  MemoryHolds'
  <1>1. budgeted' = FALSE /\ mpc' = mpc /\ msample' = msample
        /\ \E x \in NewSample : Record(x)
      BY DEF RecordSample
  <1>2. AgesHold'
      BY <1>1, RecordAges DEF MemoryHolds
  <1> QED
      BY <1>1, <1>2 DEF MemoryHolds, PipelineHolds

LEMMA SamplerKeeps ==
    ASSUME MemoryHolds, NEW s \in Samplers, MemoryStep(s)
    PROVE  MemoryHolds'
  <1>0. AgesHold /\ PipelineHolds
      BY DEF MemoryHolds
  <1>1. CASE RecordSample(s)
      BY <1>1, DirectRecordKeeps
  <1>2. CASE CompactMemory(s)
    <2>1. PICK now \in Times : Compaction(now)
        BY <1>2 DEF CompactMemory
    <2>2. budgeted' = budgeted /\ mpc' = mpc /\ msample' = msample
        BY <1>2 DEF CompactMemory
    <2>3. PipelineHolds' /\ Recording' = Recording
        BY <1>0, <2>2 DEF PipelineHolds, Recording
    <2> QED
        BY <2>1, <2>2, <2>3, CompactionKeeps
  <1>3. CASE ResetMemory(s)
      BY <1>3, ClearingKeeps DEF ResetMemory
  <1>4. CASE RecordWithinBudget(s)
    <2>1. PICK now \in Times : Compaction(now)
        BY <1>4 DEF RecordWithinBudget
    <2>2. PICK x \in NewSample : msample' = [msample EXCEPT ![s] = x]
        BY <1>4 DEF RecordWithinBudget
    <2>3. budgeted' = budgeted /\ mpc' = [mpc EXCEPT ![s] = "count"]
        BY <1>4 DEF RecordWithinBudget
    <2>4. PipelineHolds' /\ Recording' \subseteq Recording
        BY <1>0, <2>2, <2>3 DEF PipelineHolds, Recording
    <2> QED
        BY <2>1, <2>3, <2>4, CompactionKeeps
  <1>5. CASE CountRaw(s)
    <2>1. /\ UNCHANGED <<tierVars, recorded, latest, settled, budgeted>> /\ mpc[s] = "count"
          /\ mpc' = [mpc EXCEPT ![s] =
                        IF Cardinality(DOMAIN raw) >= MaxRawSamples THEN "idle" ELSE "record"]
          /\ msample' = [msample EXCEPT ![s] = IF mpc'[s] = "idle" THEN NoSample ELSE @]
        BY <1>5 DEF CountRaw
    <2>2. AgesHold' /\ raw' = raw
        BY <1>0, <2>1 DEF AgesHold, RowsAreTimed, OlderThan, tierVars
    <2>3. CASE Cardinality(DOMAIN raw) >= MaxRawSamples
      <3>1. mpc' = [mpc EXCEPT ![s] = "idle"] /\ mpc'[s] = "idle"
            /\ msample' = [msample EXCEPT ![s] = NoSample]
          BY <1>0, <2>1, <2>3 DEF PipelineHolds
      <3>2. PipelineHolds' /\ Recording' \subseteq Recording
          BY <1>0, <3>1 DEF PipelineHolds, Recording
      <3> QED
          BY <1>0, <2>1, <2>2, <3>2, NoMoreRows DEF MemoryHolds
    <2>4. CASE ~(Cardinality(DOMAIN raw) >= MaxRawSamples)
      <3>1. mpc' = [mpc EXCEPT ![s] = "record"] /\ mpc'[s] # "idle"
            /\ msample' = [msample EXCEPT ![s] = msample[s]]
          BY <1>0, <2>1, <2>4 DEF PipelineHolds
      <3>2. PipelineHolds'
          BY <1>0, <2>1, <3>1 DEF PipelineHolds
      <3>3. WithinTheCeiling'
        <4>1. /\ Cardinality(Recording') <= Cardinality(Samplers)
              /\ Cardinality(Recording') \in Nat /\ Cardinality(Samplers) \in Nat
          <5>1. Recording' \in SUBSET Samplers /\ IsFiniteSet(Samplers)
              BY MemoryAssumption DEF Recording
          <5> QED
              BY <5>1, FS_Subset, FS_CardinalityType
        <4> QED
            BY <1>0, <2>2, <2>4, <4>1, TheCounts DEF WithinTheCeiling
      <3> QED
          BY <2>2, <3>2, <3>3 DEF MemoryHolds
    <2> QED
        BY <2>3, <2>4
  <1>6. CASE RecordNow(s)
    <2>1. /\ mpc[s] = "record" /\ Record(msample[s]) /\ budgeted' = budgeted
          /\ mpc' = [mpc EXCEPT ![s] = "idle"]
          /\ msample' = [msample EXCEPT ![s] = NoSample]
        BY <1>6 DEF RecordNow
    <2>2. /\ AgesHold' /\ IsFiniteSet(DOMAIN raw')
          /\ Cardinality(DOMAIN raw') <= Cardinality(DOMAIN raw) + 1
        BY <1>0, <2>1, RecordAges DEF PipelineHolds
    <2>3. PipelineHolds' /\ Recording' = Recording \ {s} /\ s \in Recording
        BY <1>0, <2>1 DEF PipelineHolds, Recording
    <2>4. WithinTheCeiling => WithinTheCeiling'
      <3>1. Cardinality(Recording') = Cardinality(Recording) - 1
          BY <1>0, <2>3, TheCounts, FS_RemoveElement
      <3>2. Cardinality(DOMAIN raw') \in Nat
          BY <2>2, FS_CardinalityType
      <3> QED
          BY <1>0, <2>2, <3>1, <3>2, TheCounts DEF WithinTheCeiling
    <2> QED
        BY <2>1, <2>2, <2>3, <2>4 DEF MemoryHolds
  <1>7. CASE SamplerBusy(s)
    <2>1. /\ UNCHANGED <<tierVars, recorded, latest, settled, budgeted>>
          /\ mpc' = [mpc EXCEPT ![s] = "idle"]
          /\ msample' = [msample EXCEPT ![s] = NoSample]
        BY <1>7 DEF SamplerBusy
    <2>2. AgesHold' /\ raw' = raw
        BY <1>0, <2>1 DEF AgesHold, RowsAreTimed, OlderThan, tierVars
    <2>3. PipelineHolds' /\ Recording' \subseteq Recording
        BY <1>0, <2>1 DEF PipelineHolds, Recording
    <2> QED
        BY <1>0, <2>1, <2>2, <2>3, NoMoreRows DEF MemoryHolds
  <1> QED
      BY <1>1, <1>2, <1>3, <1>4, <1>5, <1>6, <1>7 DEF MemoryStep

LEMMA MemoryStays ==
    ASSUME MemoryHolds, UNCHANGED memoryVars
    PROVE  MemoryHolds'
  <1>1. AgesHold' /\ PipelineHolds' /\ raw' = raw /\ Recording' = Recording /\ budgeted' = budgeted
      BY DEF memoryVars, tierVars, MemoryHolds, AgesHold, RowsAreTimed, OlderThan, PipelineHolds,
         Recording
  <1> QED
      BY <1>1 DEF MemoryHolds, WithinTheCeiling

LEMMA MemoryStoreStep == MemoryHolds /\ [StoreNext]_storeVars => MemoryHolds'
  <1> SUFFICES ASSUME MemoryHolds, [StoreNext]_storeVars PROVE MemoryHolds'
      OBVIOUS
  <1>1. CASE UNCHANGED storeVars
      BY <1>1, MemoryStays DEF storeVars, layerVars
  <1>2. CASE LedgerWork \/ CacheWork \/ OpenWork
      BY <1>2, MemoryStays DEF LedgerWork, CacheWork, OpenWork, layerVars
  <1>3. CASE MemoryWork
      BY <1>3, SamplerKeeps DEF MemoryWork, MemoryNext
  <1>4. CASE LayerWork
    <2>1. CASE WriteBeside
        BY <2>1, MemoryStays, DirectRecordKeeps DEF WriteBeside
    <2>2. ASSUME NEW m \in Managers, ManagerStep(m)
          PROVE  MemoryHolds'
      <3>1. CASE Degrade(m)
        <4>1. PICK now \in Times : Compaction(now)
            BY <3>1 DEF Degrade
        <4>2. budgeted' = budgeted /\ mpc' = mpc /\ msample' = msample
            BY <3>1 DEF Degrade
        <4>3. PipelineHolds' /\ Recording' = Recording
            BY <4>2 DEF MemoryHolds, PipelineHolds, Recording
        <4> QED
            BY <4>1, <4>2, <4>3, CompactionKeeps
      <3>2. CASE ResetSamples(m)
          BY <3>2, ClearingKeeps DEF ResetSamples
      <3>3. CASE \/ RebuildWithinBudget(m) \/ CheckRows(m) \/ CountCeiling(m) \/ BeginReset(m)
                 \/ ResetCurrentState(m) \/ ResetEvents(m) \/ ResetFails(m)
          BY <3>3, MemoryStays DEF RebuildWithinBudget, CheckRows, CountCeiling, BeginReset,
             ResetCurrentState, ResetEvents, ResetFails, layerVars
      <3> QED
          BY <2>2, <3>1, <3>2, <3>3 DEF ManagerStep
    <2> QED
        BY <1>4, <2>1, <2>2 DEF LayerWork
  <1> QED
      BY <1>1, <1>2, <1>3, <1>4 DEF StoreNext

LEMMA MemoryStarts == StoreInit => MemoryHolds
  <1> SUFFICES ASSUME StoreInit PROVE MemoryHolds
      OBVIOUS
  <1>1. /\ DOMAIN raw = {} /\ DOMAIN hourly = {} /\ DOMAIN daily = {} /\ DOMAIN span = {}
        /\ latest = 0 /\ settled = NoTime
        /\ mpc = [s \in Samplers |-> "idle"] /\ msample = [s \in Samplers |-> NoSample]
      BY DEF StoreInit, MemoryInit
  <1>2. AgesHold
      BY <1>1, TheTimes, FS_EmptySet DEF AgesHold, RowsAreTimed, OlderThan
  <1>3. PipelineHolds /\ Recording = {}
      BY <1>1 DEF PipelineHolds, Recording
  <1>4. WithinTheCeiling
      BY <1>1, <1>2, <1>3, TheCounts, FS_EmptySet DEF WithinTheCeiling
  <1> QED
      BY <1>2, <1>3, <1>4 DEF MemoryHolds

\* However samples are backdated and compactions interleave, a row is in a
\* coarser tier only when it is older than the finer one's window, right after
\* a compaction none is in a tier it has outgrown, and samplers that race for
\* the budget exceed it by less than their number (compact,
\* record_sample_within_rollup_budget).
THEOREM RowsAgeIntoTheirTiers == StoreSpec => []TiersMatchAges
  <1>1. MemoryHolds => TiersMatchAges
      BY DEF MemoryHolds, AgesHold, OlderThan, WithinTheCeiling, Recording, TiersMatchAges
  <1> QED
      BY <1>1, MemoryStarts, MemoryStoreStep, PTL DEF StoreSpec

-----------------------------------------------------------------------------
(* Induction over finite sets.                                             *)

\* What holds of a set when it holds of all sets with one member less holds of
\* all finite sets.
LEMMA SetBySet ==
    ASSUME NEW X, IsFiniteSet(X), NEW T,
           \A s \in SUBSET X : (\A x \in s : s \ {x} \in T) => s \in T
    PROVE  \A s \in SUBSET X : s \in T
  <1> DEFINE Missing == {n \in Nat : \E s \in SUBSET X : s \notin T /\ Cardinality(s) = n}
  <1>1. ASSUME NEW s \in SUBSET X
        PROVE  IsFiniteSet(s) /\ Cardinality(s) \in Nat
      BY <1>1, FS_Subset, FS_CardinalityType
  <1>2. SUFFICES ASSUME Missing # {} PROVE FALSE
      BY <1>1
  <1>3. PICK m \in Missing : \A n \in Missing : m <= n
    <2>1. Missing \in SUBSET Nat
        OBVIOUS
    <2> HIDE DEF Missing
    <2> QED
        BY <1>2, <2>1, LeastExists
  <1>4. PICK s \in SUBSET X : s \notin T /\ Cardinality(s) = m
      OBVIOUS
  <1>5. PICK x \in s : s \ {x} \notin T
      BY <1>4
  <1>6. Cardinality(s \ {x}) = m - 1 /\ m - 1 \in Nat
      BY <1>1, <1>4, <1>5, FS_RemoveElement
  <1>7. m - 1 \in Missing
      BY <1>5, <1>6
  <1> QED
      BY <1>3, <1>7

-----------------------------------------------------------------------------
(* SumOver is what its definition says.                                    *)

First(s) == CHOOSE x \in s : TRUE

IsRunning(g, f, X) ==
    g = [s \in SUBSET X |-> IF s = {} THEN 0 ELSE f[First(s)] + g[s \ {First(s)}]]

Running(f, X) == CHOOSE g : IsRunning(g, f, X)

\* SumOver takes the members in some order, First by First.
LEMMA SumIsChosen ==
    ASSUME NEW f, NEW X
    PROVE  SumOver(f, X) = Running(f, X)[X]
  BY DEF SumOver, FoldFunctionOnSet, MapThenFoldSet, Running, IsRunning, First

\* For a finite set there is such a function: one for the sets of at most n
\* members gives one for those of n + 1.
LEMMA RunningExists ==
    ASSUME NEW f, NEW X, IsFiniteSet(X)
    PROVE  IsRunning(Running(f, X), f, X)
  <1> DEFINE
        Small(n) == {s \in SUBSET X : Cardinality(s) <= n}
        Upto(n, g) == g = [s \in Small(n) |->
            IF s = {} THEN 0 ELSE f[First(s)] + g[s \ {First(s)}]]
        T == {n \in Nat : \E g : Upto(n, g)}
  <1>1. ASSUME NEW s \in SUBSET X
        PROVE  IsFiniteSet(s) /\ Cardinality(s) \in Nat /\ Cardinality(s) <= Cardinality(X)
      BY <1>1, FS_Subset, FS_CardinalityType
  <1>2. Cardinality(X) \in Nat
      BY FS_CardinalityType
  <1>3. 0 \in T
    <2> DEFINE g == [s \in Small(0) |-> 0]
    <2>1. \A s \in Small(0) : s = {}
        BY <1>1, FS_EmptySet
    <2>2. g = [s \in Small(0) |-> IF s = {} THEN 0 ELSE f[First(s)] + g[s \ {First(s)}]]
        BY <2>1
    <2>3. \E h : Upto(0, h)
        BY <2>2, Zenon
    <2> HIDE DEF Upto
    <2> QED
        BY <2>3
  <1>4. ASSUME NEW n \in Nat, n \in T
        PROVE  n + 1 \in T
    <2>1. PICK g : Upto(n, g)
        BY <1>4
    <2> DEFINE h == [s \in Small(n + 1) |->
                       IF s = {} THEN 0 ELSE f[First(s)] + g[s \ {First(s)}]]
    <2>2. ASSUME NEW s \in Small(n + 1), s # {}
          PROVE  s \ {First(s)} \in Small(n) /\ s \ {First(s)} \in Small(n + 1)
      <3>1. First(s) \in s
          BY <2>2 DEF First
      <3>2. Cardinality(s \ {First(s)}) = Cardinality(s) - 1
          BY <1>1, <3>1, FS_RemoveElement
      <3> QED
          BY <1>1, <3>2
    <2>3. ASSUME NEW s \in Small(n)
          PROVE  s \in Small(n + 1) /\ h[s] = g[s]
      <3>1. s \in Small(n + 1)
          BY <1>1
      <3>2. g[s] = IF s = {} THEN 0 ELSE f[First(s)] + g[s \ {First(s)}]
          BY <2>1
      <3> QED
          BY <3>1, <3>2
    <2>4. h = [s \in Small(n + 1) |-> IF s = {} THEN 0 ELSE f[First(s)] + h[s \ {First(s)}]]
        BY <2>2, <2>3
    <2>5. \E k : Upto(n + 1, k)
        BY <2>4, Zenon
    <2> HIDE DEF Upto
    <2> QED
        BY <2>5
  <1>5. Cardinality(X) \in T
    <2> DEFINE Missing == {n \in Nat : n \notin T}
    <2>1. SUFFICES ASSUME Missing # {} PROVE FALSE
        BY <1>2
    <2>2. PICK m \in Missing : \A n \in Missing : m <= n
      <3>1. Missing \in SUBSET Nat
          OBVIOUS
      <3> HIDE DEF Missing
      <3> QED
          BY <2>1, <3>1, LeastExists
    <2> HIDE DEF T
    <2>3. m # 0 /\ m - 1 \in Nat
        BY <1>3
    <2>4. m - 1 \in T
        BY <2>2, <2>3
    <2>5. (m - 1) + 1 \in T
        BY <1>4, <2>3, <2>4
    <2> QED
        BY <2>5
  <1>6. Small(Cardinality(X)) = SUBSET X
      BY <1>1
  <1>7. \E g : IsRunning(g, f, X)
    <2>1. PICK g : Upto(Cardinality(X), g)
        BY <1>5
    <2> QED
        BY <1>6, <2>1 DEF IsRunning
  <1> QED
      BY <1>7, Zenon DEF Running

-----------------------------------------------------------------------------
(* The algebra of sums.                                                    *)

NatValued(f, X) == \A x \in X : f[x] \in Nat

\* Sums of numbers are numbers.
LEMMA SumsAreNumbers ==
    ASSUME NEW f, NEW X, IsFiniteSet(X), NatValued(f, X), NEW g, IsRunning(g, f, X)
    PROVE  \A s \in SUBSET X : g[s] \in Nat
  <1> DEFINE T == {s \in SUBSET X : g[s] \in Nat}
  <1>1. ASSUME NEW s \in SUBSET X, \A x \in s : s \ {x} \in T
        PROVE  s \in T
    <2>1. CASE s = {}
        BY <2>1 DEF IsRunning
    <2>2. CASE s # {}
      <3>1. First(s) \in s
          BY <2>2 DEF First
      <3>2. g[s] = f[First(s)] + g[s \ {First(s)}]
          BY <2>2 DEF IsRunning
      <3>3. g[s \ {First(s)}] \in Nat /\ f[First(s)] \in Nat
          BY <1>1, <3>1 DEF NatValued
      <3> QED
          BY <3>2, <3>3
    <2> QED
        BY <2>1, <2>2
  <1>2. \A s \in SUBSET X : s \in T
    <2> HIDE DEF T
    <2> QED
        BY <1>1, SetBySet
  <1> QED
      BY <1>2

\* In whatever order the members are taken, each adds its value.
LEMMA AnyMemberFirst ==
    ASSUME NEW f, NEW X, IsFiniteSet(X), NatValued(f, X), NEW g, IsRunning(g, f, X)
    PROVE  \A s \in SUBSET X : \A x \in s : g[s] = f[x] + g[s \ {x}]
  <1> DEFINE T == {s \in SUBSET X : \A x \in s : g[s] = f[x] + g[s \ {x}]}
  <1>1. ASSUME NEW s \in SUBSET X, \A x \in s : s \ {x} \in T
        PROVE  s \in T
    <2>1. ASSUME NEW x \in s
          PROVE  g[s] = f[x] + g[s \ {x}]
      <3>1. PICK p \in s : g[s] = f[p] + g[s \ {p}]
        <4>1. First(s) \in s
            BY DEF First
        <4> QED
            BY <4>1 DEF IsRunning
      <3>2. CASE x = p
          BY <3>1, <3>2
      <3>3. CASE x # p
        <4> DEFINE both == (s \ {p}) \ {x}
        <4>1. both = (s \ {x}) \ {p} /\ both \in SUBSET X
            OBVIOUS
        <4>2. g[s \ {p}] = f[x] + g[both]
            BY <1>1, <3>3
        <4>3. g[s \ {x}] = f[p] + g[both]
            BY <1>1, <3>3, <4>1
        <4>4. g[both] \in Nat
            BY <4>1, SumsAreNumbers
        <4>5. f[x] \in Nat /\ f[p] \in Nat
            BY DEF NatValued
        <4> HIDE DEF both
        <4> QED
            BY <3>1, <4>2, <4>3, <4>4, <4>5
      <3> QED
          BY <3>2, <3>3
    <2> QED
        BY <2>1
  <1>2. \A s \in SUBSET X : s \in T
    <2> HIDE DEF T
    <2> QED
        BY <1>1, SetBySet
  <1> QED
      BY <1>2

\* A sum does not depend on the set its terms were counted in.
LEMMA RunningOfPart ==
    ASSUME NEW f, NEW X, IsFiniteSet(X), NEW P \in SUBSET X
    PROVE  Running(f, X)[P] = SumOver(f, P)
  <1> DEFINE g == Running(f, X)
             h == Running(f, P)
             T == {s \in SUBSET P : g[s] = h[s]}
  <1>1. IsFiniteSet(P)
      BY FS_Subset
  <1>2. IsRunning(g, f, X) /\ IsRunning(h, f, P)
      BY <1>1, RunningExists
  <1>3. SumOver(f, P) = h[P]
      BY SumIsChosen
  <1> HIDE DEF g, h
  <1>4. ASSUME NEW s \in SUBSET P, \A x \in s : s \ {x} \in T
        PROVE  s \in T
    <2>1. CASE s = {}
        BY <1>2, <2>1 DEF IsRunning
    <2>2. CASE s # {}
      <3>1. First(s) \in s
          BY <2>2 DEF First
      <3>2. g[s] = f[First(s)] + g[s \ {First(s)}]
          BY <1>2, <2>2 DEF IsRunning
      <3>3. h[s] = f[First(s)] + h[s \ {First(s)}]
          BY <1>2, <2>2 DEF IsRunning
      <3> QED
          BY <1>4, <3>1, <3>2, <3>3
    <2> QED
        BY <2>1, <2>2
  <1>5. \A s \in SUBSET P : s \in T
    <2> HIDE DEF T
    <2> QED
        BY <1>1, <1>4, SetBySet
  <1> QED
      BY <1>3, <1>5 DEF g

\* A sum is that of all members but one, and that one.
LEMMA SumTakesOne ==
    ASSUME NEW f, NEW X, IsFiniteSet(X), NatValued(f, X)
    PROVE  /\ SumOver(f, X) \in Nat
           /\ X = {} => SumOver(f, X) = 0
           /\ \A x \in X : SumOver(f, X) = f[x] + SumOver(f, X \ {x})
  <1> DEFINE g == Running(f, X)
  <1>1. IsRunning(g, f, X)
      BY RunningExists
  <1>2. SumOver(f, X) = g[X] /\ \A x \in X : SumOver(f, X \ {x}) = g[X \ {x}]
      BY RunningOfPart
  <1> HIDE DEF g
  <1>3. g[X] \in Nat
      BY <1>1, SumsAreNumbers
  <1>4. X = {} => g[X] = 0
      BY <1>1 DEF IsRunning
  <1>5. \A x \in X : g[X] = f[x] + g[X \ {x}]
      BY <1>1, AnyMemberFirst
  <1> QED
      BY <1>2, <1>3, <1>4, <1>5

\* A sum of sums is the sum of both.
LEMMA SumOfBoth ==
    ASSUME NEW f, NEW g, NEW h, NEW X, IsFiniteSet(X), NatValued(f, X), NatValued(g, X),
           \A x \in X : h[x] = f[x] + g[x]
    PROVE  SumOver(h, X) = SumOver(f, X) + SumOver(g, X)
  <1> DEFINE T == {s \in SUBSET X : SumOver(h, s) = SumOver(f, s) + SumOver(g, s)}
  <1>1. ASSUME NEW s \in SUBSET X
        PROVE  IsFiniteSet(s) /\ NatValued(f, s) /\ NatValued(g, s) /\ NatValued(h, s)
      BY FS_Subset DEF NatValued
  <1>2. ASSUME NEW s \in SUBSET X, \A x \in s : s \ {x} \in T
        PROVE  s \in T
    <2>1. CASE s = {}
        BY <1>1, <2>1, SumTakesOne
    <2>2. CASE s # {}
      <3>1. PICK x \in s : TRUE
          BY <2>2
      <3>2. /\ SumOver(h, s) = h[x] + SumOver(h, s \ {x})
            /\ SumOver(f, s) = f[x] + SumOver(f, s \ {x})
            /\ SumOver(g, s) = g[x] + SumOver(g, s \ {x})
          BY <1>1, SumTakesOne
      <3>3. SumOver(f, s \ {x}) \in Nat /\ SumOver(g, s \ {x}) \in Nat
          BY <1>1, SumTakesOne
      <3>4. SumOver(h, s \ {x}) = SumOver(f, s \ {x}) + SumOver(g, s \ {x})
          BY <1>2
      <3>5. f[x] \in Nat /\ g[x] \in Nat /\ h[x] = f[x] + g[x]
          BY DEF NatValued
      <3> QED
          BY <3>2, <3>3, <3>4, <3>5
    <2> QED
        BY <2>1, <2>2
  <1>3. \A s \in SUBSET X : s \in T
    <2> HIDE DEF T
    <2> QED
        BY <1>2, SetBySet
  <1> QED
      BY <1>3

\* Terms that are zero add nothing.
LEMMA SumOfZeros ==
    ASSUME NEW f, NEW X, IsFiniteSet(X), \A x \in X : f[x] = 0
    PROVE  SumOver(f, X) = 0
  <1>1. NatValued(f, X)
      BY DEF NatValued
  <1>2. SumOver(f, X) = SumOver(f, X) + SumOver(f, X)
      BY <1>1, SumOfBoth
  <1> QED
      BY <1>1, <1>2, SumTakesOne

\* Sums of equal terms are equal.
LEMMA SumOfEquals ==
    ASSUME NEW f, NEW g, NEW X, IsFiniteSet(X), NatValued(f, X), \A x \in X : g[x] = f[x]
    PROVE  SumOver(g, X) = SumOver(f, X)
  <1> DEFINE zero == [x \in X |-> 0]
  <1>1. NatValued(zero, X) /\ SumOver(zero, X) = 0
      BY SumOfZeros DEF NatValued
  <1>2. \A x \in X : g[x] = f[x] + zero[x]
      BY DEF NatValued
  <1> HIDE DEF zero
  <1>3. SumOver(g, X) = SumOver(f, X) + 0
      BY <1>1, <1>2, SumOfBoth
  <1> QED
      BY <1>3, SumTakesOne

\* A sum over two sets that do not meet is that over each.
LEMMA SumOfTwoSets ==
    ASSUME NEW f, NEW X, NEW Y, IsFiniteSet(X), IsFiniteSet(Y), X \cap Y = {},
           NatValued(f, X \cup Y)
    PROVE  SumOver(f, X \cup Y) = SumOver(f, X) + SumOver(f, Y)
  <1> DEFINE T == {s \in SUBSET Y : SumOver(f, X \cup s) = SumOver(f, X) + SumOver(f, s)}
  <1>1. ASSUME NEW s \in SUBSET Y
        PROVE  /\ IsFiniteSet(s) /\ IsFiniteSet(X \cup s)
               /\ NatValued(f, s) /\ NatValued(f, X \cup s) /\ NatValued(f, X)
      BY FS_Subset, FS_Union DEF NatValued
  <1>2. ASSUME NEW s \in SUBSET Y, \A x \in s : s \ {x} \in T
        PROVE  s \in T
    <2>0. SumOver(f, X) \in Nat
        BY <1>1, SumTakesOne
    <2>1. CASE s = {}
      <3>1. SumOver(f, s) = 0 /\ X \cup s = X
          BY <1>1, <2>1, SumTakesOne
      <3> QED
          BY <2>0, <3>1
    <2>2. CASE s # {}
      <3>1. PICK x \in s : TRUE
          BY <2>2
      <3>2. (X \cup s) \ {x} = X \cup (s \ {x}) /\ x \in X \cup s
          OBVIOUS
      <3>3. /\ SumOver(f, s) = f[x] + SumOver(f, s \ {x})
            /\ SumOver(f, X \cup s) = f[x] + SumOver(f, X \cup (s \ {x}))
          BY <1>1, <3>2, SumTakesOne
      <3>4. SumOver(f, X \cup (s \ {x})) = SumOver(f, X) + SumOver(f, s \ {x})
          BY <1>2
      <3>5. SumOver(f, s \ {x}) \in Nat /\ f[x] \in Nat
          BY <1>1, SumTakesOne DEF NatValued
      <3> QED
          BY <2>0, <3>3, <3>4, <3>5
    <2> QED
        BY <2>1, <2>2
  <1>3. \A s \in SUBSET Y : s \in T
    <2> HIDE DEF T
    <2> QED
        BY <1>2, SetBySet
  <1> QED
      BY <1>3

\* Each term has a place, and each place the sum of its terms.
SumsOfGroups(g, Y, f, X, home) ==
    /\ \A x \in X : home[x] \in Y
    /\ \A y \in Y : g[y] = SumOver(f, {x \in X : home[x] = y})

\* The sum of the sums of groups is the sum of all that are in them.
LEMMA SumOfGroups ==
    ASSUME NEW f, NEW g, NEW X, NEW Y, NEW home, IsFiniteSet(X), IsFiniteSet(Y),
           NatValued(f, X), SumsOfGroups(g, Y, f, X, home)
    PROVE  SumOver(g, Y) = SumOver(f, X)
  <1> DEFINE From(s) == {x \in X : home[x] \in s}
             T == {s \in SUBSET Y : SumOver(g, s) = SumOver(f, From(s))}
  <1>0. /\ \A x \in X : home[x] \in Y
        /\ \A y \in Y : g[y] = SumOver(f, {x \in X : home[x] = y})
      BY DEF SumsOfGroups
  <1>1. ASSUME NEW P \in SUBSET X
        PROVE  IsFiniteSet(P) /\ NatValued(f, P) /\ SumOver(f, P) \in Nat
    <2>1. IsFiniteSet(P) /\ NatValued(f, P)
        BY FS_Subset DEF NatValued
    <2> QED
        BY <2>1, SumTakesOne
  <1>2. ASSUME NEW s \in SUBSET Y
        PROVE  IsFiniteSet(s) /\ NatValued(g, s)
      BY <1>0, <1>1, FS_Subset DEF NatValued
  <1>3. ASSUME NEW s \in SUBSET Y, \A x \in s : s \ {x} \in T
        PROVE  s \in T
    <2>1. CASE s = {}
      <3>1. From(s) = {}
          BY <2>1
      <3>2. SumOver(f, {}) = 0 /\ SumOver(g, {}) = 0
          BY <1>1, <1>2, SumTakesOne
      <3> QED
          BY <2>1, <3>1, <3>2
    <2>2. CASE s # {}
      <3>1. PICK y \in s : TRUE
          BY <2>2
      <3> DEFINE here == {x \in X : home[x] = y}
                 rest == From(s \ {y})
      <3>2. From(s) = here \cup rest /\ here \cap rest = {}
          OBVIOUS
      <3>3. here \in SUBSET X /\ rest \in SUBSET X /\ here \cup rest \in SUBSET X
          OBVIOUS
      <3>4. g[y] = SumOver(f, here)
          BY <1>0
      <3>5. SumOver(g, s \ {y}) = SumOver(f, rest)
          BY <1>3
      <3>6. SumOver(g, s) = g[y] + SumOver(g, s \ {y})
          BY <1>2, SumTakesOne
      <3> HIDE DEF here, rest
      <3>7. SumOver(f, here \cup rest) = SumOver(f, here) + SumOver(f, rest)
          BY <1>1, <3>2, <3>3, SumOfTwoSets
      <3> HIDE DEF From
      <3> QED
          BY <3>2, <3>4, <3>5, <3>6, <3>7
    <2> QED
        BY <2>1, <2>2
  <1>4. \A s \in SUBSET Y : s \in T
    <2> HIDE DEF T
    <2> QED
        BY <1>3, SetBySet
  <1>5. From(Y) = X
      BY <1>0
  <1> QED
      BY <1>4, <1>5

-----------------------------------------------------------------------------
(* The statistic of a set of samples or of statistics.                     *)

Statistics == [count : Nat \ {0}, sum : Nat, min : Nat, max : Nat]

\* What a statistic of all members of X is.
Describes(w, f, X) ==
    /\ w.count = SumOver([x \in X |-> f[x].count], X)
    /\ w.sum = SumOver([x \in X |-> f[x].sum], X)
    /\ \E x \in X : w.min = f[x].min
    /\ \A x \in X : w.min <= f[x].min
    /\ \E x \in X : w.max = f[x].max
    /\ \A x \in X : f[x].max <= w.max

\* A finite set of numbers is bounded.
LEMMA FiniteIsBounded ==
    ASSUME NEW S \in SUBSET Nat, IsFiniteSet(S)
    PROVE  \E b \in Nat : \A a \in S : a <= b
  <1> DEFINE T == {s \in SUBSET S : \E b \in Nat : \A a \in s : a <= b}
  <1>1. ASSUME NEW s \in SUBSET S, \A x \in s : s \ {x} \in T
        PROVE  s \in T
    <2>1. CASE s = {}
        BY <2>1
    <2>2. CASE s # {}
      <3>1. PICK x \in s : TRUE
          BY <2>2
      <3>2. PICK b \in Nat : \A a \in s \ {x} : a <= b
          BY <1>1, <3>1
      <3>3. b + x \in Nat /\ \A a \in s : a <= b + x
          BY <3>1, <3>2
      <3> QED
          BY <3>3
    <2> QED
        BY <2>1, <2>2
  <1>2. \A s \in SUBSET S : s \in T
    <2> HIDE DEF T
    <2> QED
        BY <1>1, SetBySet
  <1> QED
      BY <1>2

ImageOf(v, X) == {v[x] : x \in X}

\* Min and Max of a finite set of numbers are its least and greatest.
LEMMA ExtremesOfImage ==
    ASSUME NEW X, IsFiniteSet(X), X # {}, NEW v, \A x \in X : v[x] \in Nat,
           NEW S, S = ImageOf(v, X)
    PROVE  /\ Min(S) \in Nat /\ Max(S) \in Nat
           /\ \E x \in X : Min(S) = v[x]
           /\ \A x \in X : Min(S) <= v[x]
           /\ \E x \in X : Max(S) = v[x]
           /\ \A x \in X : v[x] <= Max(S)
  <1> DEFINE u == [x \in X |-> v[x]]
  <1>1. S \in SUBSET Nat /\ S # {}
      BY DEF ImageOf
  <1>2. IsFiniteSet(S)
    <2>1. u \in [X -> Nat]
        OBVIOUS
    <2>2. {u[x] : x \in X} = S
        BY DEF ImageOf
    <2> HIDE DEF u
    <2>3. IsFiniteSet({u[x] : x \in X})
        BY <2>1, ImagesAreFinite, Zenon
    <2> QED
        BY <2>2, <2>3
  <1>3. PICK b \in Nat : \A a \in S : a <= b
      BY <1>1, <1>2, FiniteIsBounded
  <1>4. Min(S) \in S /\ \A a \in S : Min(S) <= a
    <2>1. \E m \in S : \A a \in S : m =< a
        BY <1>1, LeastExists
    <2> QED
        BY <2>1 DEF Min
  <1>5. Max(S) \in S /\ \A a \in S : a <= Max(S)
      BY <1>1, <1>3, GreatestIsOne
  <1>6. Min(S) \in Nat /\ Max(S) \in Nat
      BY <1>1, <1>4, <1>5
  <1>7. (\A x \in X : v[x] \in S) /\ \A a \in S : \E x \in X : a = v[x]
      BY DEF ImageOf
  <1> QED
      BY <1>4, <1>5, <1>6, <1>7

\* The four numbers of the statistics of a set, as functions on it.
LEMMA FieldsAreNumbers ==
    ASSUME NEW f, NEW X, \A x \in X : f[x] \in Statistics
    PROVE  \A x \in X : /\ f[x].count \in Nat \ {0} /\ f[x].sum \in Nat
                         /\ f[x].min \in Nat /\ f[x].max \in Nat
  BY DEF Statistics

\* Merged is a statistic of all it merges.
LEMMA MergedDescribes ==
    ASSUME NEW f, NEW X, IsFiniteSet(X), X # {}, \A x \in X : f[x] \in Statistics
    PROVE  Merged(f, X) \in Statistics /\ Describes(Merged(f, X), f, X)
  <1> DEFINE counts == [x \in X |-> f[x].count]
             sums == [x \in X |-> f[x].sum]
             mins == [x \in X |-> f[x].min]
             maxs == [x \in X |-> f[x].max]
             lows == {f[x].min : x \in X}
             highs == {f[x].max : x \in X}
  <1>1. \A x \in X : /\ f[x].count \in Nat \ {0} /\ f[x].sum \in Nat
                      /\ f[x].min \in Nat /\ f[x].max \in Nat
      BY FieldsAreNumbers
  <1>2. /\ \A x \in X : counts[x] \in Nat \ {0} /\ mins[x] \in Nat /\ maxs[x] \in Nat
        /\ NatValued(counts, X) /\ NatValued(sums, X)
      BY <1>1 DEF NatValued
  <1>3. lows = ImageOf(mins, X) /\ highs = ImageOf(maxs, X)
      BY DEF ImageOf
  <1>4. \A x \in X : mins[x] = f[x].min /\ maxs[x] = f[x].max
      OBVIOUS
  <1>5. Merged(f, X) = [count |-> SumOver(counts, X), sum |-> SumOver(sums, X),
                        min |-> Min(lows), max |-> Max(highs)]
      BY DEF Merged
  <1> HIDE DEF counts, sums, mins, maxs, lows, highs
  <1>6. SumOver(counts, X) \in Nat \ {0} /\ SumOver(sums, X) \in Nat
    <2>1. PICK x \in X : TRUE
        OBVIOUS
    <2>2. SumOver(counts, X) = counts[x] + SumOver(counts, X \ {x})
        BY <1>2, SumTakesOne
    <2>3. NatValued(counts, X \ {x}) /\ IsFiniteSet(X \ {x})
        BY <1>2, FS_RemoveElement DEF NatValued
    <2>4. SumOver(counts, X \ {x}) \in Nat
        BY <2>3, SumTakesOne
    <2> QED
        BY <1>2, <2>2, <2>4, SumTakesOne
  <1>7. /\ Min(lows) \in Nat
        /\ \E x \in X : Min(lows) = mins[x]
        /\ \A x \in X : Min(lows) <= mins[x]
    <2>1. \A x \in X : mins[x] \in Nat
        BY <1>2
    <2> QED
        BY <1>3, <2>1, ExtremesOfImage
  <1>8. /\ Max(highs) \in Nat
        /\ \E x \in X : Max(highs) = maxs[x]
        /\ \A x \in X : maxs[x] <= Max(highs)
    <2>1. \A x \in X : maxs[x] \in Nat
        BY <1>2
    <2> QED
        BY <1>3, <2>1, ExtremesOfImage
  <1>9. Merged(f, X) \in Statistics
      BY <1>5, <1>6, <1>7, <1>8 DEF Statistics
  <1>10. /\ Merged(f, X).count = SumOver(counts, X) /\ Merged(f, X).sum = SumOver(sums, X)
         /\ Merged(f, X).min = Min(lows) /\ Merged(f, X).max = Max(highs)
      BY <1>5
  <1>11. /\ \E x \in X : Merged(f, X).min = f[x].min
         /\ \A x \in X : Merged(f, X).min <= f[x].min
         /\ \E x \in X : Merged(f, X).max = f[x].max
         /\ \A x \in X : f[x].max <= Merged(f, X).max
      BY <1>4, <1>7, <1>8, <1>10
  <1> QED
      BY <1>9, <1>10, <1>11 DEF Describes, counts, sums

\* There is only one such statistic.
LEMMA DescribedIsMerged ==
    ASSUME NEW f, NEW X, IsFiniteSet(X), X # {}, \A x \in X : f[x] \in Statistics,
           NEW w \in Statistics, Describes(w, f, X)
    PROVE  w = Merged(f, X)
  <1> DEFINE m == Merged(f, X)
  <1>1. m \in Statistics /\ Describes(m, f, X)
      BY MergedDescribes
  <1> HIDE DEF m
  <1>2. w.count = m.count /\ w.sum = m.sum
      BY <1>1 DEF Describes
  <1>3. w.min = m.min /\ w.max = m.max
    <2>1. /\ w.min \in Nat /\ w.max \in Nat /\ m.min \in Nat /\ m.max \in Nat
        BY <1>1 DEF Statistics
    <2>2. w.min <= m.min /\ m.min <= w.min /\ w.max <= m.max /\ m.max <= w.max
      <3>1. w.min <= m.min
          BY <1>1 DEF Describes
      <3>2. m.min <= w.min
          BY <1>1 DEF Describes
      <3>3. w.max <= m.max
          BY <1>1 DEF Describes
      <3>4. m.max <= w.max
          BY <1>1 DEF Describes
      <3> QED
          BY <3>1, <3>2, <3>3, <3>4
    <2> QED
        BY <2>1, <2>2
  <1>4. w = m
      BY <1>1, <1>2, <1>3 DEF Statistics
  <1> QED
      BY <1>4 DEF m

\* Each part has a place, no place is without one, and each has the statistic
\* of its parts.
MergesOfGroups(g, Y, f, X, home) ==
    /\ \A x \in X : home[x] \in Y
    /\ \A y \in Y : \E x \in X : home[x] = y
    /\ \A y \in Y : g[y] = Merged(f, {x \in X : home[x] = y})

\* Merging the statistics of groups is merging all that are in them.
LEMMA MergedOfGroups ==
    ASSUME NEW f, NEW X, IsFiniteSet(X), X # {}, \A x \in X : f[x] \in Statistics,
           NEW Y, IsFiniteSet(Y), NEW g, NEW home, MergesOfGroups(g, Y, f, X, home)
    PROVE  Merged(g, Y) = Merged(f, X) /\ \A y \in Y : g[y] \in Statistics
  <1> DEFINE From(y) == {x \in X : home[x] = y}
             all == Merged(f, X)
             counts == [x \in X |-> f[x].count]
             sums == [x \in X |-> f[x].sum]
             counts2 == [y \in Y |-> g[y].count]
             sums2 == [y \in Y |-> g[y].sum]
  <1>0. /\ \A x \in X : home[x] \in Y
        /\ \A y \in Y : \E x \in X : home[x] = y
        /\ \A y \in Y : g[y] = Merged(f, {x \in X : home[x] = y})
      BY DEF MergesOfGroups
  <1>1. ASSUME NEW y \in Y
        PROVE  /\ IsFiniteSet(From(y)) /\ From(y) # {}
               /\ \A x \in From(y) : f[x] \in Statistics
               /\ g[y] \in Statistics /\ Describes(g[y], f, From(y))
    <2>1. IsFiniteSet(From(y)) /\ From(y) # {} /\ \A x \in From(y) : f[x] \in Statistics
        BY <1>0, FS_Subset
    <2>2. g[y] = Merged(f, From(y))
        BY <1>0
    <2> HIDE DEF From
    <2> QED
        BY <2>1, <2>2, MergedDescribes
  <1>2. Y # {}
      BY <1>0
  <1>3. all \in Statistics /\ Describes(all, f, X)
      BY MergedDescribes
  <1> HIDE DEF all
  <1>4. NatValued(counts, X) /\ NatValued(sums, X)
      BY FieldsAreNumbers DEF NatValued
  <1>5. ASSUME NEW y \in Y
        PROVE  /\ counts2[y] = SumOver(counts, From(y))
               /\ sums2[y] = SumOver(sums, From(y))
    <2> DEFINE countsHere == [x \in From(y) |-> f[x].count]
               sumsHere == [x \in From(y) |-> f[x].sum]
    <2>1. counts2[y] = SumOver(countsHere, From(y)) /\ sums2[y] = SumOver(sumsHere, From(y))
        BY <1>1 DEF Describes
    <2>2. /\ \A x \in From(y) : counts[x] = countsHere[x] /\ sums[x] = sumsHere[x]
          /\ NatValued(countsHere, From(y)) /\ NatValued(sumsHere, From(y))
          /\ IsFiniteSet(From(y))
        BY <1>1, FieldsAreNumbers DEF NatValued
    <2> HIDE DEF countsHere, sumsHere, counts, sums, From
    <2> QED
        BY <2>1, <2>2, SumOfEquals
  <1>6. all.count = SumOver(counts2, Y) /\ all.sum = SumOver(sums2, Y)
    <2>1. all.count = SumOver(counts, X) /\ all.sum = SumOver(sums, X)
        BY <1>3 DEF Describes
    <2>2. SumsOfGroups(counts2, Y, counts, X, home) /\ SumsOfGroups(sums2, Y, sums, X, home)
        BY <1>0, <1>5 DEF SumsOfGroups
    <2> HIDE DEF counts, sums, counts2, sums2
    <2>3. SumOver(counts2, Y) = SumOver(counts, X)
        BY <1>4, <2>2, SumOfGroups
    <2>4. SumOver(sums2, Y) = SumOver(sums, X)
        BY <1>4, <2>2, SumOfGroups
    <2> QED
        BY <2>1, <2>3, <2>4
  <1>7. /\ \A x \in X : home[x] \in Y /\ x \in From(home[x])
        /\ \A y \in Y : \A x \in From(y) : x \in X
      BY <1>0
  <1> HIDE DEF From
  <1>8. ASSUME NEW y \in Y
        PROVE  /\ all.min <= g[y].min /\ g[y].max <= all.max
    <2>1. PICK x \in From(y) : g[y].min = f[x].min
        BY <1>1 DEF Describes
    <2>2. PICK z \in From(y) : g[y].max = f[z].max
        BY <1>1 DEF Describes
    <2> QED
        BY <1>3, <1>7, <2>1, <2>2 DEF Describes
  <1>9. \E y \in Y : all.min = g[y].min
    <2>1. PICK x \in X : all.min = f[x].min
        BY <1>3 DEF Describes
    <2>2. home[x] \in Y /\ x \in From(home[x])
        BY <1>7
    <2>3. g[home[x]].min <= f[x].min
        BY <1>1, <2>2 DEF Describes
    <2>4. all.min <= g[home[x]].min
        BY <1>8, <2>2
    <2>5. all.min \in Nat /\ g[home[x]].min \in Nat
        BY <1>1, <1>3, <2>2 DEF Statistics
    <2> QED
        BY <2>1, <2>2, <2>3, <2>4, <2>5
  <1>10. \E y \in Y : all.max = g[y].max
    <2>1. PICK x \in X : all.max = f[x].max
        BY <1>3 DEF Describes
    <2>2. home[x] \in Y /\ x \in From(home[x])
        BY <1>7
    <2>3. f[x].max <= g[home[x]].max
        BY <1>1, <2>2 DEF Describes
    <2>4. g[home[x]].max <= all.max
        BY <1>8, <2>2
    <2>5. all.max \in Nat /\ g[home[x]].max \in Nat
        BY <1>1, <1>3, <2>2 DEF Statistics
    <2> QED
        BY <2>1, <2>2, <2>3, <2>4, <2>5
  <1>11. Describes(all, g, Y)
      BY <1>6, <1>8, <1>9, <1>10 DEF Describes
  <1>12. \A y \in Y : g[y] \in Statistics
      BY <1>1
  <1>13. all = Merged(g, Y)
      BY <1>2, <1>3, <1>11, <1>12, DescribedIsMerged
  <1> QED
      BY <1>12, <1>13 DEF all

\* The statistic of one is that one.
LEMMA MergedOfOne ==
    ASSUME NEW f, NEW x, f[x] \in Statistics
    PROVE  Merged(f, {x}) = f[x]
  <1> DEFINE counts == [z \in {x} |-> f[z].count]
             sums == [z \in {x} |-> f[z].sum]
  <1>1. IsFiniteSet({x}) /\ IsFiniteSet({}) /\ {x} \ {x} = {}
      BY FS_Singleton, FS_EmptySet
  <1>2. NatValued(counts, {x}) /\ NatValued(sums, {x}) /\ NatValued(counts, {}) /\ NatValued(sums, {})
        /\ counts[x] = f[x].count /\ sums[x] = f[x].sum /\ f[x].count \in Nat /\ f[x].sum \in Nat
        /\ f[x].min \in Nat /\ f[x].max \in Nat
      BY DEF NatValued, Statistics
  <1> HIDE DEF counts, sums
  <1>3. SumOver(counts, {x}) = counts[x] + 0 /\ SumOver(sums, {x}) = sums[x] + 0
      BY <1>1, <1>2, SumTakesOne
  <1>4. SumOver(counts, {x}) = f[x].count /\ SumOver(sums, {x}) = f[x].sum
      BY <1>2, <1>3
  <1>5. Describes(f[x], f, {x})
      BY <1>2, <1>4 DEF Describes, counts, sums
  <1> QED
      BY <1>1, <1>5, DescribedIsMerged

\* The statistic of two sets that do not meet is that of the two statistics.
LEMMA MergedOfTwoSets ==
    ASSUME NEW f, NEW X, NEW Y, IsFiniteSet(X), IsFiniteSet(Y), X # {}, Y # {}, X \cap Y = {},
           \A x \in X \cup Y : f[x] \in Statistics
    PROVE  Merged(f, X \cup Y) = Merged(<<Merged(f, X), Merged(f, Y)>>, {1, 2})
  <1> DEFINE g == <<Merged(f, X), Merged(f, Y)>>
             home == [x \in X \cup Y |-> IF x \in X THEN 1 ELSE 2]
  <1>1. /\ \A x \in X \cup Y : home[x] \in {1, 2}
        /\ \A y \in {1, 2} : \E x \in X \cup Y : home[x] = y
      OBVIOUS
  <1>2. {x \in X \cup Y : home[x] = 1} = X /\ {x \in X \cup Y : home[x] = 2} = Y
      OBVIOUS
  <1>3. g[1] = Merged(f, X) /\ g[2] = Merged(f, Y)
      OBVIOUS
  <1>4. MergesOfGroups(g, {1, 2}, f, X \cup Y, home)
      BY <1>1, <1>2, <1>3 DEF MergesOfGroups
  <1>5. IsFiniteSet(X \cup Y) /\ IsFiniteSet({1, 2}) /\ X \cup Y # {}
    <2>1. {1, 2} = {1} \cup {2}
        OBVIOUS
    <2>2. IsFiniteSet({1}) /\ IsFiniteSet({2})
        BY FS_Singleton
    <2>3. IsFiniteSet({1} \cup {2})
        BY <2>2, FS_Union
    <2>4. IsFiniteSet(X \cup Y) /\ X \cup Y # {}
        BY FS_Union
    <2> QED
        BY <2>1, <2>3, <2>4
  <1> HIDE DEF g, home
  <1>6. Merged(g, {1, 2}) = Merged(f, X \cup Y)
      BY <1>4, <1>5, MergedOfGroups
  <1> QED
      BY <1>6 DEF g

\* What the members are called makes no difference.
LEMMA MergedOfRenamed ==
    ASSUME NEW f, NEW X, IsFiniteSet(X), X # {}, \A x \in X : f[x] \in Statistics,
           NEW Y, NEW g, NEW home \in [X -> Y],
           \A y \in Y : \E x \in X : home[x] = y,
           \A x, z \in X : home[x] = home[z] => x = z,
           \A x \in X : g[home[x]] = f[x]
    PROVE  Merged(g, Y) = Merged(f, X)
  <1>1. IsFiniteSet(Y)
    <2>1. {home[x] : x \in X} = Y
        OBVIOUS
    <2> QED
        BY <2>1, ImagesAreFinite
  <1>2. ASSUME NEW y \in Y
        PROVE  g[y] = Merged(f, {x \in X : home[x] = y})
    <2>1. PICK x \in X : home[x] = y
        OBVIOUS
    <2>2. {z \in X : home[z] = y} = {x}
        BY <2>1
    <2>3. Merged(f, {x}) = f[x]
        BY MergedOfOne
    <2> QED
        BY <2>1, <2>2, <2>3
  <1>3. MergesOfGroups(g, Y, f, X, home)
      BY <1>2 DEF MergesOfGroups
  <1> QED
      BY <1>1, <1>3, MergedOfGroups

-----------------------------------------------------------------------------
(* Rows of several tiers, and what becomes of them when some move on.      *)

\* A function takes finitely many values on a finite set.
LEMMA ImageIsFinite ==
    ASSUME NEW S, IsFiniteSet(S), NEW v
    PROVE  IsFiniteSet(ImageOf(v, S))
  <1> DEFINE f == [x \in S |-> v[x]]
  <1>1. f \in Surjection(S, ImageOf(v, S))
      BY DEF Surjection, ImageOf
  <1> HIDE DEF f
  <1> QED
      BY <1>1, FS_Surjection

TierNames == {"raw", "hourly", "daily", "longterm"}
Band(a, b, c, d) == [raw |-> a, hourly |-> b, daily |-> c, longterm |-> d]

\* The tiers by name.
LEMMA BandFields ==
    ASSUME NEW a, NEW b, NEW c, NEW d
    PROVE  /\ DOMAIN Band(a, b, c, d) = TierNames
           /\ Band(a, b, c, d)["raw"] = a /\ Band(a, b, c, d)["hourly"] = b
           /\ Band(a, b, c, d)["daily"] = c /\ Band(a, b, c, d)["longterm"] = d
  BY DEF Band, TierNames

IsFamily(F) ==
    /\ DOMAIN F = TierNames
    /\ \A t \in TierNames :
          IsFiniteSet(DOMAIN F[t]) /\ \A r \in DOMAIN F[t] : F[t][r] \in Statistics

RowsIn(F, s) == UNION {{t} \X {r \in DOMAIN F[t] : r.scope = s} : t \in DOMAIN F}
ValueIn(F, s) == [x \in RowsIn(F, s) |-> F[x[1]][x[2]]]
Whole(F, s) == Merged(ValueIn(F, s), RowsIn(F, s))

\* A scope's rows are the rows of a tier that are of that scope.
LEMMA RowsInAre ==
    ASSUME NEW F, IsFamily(F), NEW s
    PROVE  /\ \A x \in RowsIn(F, s) : \E t \in TierNames : \E r \in DOMAIN F[t] :
                 x = <<t, r>> /\ r.scope = s
           /\ \A t \in TierNames : \A r \in DOMAIN F[t] : r.scope = s => <<t, r>> \in RowsIn(F, s)
  BY DEF RowsIn, IsFamily

\* They are finitely many, and each has the statistic it has in its tier.
LEMMA RowsAreValued ==
    ASSUME NEW F, IsFamily(F), NEW s
    PROVE  /\ IsFiniteSet(RowsIn(F, s))
           /\ \A x \in RowsIn(F, s) : ValueIn(F, s)[x] \in Statistics
           /\ \A t \in TierNames : \A r \in DOMAIN F[t] :
                 r.scope = s => ValueIn(F, s)[<<t, r>>] = F[t][r]
  <1> DEFINE RowsAt(t) == {t} \X {r \in DOMAIN F[t] : r.scope = s}
             u == [t \in TierNames |-> RowsAt(t)]
  <1>1. IsFiniteSet(TierNames)
    <2>1. IsFiniteSet({"raw"}) /\ IsFiniteSet({"hourly"}) /\ IsFiniteSet({"daily"}) /\ IsFiniteSet({"longterm"})
        BY FS_Singleton
    <2>2. IsFiniteSet({"raw"} \cup {"hourly"}) /\ IsFiniteSet({"daily"} \cup {"longterm"})
        BY <2>1, FS_Union
    <2>3. IsFiniteSet(({"raw"} \cup {"hourly"}) \cup ({"daily"} \cup {"longterm"}))
        BY <2>2, FS_Union
    <2>4. ({"raw"} \cup {"hourly"}) \cup ({"daily"} \cup {"longterm"}) = TierNames
        BY DEF TierNames
    <2> QED
        BY <2>3, <2>4
  <1>2. ASSUME NEW t \in TierNames
        PROVE  IsFiniteSet(RowsAt(t))
    <2>1. IsFiniteSet({t}) /\ IsFiniteSet(DOMAIN F[t])
        BY FS_Singleton DEF IsFamily
    <2>2. IsFiniteSet({r \in DOMAIN F[t] : r.scope = s})
        BY <2>1, FS_Subset
    <2> QED
        BY <2>1, <2>2, FS_Product
  <1>3. IsFiniteSet({u[t] : t \in TierNames})
    <2> HIDE DEF u
    <2>1. IsFiniteSet(ImageOf(u, TierNames))
        BY <1>1, ImageIsFinite
    <2> QED
        BY <2>1 DEF ImageOf
  <1>4. \A T \in {u[t] : t \in TierNames} : IsFiniteSet(T)
    <2>1. \A t \in TierNames : u[t] = RowsAt(t)
        OBVIOUS
    <2> HIDE DEF u, RowsAt
    <2> QED
        BY <1>2, <2>1
  <1>5. RowsIn(F, s) = UNION {u[t] : t \in TierNames}
      BY DEF RowsIn, IsFamily
  <1>6. IsFiniteSet(RowsIn(F, s))
    <2> HIDE DEF u, RowsAt
    <2> QED
        BY <1>3, <1>4, <1>5, FS_UNION
  <1>7. \A t \in TierNames : \A r \in DOMAIN F[t] :
           r.scope = s => ValueIn(F, s)[<<t, r>>] = F[t][r]
      BY RowsInAre DEF ValueIn
  <1>8. \A x \in RowsIn(F, s) : ValueIn(F, s)[x] \in Statistics
      BY <1>7, RowsInAre DEF IsFamily
  <1> QED
      BY <1>6, <1>7, <1>8

\* Some rows of tier a move to the rows of tier b they belong to.
MovesOn(F, G, a, b, gone, home) ==
    /\ a \in TierNames /\ b \in TierNames /\ a # b
    /\ DOMAIN G = TierNames
    /\ gone \subseteq DOMAIN F[a] /\ DOMAIN home = gone
    /\ \A r \in gone : home[r].scope = r.scope
    /\ G[a] = Kept(F[a], gone)
    /\ G[b] = Upserted(F[b], F[a], home)
    /\ \A t \in TierNames \ {a, b} : G[t] = F[t]

Upserts(next, dest, tier, home) ==
    LET parts(h) == {r \in DOMAIN home : home[r] = h}
    IN  /\ DOMAIN next = DOMAIN dest \cup {home[r] : r \in DOMAIN home}
        /\ \A h \in DOMAIN next : parts(h) = {} => next[h] = dest[h]
        /\ \A h \in DOMAIN next : parts(h) # {} /\ h \notin DOMAIN dest =>
              next[h] = Merged(tier, parts(h))
        /\ \A h \in DOMAIN next : parts(h) # {} /\ h \in DOMAIN dest =>
              next[h] = Merged(<<dest[h], Merged(tier, parts(h))>>, {1, 2})

\* What upsert_bucket leaves: a row merges what comes to it to what it has.
LEMMA UpsertedIs ==
    ASSUME NEW dest, NEW tier, NEW home
    PROVE  Upserts(Upserted(dest, tier, home), dest, tier, home)
  BY DEF Upserts, Upserted, Range

\* Where each row is after that.
PlaceAfter(x, a, b, gone, home) == IF x[1] = a /\ x[2] \in gone THEN <<b, home[x[2]]>> ELSE x

\* Each row of the scope has a place afterwards, and each place had a row.
LEMMA PlacesAfter ==
    ASSUME NEW F, IsFamily(F), NEW G, NEW a, NEW b, NEW gone, NEW home,
           MovesOn(F, G, a, b, gone, home), NEW s
    PROVE  /\ \A x \in RowsIn(F, s) : PlaceAfter(x, a, b, gone, home) \in RowsIn(G, s)
           /\ \A y \in RowsIn(G, s) : \E x \in RowsIn(F, s) : PlaceAfter(x, a, b, gone, home) = y
  <1>1. \A x \in RowsIn(G, s) : \E t \in TierNames : \E r \in DOMAIN G[t] :
                 x = <<t, r>> /\ r.scope = s
      BY DEF RowsIn, MovesOn
  <1>2. \A t \in TierNames : \A r \in DOMAIN G[t] : r.scope = s => <<t, r>> \in RowsIn(G, s)
      BY DEF RowsIn, MovesOn
  <1>3. DOMAIN G[a] = DOMAIN F[a] \ gone
      BY DEF Kept, MovesOn
  <1>4. DOMAIN G[b] = DOMAIN F[b] \cup {home[r] : r \in gone}
    <2>1. Upserts(G[b], F[b], F[a], home) /\ DOMAIN home = gone
        BY UpsertedIs DEF MovesOn
    <2> QED
        BY <2>1 DEF Upserts
  <1>5. /\ a \in TierNames /\ b \in TierNames /\ a # b /\ gone \subseteq DOMAIN F[a]
        /\ \A r \in gone : home[r].scope = r.scope
        /\ \A t \in TierNames \ {a, b} : G[t] = F[t]
      BY DEF MovesOn
  <1>6. ASSUME NEW x \in RowsIn(F, s)
        PROVE  PlaceAfter(x, a, b, gone, home) \in RowsIn(G, s)
    <2>0. PICK t \in TierNames : \E r \in DOMAIN F[t] : x = <<t, r>> /\ r.scope = s
        BY RowsInAre
    <2>1. PICK r \in DOMAIN F[t] : x = <<t, r>> /\ r.scope = s
        BY <2>0
    <2>2. x[1] = t /\ x[2] = r
        BY <2>1
    <2>3. CASE t = a /\ r \in gone
      <3>1. PlaceAfter(x, a, b, gone, home) = <<b, home[r]>>
          BY <2>2, <2>3 DEF PlaceAfter
      <3>2. home[r] \in DOMAIN G[b] /\ home[r].scope = s
          BY <1>4, <1>5, <2>1, <2>3
      <3> QED
          BY <1>2, <1>5, <3>1, <3>2
    <2>4. CASE ~(t = a /\ r \in gone)
      <3>1. PlaceAfter(x, a, b, gone, home) = <<t, r>>
          BY <2>1, <2>2, <2>4 DEF PlaceAfter
      <3>2. r \in DOMAIN G[t]
          BY <1>3, <1>4, <1>5, <2>4
      <3> QED
          BY <1>2, <2>1, <3>1, <3>2
    <2> QED
        BY <2>3, <2>4
  <1>7. ASSUME NEW y \in RowsIn(G, s)
        PROVE  \E x \in RowsIn(F, s) : PlaceAfter(x, a, b, gone, home) = y
    <2>0. PICK t \in TierNames : \E r \in DOMAIN G[t] : y = <<t, r>> /\ r.scope = s
        BY <1>1
    <2>1. PICK r \in DOMAIN G[t] : y = <<t, r>> /\ r.scope = s
        BY <2>0
    <2>2. CASE r \in DOMAIN F[t] /\ ~(t = a /\ r \in gone)
      <3>1. y \in RowsIn(F, s)
          BY <2>1, <2>2, RowsInAre
      <3>2. PlaceAfter(y, a, b, gone, home) = y
          BY <2>1, <2>2 DEF PlaceAfter
      <3> QED
          BY <3>1, <3>2
    <2>3. CASE ~(r \in DOMAIN F[t] /\ ~(t = a /\ r \in gone))
      <3>1. t = b
          BY <1>3, <1>5, <2>3
      <3>2. PICK q \in gone : r = home[q]
          BY <1>4, <1>5, <2>3, <3>1
      <3>3. <<a, q>> \in RowsIn(F, s)
          BY <1>5, <2>1, <3>2, RowsInAre
      <3>4. PlaceAfter(<<a, q>>, a, b, gone, home) = y
          BY <2>1, <3>1, <3>2 DEF PlaceAfter
      <3> QED
          BY <3>3, <3>4
    <2> QED
        BY <2>2, <2>3
  <1> QED
      BY <1>6, <1>7

-----------------------------------------------------------------------------
(* What a promotion leaves.                                                *)

\* The rows that came to each place, and the statistic they have there.
CameTo(F, s, y, a, b, gone, home) == {x \in RowsIn(F, s) : PlaceAfter(x, a, b, gone, home) = y}

\* A place has the statistic of all the rows that came to it.
LEMMA ValueAfter ==
    ASSUME NEW F, IsFamily(F), NEW G, NEW a, NEW b, NEW gone, NEW home,
           MovesOn(F, G, a, b, gone, home), NEW s, NEW y \in RowsIn(G, s)
    PROVE  ValueIn(G, s)[y] = Merged(ValueIn(F, s), CameTo(F, s, y, a, b, gone, home))
  <1> DEFINE here == CameTo(F, s, y, a, b, gone, home)
             f == ValueIn(F, s)
  <1>1. PICK t \in TierNames : \E r \in DOMAIN G[t] : y = <<t, r>> /\ r.scope = s
      BY DEF RowsIn, MovesOn
  <1>2. PICK r \in DOMAIN G[t] : y = <<t, r>> /\ r.scope = s
      BY <1>1
  <1>3. ValueIn(G, s)[y] = G[t][r]
      BY <1>2 DEF ValueIn
  <1>4. /\ a \in TierNames /\ b \in TierNames /\ a # b /\ gone \subseteq DOMAIN F[a]
        /\ \A q \in gone : home[q].scope = q.scope
        /\ \A u \in TierNames \ {a, b} : G[u] = F[u]
        /\ Upserts(G[b], F[b], F[a], home) /\ DOMAIN home = gone
      BY UpsertedIs DEF MovesOn
  <1>5. /\ IsFiniteSet(RowsIn(F, s))
        /\ \A x \in RowsIn(F, s) : f[x] \in Statistics
        /\ \A u \in TierNames : \A q \in DOMAIN F[u] : q.scope = s => f[<<u, q>>] = F[u][q]
      BY RowsAreValued
  <1>6. here \in SUBSET RowsIn(F, s)
      BY DEF CameTo
  <1> DEFINE parts == {q \in gone : home[q] = r}
             moved == {a} \X parts
  <1> HIDE DEF f
  \* What stays where it was.
  <1>7. CASE t # b \/ parts = {}
    <2>1. r \in DOMAIN F[t] /\ G[t][r] = F[t][r] /\ ~(t = a /\ r \in gone)
      <3>1. CASE t = a
        <4>1. G[a] = [q \in DOMAIN F[a] \ gone |-> F[a][q]]
            BY DEF MovesOn, Kept
        <4> QED
            BY <3>1, <4>1
      <3>2. CASE t = b
        <4>1. {q \in DOMAIN home : home[q] = r} = {}
            BY <1>4, <1>7, <3>2
        <4> QED
            BY <1>4, <3>2, <4>1 DEF Upserts
      <3>3. CASE t # a /\ t # b
          BY <1>4, <3>3
      <3> QED
          BY <3>1, <3>2, <3>3
    <2>2. y \in RowsIn(F, s) /\ f[y] = F[t][r]
        BY <1>2, <1>5, <2>1, RowsInAre
    <2>3. here = {y}
      <3>1. PlaceAfter(y, a, b, gone, home) = y
          BY <1>2, <2>1 DEF PlaceAfter
      <3>2. ASSUME NEW x \in RowsIn(F, s), PlaceAfter(x, a, b, gone, home) = y
            PROVE  x = y
        <4>1. CASE x[1] = a /\ x[2] \in gone
          <5>1. <<b, home[x[2]]>> = <<t, r>>
              BY <1>2, <3>2, <4>1 DEF PlaceAfter
          <5>2. t = b /\ x[2] \in parts
              BY <4>1, <5>1
          <5> QED
              BY <1>7, <5>2
        <4>2. CASE ~(x[1] = a /\ x[2] \in gone)
            BY <3>2, <4>2 DEF PlaceAfter
        <4> QED
            BY <4>1, <4>2
      <3> QED
          BY <2>2, <3>1, <3>2 DEF CameTo
    <2>4. f[y] \in Statistics
        BY <1>5, <2>2
    <2> HIDE DEF here
    <2>5. Merged(f, here) = f[y]
        BY <2>3, <2>4, MergedOfOne
    <2>6. ValueIn(G, s)[y] = Merged(f, here)
        BY <1>3, <2>1, <2>2, <2>5
    <2> QED
        BY <2>6 DEF f, here
  \* A row that others came to.
  <1>8. CASE t = b /\ parts # {}
    <2>1. moved \subseteq RowsIn(F, s)
      <3>1. ASSUME NEW q \in parts
            PROVE  <<a, q>> \in RowsIn(F, s)
          BY <1>2, <1>4, RowsInAre
      <3> QED
          BY <3>1
    <2>2. here = moved \cup (IF r \in DOMAIN F[b] THEN {y} ELSE {})
      <3>1. ASSUME NEW x \in here
            PROVE  x \in moved \/ (r \in DOMAIN F[b] /\ x = y)
        <4>1. x \in RowsIn(F, s) /\ PlaceAfter(x, a, b, gone, home) = y
            BY DEF CameTo
        <4>2. PICK u \in TierNames : \E q \in DOMAIN F[u] : x = <<u, q>> /\ q.scope = s
            BY <4>1, RowsInAre
        <4>3. PICK q \in DOMAIN F[u] : x = <<u, q>> /\ q.scope = s
            BY <4>2
        <4>4. CASE u = a /\ q \in gone
          <5>1. <<b, home[q]>> = <<t, r>>
              BY <1>2, <4>1, <4>3, <4>4 DEF PlaceAfter
          <5> QED
              BY <4>3, <4>4, <5>1
        <4>5. CASE ~(u = a /\ q \in gone)
          <5>1. x = y
              BY <4>1, <4>3, <4>5 DEF PlaceAfter
          <5> QED
              BY <1>2, <1>8, <4>3, <5>1
        <4> QED
            BY <4>4, <4>5
      <3>2. ASSUME NEW x \in moved
            PROVE  x \in here
        <4>1. PICK q \in parts : x = <<a, q>>
            OBVIOUS
        <4>2. PlaceAfter(x, a, b, gone, home) = y
            BY <1>2, <1>8, <4>1 DEF PlaceAfter
        <4> QED
            BY <2>1, <4>2 DEF CameTo
      <3>3. ASSUME r \in DOMAIN F[b]
            PROVE  y \in here
        <4>1. y \in RowsIn(F, s)
            BY <1>2, <1>8, <3>3, RowsInAre
        <4>2. PlaceAfter(y, a, b, gone, home) = y
            BY <1>2, <1>4, <1>8 DEF PlaceAfter
        <4> QED
            BY <4>1, <4>2 DEF CameTo
      <3> HIDE DEF here, moved
      <3> QED
          BY <3>1, <3>2, <3>3
    <2>3. IsFiniteSet(moved) /\ moved # {} /\ \A x \in moved : f[x] \in Statistics
      <3>1. moved # {}
        <4>1. PICK q \in parts : TRUE
            BY <1>8
        <4>2. <<a, q>> \in moved
            BY <4>1
        <4> QED
            BY <4>2
      <3> HIDE DEF moved
      <3>2. moved \in SUBSET RowsIn(F, s)
          BY <2>1
      <3>3. IsFiniteSet(moved)
          BY <1>5, <3>2, FS_Subset
      <3> QED
          BY <1>5, <3>1, <3>2, <3>3
    <2>4. Merged(f, moved) = Merged(F[a], parts)
      <3> DEFINE tag == [q \in parts |-> <<a, q>>]
      <3>1. \A q \in parts : q \in DOMAIN F[a] /\ q.scope = s
          BY <1>2, <1>4
      <3>2. IsFiniteSet(parts) /\ \A q \in parts : F[a][q] \in Statistics
        <4>1. IsFiniteSet(DOMAIN F[a]) /\ parts \in SUBSET DOMAIN F[a]
            BY <1>4, <3>1 DEF IsFamily
        <4> QED
            BY <1>4, <3>1, <4>1, FS_Subset DEF IsFamily
      <3>3. /\ tag \in [parts -> moved]
            /\ \A x \in moved : \E q \in parts : tag[q] = x
            /\ \A q, p \in parts : tag[q] = tag[p] => q = p
          OBVIOUS
      <3>4. \A q \in parts : f[tag[q]] = F[a][q]
        <4>1. \A q \in parts : tag[q] = <<a, q>>
            OBVIOUS
        <4> QED
            BY <1>4, <1>5, <3>1, <4>1
      <3> HIDE DEF tag, parts, moved
      <3> QED
          BY <1>8, <3>2, <3>3, <3>4, MergedOfRenamed
    <2>5. {q \in DOMAIN home : home[q] = r} = parts /\ G[t] = G[b] /\ r \in DOMAIN G[b]
        BY <1>4, <1>8
    <2>6. CASE r \notin DOMAIN F[b]
      <3>1. G[t][r] = Merged(F[a], parts)
          BY <1>4, <1>8, <2>5, <2>6 DEF Upserts
      <3>2. here = moved
          BY <2>2, <2>6
      <3> HIDE DEF here, moved, parts
      <3> QED
          BY <1>3, <2>4, <3>1, <3>2 DEF f, here
    <2>7. CASE r \in DOMAIN F[b]
      <3>1. G[t][r] = Merged(<<F[b][r], Merged(F[a], parts)>>, {1, 2})
          BY <1>4, <1>8, <2>5, <2>7 DEF Upserts
      <3>2. here = {y} \cup moved /\ y \in RowsIn(F, s) /\ f[y] = F[b][r]
        <4>1. here = {y} \cup moved
            BY <2>2, <2>7
        <4>2. y \in RowsIn(F, s) /\ f[y] = F[b][r]
            BY <1>2, <1>4, <1>5, <1>8, <2>7, RowsInAre
        <4> QED
            BY <4>1, <4>2
      <3>3. y \notin moved
          BY <1>2, <1>4, <1>8
      <3>4. f[y] \in Statistics /\ Merged(f, {y}) = F[b][r]
          BY <1>5, <3>2, MergedOfOne
      <3>5. IsFiniteSet({y}) /\ {y} # {} /\ {y} \cap moved = {}
            /\ \A x \in {y} \cup moved : f[x] \in Statistics
          BY <2>3, <3>3, <3>4, FS_Singleton
      <3> HIDE DEF here, moved, parts
      <3>6. Merged(f, {y} \cup moved) = Merged(<<Merged(f, {y}), Merged(f, moved)>>, {1, 2})
          BY <2>3, <3>5, MergedOfTwoSets
      <3>7. Merged(f, here) = G[t][r]
          BY <2>4, <3>1, <3>2, <3>4, <3>6
      <3> QED
          BY <1>3, <3>7 DEF f, here
    <2> QED
        BY <2>6, <2>7
  <1> QED
      BY <1>7, <1>8

\* Moving on changes nothing of what the tiers hold of a scope together.
SameWhole(F, G, s) ==
    /\ RowsIn(G, s) = {} <=> RowsIn(F, s) = {}
    /\ RowsIn(F, s) # {} => Whole(G, s) = Whole(F, s)

LEMMA MovingOnKeeps ==
    ASSUME NEW F, IsFamily(F), NEW G, NEW a, NEW b, NEW gone, NEW home,
           MovesOn(F, G, a, b, gone, home)
    PROVE  IsFamily(G) /\ \A s : SameWhole(F, G, s)
  <1>1. ASSUME NEW t \in TierNames
        PROVE  IsFiniteSet(DOMAIN G[t])
    <2>1. IsFiniteSet(DOMAIN F[a]) /\ IsFiniteSet(DOMAIN F[b]) /\ IsFiniteSet(DOMAIN F[t])
        BY DEF IsFamily, MovesOn
    <2>2. CASE t = a
      <3>1. DOMAIN G[a] = DOMAIN F[a] \ gone
          BY DEF MovesOn, Kept
      <3> QED
          BY <2>1, <2>2, <3>1, FS_Difference
    <2>3. CASE t = b
      <3>1. Upserts(G[b], F[b], F[a], home) /\ DOMAIN home = gone /\ gone \subseteq DOMAIN F[a]
          BY UpsertedIs DEF MovesOn
      <3>2. DOMAIN G[b] = DOMAIN F[b] \cup ImageOf(home, gone)
          BY <3>1 DEF Upserts, ImageOf
      <3>3. IsFiniteSet(gone)
          BY <2>1, <3>1, FS_Subset
      <3>4. IsFiniteSet(ImageOf(home, gone))
          BY <3>3, ImageIsFinite
      <3> QED
          BY <2>1, <2>3, <3>2, <3>4, FS_Union
    <2>4. CASE t # a /\ t # b
        BY <2>1, <2>4 DEF MovesOn
    <2> QED
        BY <2>2, <2>3, <2>4
  <1>2. ASSUME NEW s
        PROVE  /\ RowsIn(G, s) = {} <=> RowsIn(F, s) = {}
               /\ RowsIn(F, s) # {} =>
                     /\ Whole(G, s) = Whole(F, s)
                     /\ \A y \in RowsIn(G, s) : ValueIn(G, s)[y] \in Statistics
    <2> DEFINE X == RowsIn(F, s)
               Y == RowsIn(G, s)
               f == ValueIn(F, s)
               g == ValueIn(G, s)
               place == [x \in X |-> PlaceAfter(x, a, b, gone, home)]
    <2>1. /\ \A x \in X : place[x] \in Y
          /\ \A y \in Y : \E x \in X : place[x] = y
        BY PlacesAfter
    <2>2. \A y \in Y : g[y] = Merged(f, {x \in X : place[x] = y})
      <3>1. ASSUME NEW y \in Y
            PROVE  g[y] = Merged(f, {x \in X : place[x] = y})
        <4>1. {x \in X : place[x] = y} = CameTo(F, s, y, a, b, gone, home)
            BY DEF CameTo
        <4>2. g[y] = Merged(f, CameTo(F, s, y, a, b, gone, home))
            BY ValueAfter
        <4> QED
            BY <4>1, <4>2
      <3> QED
          BY <3>1
    <2>3. IsFiniteSet(X) /\ \A x \in X : f[x] \in Statistics
        BY RowsAreValued
    <2>4. X = {} <=> Y = {}
        BY <2>1
    <2>5. IsFiniteSet(Y)
      <3>1. Y = ImageOf(place, X)
        <4> HIDE DEF X, Y, place
        <4> QED
            BY <2>1 DEF ImageOf
      <3> HIDE DEF X, Y, place
      <3> QED
          BY <2>3, <3>1, ImageIsFinite
    <2>6. MergesOfGroups(g, Y, f, X, place)
      <3> HIDE DEF X, Y, f, g, place
      <3> QED
          BY <2>1, <2>2 DEF MergesOfGroups
    <2>7. X # {} => Merged(g, Y) = Merged(f, X) /\ \A y \in Y : g[y] \in Statistics
      <3> HIDE DEF X, Y, f, g, place
      <3> QED
          BY <2>3, <2>5, <2>6, MergedOfGroups
    <2> QED
        BY <2>4, <2>7 DEF Whole
  <1>3. ASSUME NEW t \in TierNames, NEW r \in DOMAIN G[t]
        PROVE  G[t][r] \in Statistics
    <2> DEFINE s == r.scope
    <2>1. <<t, r>> \in RowsIn(G, s) /\ ValueIn(G, s)[<<t, r>>] = G[t][r]
        BY DEF RowsIn, ValueIn, MovesOn
    <2> HIDE DEF s
    <2> QED
        BY <1>2, <2>1
  <1>4. IsFamily(G)
      BY <1>1, <1>3 DEF IsFamily, MovesOn
  <1> QED
      BY <1>2, <1>4 DEF SameWhole

-----------------------------------------------------------------------------
(* AnalyticalMemory: the tiers hold what was recorded.                     *)

TiersNow == Band(raw, hourly, daily, longterm)

Recorded(s) ==
    IF s \notin DOMAIN recorded THEN RowsIn(TiersNow, s) = {}
    ELSE RowsIn(TiersNow, s) # {} /\ Whole(TiersNow, s) = recorded[s]

TotalsHold ==
    /\ IsFamily(TiersNow)
    /\ IsFiniteSet(DOMAIN recorded) /\ \A s \in DOMAIN recorded : recorded[s] \in Statistics
    /\ \A s \in Scopes : Recorded(s)

\* What is kept is the property, and that every number is one.
LEMMA TotalsAreTheProperty == TotalsHold => NothingLostOrCountedTwice
  <1> SUFFICES ASSUME TotalsHold, NEW s \in Scopes
               PROVE  IF s \notin DOMAIN recorded THEN RowsOf(s) = {}
                      ELSE /\ RowsOf(s) # {}
                           /\ Merged([x \in RowsOf(s) |-> Tiers[x[1]][x[2]]], RowsOf(s)) = recorded[s]
      BY DEF NothingLostOrCountedTwice
  <1>1. TiersNow = Tiers
      BY DEF TiersNow, Band, Tiers
  <1>2. RowsIn(TiersNow, s) = RowsOf(s)
      BY <1>1 DEF RowsIn, RowsOf
  <1>3. Whole(TiersNow, s) = Merged([x \in RowsOf(s) |-> Tiers[x[1]][x[2]]], RowsOf(s))
      BY <1>1, <1>2 DEF Whole, ValueIn
  <1> QED
      BY <1>2, <1>3 DEF TotalsHold, Recorded

\* compact is three such moves, one after another.
LEMMA CompactionTotals ==
    ASSUME TotalsHold, NEW now, Compaction(now), recorded' = recorded
    PROVE  TotalsHold'
  <1> DEFINE oldRaw  == Aged(raw, Recent, now)
             homeRaw == [r \in oldRaw |-> BucketOf(r, Hour)]
             hours   == Upserted(hourly, raw, homeRaw)
             oldHour == Aged(hours, Medium, now)
             homeHour == [r \in oldHour |-> BucketOf(r, Day)]
             days    == Upserted(daily, hours, homeHour)
             oldDay  == Aged(days, Long, now)
             homeDay == [r \in oldDay |-> AggregateOf(r)]
             F0 == TiersNow
             F1 == Band(Kept(raw, oldRaw), hours, daily, longterm)
             F2 == Band(Kept(raw, oldRaw), Kept(hours, oldHour), days, longterm)
             F3 == Band(Kept(raw, oldRaw), Kept(hours, oldHour), Kept(days, oldDay),
                        Upserted(longterm, days, homeDay))
  <1>1. /\ raw' = Kept(raw, oldRaw) /\ hourly' = Kept(hours, oldHour)
        /\ daily' = Kept(days, oldDay) /\ longterm' = Upserted(longterm, days, homeDay)
      BY DEF Compaction, Promoted
  <1>2. /\ oldRaw \subseteq DOMAIN raw /\ oldHour \subseteq DOMAIN hours /\ oldDay \subseteq DOMAIN days
      BY DEF Aged
  <1>3. /\ DOMAIN homeRaw = oldRaw /\ DOMAIN homeHour = oldHour /\ DOMAIN homeDay = oldDay
        /\ \A r \in oldRaw : homeRaw[r].scope = r.scope
        /\ \A r \in oldHour : homeHour[r].scope = r.scope
        /\ \A r \in oldDay : homeDay[r].scope = r.scope
    <2> HIDE DEF oldRaw, oldHour, oldDay
    <2> QED
        BY DEF BucketOf, AggregateOf
  <1>4. TiersNow' = F3
      BY <1>1 DEF TiersNow
  <1> HIDE DEF oldRaw, homeRaw, hours, oldHour, homeHour, days, oldDay, homeDay
  <1>5. MovesOn(F0, F1, "raw", "hourly", oldRaw, homeRaw)
      BY <1>2, <1>3, BandFields DEF MovesOn, TiersNow, TierNames, hours
  <1>6. MovesOn(F1, F2, "hourly", "daily", oldHour, homeHour)
      BY <1>2, <1>3, BandFields DEF MovesOn, TierNames, days
  <1>7. MovesOn(F2, F3, "daily", "longterm", oldDay, homeDay)
      BY <1>2, <1>3, BandFields DEF MovesOn, TierNames
  <1>8. IsFamily(F0)
      BY DEF TotalsHold
  <1> HIDE DEF F0, F1, F2, F3
  <1>9. IsFamily(F1) /\ \A s : SameWhole(F0, F1, s)
      BY <1>5, <1>8, MovingOnKeeps
  <1>10. IsFamily(F2) /\ \A s : SameWhole(F1, F2, s)
      BY <1>6, <1>9, MovingOnKeeps
  <1>11. IsFamily(F3) /\ \A s : SameWhole(F2, F3, s)
      BY <1>7, <1>10, MovingOnKeeps
  <1>12. ASSUME NEW s \in Scopes
         PROVE  Recorded(s)'
    <2>1. /\ RowsIn(F3, s) = {} <=> RowsIn(F0, s) = {}
          /\ RowsIn(F0, s) # {} => Whole(F3, s) = Whole(F0, s)
      <3>1. SameWhole(F0, F1, s) /\ SameWhole(F1, F2, s) /\ SameWhole(F2, F3, s)
          BY <1>9, <1>10, <1>11
      <3> QED
          BY <3>1 DEF SameWhole
    <2>2. IF s \notin DOMAIN recorded THEN RowsIn(F0, s) = {}
          ELSE RowsIn(F0, s) # {} /\ Whole(F0, s) = recorded[s]
        BY DEF TotalsHold, Recorded, F0
    <2>3. IF s \notin DOMAIN recorded THEN RowsIn(F3, s) = {}
          ELSE RowsIn(F3, s) # {} /\ Whole(F3, s) = recorded[s]
        BY <2>1, <2>2
    <2>4. RowsIn(TiersNow, s)' = RowsIn(F3, s) /\ Whole(TiersNow, s)' = Whole(F3, s)
        BY <1>4 DEF RowsIn, Whole, ValueIn
    <2> QED
        BY <2>3, <2>4 DEF Recorded
  <1>13. IsFamily(TiersNow)'
      BY <1>4, <1>11 DEF IsFamily
  <1> QED
      BY <1>12, <1>13 DEF TotalsHold

-----------------------------------------------------------------------------
(* A sample is a new row.                                                  *)

\* A term is at most the sum.
LEMMA TermIsInSum ==
    ASSUME NEW f, NEW X, IsFiniteSet(X), NatValued(f, X), NEW x \in X
    PROVE  f[x] <= SumOver(f, X)
  <1>1. SumOver(f, X) = f[x] + SumOver(f, X \ {x})
      BY SumTakesOne
  <1>2. IsFiniteSet(X \ {x}) /\ NatValued(f, X \ {x})
      BY FS_RemoveElement DEF NatValued
  <1>3. SumOver(f, X \ {x}) \in Nat
      BY <1>2, SumTakesOne
  <1>4. f[x] \in Nat
      BY DEF NatValued
  <1> QED
      BY <1>1, <1>3, <1>4

\* If each term is at least one, the sum is at least their number.
LEMMA SumIsAtLeastTheNumber ==
    ASSUME NEW f, NEW X, IsFiniteSet(X), \A x \in X : f[x] \in Nat \ {0}
    PROVE  Cardinality(X) <= SumOver(f, X)
  <1> DEFINE T == {s \in SUBSET X : Cardinality(s) <= SumOver(f, s)}
  <1>1. ASSUME NEW s \in SUBSET X
        PROVE  IsFiniteSet(s) /\ Cardinality(s) \in Nat /\ NatValued(f, s) /\ SumOver(f, s) \in Nat
    <2>1. IsFiniteSet(s) /\ NatValued(f, s)
        BY FS_Subset DEF NatValued
    <2> QED
        BY <2>1, FS_CardinalityType, SumTakesOne
  <1>2. ASSUME NEW s \in SUBSET X, \A x \in s : s \ {x} \in T
        PROVE  s \in T
    <2>1. CASE s = {}
        BY <1>1, <2>1, FS_EmptySet
    <2>2. CASE s # {}
      <3>1. PICK x \in s : TRUE
          BY <2>2
      <3>2. SumOver(f, s) = f[x] + SumOver(f, s \ {x})
          BY <1>1, SumTakesOne
      <3>3. Cardinality(s \ {x}) = Cardinality(s) - 1
          BY <1>1, FS_RemoveElement
      <3>4. Cardinality(s \ {x}) <= SumOver(f, s \ {x})
          BY <1>2
      <3>5. SumOver(f, s \ {x}) \in Nat /\ Cardinality(s) \in Nat /\ f[x] \in Nat \ {0}
            /\ SumOver(f, s) \in Nat
          BY <1>1
      <3>6. Cardinality(s) <= SumOver(f, s)
          BY <3>2, <3>3, <3>4, <3>5
      <3> QED
          BY <3>6
    <2> QED
        BY <2>1, <2>2
  <1>3. \A s \in SUBSET X : s \in T
    <2> HIDE DEF T
    <2> QED
        BY <1>2, SetBySet
  <1> QED
      BY <1>3

RowNumbered(sample, n) == [scope |-> sample.scope, at |-> sample.at, id |-> n]
Fresh(sample, n) ==
    /\ RowNumbered(sample, n) \notin DOMAIN raw
    /\ \A k \in 1 .. n - 1 : RowNumbered(sample, k) \in DOMAIN raw

\* With a number free, the row is at one.
LEMMA RowIsFree ==
    ASSUME NEW sample, \E n \in 1 .. MaxSamples : Fresh(sample, n)
    PROVE  Row(sample) \notin DOMAIN raw /\ Row(sample).scope = sample.scope
  <1> DEFINE base == [scope |-> sample.scope, at |-> sample.at, id |-> 0]
             IsFree(n) == /\ [base EXCEPT !.id = n] \notin DOMAIN raw
                        /\ \A k \in 1 .. n - 1 : [base EXCEPT !.id = k] \in DOMAIN raw
             chosen == CHOOSE n \in 1 .. MaxSamples : IsFree(n)
  <1>1. \A n : [base EXCEPT !.id = n] = RowNumbered(sample, n)
      BY DEF RowNumbered
  <1>2. Row(sample) = [base EXCEPT !.id = chosen]
      BY Zenon DEF Row
  <1>3. \E n \in 1 .. MaxSamples : IsFree(n)
    <2> HIDE DEF base
    <2> QED
        BY <1>1 DEF Fresh
  <1>4. IsFree(chosen)
    <2> HIDE DEF IsFree
    <2> QED
        BY <1>3
  <1>5. Row(sample) \notin DOMAIN raw
      BY <1>2, <1>4, Zenon
  <1>6. Row(sample) = RowNumbered(sample, chosen)
    <2> HIDE DEF base, chosen
    <2> QED
        BY <1>1, <1>2
  <1>7. Row(sample).scope = sample.scope
    <2> HIDE DEF base, chosen
    <2> QED
        BY <1>6 DEF RowNumbered
  <1> QED
      BY <1>5, <1>7

\* There are fewer rows than samples may be, so the row has a number no other
\* has.
LEMMA RowIsNew ==
    ASSUME TotalsHold, NEW sample \in NewSample, SampleCount < MaxSamples
    PROVE  Row(sample) \notin DOMAIN raw /\ Row(sample).scope = sample.scope
  <1> DEFINE k == sample.scope
             X == RowsIn(TiersNow, k)
             Free == {n \in 1 .. MaxSamples : RowNumbered(sample, n) \notin DOMAIN raw}
  <1>1. MaxSamples \in Nat /\ k \in Scopes
      BY MemoryAssumption DEF NewSample
  <1>2. IsFamily(TiersNow) /\ TiersNow["raw"] = raw /\ "raw" \in TierNames
      BY BandFields DEF TotalsHold, TiersNow, TierNames
  <1>3. Free # {}
    <2> SUFFICES ASSUME Free = {} PROVE FALSE
        OBVIOUS
    <2> DEFINE counts == [s \in DOMAIN recorded |-> recorded[s].count]
               tag == [n \in 1 .. MaxSamples |-> <<"raw", RowNumbered(sample, n)>>]
               sizes == [x \in X |-> ValueIn(TiersNow, k)[x].count]
    <2>1. \A n \in 1 .. MaxSamples : RowNumbered(sample, n) \in DOMAIN raw
        OBVIOUS
    <2>2. NatValued(counts, DOMAIN recorded) /\ IsFiniteSet(DOMAIN recorded)
        BY DEF NatValued, TotalsHold, Statistics
    <2>3. SampleCount = SumOver(counts, DOMAIN recorded)
        BY DEF SampleCount
    <2>4. SampleCount \in Nat
      <3> HIDE DEF counts
      <3> QED
          BY <2>2, <2>3, SumTakesOne
    <2>5. MaxSamples \in Nat \ {0}
        BY <1>1, <2>4
    <2>6. \A n \in 1 .. MaxSamples : tag[n] \in X
      <3>1. ASSUME NEW n \in 1 .. MaxSamples
            PROVE  <<"raw", RowNumbered(sample, n)>> \in X
        <4>1. RowNumbered(sample, n).scope = k
            BY DEF RowNumbered
        <4> HIDE DEF k
        <4> QED
            BY <1>2, <2>1, <4>1, RowsInAre
      <3> QED
          BY <3>1
    <2>7. \A m, n \in 1 .. MaxSamples : tag[m] = tag[n] => m = n
      <3>1. ASSUME NEW m \in 1 .. MaxSamples, NEW n \in 1 .. MaxSamples, tag[m] = tag[n]
            PROVE  m = n
        <4>1. RowNumbered(sample, m) = RowNumbered(sample, n)
            BY <3>1
        <4>2. RowNumbered(sample, m).id = m /\ RowNumbered(sample, n).id = n
            BY DEF RowNumbered
        <4> QED
            BY <4>1, <4>2
      <3> QED
          BY <3>1
    <2>8. tag \in Injection(1 .. MaxSamples, X)
      <3>1. tag \in [1 .. MaxSamples -> X]
        <4>1. tag = [n \in 1 .. MaxSamples |-> tag[n]]
            OBVIOUS
        <4> HIDE DEF tag, X
        <4> QED
            BY <2>6, <4>1
      <3> HIDE DEF tag, X
      <3> QED
          BY <2>7, <3>1 DEF Injection, IsInjective
    <2>9. /\ IsFiniteSet(X)
          /\ \A x \in X : ValueIn(TiersNow, k)[x] \in Statistics
        BY <1>2, RowsAreValued
    <2>10. MaxSamples <= Cardinality(X)
      <3>1. Cardinality(1 .. MaxSamples) <= Cardinality(X)
        <4> HIDE DEF tag, X
        <4> QED
            BY <2>8, <2>9, FS_Injection
      <3>2. Cardinality(1 .. MaxSamples) = MaxSamples
          BY <2>5, FS_Interval
      <3> QED
          BY <3>1, <3>2
    <2>11. X # {}
      <3>1. 1 \in 1 .. MaxSamples
          BY <2>5
      <3> HIDE DEF tag, X
      <3> QED
          BY <2>6, <3>1
    <2>12. k \in DOMAIN recorded /\ Whole(TiersNow, k) = recorded[k]
      <3>1. Recorded(k)
          BY <1>1 DEF TotalsHold
      <3> QED
          BY <2>11, <3>1 DEF Recorded
    <2>13. recorded[k].count = SumOver(sizes, X)
      <3>1. Describes(Whole(TiersNow, k), ValueIn(TiersNow, k), X)
          BY <2>9, <2>11, MergedDescribes DEF Whole
      <3> QED
          BY <2>12, <3>1 DEF Describes
    <2>14. Cardinality(X) <= SumOver(sizes, X)
      <3>1. \A x \in X : sizes[x] \in Nat \ {0}
          BY <2>9 DEF Statistics
      <3> HIDE DEF sizes, X
      <3> QED
          BY <2>9, <3>1, SumIsAtLeastTheNumber
    <2>15. recorded[k].count <= SampleCount
      <3>1. counts[k] = recorded[k].count
          BY <2>12
      <3> HIDE DEF counts
      <3> QED
          BY <2>2, <2>3, <2>12, <3>1, TermIsInSum
    <2>16. Cardinality(X) \in Nat /\ recorded[k].count \in Nat
        BY <2>9, <2>12, FS_CardinalityType DEF TotalsHold, Statistics
    <2> QED
        BY <2>4, <2>5, <2>10, <2>13, <2>14, <2>15, <2>16
  <1>4. PICK n \in 1 .. MaxSamples : Fresh(sample, n)
    <2>1. Free \in SUBSET Nat
        OBVIOUS
    <2>2. PICK n \in Free : \A j \in Free : n <= j
      <3> HIDE DEF Free
      <3> QED
          BY <1>3, <2>1, LeastExists
    <2>3. \A j \in 1 .. n - 1 : j \notin Free /\ j \in 1 .. MaxSamples
        BY <2>2, <1>1
    <2> QED
        BY <2>3 DEF Fresh
  <1> QED
      BY <1>4, RowIsFree

-----------------------------------------------------------------------------
(* A row more.                                                             *)

AddsRow(F, G, x, v) ==
    /\ DOMAIN G = TierNames
    /\ DOMAIN G["raw"] = DOMAIN F["raw"] \cup {x} /\ x \notin DOMAIN F["raw"]
    /\ G["raw"][x] = v /\ v \in Statistics
    /\ \A r \in DOMAIN F["raw"] : G["raw"][r] = F["raw"][r]
    /\ \A t \in TierNames \ {"raw"} : G[t] = F[t]

\* The rows of the new row's scope are one more, those of another the same.
LEMMA RowsAreOneMore ==
    ASSUME NEW F, IsFamily(F), NEW G, NEW x, NEW v, AddsRow(F, G, x, v)
    PROVE  /\ IsFamily(G)
           /\ \A s : s # x.scope => RowsIn(G, s) = RowsIn(F, s)
           /\ RowsIn(G, x.scope) = RowsIn(F, x.scope) \cup {<<"raw", x>>}
           /\ <<"raw", x>> \notin RowsIn(F, x.scope)
  <1>1. "raw" \in TierNames
      BY DEF TierNames
  <1>2. IsFamily(G)
    <2> SUFFICES ASSUME NEW t \in TierNames
                 PROVE  IsFiniteSet(DOMAIN G[t]) /\ \A r \in DOMAIN G[t] : G[t][r] \in Statistics
        BY DEF IsFamily, AddsRow
    <2>1. IsFiniteSet(DOMAIN F[t]) /\ \A r \in DOMAIN F[t] : F[t][r] \in Statistics
        BY DEF IsFamily
    <2>2. CASE t = "raw"
      <3>1. IsFiniteSet(DOMAIN F["raw"] \cup {x})
          BY <2>1, <2>2, FS_AddElement
      <3> QED
          BY <2>1, <2>2, <3>1 DEF AddsRow
    <2>3. CASE t # "raw"
        BY <2>1, <2>3 DEF AddsRow
    <2> QED
        BY <2>2, <2>3
  <1>3. ASSUME NEW s, NEW y
        PROVE  y \in RowsIn(G, s) <=> y \in RowsIn(F, s) \/ (y = <<"raw", x>> /\ x.scope = s)
    <2>1. ASSUME y \in RowsIn(G, s)
          PROVE  y \in RowsIn(F, s) \/ (y = <<"raw", x>> /\ x.scope = s)
      <3>1. PICK t \in TierNames : \E r \in DOMAIN G[t] : y = <<t, r>> /\ r.scope = s
          BY <1>2, <2>1, RowsInAre
      <3>2. PICK r \in DOMAIN G[t] : y = <<t, r>> /\ r.scope = s
          BY <3>1
      <3>3. r \in DOMAIN F[t] \/ (t = "raw" /\ r = x)
          BY DEF AddsRow
      <3> QED
          BY <3>2, <3>3, RowsInAre
    <2>2. ASSUME y \in RowsIn(F, s)
          PROVE  y \in RowsIn(G, s)
      <3>1. PICK t \in TierNames : \E r \in DOMAIN F[t] : y = <<t, r>> /\ r.scope = s
          BY <2>2, RowsInAre
      <3>2. PICK r \in DOMAIN F[t] : y = <<t, r>> /\ r.scope = s
          BY <3>1
      <3>3. r \in DOMAIN G[t]
          BY DEF AddsRow
      <3> QED
          BY <1>2, <3>2, <3>3, RowsInAre
    <2>3. ASSUME y = <<"raw", x>>, x.scope = s
          PROVE  y \in RowsIn(G, s)
      <3>1. x \in DOMAIN G["raw"]
          BY DEF AddsRow
      <3> QED
          BY <1>1, <1>2, <2>3, <3>1, RowsInAre
    <2> QED
        BY <2>1, <2>2, <2>3
  <1>4. ASSUME NEW s, s # x.scope
        PROVE  RowsIn(G, s) = RowsIn(F, s)
      BY <1>3, <1>4
  <1>5. RowsIn(G, x.scope) = RowsIn(F, x.scope) \cup {<<"raw", x>>}
      BY <1>3
  <1>6. <<"raw", x>> \notin RowsIn(F, x.scope)
    <2> SUFFICES ASSUME <<"raw", x>> \in RowsIn(F, x.scope) PROVE FALSE
        OBVIOUS
    <2>1. PICK t \in TierNames : \E r \in DOMAIN F[t] : <<"raw", x>> = <<t, r>> /\ r.scope = x.scope
        BY RowsInAre
    <2>2. PICK r \in DOMAIN F[t] : <<"raw", x>> = <<t, r>> /\ r.scope = x.scope
        BY <2>1
    <2>3. t = "raw" /\ r = x
        BY <2>2
    <2> QED
        BY <2>3 DEF AddsRow
  <1> QED
      BY <1>2, <1>4, <1>5, <1>6

\* Merging depends on nothing but the statistics of what is merged.
LEMMA MergedOfSame ==
    ASSUME NEW X, IsFiniteSet(X), X # {}, NEW f, NEW g,
           \A y \in X : f[y] \in Statistics /\ g[y] = f[y]
    PROVE  Merged(g, X) = Merged(f, X)
  <1> DEFINE home == [y \in X |-> y]
  <1>1. /\ home \in [X -> X]
        /\ \A y \in X : \E z \in X : home[z] = y
        /\ \A y, z \in X : home[y] = home[z] => y = z
        /\ \A y \in X : g[home[y]] = f[y]
      OBVIOUS
  <1> HIDE DEF home
  <1> QED
      BY <1>1, MergedOfRenamed

\* So the new row is merged to the whole of its scope and to no other.
LEMMA WholeAfterARow ==
    ASSUME NEW F, IsFamily(F), NEW G, NEW x, NEW v, AddsRow(F, G, x, v)
    PROVE  /\ \A s : s # x.scope /\ RowsIn(F, s) # {} => Whole(G, s) = Whole(F, s)
           /\ RowsIn(F, x.scope) = {} => Whole(G, x.scope) = v
           /\ RowsIn(F, x.scope) # {} =>
                 Whole(G, x.scope) = Merged(<<Whole(F, x.scope), v>>, {1, 2})
  <1>1. /\ IsFamily(G)
        /\ \A s : s # x.scope => RowsIn(G, s) = RowsIn(F, s)
        /\ RowsIn(G, x.scope) = RowsIn(F, x.scope) \cup {<<"raw", x>>}
        /\ <<"raw", x>> \notin RowsIn(F, x.scope)
      BY RowsAreOneMore
  <1>2. ASSUME NEW s, NEW y \in RowsIn(F, s)
        PROVE  ValueIn(G, s)[y] = ValueIn(F, s)[y] /\ ValueIn(F, s)[y] \in Statistics
    <2>1. PICK t \in TierNames : \E r \in DOMAIN F[t] : y = <<t, r>> /\ r.scope = s
        BY RowsInAre
    <2>2. PICK r \in DOMAIN F[t] : y = <<t, r>> /\ r.scope = s
        BY <2>1
    <2>3. r \in DOMAIN G[t] /\ G[t][r] = F[t][r]
        BY DEF AddsRow
    <2>4. ValueIn(G, s)[<<t, r>>] = G[t][r]
        BY <1>1, <2>2, <2>3, RowsAreValued
    <2>5. ValueIn(F, s)[<<t, r>>] = F[t][r] /\ F[t][r] \in Statistics
        BY <2>2, RowsAreValued DEF IsFamily
    <2> QED
        BY <2>2, <2>3, <2>4, <2>5
  <1>3. \A s : IsFiniteSet(RowsIn(F, s))
      BY RowsAreValued
  <1>4. ASSUME NEW s, s # x.scope, RowsIn(F, s) # {}
        PROVE  Whole(G, s) = Whole(F, s)
    <2>1. Merged(ValueIn(G, s), RowsIn(F, s)) = Merged(ValueIn(F, s), RowsIn(F, s))
        BY <1>2, <1>3, <1>4, MergedOfSame
    <2> QED
        BY <1>1, <1>4, <2>1 DEF Whole
  <1> DEFINE s0 == x.scope
             new == {<<"raw", x>>}
  <1>5. ValueIn(G, s0)[<<"raw", x>>] = v /\ v \in Statistics
    <2>1. "raw" \in TierNames /\ x \in DOMAIN G["raw"] /\ G["raw"][x] = v /\ v \in Statistics
        BY DEF AddsRow, TierNames
    <2> QED
        BY <1>1, <2>1, RowsAreValued
  <1>6. Merged(ValueIn(G, s0), new) = v
      BY <1>5, MergedOfOne
  <1>7. RowsIn(F, s0) = {} => Whole(G, s0) = v
      BY <1>1, <1>6 DEF Whole
  <1>8. ASSUME RowsIn(F, s0) # {}
        PROVE  Whole(G, s0) = Merged(<<Whole(F, s0), v>>, {1, 2})
    <2>1. Merged(ValueIn(G, s0), RowsIn(F, s0)) = Whole(F, s0)
      <3> HIDE DEF s0
      <3> QED
          BY <1>2, <1>3, <1>8, MergedOfSame DEF Whole
    <2>2. \A y \in RowsIn(F, s0) \cup new : ValueIn(G, s0)[y] \in Statistics
        BY <1>2, <1>5
    <2>3. IsFiniteSet(new) /\ new # {} /\ RowsIn(F, s0) \cap new = {}
        BY <1>1, FS_Singleton
    <2>4. Merged(ValueIn(G, s0), RowsIn(F, s0) \cup new)
             = Merged(<<Merged(ValueIn(G, s0), RowsIn(F, s0)), Merged(ValueIn(G, s0), new)>>, {1, 2})
      <3> HIDE DEF s0, new
      <3> QED
          BY <1>3, <1>8, <2>2, <2>3, MergedOfTwoSets
    <2>5. Whole(G, s0) = Merged(ValueIn(G, s0), RowsIn(F, s0) \cup new)
        BY <1>1 DEF Whole
    <2> QED
        BY <1>6, <2>1, <2>4, <2>5
  <1> QED
      BY <1>4, <1>7, <1>8

-----------------------------------------------------------------------------
(* AnalyticalMemory: every step keeps the totals.                          *)

IsPut(g, f, x, y) ==
    /\ DOMAIN g = DOMAIN f \cup {x} /\ g[x] = y
    /\ \A z \in DOMAIN f : z # x => g[z] = f[z]

\* What Put leaves.
LEMMA PutIs ==
    ASSUME NEW f, NEW x, NEW y
    PROVE  IsPut(Put(f, x, y), f, x, y)
  BY DEF Put, IsPut

\* A sample is added to the whole of its scope as it is to the history.
LEMMA RecordTotals ==
    ASSUME TotalsHold, NEW sample \in NewSample, Record(sample)
    PROVE  TotalsHold'
  <1> DEFINE k == sample.scope
             v == Statistic(sample.value)
             x == Row(sample)
             F == TiersNow
             G == TiersNow'
             total == IF k \notin DOMAIN recorded THEN v ELSE Merged(<<recorded[k], v>>, {1, 2})
  <1>1. /\ raw' = Put(raw, x, v)
        /\ recorded' = Put(recorded, k, total)
        /\ hourly' = hourly /\ daily' = daily /\ longterm' = longterm
      BY DEF Record
  <1>2. x \notin DOMAIN raw /\ x.scope = k
      BY RowIsNew DEF Record
  <1>3. v \in Statistics
    <2>1. sample.value \in Nat
        BY MemoryAssumption DEF NewSample
    <2> QED
        BY <2>1 DEF Statistic, Statistics
  <1>4. IsFamily(F) /\ (\A s \in Scopes : Recorded(s))
        /\ IsFiniteSet(DOMAIN recorded) /\ \A s \in DOMAIN recorded : recorded[s] \in Statistics
      BY DEF TotalsHold
  <1>5. k \in Scopes
      BY DEF NewSample
  <1>6. /\ DOMAIN F = TierNames /\ DOMAIN G = TierNames
        /\ F["raw"] = raw /\ G["raw"] = Put(raw, x, v)
        /\ F["hourly"] = hourly /\ F["daily"] = daily /\ F["longterm"] = longterm
        /\ G["hourly"] = hourly /\ G["daily"] = daily /\ G["longterm"] = longterm
    <2> HIDE DEF x, v
    <2> QED
        BY <1>1, BandFields DEF TiersNow
  <1> HIDE DEF F, G
  <1>7. AddsRow(F, G, x, v)
    <2>1. \A t \in TierNames \ {"raw"} : G[t] = F[t]
        BY <1>6 DEF TierNames
    <2> HIDE DEF x, v
    <2>2. /\ DOMAIN G["raw"] = DOMAIN raw \cup {x} /\ G["raw"][x] = v
          /\ \A r \in DOMAIN raw : r # x => G["raw"][r] = raw[r]
      <3>1. IsPut(G["raw"], raw, x, v)
          BY <1>6, PutIs
      <3> QED
          BY <3>1 DEF IsPut
    <2> QED
        BY <1>2, <1>3, <1>6, <2>1, <2>2 DEF AddsRow
  <1> HIDE DEF x, v
  <1>8. /\ IsFamily(G)
        /\ \A s : s # x.scope => RowsIn(G, s) = RowsIn(F, s)
        /\ RowsIn(G, x.scope) = RowsIn(F, x.scope) \cup {<<"raw", x>>}
      BY <1>4, <1>7, RowsAreOneMore
  <1>9. /\ \A s : s # x.scope /\ RowsIn(F, s) # {} => Whole(G, s) = Whole(F, s)
        /\ RowsIn(F, x.scope) = {} => Whole(G, x.scope) = v
        /\ RowsIn(F, x.scope) # {} =>
              Whole(G, x.scope) = Merged(<<Whole(F, x.scope), v>>, {1, 2})
      BY <1>4, <1>7, WholeAfterARow
  <1>10. /\ DOMAIN recorded' = DOMAIN recorded \cup {k} /\ recorded'[k] = total
         /\ \A z \in DOMAIN recorded : z # k => recorded'[z] = recorded[z]
    <2> HIDE DEF k, total
    <2> QED
      <3>1. IsPut(recorded', recorded, k, total)
          BY <1>1, PutIs
      <3> QED
          BY <3>1 DEF IsPut
  <1>11. \A s \in Scopes : IF s \notin DOMAIN recorded THEN RowsIn(F, s) = {}
                           ELSE RowsIn(F, s) # {} /\ Whole(F, s) = recorded[s]
      BY <1>4 DEF Recorded, F
  <1>12. RowsIn(G, k) # {} /\ Whole(G, k) = total
      BY <1>2, <1>5, <1>8, <1>9, <1>11
  <1>13. total \in Statistics
    <2>1. CASE k \notin DOMAIN recorded
        BY <1>3, <2>1
    <2>2. CASE k \in DOMAIN recorded
      <3> DEFINE two == <<recorded[k], v>>
      <3>1. \A n \in {1, 2} : two[n] \in Statistics
          BY <1>3, <1>4, <2>2
      <3>2. IsFiniteSet({1, 2}) /\ {1, 2} # {}
        <4>1. IsFiniteSet({1}) /\ {1} \cup {2} = {1, 2}
            BY FS_Singleton
        <4> QED
            BY <4>1, FS_AddElement
      <3>3. Merged(two, {1, 2}) \in Statistics
        <4> HIDE DEF two
        <4> QED
            BY <3>1, <3>2, MergedDescribes
      <3> QED
          BY <2>2, <3>3
    <2> QED
        BY <2>1, <2>2
  <1> HIDE DEF total, k
  <1>14. ASSUME NEW s \in Scopes
         PROVE  IF s \notin DOMAIN recorded' THEN RowsIn(G, s) = {}
                ELSE RowsIn(G, s) # {} /\ Whole(G, s) = recorded'[s]
    <2>1. CASE s = k
        BY <1>10, <1>12, <2>1
    <2>2. CASE s # k
        BY <1>2, <1>8, <1>9, <1>10, <1>11, <2>2
    <2> QED
        BY <2>1, <2>2
  <1>15. \A s \in Scopes : Recorded(s)'
      BY <1>14 DEF Recorded, G
  <1>16. IsFiniteSet(DOMAIN recorded') /\ \A s \in DOMAIN recorded' : recorded'[s] \in Statistics
      BY <1>4, <1>10, <1>13, FS_AddElement
  <1>17. IsFamily(TiersNow)'
      BY <1>8 DEF G, IsFamily
  <1> QED
      BY <1>15, <1>16, <1>17 DEF TotalsHold

\* Tiers without rows have none of any scope.
LEMMA NoRowsAtAll ==
    ASSUME NEW F, DOMAIN F = TierNames, \A t \in TierNames : DOMAIN F[t] = {}
    PROVE  IsFamily(F) /\ \A s : RowsIn(F, s) = {}
  <1>1. IsFamily(F)
      BY FS_EmptySet DEF IsFamily
  <1> QED
      BY <1>1, RowsInAre

\* With no row in any tier, no scope has a sample.
LEMMA NoTotalsAtFirst ==
    ASSUME raw = <<>>, hourly = <<>>, daily = <<>>, longterm = <<>>, recorded = <<>>
    PROVE  TotalsHold
  <1>1. DOMAIN raw = {} /\ DOMAIN hourly = {} /\ DOMAIN daily = {} /\ DOMAIN longterm = {}
        /\ DOMAIN recorded = {}
      OBVIOUS
  <1>2. DOMAIN TiersNow = TierNames /\ \A t \in TierNames : DOMAIN TiersNow[t] = {}
      BY <1>1, BandFields DEF TiersNow, TierNames
  <1>3. IsFamily(TiersNow) /\ \A s : RowsIn(TiersNow, s) = {}
      BY <1>2, NoRowsAtAll
  <1> QED
      BY <1>1, <1>3, FS_EmptySet DEF TotalsHold, Recorded

\* A reset empties the tiers and the history in one transaction.
LEMMA ClearingTotals ==
    ASSUME ClearTiers
    PROVE  TotalsHold'
  <1> DEFINE G == TiersNow'
  <1>1. DOMAIN raw' = {} /\ DOMAIN hourly' = {} /\ DOMAIN daily' = {} /\ DOMAIN longterm' = {}
        /\ DOMAIN recorded' = {}
      BY DEF ClearTiers
  <1>2. DOMAIN G = TierNames /\ \A t \in TierNames : DOMAIN G[t] = {}
      BY <1>1, BandFields DEF TiersNow, TierNames
  <1> HIDE DEF G
  <1>3. IsFamily(G) /\ \A s : RowsIn(G, s) = {}
      BY <1>2, NoRowsAtAll
  <1>4. IsFamily(TiersNow)' /\ \A s : RowsIn(TiersNow, s)' = {}
      BY <1>3 DEF G, IsFamily, RowsIn
  <1> QED
      BY <1>1, <1>4, FS_EmptySet DEF TotalsHold, Recorded

\* A step that changes neither keeps the totals.
LEMMA TotalsStay ==
    ASSUME TotalsHold, tierVars' = tierVars, recorded' = recorded
    PROVE  TotalsHold'
  <1>1. TiersNow' = TiersNow
      BY DEF TiersNow, tierVars
  <1>2. IsFamily(TiersNow)'
      BY <1>1 DEF TotalsHold, IsFamily
  <1>3. ASSUME NEW s \in Scopes
        PROVE  Recorded(s)'
    <2>1. RowsIn(TiersNow, s)' = RowsIn(TiersNow, s)
        BY <1>1 DEF RowsIn
    <2>2. Whole(TiersNow, s)' = Whole(TiersNow, s)
        BY <1>1, <2>1 DEF Whole, ValueIn
    <2>3. Recorded(s)
        BY DEF TotalsHold
    <2> QED
        BY <2>1, <2>2, <2>3 DEF Recorded
  <1> QED
      BY <1>2, <1>3 DEF TotalsHold

\* Every step of a sampler keeps the totals.
LEMMA SamplerTotals ==
    ASSUME MemoryHolds, TotalsHold, NEW s \in Samplers, MemoryStep(s)
    PROVE  TotalsHold'
  <1>1. CASE RecordSample(s)
      BY <1>1, RecordTotals DEF RecordSample
  <1>2. CASE CompactMemory(s)
      BY <1>2, CompactionTotals DEF CompactMemory
  <1>3. CASE ResetMemory(s)
      BY <1>3, ClearingTotals DEF ResetMemory
  <1>4. CASE RecordWithinBudget(s)
      BY <1>4, CompactionTotals DEF RecordWithinBudget
  <1>5. CASE RecordNow(s)
    <2>1. msample[s] \in NewSample
        BY <1>5 DEF MemoryHolds, PipelineHolds, RecordNow
    <2> QED
        BY <1>5, <2>1, RecordTotals DEF RecordNow
  <1>6. CASE CountRaw(s) \/ SamplerBusy(s)
      BY <1>6, TotalsStay DEF CountRaw, SamplerBusy
  <1> QED
      BY <1>1, <1>2, <1>3, <1>4, <1>5, <1>6 DEF MemoryStep

\* So does every step of the store, whichever layers are at work.
LEMMA TotalsStoreStep == MemoryHolds /\ TotalsHold /\ [StoreNext]_storeVars => TotalsHold'
  <1> SUFFICES ASSUME MemoryHolds, TotalsHold, [StoreNext]_storeVars PROVE TotalsHold'
      OBVIOUS
  <1>1. CASE UNCHANGED storeVars
      BY <1>1, TotalsStay DEF storeVars, layerVars, memoryVars
  <1>2. CASE LedgerWork \/ CacheWork \/ OpenWork
      BY <1>2, TotalsStay DEF LedgerWork, CacheWork, OpenWork, layerVars, memoryVars
  <1>3. CASE MemoryWork
      BY <1>3, SamplerTotals DEF MemoryWork, MemoryNext
  <1>4. CASE LayerWork
    <2>1. CASE WriteBeside
        BY <2>1, TotalsStay, RecordTotals DEF WriteBeside, RecordSample, memoryVars
    <2>2. ASSUME NEW m \in Managers, ManagerStep(m)
          PROVE  TotalsHold'
      <3>1. CASE Degrade(m)
          BY <3>1, CompactionTotals DEF Degrade
      <3>2. CASE ResetSamples(m)
          BY <3>2, ClearingTotals DEF ResetSamples
      <3>3. CASE \/ RebuildWithinBudget(m) \/ CheckRows(m) \/ CountCeiling(m) \/ BeginReset(m)
                 \/ ResetCurrentState(m) \/ ResetEvents(m) \/ ResetFails(m)
          BY <3>3, TotalsStay DEF RebuildWithinBudget, CheckRows, CountCeiling, BeginReset,
             ResetCurrentState, ResetEvents, ResetFails, layerVars, memoryVars
      <3> QED
          BY <2>2, <3>1, <3>2, <3>3 DEF ManagerStep
    <2> QED
        BY <1>4, <2>1, <2>2 DEF LayerWork
  <1> QED
      BY <1>1, <1>2, <1>3, <1>4 DEF StoreNext

\* However samples are backdated and compactions interleave, the four tiers
\* together hold for each scope the number, sum, least and greatest of exactly
\* the samples recorded since the last reset (record_sample, compact and its
\* three promotions): none is dropped on the way to a coarser tier and none is
\* counted twice.
THEOREM SamplesAreAllThere == StoreSpec => []NothingLostOrCountedTwice
  <1>1. StoreInit => MemoryHolds /\ TotalsHold
      BY MemoryStarts, NoTotalsAtFirst DEF StoreInit, MemoryInit
  <1>2. MemoryHolds /\ TotalsHold /\ [StoreNext]_storeVars => (MemoryHolds /\ TotalsHold)'
      BY MemoryStoreStep, TotalsStoreStep
  <1>3. MemoryHolds /\ TotalsHold => NothingLostOrCountedTwice
      BY TotalsAreTheProperty
  <1> QED
      BY <1>1, <1>2, <1>3, PTL DEF StoreSpec

-----------------------------------------------------------------------------
(* CurrentState: whose key a row has.                                      *)

RowRecords == [token : Tokens, key : Key \cup {NoKey}]

CacheHolds ==
    /\ DOMAIN cached \subseteq Artifacts /\ builds \in Nat
    /\ attachedAt \in [Artifacts -> Nat]
    /\ \A a \in DOMAIN cached :
          /\ cached[a] \in RowRecords
          /\ cached[a].key # NoKey =>
                attachedAt[a] = builds /\ cached[a].key.token = cached[a].token

LEMMA RebuildKeeps ==
    ASSUME CacheHolds, NEW scan \in Scans, Rebuild(scan)
    PROVE  CacheHolds'
  <1>1. PICK S \in SUBSET Artifacts : scan \in [S -> Tokens]
      BY DEF Scans
  <1>2. cached' = [a \in S |-> [token |-> scan[a], key |-> NoKey]]
      BY <1>1 DEF Rebuild, Scanned
  <1>3. builds' = builds + 1 /\ attachedAt' = attachedAt
      BY DEF Rebuild
  <1>4. \A a \in S : cached'[a].key = NoKey /\ cached'[a] \in RowRecords
      BY <1>1, <1>2 DEF RowRecords
  <1> QED
      BY <1>1, <1>2, <1>3, <1>4 DEF CacheHolds

LEMMA SetKeyKeeps ==
    ASSUME CacheHolds, NEW a \in Artifacts, NEW key \in Key, SetInvalidationKey(a, key)
    PROVE  CacheHolds'
  <1>1. /\ a \in DOMAIN cached /\ cached[a] \in RowRecords /\ cached[a].token = key.token
        /\ builds' = builds /\ attachedAt' = [attachedAt EXCEPT ![a] = builds]
      BY DEF SetInvalidationKey, CacheHolds
  <1> DEFINE row == [cached[a] EXCEPT !.key = key]
  <1>2. row \in RowRecords /\ row.key = key /\ row.token = key.token
      BY <1>1 DEF RowRecords
  <1>3. cached' = [cached EXCEPT ![a] = row]
      BY DEF SetInvalidationKey
  <1> HIDE DEF row
  <1>4. DOMAIN cached' = DOMAIN cached
      BY <1>3
  <1>5. \A b \in DOMAIN cached : cached'[b] = IF b = a THEN row ELSE cached[b]
      BY <1>3
  <1> QED
      BY <1>1, <1>2, <1>4, <1>5 DEF CacheHolds

LEMMA CacheStays ==
    ASSUME CacheHolds, UNCHANGED cacheVars
    PROVE  CacheHolds'
  BY DEF CacheHolds, cacheVars

LEMMA CacheStoreStep ==
    ASSUME CacheHolds, [StoreNext]_storeVars
    PROVE  CacheHolds'
  <1>1. CASE UNCHANGED storeVars
      BY <1>1, CacheStays DEF storeVars, layerVars
  <1>2. CASE LedgerWork \/ MemoryWork \/ OpenWork
      BY <1>2, CacheStays DEF LedgerWork, MemoryWork, OpenWork, layerVars
  <1>3. CASE CacheWork
      BY <1>3, RebuildKeeps, SetKeyKeeps DEF CacheWork, CacheStep
  <1>4. CASE LayerWork
    <2>1. CASE WriteBeside
        BY <2>1, CacheStays DEF WriteBeside
    <2>2. ASSUME NEW m \in Managers, ManagerStep(m)
          PROVE  CacheHolds'
      <3>1. CASE RebuildWithinBudget(m)
          BY <3>1, RebuildKeeps DEF RebuildWithinBudget
      <3>2. CASE ResetCurrentState(m)
        <4>1. cached' = <<>> /\ builds' = builds /\ attachedAt' = attachedAt
            BY <3>2 DEF ResetCurrentState
        <4> QED
            BY <4>1 DEF CacheHolds
      <3>3. CASE CheckRows(m) \/ CountCeiling(m) \/ Degrade(m) \/ BeginReset(m) \/ ResetEvents(m)
                 \/ ResetSamples(m) \/ ResetFails(m)
          BY <3>3, CacheStays DEF CheckRows, CountCeiling, Degrade, BeginReset, ResetEvents,
             ResetSamples, ResetFails, layerVars
      <3> QED
          BY <2>2, <3>1, <3>2, <3>3 DEF ManagerStep
    <2> QED
        BY <1>4, <2>1, <2>2 DEF LayerWork
  <1> QED
      BY <1>1, <1>2, <1>3, <1>4 DEF StoreNext

\* In whatever order rebuilds and keys arrive, a row is reused only under a key
\* attached since the rebuild that wrote it, by who observes its identity
\* (set_invalidation_key, cache_read_hint).
THEOREM KeysAreOfTheirRow == StoreSpec => []ReuseNeedsAKeyOfThisRow
  <1>1. StoreInit => CacheHolds
      BY DEF StoreInit, CacheInit, CacheHolds
  <1>2. CacheHolds => ReuseNeedsAKeyOfThisRow
      BY DEF CacheHolds, ReuseNeedsAKeyOfThisRow, CacheReadHint
  <1> QED
      BY <1>1, <1>2, CacheStoreStep, PTL DEF StoreSpec

-----------------------------------------------------------------------------
(* LocalState: what a reset has emptied.                                   *)

Emptying == [current |-> {}, ledger |-> {"current"}, rollup |-> {"current", "ledger"}]

\* What a manager has emptied, and what it reports outside a reset.
ResetHolds ==
    /\ spc \in [Managers -> {"idle", "rows", "count", "promote"} \cup LayerNames]
    /\ sresult \in [Managers -> {"none", "ok", "within", "degraded"}
                                \cup {FailedAt[l] : l \in LayerNames}]
    /\ emptied \in [Managers -> SUBSET LayerNames]
    /\ \A m \in Managers :
          /\ spc[m] \in LayerNames => emptied[m] = Emptying[spc[m]]
          /\ spc[m] \notin LayerNames =>
                /\ sresult[m] = "ok" => emptied[m] = LayerNames
                /\ \A l \in LayerNames : sresult[m] = FailedAt[l] => emptied[m] = Emptying[l]

LEMMA TheLayers == LayerNames = {"current", "ledger", "rollup"}
  BY DEF LayerNames, Layers

ManagerSteps == {"idle", "rows", "count", "promote"} \cup LayerNames
Endings == {"none", "ok", "within", "degraded"} \cup {FailedAt[l] : l \in LayerNames}

\* One manager's step, result and emptied layers, the others' as they were.
LEMMA OneManagerTurns ==
    ASSUME ResetHolds, NEW m \in Managers,
           NEW step \in ManagerSteps, NEW how \in Endings, NEW gone \in SUBSET LayerNames,
           spc' = [spc EXCEPT ![m] = step],
           sresult' = [sresult EXCEPT ![m] = how],
           emptied' = [emptied EXCEPT ![m] = gone],
           step \in LayerNames => gone = Emptying[step],
           step \notin LayerNames => /\ how = "ok" => gone = LayerNames
                                     /\ \A l \in LayerNames : how = FailedAt[l] => gone = Emptying[l]
    PROVE  ResetHolds'
  <1>1. /\ spc' \in [Managers -> ManagerSteps] /\ sresult' \in [Managers -> Endings]
        /\ emptied' \in [Managers -> SUBSET LayerNames]
      BY DEF ResetHolds, ManagerSteps, Endings
  <1>2. \A n \in Managers :
          /\ spc'[n] = IF n = m THEN step ELSE spc[n]
          /\ sresult'[n] = IF n = m THEN how ELSE sresult[n]
          /\ emptied'[n] = IF n = m THEN gone ELSE emptied[n]
      BY DEF ResetHolds
  <1>3. ASSUME NEW n \in Managers
        PROVE  /\ spc'[n] \in LayerNames => emptied'[n] = Emptying[spc'[n]]
               /\ spc'[n] \notin LayerNames =>
                     /\ sresult'[n] = "ok" => emptied'[n] = LayerNames
                     /\ \A l \in LayerNames : sresult'[n] = FailedAt[l] => emptied'[n] = Emptying[l]
    <2>1. CASE n = m
        BY <1>2, <2>1
    <2>2. CASE n # m
        BY <1>2, <2>2 DEF ResetHolds
    <2> QED
        BY <2>1, <2>2
  <1> QED
      BY <1>1, <1>3 DEF ResetHolds, ManagerSteps, Endings, Emptying, LayerNames, FailedAt

\* The names of the failures, and of nothing else.
LEMMA TheFailures ==
    /\ \A l \in LayerNames : FailedAt[l] \in Endings
    /\ \A l \in LayerNames : FailedAt[l] \notin {"none", "ok", "within", "degraded"}
    /\ \A l, k \in LayerNames : FailedAt[l] = FailedAt[k] => l = k
  <1>1. \A l \in LayerNames : FailedAt[l] \in Endings
      BY DEF Endings
  <1>2. /\ FailedAt["current"] = "current failed" /\ FailedAt["ledger"] = "ledger failed"
        /\ FailedAt["rollup"] = "rollup failed"
      BY DEF FailedAt
  <1>3. \A l \in LayerNames : FailedAt[l] \notin {"none", "ok", "within", "degraded"}
      BY <1>2, TheLayers
  <1>4. \A l, k \in LayerNames : FailedAt[l] = FailedAt[k] => l = k
      BY <1>2, TheLayers
  <1> QED
      BY <1>1, <1>3, <1>4

LEMMA ManagerKeeps ==
    ASSUME ResetHolds, NEW m \in Managers, ManagerStep(m)
    PROVE  ResetHolds'
  <1>0. /\ spc = [spc EXCEPT ![m] = spc[m]] /\ sresult = [sresult EXCEPT ![m] = sresult[m]]
        /\ emptied = [emptied EXCEPT ![m] = emptied[m]]
        /\ spc[m] \in ManagerSteps /\ sresult[m] \in Endings /\ emptied[m] \in SUBSET LayerNames
      BY DEF ResetHolds, ManagerSteps, Endings
  <1>1. CASE RebuildWithinBudget(m) \/ CheckRows(m) \/ CountCeiling(m) \/ Degrade(m)
    <2>1. spc[m] \notin LayerNames /\ emptied' = emptied
        BY <1>1, TheLayers DEF RebuildWithinBudget, CheckRows, CountCeiling, Degrade
    <2>2. \/ /\ sresult' = sresult
             /\ \E step \in {"rows", "count", "promote"} : spc' = [spc EXCEPT ![m] = step]
          \/ /\ spc' = [spc EXCEPT ![m] = "idle"]
             /\ \E how \in {"within", "degraded"} : sresult' = [sresult EXCEPT ![m] = how]
        BY <1>1 DEF RebuildWithinBudget, CheckRows, CountCeiling, Degrade, ToStep, EndWith
    <2>3. ASSUME sresult' = sresult, NEW step \in {"rows", "count", "promote"},
                 spc' = [spc EXCEPT ![m] = step]
          PROVE  ResetHolds'
      <3>1. step \in ManagerSteps /\ step \notin LayerNames
          BY TheLayers DEF ManagerSteps
      <3>2. /\ sresult[m] = "ok" => emptied[m] = LayerNames
            /\ \A l \in LayerNames : sresult[m] = FailedAt[l] => emptied[m] = Emptying[l]
          BY <2>1 DEF ResetHolds
      <3> QED
          BY <1>0, <2>1, <2>3, <3>1, <3>2, OneManagerTurns
    <2>4. ASSUME NEW how \in {"within", "degraded"}, sresult' = [sresult EXCEPT ![m] = how],
                 spc' = [spc EXCEPT ![m] = "idle"]
          PROVE  ResetHolds'
      <3>1. "idle" \in ManagerSteps /\ "idle" \notin LayerNames /\ how \in Endings /\ how # "ok"
            /\ \A l \in LayerNames : how # FailedAt[l]
          BY TheLayers, TheFailures DEF ManagerSteps, Endings
      <3> QED
          BY <1>0, <2>1, <2>4, <3>1, OneManagerTurns
    <2> QED
        BY <2>2, <2>3, <2>4
  <1>2. CASE BeginReset(m)
    <2>1. spc' = [spc EXCEPT ![m] = "current"] /\ emptied' = [emptied EXCEPT ![m] = {}]
          /\ sresult' = sresult
        BY <1>2 DEF BeginReset, ToStep
    <2>2. "current" \in ManagerSteps /\ "current" \in LayerNames /\ Emptying["current"] = {}
        BY TheLayers DEF ManagerSteps, Emptying
    <2> QED
        BY <1>0, <2>1, <2>2, OneManagerTurns
  <1>3. CASE ResetCurrentState(m) \/ ResetEvents(m)
    <2>1. \/ /\ spc[m] = "current" /\ spc' = [spc EXCEPT ![m] = "ledger"]
             /\ emptied' = [emptied EXCEPT ![m] = emptied[m] \cup {"current"}]
             /\ sresult' = sresult
          \/ /\ spc[m] = "ledger" /\ spc' = [spc EXCEPT ![m] = "rollup"]
             /\ emptied' = [emptied EXCEPT ![m] = emptied[m] \cup {"ledger"}]
             /\ sresult' = sresult
        BY <1>3 DEF ResetCurrentState, ResetEvents, Emptied, ToStep
    <2>2. spc[m] \in LayerNames => emptied[m] = Emptying[spc[m]]
        BY DEF ResetHolds
    <2>3. /\ Emptying["current"] \cup {"current"} = Emptying["ledger"]
          /\ Emptying["ledger"] \cup {"ledger"} = Emptying["rollup"]
          /\ \A l \in LayerNames : Emptying[l] \in SUBSET LayerNames
          /\ {"current", "ledger", "rollup"} \subseteq LayerNames
          /\ LayerNames \subseteq ManagerSteps
        BY TheLayers DEF Emptying, ManagerSteps
    <2>4. CASE spc[m] = "current" /\ spc' = [spc EXCEPT ![m] = "ledger"]
               /\ emptied' = [emptied EXCEPT ![m] = emptied[m] \cup {"current"}]
               /\ sresult' = sresult
      <3>1. emptied' = [emptied EXCEPT ![m] = Emptying["ledger"]]
          BY <2>2, <2>3, <2>4
      <3>2. "ledger" \in ManagerSteps /\ "ledger" \in LayerNames
            /\ Emptying["ledger"] \in SUBSET LayerNames
          BY <2>3
      <3> QED
          BY <1>0, <2>4, <3>1, <3>2, OneManagerTurns
    <2>5. CASE spc[m] = "ledger" /\ spc' = [spc EXCEPT ![m] = "rollup"]
               /\ emptied' = [emptied EXCEPT ![m] = emptied[m] \cup {"ledger"}]
               /\ sresult' = sresult
      <3>1. emptied' = [emptied EXCEPT ![m] = Emptying["rollup"]]
          BY <2>2, <2>3, <2>5
      <3>2. "rollup" \in ManagerSteps /\ "rollup" \in LayerNames
            /\ Emptying["rollup"] \in SUBSET LayerNames
          BY <2>3
      <3> QED
          BY <1>0, <2>5, <3>1, <3>2, OneManagerTurns
    <2> QED
        BY <2>1, <2>4, <2>5
  <1>4. CASE ResetSamples(m)
    <2>1. /\ spc[m] = "rollup" /\ spc' = [spc EXCEPT ![m] = "idle"]
          /\ emptied' = [emptied EXCEPT ![m] = emptied[m] \cup {"rollup"}]
          /\ sresult' = [sresult EXCEPT ![m] = "ok"]
        BY <1>4 DEF ResetSamples, Emptied, ToStep, EndWith
    <2>2. emptied[m] \cup {"rollup"} = LayerNames
        BY <2>1, TheLayers DEF ResetHolds, Emptying
    <2>3. "idle" \in ManagerSteps /\ "idle" \notin LayerNames /\ "ok" \in Endings
          /\ \A l \in LayerNames : "ok" # FailedAt[l]
        BY TheLayers, TheFailures DEF ManagerSteps, Endings
    <2> QED
      <3>1. emptied' = [emptied EXCEPT ![m] = LayerNames] /\ LayerNames \in SUBSET LayerNames
          BY <2>1, <2>2
      <3>2. \A l \in LayerNames : "ok" = FailedAt[l] => LayerNames = Emptying[l]
          BY <2>3
      <3> QED
          BY <2>1, <2>3, <3>1, <3>2, OneManagerTurns
  <1>5. CASE ResetFails(m)
    <2>1. /\ spc[m] \in LayerNames /\ spc' = [spc EXCEPT ![m] = "idle"]
          /\ emptied' = emptied
          /\ sresult' = [sresult EXCEPT ![m] = FailedAt[spc[m]]]
        BY <1>5 DEF ResetFails, ToStep, EndWith
    <2>2. emptied[m] = Emptying[spc[m]]
        BY <2>1 DEF ResetHolds
    <2>3. "idle" \in ManagerSteps /\ "idle" \notin LayerNames /\ FailedAt[spc[m]] \in Endings
          /\ FailedAt[spc[m]] # "ok"
          /\ \A l \in LayerNames : FailedAt[spc[m]] = FailedAt[l] => l = spc[m]
        BY <2>1, TheLayers, TheFailures DEF ManagerSteps
    <2>4. /\ FailedAt[spc[m]] = "ok" => emptied[m] = LayerNames
          /\ \A l \in LayerNames : FailedAt[spc[m]] = FailedAt[l] => emptied[m] = Emptying[l]
        BY <2>2, <2>3
    <2> QED
        BY <1>0, <2>1, <2>3, <2>4, OneManagerTurns
  <1> QED
      BY <1>1, <1>2, <1>3, <1>4, <1>5 DEF ManagerStep

\* A reset that succeeds has emptied every layer, one that fails those before
\* the one it names and no other (reset_local_state).
THEOREM ResetsTellWhatIsLeft == StoreSpec => []ResetTellsWhatIsLeft
  <1>1. StoreInit => ResetHolds
      BY TheLayers DEF StoreInit, ResetHolds, FailedAt
  <1>2. ResetHolds /\ [StoreNext]_storeVars => ResetHolds'
    <2> SUFFICES ASSUME ResetHolds, [StoreNext]_storeVars PROVE ResetHolds'
        OBVIOUS
    <2>1. CASE UNCHANGED managerVars
        BY <2>1 DEF managerVars, ResetHolds
    <2>2. CASE \E m \in Managers : ManagerStep(m)
        BY <2>2, ManagerKeeps
    <2> QED
        BY <2>1, <2>2 DEF StoreNext, LedgerWork, MemoryWork, CacheWork, OpenWork, LayerWork, storeVars
  <1>3. ResetHolds => ResetTellsWhatIsLeft
    <2> SUFFICES ASSUME ResetHolds, NEW m \in Managers, spc[m] = "idle"
                 PROVE  /\ sresult[m] = "ok" => emptied[m] = LayerNames
                        /\ \A n \in DOMAIN Layers : sresult[m] = FailedAt[Layers[n]] =>
                              emptied[m] = {Layers[k] : k \in 1 .. n - 1}
        BY DEF ResetTellsWhatIsLeft
    <2>1. \A n \in DOMAIN Layers : Layers[n] \in LayerNames
                                   /\ Emptying[Layers[n]] = {Layers[k] : k \in 1 .. n - 1}
      <3>1. DOMAIN Layers = {1, 2, 3}
          BY DEF Layers
      <3>2. Layers[1] = "current" /\ Layers[2] = "ledger" /\ Layers[3] = "rollup"
          BY DEF Layers
      <3>3. {Layers[k] : k \in 1 .. 1 - 1} = {} /\ {Layers[k] : k \in 1 .. 2 - 1} = {"current"}
            /\ {Layers[k] : k \in 1 .. 3 - 1} = {"current", "ledger"}
          BY <3>2
      <3> QED
          BY <3>1, <3>2, <3>3 DEF Emptying, LayerNames
    <2> QED
        BY <2>1, TheLayers DEF ResetHolds
  <1> QED
      BY <1>1, <1>2, <1>3, PTL DEF StoreSpec

-----------------------------------------------------------------------------
(* Database: the schema of a file, and who may meet it.                   *)

\* What an opener may rely on at each step, and what its program finds.
Opens(o) ==
    /\ opc[o] = "opened" => 1 .. ships[o] \subseteq file.steps
    /\ file.link => opc[o] \in {"path", "refused", "dead"}
    /\ ~Marked /\ file.version > 0 => opc[o] \in {"path", "before", "refused", "dead"}
    /\ opc[o] \in {"migrate", "after"} =>
          IF Marked THEN seen[o] <= file.version ELSE seen[o] = 0
    /\ opc[o] = "after" => seen[o] >= ships[o]

\* The file's tables are those of its version, or none of ours.
FileHolds ==
    /\ file = [origin |-> file.origin, link |-> file.link, version |-> file.version,
               steps |-> file.steps]
    /\ file.version \in Int
    /\ IF Marked THEN file.steps = 1 .. file.version /\ file.version >= 1
       ELSE file.steps = {}
    /\ file.origin = "mimic" => file.steps = {}
    /\ file.link => file.steps = {}

DatabaseHolds ==
    /\ FileHolds
    /\ ships \in [Openers -> Nat \ {0}]
    /\ opc \in [Openers -> {"path", "before", "version", "migrate", "after"} \cup Ended]
    /\ seen \in [Openers -> Nat]
    /\ \A o \in Openers : Opens(o)

\* Somebody is before the read of the version, or the version it read still is
\* the file's.
SomeoneIsInTime ==
    fortunate /\ file.origin \in {"none", "ours"} =>
        /\ ~file.link
        /\ ~Marked => file.version = 0
        /\ \E o \in Openers : \/ opc[o] \in {"path", "before", "version"}
                              \/ /\ opc[o] \in {"migrate", "after", "opened"}
                                 /\ seen[o] = file.version

\* A step of one opener that leaves the file alone.
LEMMA OpenerTurns ==
    ASSUME DatabaseHolds, NEW o \in Openers,
           NEW step \in {"path", "before", "version", "migrate", "after"} \cup Ended,
           NEW read \in Nat,
           file' = file, ships' = ships,
           opc' = [opc EXCEPT ![o] = step], seen' = [seen EXCEPT ![o] = read],
           step = "opened" => 1 .. ships[o] \subseteq file.steps,
           file.link => step \in {"path", "refused", "dead"},
           ~Marked /\ file.version > 0 => step \in {"path", "before", "refused", "dead"},
           step \in {"migrate", "after"} =>
              IF Marked THEN read <= file.version ELSE read = 0,
           step = "after" => read >= ships[o]
    PROVE  DatabaseHolds'
  <1>1. /\ opc' \in [Openers -> {"path", "before", "version", "migrate", "after"} \cup Ended]
        /\ seen' \in [Openers -> Nat] /\ Marked' = Marked /\ FileHolds'
      BY DEF DatabaseHolds, Marked, FileHolds
  <1>2. ASSUME NEW p \in Openers PROVE Opens(p)'
    <2>1. CASE p = o
      <3>1. opc'[p] = step /\ seen'[p] = read /\ ships'[p] = ships[o]
          BY <2>1 DEF DatabaseHolds
      <3> QED
          BY <3>1, <1>1, <2>1 DEF Opens
    <2>2. CASE p # o
      <3>1. opc'[p] = opc[p] /\ seen'[p] = seen[p] /\ Opens(p)
          BY <2>2 DEF DatabaseHolds
      <3> QED
          BY <3>1, <1>1 DEF Opens
    <2> QED
        BY <2>1, <2>2
  <1> QED
      BY <1>1, <1>2 DEF DatabaseHolds

\* The migration that applies is the next of the file's version.
LEMMA MigratesTheNext ==
    ASSUME DatabaseHolds, NEW o \in Openers, opc[o] = "migrate"
    PROVE  /\ Applies(seen[o] + 1) =>
                 /\ seen[o] = IF Marked THEN file.version ELSE 0
                 /\ file.origin # "mimic" /\ ~file.link
                 /\ file.steps \cup {seen[o] + 1} = 1 .. seen[o] + 1
           /\ seen[o] = (IF Marked THEN file.version ELSE 0) /\ file.origin # "mimic" =>
                 Applies(seen[o] + 1)
  <1>1. /\ Opens(o) /\ FileHolds /\ seen[o] \in Nat
      BY DEF DatabaseHolds
  <1>2. CASE Marked
    <2>1. file.steps = 1 .. file.version /\ file.version \in Nat /\ seen[o] <= file.version
          /\ file.origin # "mimic" /\ ~file.link /\ file.version >= 1
        BY <1>1, <1>2 DEF FileHolds, Opens, Marked
    <2>2. Applies(seen[o] + 1) <=> seen[o] = file.version
        BY <1>1, <2>1 DEF Applies
    <2>3. seen[o] = file.version => 1 .. file.version \cup {seen[o] + 1} = 1 .. seen[o] + 1
        BY <2>1
    <2> QED
        BY <1>2, <2>1, <2>2, <2>3
  <1>3. CASE ~Marked
    <2>1. file.steps = {} /\ seen[o] = 0 /\ ~file.link
        BY <1>1, <1>3 DEF FileHolds, Opens
    <2>2. seen[o] + 1 = 1 /\ 1 .. 1 = {1} /\ 1 .. 1 - 1 = {}
        BY <2>1
    <2>3. Applies(seen[o] + 1) <=> file.origin # "mimic"
        BY <2>1, <2>2 DEF Applies
    <2> QED
        BY <1>3, <2>1, <2>2, <2>3
  <1> QED
      BY <1>2, <1>3

\* The transaction that applies it leaves the others as they were.
LEMMA MigrationKeeps ==
    ASSUME DatabaseHolds, NEW o \in Openers, Migrate(o), Applies(seen[o] + 1)
    PROVE  DatabaseHolds' /\ file'.version = seen'[o] /\ file'.origin = file.origin
           /\ file'.link = file.link /\ Marked'
           /\ opc'[o] \in {"migrate", "after"}
  <1> DEFINE n == seen[o] + 1
  <1>1. /\ seen[o] \in Nat /\ seen[o] = (IF Marked THEN file.version ELSE 0)
        /\ file.origin # "mimic" /\ ~file.link /\ file.steps \cup {n} = 1 .. n
        /\ n \in Nat /\ n >= 1 /\ FileHolds
      BY MigratesTheNext DEF Migrate, DatabaseHolds
  <1>2. /\ opc[o] = "migrate" /\ file' = [file EXCEPT !.steps = file.steps \cup {n}, !.version = n]
        /\ seen' = [seen EXCEPT ![o] = n] /\ opc' = [opc EXCEPT ![o] = StepAfter(o, n)]
        /\ ships' = ships
      BY DEF Migrate, Goto
  <1>3. /\ file'.origin = file.origin /\ file'.link = file.link /\ file'.version = n
        /\ file'.steps = 1 .. n
        /\ file' = [origin |-> file.origin, link |-> file.link, version |-> n, steps |-> 1 .. n]
      BY <1>1, <1>2 DEF FileHolds
  <1>4. Marked' /\ FileHolds'
      BY <1>1, <1>3 DEF Marked, FileHolds
  <1>5. StepAfter(o, n) \in {"migrate", "after"} /\ (StepAfter(o, n) = "after" => n >= ships[o])
      BY <1>1 DEF StepAfter, DatabaseHolds
  <1>6. /\ opc' \in [Openers -> {"path", "before", "version", "migrate", "after"} \cup Ended]
        /\ seen' \in [Openers -> Nat]
      BY <1>1, <1>2, <1>5 DEF DatabaseHolds
  <1> HIDE DEF n
  <1>7. ASSUME NEW p \in Openers PROVE Opens(p)'
    <2>1. CASE p = o
      <3>1. opc'[p] = StepAfter(o, n) /\ seen'[p] = n /\ ships'[p] = ships[o]
          BY <1>2, <2>1 DEF DatabaseHolds
      <3> QED
          BY <3>1, <1>1, <1>3, <1>4, <1>5 DEF Opens
    <2>2. CASE p # o
      <3>1. opc'[p] = opc[p] /\ seen'[p] = seen[p] /\ ships'[p] = ships[p] /\ Opens(p)
            /\ seen[p] \in Nat
          BY <1>2, <2>2 DEF DatabaseHolds
      <3>2. file.steps \subseteq file'.steps
          BY <1>1, <1>3
      <3>3. opc[p] \in {"migrate", "after"} => seen[p] <= n
        <4>1. IF Marked THEN n = file.version + 1 /\ file.version \in Int ELSE n = 1
            BY <1>1 DEF n, FileHolds
        <4> QED
            BY <4>1, <3>1 DEF Opens
      <3> QED
          BY <3>1, <3>2, <3>3, <1>1, <1>3, <1>4 DEF Opens
    <2> QED
        BY <2>1, <2>2
  <1>8. DatabaseHolds'
      BY <1>2, <1>4, <1>6, <1>7 DEF DatabaseHolds
  <1>9. seen'[o] = n /\ opc'[o] = StepAfter(o, n)
      BY <1>2 DEF DatabaseHolds
  <1> QED
      BY <1>3, <1>4, <1>5, <1>8, <1>9

LEMMA OpenerKeeps ==
    ASSUME DatabaseHolds, NEW o \in Openers, OpenStep(o)
    PROVE  DatabaseHolds'
  <1>0. Opens(o) /\ FileHolds /\ seen[o] \in Nat /\ ships[o] \in Nat \ {0}
        /\ seen = [seen EXCEPT ![o] = seen[o]]
      BY DEF DatabaseHolds
  <1>1. CASE PathFor(o)
    <2> DEFINE step == IF file.link THEN "refused" ELSE "before"
    <2>1. /\ file' = file /\ ships' = ships /\ seen' = seen /\ opc' = [opc EXCEPT ![o] = step]
        BY <1>1 DEF PathFor, Goto
    <2>2. step \in {"refused", "before"} /\ (file.link => step = "refused")
        OBVIOUS
    <2> HIDE DEF step
    <2> QED
        BY <1>0, <2>1, <2>2, OpenerTurns DEF Ended
  <1>2. CASE VerifyBefore(o)
    <2> DEFINE step == IF file.version > 0 /\ ~Marked THEN "refused" ELSE "version"
    <2>1. /\ file' = file /\ ships' = ships /\ seen' = seen /\ opc' = [opc EXCEPT ![o] = step]
          /\ opc[o] = "before"
        BY <1>2 DEF VerifyBefore, Goto
    <2>2. step \in {"refused", "version"} /\ (file.version > 0 /\ ~Marked => step = "refused")
        OBVIOUS
    <2>3. ~file.link
        BY <1>0, <2>1 DEF Opens
    <2> HIDE DEF step
    <2> QED
        BY <1>0, <2>1, <2>2, <2>3, OpenerTurns DEF Ended
  <1>3. CASE ReadVersion(o)
    <2> DEFINE version == IF file.version < 0 THEN 0 ELSE file.version
    <2>1. /\ file' = file /\ ships' = ships /\ seen' = [seen EXCEPT ![o] = version]
          /\ opc' = [opc EXCEPT ![o] = StepAfter(o, version)] /\ opc[o] = "version"
        BY <1>3 DEF ReadVersion, Goto
    <2>2. /\ version \in Nat /\ ~file.link /\ ~(~Marked /\ file.version > 0)
          /\ IF Marked THEN version = file.version ELSE version = 0
        BY <1>0, <2>1 DEF FileHolds, Opens
    <2>3. StepAfter(o, version) \in {"migrate", "after"}
          /\ (StepAfter(o, version) = "after" => version >= ships[o])
        BY <1>0, <2>2 DEF StepAfter
    <2> HIDE DEF version
    <2>4. IF Marked THEN version <= file.version ELSE version = 0
        BY <2>2, <1>0 DEF FileHolds
    <2> QED
        BY <1>0, <2>1, <2>2, <2>3, <2>4, OpenerTurns DEF Ended
  <1>4. CASE Migrate(o)
    <2>1. CASE Applies(seen[o] + 1)
        BY <1>4, <2>1, MigrationKeeps
    <2>2. CASE ~Applies(seen[o] + 1)
      <3>1. /\ file' = file /\ ships' = ships /\ seen' = seen /\ opc' = [opc EXCEPT ![o] = "refused"]
          BY <1>4, <2>2 DEF Migrate, Goto
      <3> QED
          BY <1>0, <3>1, OpenerTurns DEF Ended
    <2> QED
        BY <2>1, <2>2
  <1>5. CASE VerifyAfter(o)
    <2> DEFINE step == IF Marked THEN "opened" ELSE "refused"
    <2>1. /\ file' = file /\ ships' = ships /\ seen' = seen /\ opc' = [opc EXCEPT ![o] = step]
          /\ opc[o] = "after"
        BY <1>5 DEF VerifyAfter, Goto
    <2>2. step \in {"refused", "opened"} /\ (step = "opened" => Marked)
        OBVIOUS
    <2>3. ~file.link /\ ~(~Marked /\ file.version > 0)
        BY <1>0, <2>1 DEF Opens
    <2>4. Marked => 1 .. ships[o] \subseteq file.steps
        BY <1>0, <2>1 DEF Opens, FileHolds
    <2> HIDE DEF step
    <2> QED
        BY <1>0, <2>1, <2>2, <2>3, <2>4, OpenerTurns DEF Ended
  <1>6. CASE Locked(o) \/ Die(o)
    <2>1. PICK step \in {"refused", "dead"} :
             /\ file' = file /\ ships' = ships /\ seen' = seen
             /\ opc' = [opc EXCEPT ![o] = step]
        BY <1>6 DEF Locked, Die, Goto
    <2> QED
        BY <1>0, <2>1, OpenerTurns DEF Ended
  <1>7. CASE Reopen(o)
    <2>1. /\ file' = file /\ ships' = ships /\ seen' = [seen EXCEPT ![o] = 0]
          /\ opc' = [opc EXCEPT ![o] = "path"]
        BY <1>7 DEF Reopen, Goto
    <2> QED
        BY <1>0, <2>1, OpenerTurns DEF Ended
  <1> QED
      BY <1>1, <1>2, <1>3, <1>4, <1>5, <1>6, <1>7 DEF OpenStep

LEMMA StoreLeavesTheFile ==
    ASSUME [StoreNext]_storeVars, ~(\E o \in Openers : OpenStep(o))
    PROVE  UNCHANGED databaseVars
  BY DEF StoreNext, LedgerWork, MemoryWork, CacheWork, OpenWork, LayerWork, storeVars, DatabaseNext

LEMMA DatabaseStep == DatabaseHolds /\ [StoreNext]_storeVars => DatabaseHolds'
  <1> SUFFICES ASSUME DatabaseHolds, [StoreNext]_storeVars PROVE DatabaseHolds'
      OBVIOUS
  <1>1. CASE \E o \in Openers : OpenStep(o)
      BY <1>1, OpenerKeeps
  <1>2. CASE UNCHANGED databaseVars
      BY <1>2 DEF databaseVars, DatabaseHolds, FileHolds, Opens, Marked
  <1> QED
      BY <1>1, <1>2, StoreLeavesTheFile

LEMMA DatabaseStarts == StoreInit => DatabaseHolds
  <1> SUFFICES ASSUME StoreInit PROVE DatabaseHolds
      OBVIOUS
  <1>1. CASE workload = "open"
    <2>1. DatabaseInit
        BY <1>1 DEF StoreInit
    <2>2. FileHolds
      <3>1. file \in Files
          BY <2>1 DEF DatabaseInit
      <3>2. CASE file = [origin |-> "none", link |-> FALSE, version |-> 0, steps |-> {}]
          BY <3>2 DEF FileHolds, Marked
      <3>3. CASE \E k \in 1 .. MaxMigrations :
                    file = [origin |-> "ours", link |-> FALSE, version |-> k, steps |-> 1 .. k]
          BY <3>3, DatabaseAssumption DEF FileHolds, Marked
      <3>4. CASE file \in [origin : {"foreign", "mimic"}, link : BOOLEAN,
                           version : -1 .. MaxMigrations + 1, steps : {{}}]
          BY <3>4, DatabaseAssumption DEF FileHolds, Marked
      <3> QED
          BY <3>1, <3>2, <3>3, <3>4 DEF Files
    <2>3. /\ ships \in [Openers -> Nat \ {0}]
          /\ opc = [o \in Openers |-> "path"] /\ seen = [o \in Openers |-> 0]
        BY <2>1, DatabaseAssumption DEF DatabaseInit
    <2> QED
        BY <2>2, <2>3 DEF DatabaseHolds, Opens, Ended
  <1>2. CASE workload # "open"
    <2>1. /\ file = [origin |-> "ours", link |-> FALSE, version |-> MaxMigrations,
                     steps |-> 1 .. MaxMigrations]
          /\ ships = [o \in Openers |-> MaxMigrations]
          /\ opc = [o \in Openers |-> "opened"]
          /\ seen = [o \in Openers |-> MaxMigrations]
        BY <1>2 DEF StoreInit
    <2>2. MaxMigrations \in Nat \ {0}
        BY DatabaseAssumption
    <2>3. FileHolds /\ Marked /\ ~file.link
        BY <2>1, <2>2 DEF FileHolds, Marked
    <2> QED
        BY <2>1, <2>2, <2>3 DEF DatabaseHolds, Opens, Ended
  <1> QED
      BY <1>1, <1>2

\* In every database, whichever versions of the program open it together and
\* wherever they die, the tables are those user_version counts, what is opened
\* has the tables its opener needs, and a mimic or a link is left alone
\* (open_at_path, apply_migrations).
THEOREM SchemaIsTheVersions == StoreSpec => []SchemaMatchesVersion
  <1>1. DatabaseHolds => SchemaMatchesVersion
      BY DEF DatabaseHolds, FileHolds, Opens, SchemaMatchesVersion
  <1> QED
      BY <1>1, DatabaseStarts, DatabaseStep, PTL DEF StoreSpec

-----------------------------------------------------------------------------
(* Database: openers that meet do not all fail.                            *)

\* The openers that are in time after one opener's step that leaves the file.
LEMMA StaysInTime ==
    ASSUME SomeoneIsInTime, NEW p \in Openers, NEW step, NEW read,
           fortunate' = fortunate, file' = file,
           opc \in [Openers -> {"path", "before", "version", "migrate", "after"} \cup Ended],
           seen \in [Openers -> Nat],
           opc' = [opc EXCEPT ![p] = step], seen' = [seen EXCEPT ![p] = read],
           \/ step \in {"path", "before", "version"}
           \/ step \in {"migrate", "after", "opened"} /\ read = file.version
           \/ /\ fortunate /\ file.origin \in {"none", "ours"}
              => /\ opc[p] \notin {"path", "before", "version"}
                 /\ ~(opc[p] \in {"migrate", "after", "opened"} /\ seen[p] = file.version)
           \/ /\ step \in {"migrate", "after", "opened"} /\ read = seen[p]
              /\ opc[p] \in {"migrate", "after", "opened"}
    PROVE  SomeoneIsInTime'
  <1> SUFFICES ASSUME fortunate, file.origin \in {"none", "ours"}
               PROVE  \E o \in Openers : \/ opc'[o] \in {"path", "before", "version"}
                                         \/ /\ opc'[o] \in {"migrate", "after", "opened"}
                                            /\ seen'[o] = file.version
      BY DEF SomeoneIsInTime, Marked
  <1>1. PICK o \in Openers : \/ opc[o] \in {"path", "before", "version"}
                             \/ /\ opc[o] \in {"migrate", "after", "opened"}
                                /\ seen[o] = file.version
      BY DEF SomeoneIsInTime
  <1>2. opc'[p] = step /\ seen'[p] = read
      OBVIOUS
  <1>3. CASE o = p
      BY <1>1, <1>2, <1>3
  <1>4. CASE o # p
    <2>1. opc'[o] = opc[o] /\ seen'[o] = seen[o]
        BY <1>4
    <2> QED
        BY <1>1, <2>1
  <1> QED
      BY <1>3, <1>4

LEMMA OpenerInTime ==
    ASSUME DatabaseHolds, SomeoneIsInTime, NEW p \in Openers, OpenStep(p)
    PROVE  SomeoneIsInTime'
  <1>0. /\ Opens(p) /\ FileHolds /\ seen[p] \in Nat /\ ships[p] \in Nat \ {0}
        /\ opc \in [Openers -> {"path", "before", "version", "migrate", "after"} \cup Ended]
        /\ seen \in [Openers -> Nat]
        /\ seen = [seen EXCEPT ![p] = seen[p]]
      BY DEF DatabaseHolds
  <1>1. CASE PathFor(p) \/ VerifyBefore(p)
    <2>1. /\ file' = file /\ fortunate' = fortunate /\ seen' = seen
          /\ \E step \in {"before", "version", "refused"} :
                /\ opc' = [opc EXCEPT ![p] = step]
                /\ step = "refused" => file.link \/ (file.version > 0 /\ ~Marked)
        BY <1>1 DEF PathFor, VerifyBefore, Goto
    <2>2. PICK step \in {"before", "version", "refused"} :
             /\ opc' = [opc EXCEPT ![p] = step]
             /\ step = "refused" => file.link \/ (file.version > 0 /\ ~Marked)
        BY <2>1
    <2>3. CASE step = "refused"
      <3>1. ~(fortunate /\ file.origin \in {"none", "ours"})
          BY <2>2, <2>3 DEF SomeoneIsInTime
      <3> QED
          BY <2>1, <3>1 DEF SomeoneIsInTime
    <2>4. CASE step # "refused"
        BY <1>0, <2>1, <2>2, <2>4, StaysInTime
    <2> QED
        BY <2>3, <2>4
  <1>2. CASE ReadVersion(p)
    <2> DEFINE version == IF file.version < 0 THEN 0 ELSE file.version
    <2>1. /\ file' = file /\ fortunate' = fortunate /\ seen' = [seen EXCEPT ![p] = version]
          /\ opc' = [opc EXCEPT ![p] = StepAfter(p, version)]
        BY <1>2 DEF ReadVersion, Goto
    <2>2. StepAfter(p, version) \in {"migrate", "after", "opened"}
        BY DEF StepAfter
    <2>3. CASE fortunate /\ file.origin \in {"none", "ours"}
      <3>1. version = file.version
          BY <1>0, <2>3 DEF SomeoneIsInTime, FileHolds
      <3> QED
          BY <1>0, <2>1, <2>2, <3>1, StaysInTime
    <2>4. CASE ~(fortunate /\ file.origin \in {"none", "ours"})
        BY <2>1, <2>4 DEF SomeoneIsInTime
    <2> QED
        BY <2>3, <2>4
  <1>3. CASE Migrate(p)
    <2>1. CASE Applies(seen[p] + 1)
      <3>1. /\ file'.version = seen'[p] /\ file'.origin = file.origin /\ file'.link = file.link
            /\ Marked' /\ opc'[p] \in {"migrate", "after"} /\ fortunate' = fortunate
          BY <1>3, <2>1, MigrationKeeps DEF Migrate
      <3> QED
          BY <3>1 DEF SomeoneIsInTime
    <2>2. CASE ~Applies(seen[p] + 1)
      <3>1. /\ file' = file /\ fortunate' = fortunate /\ seen' = seen
            /\ opc[p] = "migrate" /\ opc' = [opc EXCEPT ![p] = "refused"]
          BY <1>3, <2>2 DEF Migrate, Goto
      <3>2. fortunate /\ file.origin \in {"none", "ours"} => seen[p] # file.version
          BY <2>2, <3>1, MigratesTheNext DEF SomeoneIsInTime
      <3>3. CASE fortunate /\ file.origin \in {"none", "ours"}
          BY <1>0, <3>1, <3>2, <3>3, StaysInTime
      <3>4. CASE ~(fortunate /\ file.origin \in {"none", "ours"})
          BY <3>1, <3>4 DEF SomeoneIsInTime
      <3> QED
          BY <3>3, <3>4
    <2> QED
        BY <2>1, <2>2
  <1>4. CASE VerifyAfter(p)
    <2>1. /\ file' = file /\ fortunate' = fortunate /\ seen' = seen /\ opc[p] = "after"
          /\ opc' = [opc EXCEPT ![p] = IF Marked THEN "opened" ELSE "refused"]
        BY <1>4 DEF VerifyAfter, Goto
    <2>2. Marked
        BY <1>0, <2>1 DEF Opens
    <2> QED
        BY <1>0, <2>1, <2>2, StaysInTime
  <1>5. CASE Locked(p) \/ Die(p)
      BY <1>5 DEF Locked, Die, SomeoneIsInTime
  <1>6. CASE Reopen(p)
    <2>1. /\ file' = file /\ fortunate' = fortunate /\ seen' = [seen EXCEPT ![p] = 0]
          /\ opc' = [opc EXCEPT ![p] = "path"]
        BY <1>6 DEF Reopen, Goto
    <2> QED
        BY <1>0, <2>1, StaysInTime
  <1> QED
      BY <1>1, <1>2, <1>3, <1>4, <1>5, <1>6 DEF OpenStep

LEMMA SomeoneStarts == StoreInit => SomeoneIsInTime
  <1> SUFFICES ASSUME StoreInit PROVE SomeoneIsInTime
      OBVIOUS
  <1>0. PICK o \in Openers : TRUE
      BY DatabaseAssumption
  <1>1. CASE workload = "open"
    <2>1. file \in Files /\ opc = [p \in Openers |-> "path"]
        BY <1>1 DEF StoreInit, DatabaseInit
    <2>2. file.origin \in {"none", "ours"} =>
             ~file.link /\ (~Marked => file.version = 0)
      <3>1. CASE file = [origin |-> "none", link |-> FALSE, version |-> 0, steps |-> {}]
          BY <3>1
      <3>2. CASE \E k \in 1 .. MaxMigrations :
                    file = [origin |-> "ours", link |-> FALSE, version |-> k, steps |-> 1 .. k]
          BY <3>2, DatabaseAssumption DEF Marked
      <3>3. CASE file \in [origin : {"foreign", "mimic"}, link : BOOLEAN,
                           version : -1 .. MaxMigrations + 1, steps : {{}}]
          BY <3>3
      <3> QED
          BY <2>1, <3>1, <3>2, <3>3 DEF Files
    <2> QED
        BY <1>0, <2>1, <2>2 DEF SomeoneIsInTime
  <1>2. CASE workload # "open"
    <2>1. /\ file = [origin |-> "ours", link |-> FALSE, version |-> MaxMigrations,
                     steps |-> 1 .. MaxMigrations]
          /\ opc = [p \in Openers |-> "opened"]
          /\ seen = [p \in Openers |-> MaxMigrations]
        BY <1>2 DEF StoreInit
    <2>2. Marked /\ ~file.link /\ seen[o] = file.version /\ opc[o] = "opened"
        BY <1>0, <2>1, DatabaseAssumption DEF Marked
    <2> QED
        BY <1>0, <2>2 DEF SomeoneIsInTime
  <1> QED
      BY <1>1, <1>2

\* When every opener has ended, nobody died and the file was never locked, one
\* of them has the database open: an opener is refused only because another's
\* migration came first (apply_migrations).
THEOREM OpenersDoNotAllFail == StoreSpec => []SomeoneOpens
  <1>1. SomeoneIsInTime /\ DatabaseHolds /\ [StoreNext]_storeVars => SomeoneIsInTime'
    <2> SUFFICES ASSUME SomeoneIsInTime, DatabaseHolds, [StoreNext]_storeVars
                 PROVE  SomeoneIsInTime'
        OBVIOUS
    <2>1. CASE \E o \in Openers : OpenStep(o)
        BY <2>1, OpenerInTime
    <2>2. CASE UNCHANGED databaseVars
        BY <2>2 DEF databaseVars, SomeoneIsInTime, Marked
    <2> QED
        BY <2>1, <2>2, StoreLeavesTheFile
  <1>2. SomeoneIsInTime => SomeoneOpens
      BY DEF SomeoneIsInTime, SomeoneOpens, Ended
  <1> QED
      BY <1>1, <1>2, SomeoneStarts, DatabaseStarts, DatabaseStep, PTL DEF StoreSpec
=============================================================================
