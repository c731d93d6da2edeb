----------------------------- MODULE EventLedger -----------------------------
(***************************************************************************)
(* The operational event ledger of cancellai-store: rows that are only     *)
(* ever removed by a compaction, which puts a summary in their place; the  *)
(* budget that compacts around an append; the tombstones of purges.        *)
(*                                                                         *)
(*   ledger.rs     append, append_purged, compact_range,                   *)
(*                 compact_oldest_to_fit, reset                            *)
(*   budget.rs     append_within_ledger_budget                             *)
(*   tombstone.rs  record_purge_tombstone                                  *)
(*                                                                         *)
(* Writers are processes with a connection each to the one database file.  *)
(* A SQLite transaction is one step, which may fail because another        *)
(* connection holds the file (Busy).                                       *)
(***************************************************************************)
EXTENDS Naturals, Sequences, FiniteSets

CONSTANTS
    Writers,
    KindsUsed,       \* the kinds of events the writers record
    MaxLedgerEvents, \* BudgetLimits::max_ledger_events
    MaxAppends       \* bound on the events ever appended

ASSUME LedgerAssumption ==
    /\ MaxLedgerEvents \in Nat \ {0}
    /\ MaxAppends \in Nat

VARIABLES
    rows,      \* ledger_events: id -> kind
    highest,   \* the AUTOINCREMENT counter
    summaries, \* ledger_compactions
    written,   \* history: every event since the last reset, in order of id
    lpc,       \* next step of each writer
    lop,       \* [event, round, from, to] of a budgeted append
    lresult,   \* how each writer's last operation ended
    strict     \* history: only budgeted appends so far, and all succeeded

tableVars  == <<rows, highest, summaries, written>>
writerVars == <<lpc, lop, lresult, strict>>
ledgerVars == <<tableVars, writerVars>>

Observations == {"discovered", "classified", "lifecycle_changed",
                 "policy_changed", "anomaly_detected"}
Mutations    == {"plan_created", "action_blocked", "quarantined", "restored",
                 "archived", "purged"}
EventKind    == Observations \cup Mutations

ASSUME KindsAssumption == KindsUsed \subseteq EventKind

\* What an append is given: whether the event names a plan and evidence; of a
\* tombstone, what was done and whether its fields look like identifiers.
NewEvent == [kind : KindsUsed, referenced : BOOLEAN]
Outcome  == [action : {"delete", "archive"},
             reversibility : {"irreversible", "vendor_conditional"},
             shaped : BOOLEAN, evidence : BOOLEAN]

Referenced(e) == e.kind \in Mutations => e.referenced
IsPurge(o)    == o.action = "delete" /\ o.reversibility = "irreversible"

Ids    == DOMAIN rows
Oldest == CHOOSE i \in Ids : \A j \in Ids : i <= j
LedgerCount == Cardinality(Ids)

Tally(from, to) ==
    [k \in EventKind |-> Cardinality({i \in from .. to : rows[i] = k})]

LedgerTypeOK ==
    /\ highest \in 0 .. MaxAppends
    /\ Ids \subseteq 1 .. highest
    /\ \A i \in Ids : rows[i] \in EventKind
    /\ summaries \in Seq([from : Nat, to : Nat, tally : [EventKind -> Nat]])
    /\ written \in Seq(EventKind)
    /\ lpc \in [Writers -> {"idle", "bounds", "compact", "append"}]
    /\ lresult \in [Writers -> {"none", "ok", "refused", "busy", "gap"}]
    /\ strict \in BOOLEAN

Start == [event |-> [kind |-> "discovered", referenced |-> FALSE],
          round |-> 1, from |-> 1, to |-> 1]

LedgerInit ==
    /\ rows = <<>> /\ highest = 0 /\ summaries = <<>> /\ written = <<>>
    /\ lpc = [w \in Writers |-> "idle"]
    /\ lop = [w \in Writers |-> Start]
    /\ lresult = [w \in Writers |-> "none"]
    /\ strict = TRUE

-----------------------------------------------------------------------------
(* The tables.                                                             *)

Insert(kind) ==
    /\ rows' = [i \in Ids \cup {highest + 1} |->
                    IF i = highest + 1 THEN kind ELSE rows[i]]
    /\ highest' = highest + 1
    /\ written' = Append(written, kind)
    /\ UNCHANGED summaries

\* The range must be there without a gap: nothing is lost that was never
\* summarized, and nothing is summarized twice.
Contiguous(from, to) == Cardinality((from .. to) \cap Ids) = to - from + 1

Compact(from, to) ==
    /\ rows' = [i \in Ids \ (from .. to) |-> rows[i]]
    /\ summaries' = Append(summaries, [from |-> from, to |-> to,
                                       tally |-> Tally(from, to)])
    /\ UNCHANGED <<highest, written>>

Return(w, how) ==
    /\ lpc' = [lpc EXCEPT ![w] = "idle"]
    /\ lresult' = [lresult EXCEPT ![w] = how]
    /\ lop' = [lop EXCEPT ![w] = Start]

-----------------------------------------------------------------------------
(* Operations of one transaction.                                          *)

\* EventLedger::append: a purge is never recorded this way.
AppendDirectly(w) ==
    /\ lpc[w] = "idle" /\ highest < MaxAppends
    /\ \E e \in NewEvent :
          IF e.kind # "purged" /\ Referenced(e)
          THEN Insert(e.kind) /\ Return(w, "ok")
          ELSE UNCHANGED tableVars /\ Return(w, "refused")
    /\ strict' = FALSE

\* record_purge_tombstone and append_purged.
RecordPurge(w) ==
    /\ lpc[w] = "idle" /\ highest < MaxAppends
    /\ \E o \in Outcome :
          IF IsPurge(o) /\ o.shaped /\ o.evidence
          THEN Insert("purged") /\ Return(w, "ok")
          ELSE UNCHANGED tableVars /\ Return(w, "refused")
    /\ strict' = FALSE

\* Mutant of CompactRange: enough that the ends of the range are there.
CompactRangeBetweenEnds(w) ==
    /\ lpc[w] = "idle"
    /\ \E from, to \in 1 .. highest + 1 :
          IF from <= to /\ {from, to} \subseteq Ids
          THEN /\ rows' = [i \in Ids \ (from .. to) |-> rows[i]]
               /\ summaries' = Append(summaries, [from |-> from, to |-> to,
                     tally |-> [k \in EventKind |->
                         Cardinality({i \in (from .. to) \cap Ids : rows[i] = k})]])
               /\ UNCHANGED <<highest, written>> /\ Return(w, "ok")
          ELSE UNCHANGED tableVars /\ Return(w, "refused")
    /\ strict' = FALSE

\* EventLedger::compact_range, of whatever range the caller names.
CompactRange(w) ==
    /\ lpc[w] = "idle"
    /\ \E from, to \in 1 .. highest + 1 :
          IF from <= to /\ Contiguous(from, to)
          THEN Compact(from, to) /\ Return(w, "ok")
          ELSE UNCHANGED tableVars /\ Return(w, "refused")
    /\ strict' = FALSE

\* EventLedger::reset: the tables are dropped, and their counter with them.
ResetTables ==
    rows' = <<>> /\ highest' = 0 /\ summaries' = <<>> /\ written' = <<>>

ResetLedger(w) ==
    /\ lpc[w] = "idle" /\ highest > 0
    /\ ResetTables
    /\ Return(w, "ok") /\ UNCHANGED strict

-----------------------------------------------------------------------------
(* append_within_ledger_budget: compact to the limit, append, compact again. *)
(* The bounds are read in one transaction and compacted in another.         *)

AppendWithinBudget(w) ==
    /\ lpc[w] = "idle" /\ highest < MaxAppends
    /\ \E e \in NewEvent : lop' = [lop EXCEPT ![w] = [Start EXCEPT !.event = e]]
    /\ lpc' = [lpc EXCEPT ![w] = "bounds"]
    /\ lresult' = [lresult EXCEPT ![w] = "none"]
    /\ UNCHANGED <<tableVars, strict>>

AfterCompaction(w) ==
    IF lop[w].round = 1
    THEN lpc' = [lpc EXCEPT ![w] = "append"] /\ UNCHANGED <<lop, lresult>>
    ELSE Return(w, "ok")

\* compact_oldest_to_fit: how many of the oldest rows are too many.
ReadBounds(w) ==
    /\ lpc[w] = "bounds"
    /\ IF LedgerCount <= MaxLedgerEvents
       THEN AfterCompaction(w)
       ELSE /\ lop' = [lop EXCEPT
                  ![w].from = Oldest,
                  ![w].to = Oldest + (LedgerCount - MaxLedgerEvents) - 1]
            /\ lpc' = [lpc EXCEPT ![w] = "compact"]
            /\ UNCHANGED lresult
    /\ UNCHANGED <<tableVars, strict>>

CompactOldest(w) ==
    /\ lpc[w] = "compact"
    /\ IF Contiguous(lop[w].from, lop[w].to)
       THEN Compact(lop[w].from, lop[w].to) /\ AfterCompaction(w) /\ UNCHANGED strict
       ELSE UNCHANGED tableVars /\ Return(w, "gap") /\ strict' = FALSE

\* Mutant of AppendNow: returns without the second look at the limit.
AppendNowAndReturn(w) ==
    /\ lpc[w] = "append" /\ highest < MaxAppends
    /\ LET e == lop[w].event IN
       IF e.kind # "purged" /\ Referenced(e)
       THEN Insert(e.kind) /\ Return(w, "ok")
       ELSE UNCHANGED tableVars /\ Return(w, "refused")
    /\ UNCHANGED strict

AppendNow(w) ==
    /\ lpc[w] = "append" /\ highest < MaxAppends
    /\ LET e == lop[w].event IN
       IF e.kind # "purged" /\ Referenced(e)
       THEN /\ Insert(e.kind)
            /\ lpc' = [lpc EXCEPT ![w] = "bounds"]
            /\ lop' = [lop EXCEPT ![w].round = 2]
            /\ UNCHANGED lresult
       ELSE UNCHANGED tableVars /\ Return(w, "refused")
    /\ UNCHANGED strict

Busy(w) ==
    /\ lpc[w] \in {"compact", "append"}
    /\ Return(w, "busy") /\ strict' = FALSE
    /\ UNCHANGED tableVars

LedgerStep(w) ==
    \/ AppendDirectly(w) \/ RecordPurge(w) \/ CompactRange(w) \/ ResetLedger(w)
    \/ AppendWithinBudget(w) \/ ReadBounds(w) \/ CompactOldest(w)
    \/ AppendNow(w) \/ Busy(w)

LedgerNext == \E w \in Writers : LedgerStep(w)
LedgerSpec == LedgerInit /\ [][LedgerNext]_ledgerVars

-----------------------------------------------------------------------------
(* Properties.                                                             *)

Covered(s) == s.from .. s.to

RowsAreHistory ==
    Len(written) = highest /\ \A i \in Ids : rows[i] = written[i]

RowOrSummary ==
    \A i \in 1 .. highest :
        i \in Ids <=> ~ \E n \in DOMAIN summaries : i \in Covered(summaries[n])

SummariesDisjoint ==
    \A m, n \in DOMAIN summaries :
        m # n => Covered(summaries[m]) \cap Covered(summaries[n]) = {}

TalliesAreHistory ==
    \A n \in DOMAIN summaries :
        LET s == summaries[n] IN
        /\ Covered(s) \subseteq 1 .. highest
        /\ \A k \in EventKind :
              s.tally[k] = Cardinality({i \in Covered(s) : written[i] = k})

\* Every event since the last reset is either still a row, with its kind, or
\* within exactly one summary; and every summary counts its events as they
\* were recorded.  However writers interleave, a compaction forgets nothing it
\* did not count and counts nothing twice.
EachEventOnce ==
    RowsAreHistory /\ RowOrSummary /\ SummariesDisjoint /\ TalliesAreHistory

\* As long as all writing goes through the budget and succeeds, the ledger is
\* within its limit whenever no writer is in the middle of an append: two
\* writers that compact for each other do not leave an event too many.
BudgetAtRest ==
    strict /\ (\A w \in Writers : lpc[w] = "idle") => LedgerCount <= MaxLedgerEvents
=============================================================================
