--------------------------- MODULE AnalyticalMemory ---------------------------
(***************************************************************************)
(* Analytical memory of cancellai-store: samples age into hourly rollups,  *)
(* those into daily rollups, those into one aggregate per scope.           *)
(*                                                                         *)
(*   rollup.rs  record_sample, compact, promote_raw_to_hourly,             *)
(*              promote_hourly_to_daily, promote_daily_to_long_term,       *)
(*              compact_if_over, reset                                     *)
(*   budget.rs  record_sample_within_rollup_budget                         *)
(*                                                                         *)
(* Samplers are processes with a connection each.  Every time is given by  *)
(* the caller, so nothing makes the clock of a call later than that of the *)
(* call before: a sample may be recorded for the past, and a compaction    *)
(* may be asked for at an earlier time than the last.                      *)
(***************************************************************************)
EXTENDS Naturals, Sequences, FiniteSets, Functions, FiniteSetsExt

CONSTANTS
    Samplers,
    Scopes,        \* metric, provider and category of a sample
    Values,        \* what a sample reads: numbers
    Hour, Day,     \* SECONDS_PER_HOUR and SECONDS_PER_DAY, in ticks
    Recent, Medium, Long, \* the windows of the RetentionPolicy
    MaxRawSamples, \* BudgetLimits::max_raw_samples
    MaxTime,       \* bound on the times callers give
    SampleTimes,   \* the times of samples among them
    MaxSamples     \* bound on the samples ever recorded

\* RetentionPolicy::new
ASSUME MemoryAssumption ==
    /\ {Hour, Day, MaxRawSamples} \subseteq Nat \ {0}
    /\ Day % Hour = 0
    /\ {Recent, Medium, Long, MaxTime, MaxSamples} \subseteq Nat
    /\ 0 < Recent /\ Recent <= Medium /\ Medium <= Long
    /\ IsFiniteSet(Samplers) /\ Values \subseteq Nat /\ SampleTimes \subseteq 0 .. MaxTime

VARIABLES
    raw, hourly, daily, \* tiers: [scope, at, id] -> statistic
    longterm,           \* the same, one row for a scope
    span,               \* scope -> [first, last] of its aggregate
    recorded,           \* history: scope -> statistic of all samples since the last reset
    latest,             \* history: the latest time of a compaction
    settled,            \* history: the compaction's time, until the next sample
    budgeted,           \* history: every sample came through the budget
    mpc, msample        \* next step and sample of each sampler

tierVars   == <<raw, hourly, daily, longterm, span>>
memoryVars == <<tierVars, recorded, latest, settled, budgeted, mpc, msample>>

Times == 0 .. MaxTime
NewSample == [scope : Scopes, at : SampleTimes, value : Values]
NoTime == MaxTime + 1

Statistic(v) == [count |-> 1, sum |-> v, min |-> v, max |-> v]

SumOver(f, X)   == FoldFunctionOnSet(LAMBDA x, y : x + y, 0, f, X)
\* Accumulator: merging statistics of parts is the statistic of the whole.
Merged(stat, X) == [
    count |-> SumOver([x \in X |-> stat[x].count], X),
    sum   |-> SumOver([x \in X |-> stat[x].sum], X),
    min   |-> Min({stat[x].min : x \in X}),
    max   |-> Max({stat[x].max : x \in X})]

SampleCount == SumOver([s \in DOMAIN recorded |-> recorded[s].count], DOMAIN recorded)
NoSample    == CHOOSE x \in NewSample : TRUE

MemoryTypeOK ==
    /\ \A t \in {raw, hourly, daily, longterm} : \A r \in DOMAIN t :
          r.scope \in Scopes /\ r.at \in Times /\ t[r].count \in 1 .. MaxSamples
    /\ DOMAIN span = {r.scope : r \in DOMAIN longterm}
    /\ \A s \in DOMAIN span : span[s].first <= span[s].last
    /\ DOMAIN recorded \subseteq Scopes /\ SampleCount <= MaxSamples
    /\ latest \in Times /\ settled \in Times \cup {NoTime} /\ budgeted \in BOOLEAN
    /\ mpc \in [Samplers -> {"idle", "count", "record"}]
    /\ msample \in [Samplers -> NewSample]

MemoryInit ==
    /\ raw = <<>> /\ hourly = <<>> /\ daily = <<>> /\ longterm = <<>> /\ span = <<>>
    /\ recorded = <<>> /\ latest = 0 /\ settled = NoTime /\ budgeted = TRUE
    /\ mpc = [s \in Samplers |-> "idle"]
    /\ msample = [s \in Samplers |-> NoSample]

-----------------------------------------------------------------------------
(* Promotion.                                                              *)

\* The row of the next tier that a row at r.at belongs to.
BucketOf(r, width) == [scope |-> r.scope, at |-> (r.at \div width) * width, id |-> 0]
AggregateOf(r)     == [scope |-> r.scope, at |-> 0, id |-> 0]

\* A window longer than the time that has passed promotes nothing.
Aged(tier, window, now) == {r \in DOMAIN tier : window <= now /\ r.at <= now - window}

Kept(tier, gone) == [r \in DOMAIN tier \ gone |-> tier[r]]

\* Mutant of Upserted: the new group replaces the row of its bucket.
Overwritten(dest, tier, home) ==
    [h \in DOMAIN dest \cup Range(home) |->
        LET parts == {r \in DOMAIN home : home[r] = h} IN
        IF parts = {} THEN dest[h] ELSE Merged(tier, parts)]

\* upsert_bucket for every group: what is there already is merged, not replaced.
Upserted(dest, tier, home) ==
    [h \in DOMAIN dest \cup Range(home) |->
        LET parts == {r \in DOMAIN home : home[r] = h} IN
        IF parts = {} THEN dest[h]
        ELSE LET new == Merged(tier, parts) IN
             IF h \notin DOMAIN dest THEN new
             ELSE Merged(<<dest[h], new>>, {1, 2})]

Spans(gone) ==
    [s \in DOMAIN span \cup {r.scope : r \in gone} |->
        LET starts == {r.at : r \in {x \in gone : x.scope = s}}
                      \cup (IF s \in DOMAIN span THEN {span[s].first, span[s].last} ELSE {})
        IN [first |-> Min(starts), last |-> Max(starts)]]

\* Mutant of Promoted: the cascade runs from the oldest tier, so a row that
\* leaves one window stays in the next tier whatever its age.
PromotedOldestFirst(now) ==
    LET oldDay  == Aged(daily, Long, now)
        oldHour == Aged(hourly, Medium, now)
        oldRaw  == Aged(raw, Recent, now)
    IN [raw |-> Kept(raw, oldRaw),
        hourly |-> Upserted(Kept(hourly, oldHour), raw, [r \in oldRaw |-> BucketOf(r, Hour)]),
        daily |-> Upserted(Kept(daily, oldDay), hourly, [r \in oldHour |-> BucketOf(r, Day)]),
        longterm |-> Upserted(longterm, daily, [r \in oldDay |-> AggregateOf(r)]),
        span |-> Spans(oldDay)]

\* compact: the three promotions in one transaction, each on what the one
\* before it left.
Promoted(now) ==
    LET oldRaw  == Aged(raw, Recent, now)
        hours   == Upserted(hourly, raw, [r \in oldRaw |-> BucketOf(r, Hour)])
        oldHour == Aged(hours, Medium, now)
        days    == Upserted(daily, hours, [r \in oldHour |-> BucketOf(r, Day)])
        oldDay  == Aged(days, Long, now)
    IN [raw |-> Kept(raw, oldRaw), hourly |-> Kept(hours, oldHour),
        daily |-> Kept(days, oldDay),
        longterm |-> Upserted(longterm, days, [r \in oldDay |-> AggregateOf(r)]),
        span |-> Spans(oldDay)]

Compaction(now) ==
    LET next == Promoted(now) IN
    /\ raw' = next.raw /\ hourly' = next.hourly /\ daily' = next.daily
    /\ longterm' = next.longterm /\ span' = next.span
    /\ latest' = Max({latest, now})
    /\ settled' = now

-----------------------------------------------------------------------------
(* Operations.                                                             *)

Row(sample) ==
    LET at == [scope |-> sample.scope, at |-> sample.at, id |-> 0] IN
    [at EXCEPT !.id = CHOOSE n \in 1 .. MaxSamples :
                         /\ [at EXCEPT !.id = n] \notin DOMAIN raw
                         /\ \A k \in 1 .. n - 1 : [at EXCEPT !.id = k] \in DOMAIN raw]

Put(f, x, y) == [z \in DOMAIN f \cup {x} |-> IF z = x THEN y ELSE f[z]]

Record(sample) ==
    /\ SampleCount < MaxSamples
    /\ LET stat == Statistic(sample.value)
           k    == sample.scope IN
       /\ raw' = Put(raw, Row(sample), stat)
       /\ recorded' = Put(recorded, k, IF k \notin DOMAIN recorded THEN stat
                                       ELSE Merged(<<recorded[k], stat>>, {1, 2}))
    /\ settled' = NoTime
    /\ UNCHANGED <<hourly, daily, longterm, span, latest>>

RecordSample(s) ==
    /\ mpc[s] = "idle"
    /\ \E x \in NewSample : Record(x)
    /\ budgeted' = FALSE
    /\ UNCHANGED <<mpc, msample>>

CompactMemory(s) ==
    /\ mpc[s] = "idle"
    /\ \E now \in Times : Compaction(now)
    /\ UNCHANGED <<recorded, budgeted, mpc, msample>>

\* record_sample_within_rollup_budget: compact, count and record are three
\* transactions, and another process may come between any two.
RecordWithinBudget(s) ==
    /\ mpc[s] = "idle" /\ SampleCount < MaxSamples
    /\ \E x \in NewSample : msample' = [msample EXCEPT ![s] = x]
    /\ \E now \in Times : Compaction(now)
    /\ mpc' = [mpc EXCEPT ![s] = "count"]
    /\ UNCHANGED <<recorded, budgeted>>

CountRaw(s) ==
    /\ mpc[s] = "count"
    /\ mpc' = [mpc EXCEPT ![s] =
                  IF Cardinality(DOMAIN raw) >= MaxRawSamples THEN "idle" ELSE "record"]
    /\ msample' = [msample EXCEPT ![s] = IF mpc'[s] = "idle" THEN NoSample ELSE @]
    /\ UNCHANGED <<tierVars, recorded, latest, settled, budgeted>>

RecordNow(s) ==
    /\ mpc[s] = "record"
    /\ Record(msample[s])
    /\ mpc' = [mpc EXCEPT ![s] = "idle"]
    /\ msample' = [msample EXCEPT ![s] = NoSample]
    /\ UNCHANGED budgeted

\* The call fails: another connection holds the file.
SamplerBusy(s) ==
    /\ mpc[s] # "idle"
    /\ mpc' = [mpc EXCEPT ![s] = "idle"]
    /\ msample' = [msample EXCEPT ![s] = NoSample]
    /\ UNCHANGED <<tierVars, recorded, latest, settled, budgeted>>

ClearTiers ==
    /\ raw' = <<>> /\ hourly' = <<>> /\ daily' = <<>> /\ longterm' = <<>> /\ span' = <<>>
    /\ recorded' = <<>> /\ latest' = 0 /\ settled' = NoTime

ResetMemory(s) ==
    /\ mpc[s] = "idle" /\ recorded # <<>>
    /\ ClearTiers
    /\ UNCHANGED <<budgeted, mpc, msample>>

MemoryStep(s) ==
    \/ RecordSample(s) \/ CompactMemory(s) \/ ResetMemory(s)
    \/ RecordWithinBudget(s) \/ CountRaw(s) \/ RecordNow(s) \/ SamplerBusy(s)

MemoryNext == \E s \in Samplers : MemoryStep(s)
MemorySpec == MemoryInit /\ [][MemoryNext]_memoryVars

-----------------------------------------------------------------------------
(* Properties.                                                             *)

Tiers == [raw |-> raw, hourly |-> hourly, daily |-> daily, longterm |-> longterm]
RowsOf(s) == UNION {{t} \X {r \in DOMAIN Tiers[t] : r.scope = s} : t \in DOMAIN Tiers}

\* However samples are backdated and compactions interleave, the four tiers
\* together hold for each scope the number, sum, least and greatest of exactly
\* the samples recorded: a promotion neither drops nor counts one twice.
NothingLostOrCountedTwice ==
    \A s \in Scopes :
        IF s \notin DOMAIN recorded THEN RowsOf(s) = {}
        ELSE /\ RowsOf(s) # {}
             /\ Merged([x \in RowsOf(s) |-> Tiers[x[1]][x[2]]], RowsOf(s)) = recorded[s]

\* A row is in a coarser tier only because a compaction came when it was older
\* than the window of the finer one; and right after a compaction no row is in
\* a tier it has outgrown, even one that crossed several windows at once.  When
\* all samples come through the budget (record_sample_within_rollup_budget), the
\* raw tier exceeds its limit by no more than the samplers that race, less one:
\* who counted and has not yet recorded is part of the sum.  That it exceeds it
\* at all is against what budget.rs says of itself: RawTierWithinBudget.
TiersMatchAges ==
    /\ \A r \in DOMAIN hourly : r.at + Recent <= latest
    /\ \A r \in DOMAIN daily  : r.at + Medium <= latest
    /\ \A s \in DOMAIN span   : span[s].last + Long <= latest
    /\ settled # NoTime =>
          /\ Aged(raw, Recent, settled) = {}
          /\ \A r \in DOMAIN hourly : ~(r.at + Medium <= settled)
          /\ \A r \in DOMAIN daily  : ~(r.at + Long <= settled)
    /\ budgeted => Cardinality(DOMAIN raw) + Cardinality({s \in Samplers : mpc[s] = "record"})
                       <= MaxRawSamples + Cardinality(Samplers) - 1

\* What budget.rs:380-382 says of record_sample_within_rollup_budget, the raw
\* tier "never exceeding max_raw_samples once this call returns": when all
\* samples come through it and every call has returned, the tier is within its
\* limit.  It is not: two samplers count before either records.
RawTierWithinBudget ==
    budgeted /\ (\A s \in Samplers : mpc[s] = "idle") => Cardinality(DOMAIN raw) <= MaxRawSamples
=============================================================================
