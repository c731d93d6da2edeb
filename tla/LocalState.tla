------------------------------ MODULE LocalState ------------------------------
(***************************************************************************)
(* The local state of the program: the three layers of cancellai-store,    *)
(* each a database of its own, and the operations that span layers.        *)
(*                                                                         *)
(*   budget.rs  rebuild_within_current_state_budget,                       *)
(*              enforce_current_state_pressure, reset_local_state          *)
(*                                                                         *)
(* A behaviour has one workload: what the processes of that behaviour do.  *)
(* No transaction spans two layers, so the layers are explored one at a    *)
(* time, and together only under the operations that touch several.        *)
(***************************************************************************)
EXTENDS EventLedger, AnalyticalMemory, CurrentState, Database

CONSTANTS
    Workloads,     \* subset of {"ledger", "memory", "cache", "open", "layers"}
    Managers,      \* processes that rebuild under a budget and reset
    DegradedCeiling, \* the raw samples Layer 3 yields down to
    LayerBound     \* bound on events and samples beside such an operation

VARIABLES
    workload,
    spc,           \* next step of each manager
    sresult,       \* how its last operation ended
    emptied        \* history: the layers emptied since its reset began

managerVars == <<spc, sresult, emptied>>
layerVars   == <<ledgerVars, memoryVars, cacheVars>>
storeVars   == <<layerVars, databaseVars, workload, managerVars>>

Layers == <<"current", "ledger", "rollup">>
LayerNames == {Layers[n] : n \in DOMAIN Layers}
FailedAt == [current |-> "current failed", ledger |-> "ledger failed", rollup |-> "rollup failed"]

StoreTypeOK ==
    /\ LedgerTypeOK /\ MemoryTypeOK /\ CacheTypeOK /\ DatabaseTypeOK
    /\ workload \in Workloads
    /\ spc \in [Managers -> {"idle", "rows", "count", "promote", "current", "ledger", "rollup"}]
    /\ sresult \in [Managers -> {"none", "ok", "within", "degraded"}
                                \cup {FailedAt[l] : l \in LayerNames}]
    /\ emptied \in [Managers -> SUBSET LayerNames]

StoreInit ==
    /\ workload \in Workloads
    /\ LedgerInit /\ MemoryInit /\ CacheInit
    /\ IF workload = "open" THEN DatabaseInit
       ELSE /\ file = [origin |-> "ours", link |-> FALSE, version |-> MaxMigrations,
                       steps |-> 1 .. MaxMigrations]
            /\ ships = [o \in Openers |-> MaxMigrations]
            /\ opc = [o \in Openers |-> "opened"]
            /\ seen = [o \in Openers |-> MaxMigrations]
            /\ fortunate = TRUE
    /\ spc = [m \in Managers |-> "idle"]
    /\ sresult = [m \in Managers |-> "none"]
    /\ emptied = [m \in Managers |-> {}]

ToStep(m, step)  == spc' = [spc EXCEPT ![m] = step]
EndWith(m, how)  == ToStep(m, "idle") /\ sresult' = [sresult EXCEPT ![m] = how]

-----------------------------------------------------------------------------
(* Rebuild under a budget: Layer 1 is never thinned out, Layer 3 is.        *)

RebuildWithinBudget(m) ==
    /\ spc[m] = "idle"
    /\ \E scan \in Scans : Rebuild(scan)
    /\ ToStep(m, "rows")
    /\ UNCHANGED <<ledgerVars, memoryVars, sresult, emptied>>

\* check_current_state_budget
CheckRows(m) ==
    /\ spc[m] = "rows"
    /\ IF Cardinality(DOMAIN cached) > MaxRows
       THEN ToStep(m, "count") /\ UNCHANGED sresult
       ELSE EndWith(m, "within")
    /\ UNCHANGED <<layerVars, emptied>>

\* compact_if_over: the count and the compaction are two transactions.
CountCeiling(m) ==
    /\ spc[m] = "count"
    /\ IF Cardinality(DOMAIN raw) > DegradedCeiling
       THEN ToStep(m, "promote") /\ UNCHANGED sresult
       ELSE EndWith(m, "within")
    /\ UNCHANGED <<layerVars, emptied>>

Degrade(m) ==
    /\ spc[m] = "promote"
    /\ \E now \in Times : Compaction(now)
    /\ EndWith(m, "degraded")
    /\ UNCHANGED <<ledgerVars, cacheVars, recorded, budgeted, mpc, msample, emptied>>

-----------------------------------------------------------------------------
(* reset_local_state: one layer after another, each a transaction.          *)

BeginReset(m) ==
    /\ spc[m] = "idle"
    /\ ToStep(m, "current")
    /\ emptied' = [emptied EXCEPT ![m] = {}]
    /\ UNCHANGED <<layerVars, sresult>>

Emptied(m, layer) == emptied' = [emptied EXCEPT ![m] = @ \cup {layer}]

ResetCurrentState(m) ==
    /\ spc[m] = "current"
    /\ cached' = <<>> /\ UNCHANGED <<builds, attachedAt>>
    /\ Emptied(m, "current") /\ ToStep(m, "ledger")
    /\ UNCHANGED <<ledgerVars, memoryVars, sresult>>

ResetEvents(m) ==
    /\ spc[m] = "ledger"
    /\ ResetTables
    /\ Emptied(m, "ledger") /\ ToStep(m, "rollup")
    /\ UNCHANGED <<writerVars, memoryVars, cacheVars, sresult>>

ResetSamples(m) ==
    /\ spc[m] = "rollup"
    /\ ClearTiers
    /\ Emptied(m, "rollup") /\ EndWith(m, "ok")
    /\ UNCHANGED <<ledgerVars, budgeted, mpc, msample, cacheVars>>

\* Mutant of ResetFails: goes on with the next layer and reports success.
ResetGoesOn(m) ==
    /\ spc[m] \in LayerNames
    /\ IF spc[m] = "rollup" THEN EndWith(m, "ok")
       ELSE ToStep(m, IF spc[m] = "current" THEN "ledger" ELSE "rollup") /\ UNCHANGED sresult
    /\ UNCHANGED <<layerVars, emptied>>

\* A layer cannot be emptied: the error names it and the rest is left alone.
ResetFails(m) ==
    /\ spc[m] \in LayerNames
    /\ EndWith(m, FailedAt[spc[m]])
    /\ UNCHANGED <<layerVars, emptied>>

ManagerStep(m) ==
    \/ RebuildWithinBudget(m) \/ CheckRows(m) \/ CountCeiling(m) \/ Degrade(m)
    \/ BeginReset(m) \/ ResetCurrentState(m) \/ ResetEvents(m) \/ ResetSamples(m)
    \/ ResetFails(m)

\* Other connections write to the layers meanwhile.
WriteBeside ==
    \/ \E w \in Writers : highest < LayerBound /\ AppendDirectly(w)
                          /\ UNCHANGED <<memoryVars, cacheVars>>
    \/ \E s \in Samplers : SampleCount < LayerBound /\ RecordSample(s)
                           /\ UNCHANGED <<ledgerVars, cacheVars>>

-----------------------------------------------------------------------------

LedgerWork == /\ workload = "ledger" /\ LedgerNext
              /\ UNCHANGED <<memoryVars, cacheVars, managerVars, databaseVars>>
MemoryWork == /\ workload = "memory" /\ MemoryNext
              /\ UNCHANGED <<ledgerVars, cacheVars, managerVars, databaseVars>>
CacheWork  == /\ workload = "cache" /\ CacheStep
              /\ UNCHANGED <<ledgerVars, memoryVars, managerVars, databaseVars>>
OpenWork   == /\ workload = "open" /\ DatabaseNext
              /\ UNCHANGED <<layerVars, managerVars>>
LayerWork  == /\ workload = "layers"
              /\ \/ \E m \in Managers : ManagerStep(m)
                 \/ WriteBeside /\ UNCHANGED managerVars
              /\ UNCHANGED databaseVars

StoreNext ==
    /\ LedgerWork \/ MemoryWork \/ CacheWork \/ OpenWork \/ LayerWork
    /\ UNCHANGED workload

StoreSpec == StoreInit /\ [][StoreNext]_storeVars

-----------------------------------------------------------------------------

\* A reset that reports success has emptied every layer since it began, and
\* one that fails names the layer it failed at after emptying those before it
\* and no other: what is left is never more than the report says.
ResetTellsWhatIsLeft ==
    \A m \in Managers :
        /\ sresult[m] = "ok" /\ spc[m] = "idle" => emptied[m] = LayerNames
        /\ \A n \in DOMAIN Layers :
              sresult[m] = FailedAt[Layers[n]] /\ spc[m] = "idle" =>
                  emptied[m] = {Layers[k] : k \in 1 .. n - 1}
=============================================================================
