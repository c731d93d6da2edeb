----------------------------- MODULE Surroundings -----------------------------
(***************************************************************************)
(* What stands around a deletion: the Guardian's decisions and its switch, *)
(* its service, what it detects, what is granted from afar, and the        *)
(* desktop bridge.  These share no state, so a behaviour has one workload  *)
(* and leaves the rest in its initial state.                               *)
(***************************************************************************)
EXTENDS Guardian, Service, Detection, Grants, Bridge

CONSTANT Workloads   \* subset of {"pressure", "switch", "service", "baseline", "forecast", "remote",
                     \* "knowledge", "bridge"}

VARIABLE workload

surroundingsVars == <<guardianVars, serviceVars, detectionVars, grantsVars, bridgeVars, workload>>

SurroundingsTypeOK ==
    /\ workload \in Workloads
    /\ GuardianTypeOK /\ ServiceTypeOK /\ DetectionTypeOK /\ GrantsTypeOK
    /\ BridgeTypeOK

\* Where several states are initial, one stands for them in other workloads.
SurroundingsInit ==
    /\ workload \in Workloads
    /\ GuardianInit
    /\ IF workload = "switch" THEN gpc = "plan"
       ELSE pressure = Green /\ gpc = "idle" /\ parent = "directory"
    /\ ServiceInit /\ (workload # "service" => platform = "other" /\ reach = "missing")
    /\ DetectionInit /\ (workload # "forecast" => series = CHOOSE s \in Seeds : TRUE)
    /\ GrantsInit /\ (workload # "remote" => \A c \in Controllers : controllers[c] = Govern)
    /\ BridgeInit /\ (workload # "bridge" => withOpen /\ limit = 0)

PressureWork == workload = "pressure" /\ CycleStep /\ UNCHANGED <<switchVars, troubles0>>
\* One cycle, at any moment of what happens to the switch.
SwitchWork   == workload = "switch" /\ GuardianNext /\ (gpc = "idle" => gpc' = "idle")
ServiceWork  == workload = "service" /\ ServiceNext
BaselineWork == workload = "baseline" /\ ((\E g \in Watched : ObserveAndAssess(g)) \/ LookAtLayout)
ForecastWork == workload = "forecast" /\ AddObservation
RemoteWork ==
    /\ workload = "remote" /\ UNCHANGED knowledgeVars
    /\ (RemoteStep /\ UNCHANGED clock) \/ (Tick /\ UNCHANGED remoteVars)
KnowledgeWork ==
    /\ workload = "knowledge" /\ UNCHANGED remoteVars
    /\ (KnowledgeStep /\ UNCHANGED clock) \/ (Tick /\ UNCHANGED knowledgeVars)

BridgeWork == workload = "bridge" /\ BridgeNext

SurroundingsNext ==
    /\ \/ (PressureWork \/ SwitchWork) /\ UNCHANGED <<serviceVars, detectionVars, grantsVars, bridgeVars>>
       \/ ServiceWork /\ UNCHANGED <<guardianVars, detectionVars, grantsVars, bridgeVars>>
       \/ /\ BaselineWork \/ ForecastWork
          /\ UNCHANGED <<guardianVars, serviceVars, grantsVars, bridgeVars>>
       \/ /\ RemoteWork \/ KnowledgeWork
          /\ UNCHANGED <<guardianVars, serviceVars, detectionVars, bridgeVars>>
       \/ BridgeWork /\ UNCHANGED <<guardianVars, serviceVars, detectionVars, grantsVars>>
    /\ UNCHANGED workload

\* A program that runs goes on, and the timeouts its sockets have fire.  Of those
\* who connect nothing is assumed.  In other workloads the dashboard does not start.
SurroundingsFairness ==
    /\ ServiceFairness
    /\ WF_bridgeVars(workload = "bridge" /\ BridgeWorks) /\ WF_bridgeVars(EngineServes)

SurroundingsSpec ==
    SurroundingsInit /\ [][SurroundingsNext]_surroundingsVars /\ SurroundingsFairness
=============================================================================
