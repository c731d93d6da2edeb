------------------------------- MODULE Guardian -------------------------------
(***************************************************************************)
(* The decisions of cancellai-guardian: how full the disk is taken to be,  *)
(* what may be done about it, the switch that withdraws it, and the audit. *)
(*                                                                         *)
(*   pressure.rs     pressure_score, classify                              *)
(*   remediation.rs  plan_remediation                                      *)
(*   killswitch.rs   engage, disengage, is_engaged, apply_kill_switch      *)
(*   audit.rs        record_guardian_decision                              *)
(*                                                                         *)
(* No program calls these one after another yet: a cycle does, in the      *)
(* order their parameter types allow.  The switch is a file that owners    *)
(* write through several system calls, and whose surroundings may change.  *)
(***************************************************************************)
EXTENDS Authority, StableSort

CONSTANTS
    Owners,        \* processes that engage and disengage the switch
    Artifacts0,    \* the candidates of a plan
    Readings,      \* the measurements a cycle may find
    NaN,           \* a measurement that is not a number
    MaxTroubles0   \* bound on what happens to the switch's file

ASSUME GuardianAssumption ==
    /\ MaxTroubles0 \in Nat /\ IsFiniteSet(Artifacts0)
    /\ \A r \in Readings :
          /\ {r.free, r.budget, r.growth, r.reclaimable} \subseteq 0 .. 100 \cup {NaN}
          /\ r.workload \in BOOLEAN

VARIABLES
    pressure,   \* the last classification
    turn,       \* history: [score, way] of its last change
    gpc,        \* next step of the cycle
    gplan,      \* the plan of the cycle
    audit,      \* the decisions it recorded, newest plan only
    marker,     \* content of the switch's file, "absent" when there is none
    parent,     \* what stands where its directory should
    permitted,  \* the file may be read and written
    wpc,        \* [step, wants] of each owner
    binding,    \* history: an engage has begun and nothing since undid it
    heldAtRead, \* history: binding, when the cycle read the switch
    troubles0

cycleVars  == <<pressure, turn, gpc, gplan, audit, heldAtRead>>
switchVars == <<marker, parent, permitted, wpc, binding>>
guardianVars == <<cycleVars, switchVars, troubles0>>

-----------------------------------------------------------------------------
(* Pressure.  Fractions are in percent, scores in hundredths of a percent. *)

Green  == 0
Yellow == 1
Orange == 2
Red    == 3

HigherIsWorse(x) == IF x = NaN THEN 100 ELSE x
HigherIsSafer(x) == IF x = NaN THEN 0 ELSE x

Largest(S) == CHOOSE x \in S : \A y \in S : y <= x

PressureScore(r) ==
    LET base == Largest({100 - HigherIsSafer(r.free), HigherIsWorse(r.budget),
                         HigherIsWorse(r.growth)}) * 100
        relief == 15 * HigherIsSafer(r.reclaimable)
    IN  (IF base > relief THEN base - relief ELSE 0) + (IF r.workload THEN 1000 ELSE 0)

\* The score that leads out of a state, and the one below which it is left.
Up   == [s \in Green .. Orange |-> <<5000, 7500, 9000>>[s + 1]]
\* Mutant of Down: one threshold for both directions.
DownAtUp == [s \in Yellow .. Red |-> <<5000, 7500, 9000>>[s]]

Down == [s \in Yellow .. Red |-> <<4500, 7000, 8500>>[s]]

\* Two loops, one level at a time: up while a threshold is reached, then down.
Raised(score, from) ==
    CHOOSE s \in from .. Red :
        /\ \A t \in from .. s - 1 : score >= Up[t]
        /\ s = Red \/ score < Up[s]

Lowered(score, from) ==
    CHOOSE s \in Green .. from :
        /\ \A t \in s + 1 .. from : score < Down[t]
        /\ s = Green \/ score >= Down[s]

ClassifyPressure(score, previous) == Lowered(score, Raised(score, previous))

-----------------------------------------------------------------------------
(* Remediation and the switch.                                             *)

PressureAuthorityCeiling(p) ==
    CASE p = Green            -> Observe
      [] p = Yellow           -> Recommend
      [] p \in {Orange, Red}  -> Quarantine

Lesser(a, b) == IF a <= b THEN a ELSE b

PlanItem(a, reachable, p) ==
    LET granted == Lesser(PressureAuthorityCeiling(p), reachable)
    IN  [artifact |-> a, granted |-> granted, pressure |-> p,
         class |-> IF granted >= MinimumAuthorityFor("quarantine")
                   THEN "quarantine" ELSE "observe"]

NotAfter(x, y) ==
    IF x.class = y.class THEN x.granted >= y.granted ELSE x.class = "quarantine"

\* The candidates are given in some order, which ties keep.
PlanRemediation(p, candidates, reachable) ==
    Sorted([n \in DOMAIN candidates |-> PlanItem(candidates[n], reachable[candidates[n]], p)],
           NotAfter)

\* Mutant of IsEngaged: a file that cannot be found is not there.
IsEngagedUnlessAbsent ==
    marker # "absent" /\ (~permitted \/ marker # "disengaged")

\* is_engaged: only the exact word, or a file that is certainly not there.
IsEngaged ==
    CASE marker = "absent"  -> parent # "directory"
      [] marker # "absent"  -> ~permitted \/ marker # "disengaged"

Withdrawn(plan) ==
    [k \in DOMAIN plan |-> [plan[k] EXCEPT !.granted = Observe, !.class = "observe"]]

ApplyKillSwitch(plan) == IF IsEngaged THEN Withdrawn(plan) ELSE plan

DecisionKind(item) == IF item.class = "quarantine" THEN "plan_created" ELSE "action_blocked"

-----------------------------------------------------------------------------
Markers == {"absent", "empty", "torn", "mixed", "engaged", "disengaged"}
Items   == [artifact : Artifacts0, granted : Levels, pressure : Green .. Red,
            class : {"quarantine", "observe"}]

GuardianTypeOK ==
    /\ pressure \in Green .. Red
    /\ turn \in [score : Nat, way : {"none", "up", "down"}]
    /\ gpc \in {"idle", "plan", "apply", "record"}
    /\ gplan \in Seq(Items)
    /\ audit \in Seq([artifact : Artifacts0, kind : {"plan_created", "action_blocked"}])
    /\ marker \in Markers
    /\ parent \in {"directory", "missing", "file"}
    /\ wpc \in [Owners -> [step : {"idle", "directory", "open", "write"},
                           wants : {"engaged", "disengaged"}]]
    /\ {permitted, binding, heldAtRead} \subseteq BOOLEAN
    /\ troubles0 \in 0 .. MaxTroubles0

\* An owner that writes nothing.
Idle == [step |-> "idle", wants |-> "engaged"]

GuardianInit ==
    /\ pressure \in Green .. Red /\ turn = [score |-> 0, way |-> "none"]
    /\ gpc \in {"idle", "plan"} /\ gplan = <<>> /\ audit = <<>> /\ heldAtRead = FALSE
    /\ marker = "absent" /\ parent \in {"directory", "missing"} /\ permitted = TRUE
    /\ wpc = [w \in Owners |-> Idle]
    /\ binding = FALSE /\ troubles0 = 0

(* The cycle. *)

Detect ==
    /\ gpc = "idle"
    /\ \E r \in Readings :
          LET score == PressureScore(r)
              next  == ClassifyPressure(score, pressure)
          IN  /\ pressure' = next
              /\ turn' = IF next = pressure THEN turn
                         ELSE [score |-> score, way |-> IF next > pressure THEN "up" ELSE "down"]
    /\ gpc' = "plan" /\ gplan' = <<>> /\ audit' = <<>> /\ heldAtRead' = FALSE

\* The policy engine's classification gives every candidate its authority.
Plan ==
    /\ gpc = "plan"
    /\ \E reachable \in [Artifacts0 -> Levels] :
       \E order \in {s \in [1 .. Cardinality(Artifacts0) -> Artifacts0] :
                        {s[n] : n \in DOMAIN s} = Artifacts0} :
          gplan' = PlanRemediation(pressure, order, reachable)
    /\ gpc' = "apply"
    /\ UNCHANGED <<pressure, turn, audit, heldAtRead>>

Apply ==
    /\ gpc = "apply"
    /\ gplan' = ApplyKillSwitch(gplan)
    /\ heldAtRead' = binding
    /\ gpc' = "record"
    /\ UNCHANGED <<pressure, turn, audit>>

\* record_guardian_decision, item by item; a full or locked ledger refuses one
\* and the next is tried all the same.
RecordDecision ==
    /\ gpc = "record" /\ Len(audit) < Len(gplan)
    /\ LET item == gplan[Len(audit) + 1] IN
       audit' = Append(audit, [artifact |-> item.artifact, kind |-> DecisionKind(item)])
    /\ UNCHANGED <<pressure, turn, gpc, gplan, heldAtRead>>

EndCycle ==
    /\ gpc = "record"
    /\ gpc' = "idle" /\ gplan' = <<>> /\ audit' = <<>>
    /\ UNCHANGED <<pressure, turn, heldAtRead>>

CycleStep == Detect \/ Plan \/ Apply \/ RecordDecision \/ EndCycle

-----------------------------------------------------------------------------
(* Writing the switch: create_dir_all, open with truncation, write.        *)

At(w, step) == wpc' = [wpc EXCEPT ![w].step = step]
EndWrite(w) == wpc' = [wpc EXCEPT ![w] = Idle]

Disengaging == \E w \in Owners : wpc[w].step # "idle" /\ wpc[w].wants = "disengaged"

BeginWrite(w) ==
    /\ wpc[w].step = "idle"
    /\ \E wants \in {"engaged", "disengaged"} :
          /\ wpc' = [wpc EXCEPT ![w] = [step |-> "directory", wants |-> wants]]
          /\ binding' = (binding /\ wants = "engaged")
    /\ UNCHANGED <<marker, parent, permitted>>

CreateDirectory(w) ==
    /\ wpc[w].step = "directory"
    /\ IF parent = "file"
       THEN EndWrite(w) /\ UNCHANGED <<parent, binding>>
       ELSE /\ At(w, "open") /\ parent' = "directory"
            /\ binding' = (binding /\ parent = "directory")
    /\ UNCHANGED <<marker, permitted>>

OpenTruncating(w) ==
    /\ wpc[w].step = "open"
    /\ IF parent # "directory" \/ (marker # "absent" /\ ~permitted)
       THEN EndWrite(w) /\ UNCHANGED <<marker, binding>>
       ELSE /\ At(w, "write") /\ marker' = "empty"
            /\ binding' = (binding \/ (wpc[w].wants = "engaged" /\ ~Disengaging))
    /\ UNCHANGED <<parent, permitted>>

\* What the file holds after the bytes of one word were written from its
\* start: the shorter word leaves the end of the longer one.  A file that was
\* removed meanwhile takes them with it.
Overwritten0(word) ==
    CASE marker = "absent" -> "absent"
      [] marker \in {"disengaged", "mixed"} /\ word = "engaged" -> "mixed"
      [] OTHER -> word

WriteMarker(w) ==
    /\ wpc[w].step = "write"
    /\ marker' = Overwritten0(wpc[w].wants)
    /\ EndWrite(w)
    /\ UNCHANGED <<parent, permitted, binding>>

\* The process is killed, or the disk is full: some or none of the bytes.
WriteTorn(w) ==
    /\ wpc[w].step # "idle"
    /\ \/ UNCHANGED marker
       \/ wpc[w].step = "write" /\ marker # "absent" /\ marker' = "torn"
    /\ EndWrite(w)
    /\ UNCHANGED <<parent, permitted, binding>>

SwitchStep(w) ==
    BeginWrite(w) \/ CreateDirectory(w) \/ OpenTruncating(w) \/ WriteMarker(w) \/ WriteTorn(w)

(* The owner's files. *)

\* The marker's directory goes away, or something else stands in its place.
LoseParent ==
    /\ parent = "directory"
    /\ parent' \in {"missing", "file"} /\ marker' = "absent"
    /\ UNCHANGED <<permitted, binding>>

\* A directory again, without the marker: as if somebody had removed it.
RestoreParent ==
    /\ parent # "directory"
    /\ parent' = "directory" /\ binding' = FALSE
    /\ UNCHANGED <<marker, permitted>>

RemoveMarker ==
    /\ parent = "directory" /\ marker # "absent"
    /\ marker' = "absent" /\ binding' = FALSE
    /\ UNCHANGED <<parent, permitted>>

ChangePermission ==
    permitted' = ~permitted /\ UNCHANGED <<marker, parent, binding>>

SwitchTrouble ==
    /\ troubles0 < MaxTroubles0 /\ troubles0' = troubles0 + 1
    /\ LoseParent \/ RestoreParent \/ RemoveMarker \/ ChangePermission
    /\ UNCHANGED wpc

GuardianNext ==
    \/ CycleStep /\ UNCHANGED <<switchVars, troubles0>>
    \/ (\E w \in Owners : SwitchStep(w)) /\ UNCHANGED <<cycleVars, troubles0>>
    \/ SwitchTrouble /\ UNCHANGED cycleVars

-----------------------------------------------------------------------------
(* Properties.                                                             *)

\* From the moment an engage has opened the file until a disengage begins or
\* the marker is taken away, the switch reads as engaged: while it is half
\* written, when the write fails, when owners write over each other, when the
\* file cannot be read or its directory is gone.  A plan applied meanwhile
\* keeps nothing but observations.
SwitchHolds ==
    /\ binding => IsEngaged
    /\ gpc = "record" /\ heldAtRead =>
          \A k \in DOMAIN gplan : gplan[k].class = "observe" /\ gplan[k].granted = Observe

\* Between a rise of the pressure state and its next fall, or a fall and its
\* next rise, the score has moved by at least the width of the band: a score
\* that wavers around one threshold does not change the state back and forth.
NoFlapping ==
    [][ turn' # turn /\ turn.way # "none" /\ turn'.way # turn.way =>
            \/ turn'.score >= turn.score + 500
            \/ turn.score >= turn'.score + 500 ]_turn
=============================================================================
