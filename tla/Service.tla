------------------------------- MODULE Service --------------------------------
(***************************************************************************)
(* The user service of the Guardian: install, uninstall, enable, disable   *)
(* and status, as cancellai-guardian main.rs runs them, over the three     *)
(* mechanisms of the platforms.                                            *)
(*                                                                         *)
(*   service.rs          ServiceRuntime, CommandRunner                     *)
(*   service_linux.rs    a unit file and systemctl --user                  *)
(*   service_macos.rs    an agent's plist and launchctl                    *)
(*   service_windows.rs  a scheduled task and schtasks                     *)
(*                                                                         *)
(* Each command of the mechanism is a step.  The mechanism may be missing, *)
(* unreachable or refuse; what it shows may lag behind what it did.        *)
(***************************************************************************)
EXTENDS Naturals

CONSTANTS
    Platforms,     \* subset of {"linux", "macos", "windows", "other"}
    MaxAttempts,   \* how often enable is tried (3 in the code)
    MaxPolls,      \* how often a confirmation is polled for in two seconds
    MaxCalls,      \* bound on the calls of a behaviour
    MaxTroubles1   \* bound on what happens to the mechanism

ASSUME ServiceAssumption ==
    /\ {MaxAttempts, MaxPolls} \subseteq Nat \ {0}
    /\ {MaxCalls, MaxTroubles1} \subseteq Nat

VARIABLES
    platform,
    definition,  \* of the service: "absent", "empty" or "present"
    active,      \* the service runs, or will at the next logon
    shown,       \* what a query answers about that
    reach,       \* whether commands find the mechanism
    call,        \* [op, step, left] of the program
    exit,        \* how the last call ended
    report,      \* what the last status said
    calls, troubles1

mechanismVars == <<platform, definition, active, shown, reach, troubles1>>
callVars      == <<call, exit, report, calls>>
serviceVars   == <<mechanismVars, callVars>>

Ops     == {"install", "uninstall", "enable", "disable", "status"}
ServiceSteps == {"idle", "start", "disable", "erase", "reload", "activate", "confirm"}
Statuses == {"not_installed", "disabled", "enabled", "unsupported"}

ServiceTypeOK ==
    /\ platform \in {"linux", "macos", "windows", "other"}
    /\ definition \in {"absent", "empty", "present"}
    /\ {active, shown} \subseteq BOOLEAN
    /\ reach \in {"up", "down", "missing"}
    /\ call \in [op : Ops, step : ServiceSteps, left : 0 .. MaxAttempts + MaxPolls]
    /\ exit \in {"none", "ok", "error"}
    /\ report \in Statuses \cup {"none"}
    /\ calls \in 0 .. MaxCalls /\ troubles1 \in 0 .. MaxTroubles1

ServiceInit ==
    /\ platform \in Platforms
    /\ definition = "absent" /\ active = FALSE /\ shown = FALSE
    /\ reach \in {"up", "down", "missing"}
    /\ call = [op |-> "status", step |-> "idle", left |-> 0]
    /\ exit = "none" /\ report = "none" /\ calls = 0 /\ troubles1 = 0

\* What CommandRunner::run can return.
Replies ==
    CASE reach = "missing" -> {"unavailable"}
      [] reach = "down"    -> {"failed"}
      [] reach = "up"      -> {"success", "failed"}

\* What a query can: the Task Scheduler's answer need not be recognisable.
Answers == Replies \cup (IF platform = "windows" /\ reach = "up" THEN {"unknown"} ELSE {})

Return1(how)     == call' = [call EXCEPT !.step = "idle"] /\ exit' = how
Next1(step)      == call' = [call EXCEPT !.step = step] /\ UNCHANGED exit
\* Ok(_) and CommandFailed are both success where a call is idempotent.
Tolerated(reply) == IF reply = "unavailable" THEN "error" ELSE "ok"

Installed == definition = "present"

\* status, given what the query for it returned.
UnitStatus(reply) ==
    IF ~Installed THEN "not_installed"
    ELSE IF reply = "unavailable" \/ reach = "down" THEN "unsupported"
    ELSE IF shown THEN "enabled" ELSE "disabled"

AgentStatus(reply) ==
    IF ~Installed THEN "not_installed"
    ELSE IF reply = "unavailable" THEN "unsupported"
    ELSE IF reply = "success" /\ shown THEN "enabled" ELSE "disabled"

\* There is no file to look at: every failed query is a task that is not there.
TaskStatus(reply) ==
    IF reply \in {"unavailable", "unknown"} THEN "unsupported"
    ELSE IF reply = "failed" \/ ~Installed THEN "not_installed"
    ELSE IF shown THEN "enabled" ELSE "disabled"

StatusFrom(reply) ==
    CASE platform = "linux"   -> UnitStatus(reply)
      [] platform = "macos"   -> AgentStatus(reply)
      [] platform = "windows" -> TaskStatus(reply)

BeginCall(op) ==
    /\ call.step = "idle" /\ calls < MaxCalls
    /\ call' = [op |-> op, step |-> "start", left |-> 0]
    /\ calls' = calls + 1 /\ exit' = "none" /\ report' = "none"
    /\ UNCHANGED mechanismVars

Starts(op) == call.step = "start" /\ call.op = op
UnchangedByFiles == UNCHANGED <<platform, active, shown, reach, troubles1, report, calls>>

\* UnsupportedRuntime: nothing is there to install, and nothing to take away.
OtherPlatform ==
    /\ platform = "other" /\ call.step = "start"
    /\ Return1(IF call.op \in {"install", "enable"} THEN "error" ELSE "ok")
    /\ report' = IF call.op = "status" THEN "unsupported" ELSE report
    /\ UNCHANGED <<mechanismVars, calls>>

\* The definition is a file, written by truncating it.
InstallFile(p) ==
    /\ Starts("install") /\ platform = p
    /\ \/ definition' = "present" /\ Return1("ok")
       \/ definition' \in {definition, "empty"} /\ Return1("error")
    /\ UnchangedByFiles

InstallUnit  == InstallFile("linux")
InstallAgent == InstallFile("macos")

\* A task is created enabled and then disabled.
InstallTask ==
    /\ Starts("install") /\ platform = "windows"
    /\ \E reply \in Replies :
          IF reply = "success"
          THEN definition' = "present" /\ active' = TRUE /\ shown' = TRUE /\ Next1("disable")
          ELSE UNCHANGED <<definition, active, shown>> /\ Return1("error")
    /\ UNCHANGED <<platform, reach, troubles1, report, calls>>

\* The command that stops the service; uninstall goes on whatever it says,
\* unless it ends there.
Stopping(goesOn) ==
    /\ \E reply \in Replies :
          /\ IF reply = "success" THEN active' = FALSE /\ shown' = FALSE
             ELSE UNCHANGED <<active, shown>>
          /\ IF goesOn THEN Next1("erase") ELSE Return1(Tolerated(reply))
    /\ UNCHANGED <<platform, definition, reach, troubles1, report, calls>>

\* systemctl disable --now
DisableUnit ==
    platform = "linux" /\ (Starts("disable") \/ Starts("uninstall")) /\ Stopping(call.op = "uninstall")

\* launchctl unload
UnloadAgent ==
    platform = "macos" /\ (Starts("disable") \/ Starts("uninstall")) /\ Stopping(call.op = "uninstall")

\* schtasks /Change /DISABLE: disable, and the end of install.
DisableTask ==
    platform = "windows" /\ (Starts("disable") \/ call.step = "disable") /\ Stopping(FALSE)

\* The file is emptied, never removed.
Erased(how) == definition' = IF how /\ definition # "absent" THEN "empty" ELSE definition
Erasures == IF definition = "absent" THEN {TRUE} ELSE BOOLEAN

\* systemd is told afterwards either way.
EraseUnit ==
    /\ call.step = "erase" /\ platform = "linux"
    /\ \E how \in Erasures :
          /\ Erased(how)
          /\ call' = [call EXCEPT !.step = "reload", !.left = IF how THEN 0 ELSE 1]
    /\ UNCHANGED exit
    /\ UnchangedByFiles

EraseAgent ==
    /\ call.step = "erase" /\ platform = "macos"
    /\ \E how \in Erasures : Erased(how) /\ Return1(IF how THEN "ok" ELSE "error")
    /\ UnchangedByFiles

DeleteTask ==
    /\ Starts("uninstall") /\ platform = "windows"
    /\ \E reply \in Replies :
          /\ IF reply = "success"
             THEN definition' = "absent" /\ active' = FALSE /\ shown' = FALSE
             ELSE UNCHANGED <<definition, active, shown>>
          /\ Return1(Tolerated(reply))
    /\ UNCHANGED <<platform, reach, troubles1, report, calls>>

\* enable, of what is installed.
StartEnable(p, step, left) ==
    /\ Starts("enable") /\ platform = p
    /\ \E reply \in Answers :
          IF StatusFrom(reply) = "not_installed" THEN Return1("error")
          ELSE call' = [call EXCEPT !.step = step, !.left = left] /\ UNCHANGED exit
    /\ UNCHANGED <<mechanismVars, report, calls>>

\* An attempt on Linux is a reload and a command.
EnableUnit  == StartEnable("linux", "reload", MaxAttempts)
EnableAgent == StartEnable("macos", "activate", MaxPolls)
EnableTask  == StartEnable("windows", "activate", MaxPolls)

\* daemon-reload, whose own answer is ignored; the last step of uninstall.
Reload ==
    /\ call.step = "reload"
    /\ IF call.op = "uninstall" THEN Return1(IF call.left = 0 THEN "ok" ELSE "error")
       ELSE Next1("activate")
    /\ UNCHANGED <<mechanismVars, report, calls>>

\* systemctl enable --now: it ran, it says that the unit does not exist, or it
\* failed otherwise.  Whatever the reload answered, any of these may follow.
EnableReplies == Replies \cup (IF reach = "up" THEN {"unseen"} ELSE {})

\* Mutant of ActivateUnit: tried again for as long as the unit is not seen.
ActivateUnitUnbounded ==
    /\ call.step = "activate" /\ platform = "linux"
    /\ \E reply \in EnableReplies :
          \/ reply = "success" /\ active' = TRUE /\ shown' = TRUE /\ Return1("ok")
          \/ reply = "unseen" /\ UNCHANGED <<active, shown>> /\ Next1("reload")
          \/ reply \notin {"success", "unseen"} /\ UNCHANGED <<active, shown>> /\ Return1("error")
    /\ UNCHANGED <<platform, definition, reach, troubles1, report, calls>>

\* A unit that is said not to exist is tried again, after another reload; any
\* other failure is final.
ActivateUnit ==
    /\ call.step = "activate" /\ platform = "linux"
    /\ \E reply \in EnableReplies :
          \/ reply = "success" /\ active' = TRUE /\ shown' = TRUE /\ Return1("ok")
          \/ /\ reply = "unseen" /\ call.left > 1 /\ UNCHANGED <<active, shown, exit>>
             /\ call' = [call EXCEPT !.step = "reload", !.left = @ - 1]
          \/ /\ reply # "success" /\ (reply = "unseen" => call.left = 1)
             /\ UNCHANGED <<active, shown>> /\ Return1("error")
    /\ UNCHANGED <<platform, definition, reach, troubles1, report, calls>>

\* The command may report success before, or without, the service being
\* registered: that is polled for.
Activating ==
    /\ \E reply \in Replies :
          IF reply = "success"
          THEN active' \in {active, TRUE} /\ Next1("confirm")
          ELSE UNCHANGED active /\ Return1("error")
    /\ UNCHANGED <<platform, definition, shown, reach, troubles1, report, calls>>

Confirming ==
    /\ \E reply \in Answers :
          IF reply = "success" /\ StatusFrom(reply) = "enabled" THEN Return1("ok")
          ELSE IF call.left = 0 THEN Return1("error")
          ELSE call' = [call EXCEPT !.left = @ - 1] /\ UNCHANGED exit
    /\ UNCHANGED <<mechanismVars, report, calls>>

LoadAgent         == platform = "macos" /\ call.step = "activate" /\ Activating
ChangeTask        == platform = "windows" /\ call.step = "activate" /\ Activating
ConfirmRegistered == platform = "macos" /\ call.step = "confirm" /\ Confirming
ConfirmEnabled    == platform = "windows" /\ call.step = "confirm" /\ Confirming

Status ==
    /\ Starts("status") /\ platform # "other"
    /\ \E reply \in Answers : report' = StatusFrom(reply)
    /\ Return1("ok")
    /\ UNCHANGED <<mechanismVars, calls>>

ProgramStep ==
    \/ InstallUnit \/ DisableUnit \/ EraseUnit \/ EnableUnit \/ Reload \/ ActivateUnit
    \/ InstallAgent \/ UnloadAgent \/ EraseAgent \/ EnableAgent \/ LoadAgent
    \/ ConfirmRegistered
    \/ InstallTask \/ DisableTask \/ DeleteTask \/ EnableTask \/ ChangeTask
    \/ ConfirmEnabled
    \/ Status \/ OtherPlatform

MechanismChanges ==
    /\ \/ /\ shown # active /\ shown' = active /\ UNCHANGED <<reach, troubles1>>
       \/ /\ troubles1 < MaxTroubles1 /\ troubles1' = troubles1 + 1
          /\ reach' \in {"up", "down", "missing"} \ {reach} /\ UNCHANGED shown
    /\ UNCHANGED <<platform, definition, active, callVars>>

ServiceNext ==
    \/ ProgramStep
    \/ \E op \in Ops : BeginCall(op)
    \/ MechanismChanges

\* The program that was started runs on; what it runs returns.
ServiceFairness == WF_serviceVars(ProgramStep)

-----------------------------------------------------------------------------
(* Properties.                                                             *)

\* Every call ends (enable, service_linux.rs and its siblings): the attempts of
\* enable and the polls of a confirmation are counted, also when systemd says
\* each time, after reloads that succeeded, that the unit does not exist.
EnableEnds == (call.step # "idle") ~> (call.step = "idle")
=============================================================================
