------------------------------ MODULE CleanRun -------------------------------
(***************************************************************************)
(* Whole runs of the Rust `clean` (cancellai-cli main.rs): scan both       *)
(* providers, plan, ask, execute action by action, report with an exit     *)
(* code; killed anywhere; run again.  Meanwhile the providers keep using   *)
(* their sessions, start and stop, and containment notices come and go.    *)
(*                                                                         *)
(* The kernel's deletion of one file is one step here, with the outcomes   *)
(* DeleteKernel establishes: removed and reported so, refused with nothing *)
(* removed, or failed with nothing removed (its last window, where another *)
(* object may lose its name, stays in DeleteKernel).  `--json` changes     *)
(* what is printed and nothing else, save that it refuses to run without   *)
(* `--yes` or `--dry-run`, which is left out.                              *)
(***************************************************************************)
EXTENDS Retention

\* The command line, and whether each root is the default one.
Flags == [scope : SUBSET Providers, yes : BOOLEAN, dryRun : BOOLEAN,
          allowRunning : BOOLEAN, keepLatest : Nat,
          isDefault : [Providers -> BOOLEAN]]

CONSTANTS
    Now,         \* the latest modification time; the provider writes at it
    Families,    \* the parent functions the rollouts may have
    FlagChoices, \* the command lines, and kinds of roots, considered
    Channel,     \* the release channel compiled in
    MaxChanges,  \* bound on what happens around the runs
    MaxRuns      \* bound on the runs

ASSUME CleanAssumption ==
    /\ Now \in Nat /\ Now >= Cutoff
    /\ Families \subseteq [Sessions -> Sessions \cup {0}]
    /\ \A family \in Families, s \in Sessions :
          family[s] \in IF s \in Codex THEN Codex \cup {0} ELSE {0}
    /\ FlagChoices \subseteq Flags
    /\ Channel \in Channels
    /\ MaxChanges \in Nat
    /\ MaxRuns \in Nat

VARIABLES
    disk,        \* modification time of each session, 0 when it is not there
    parent,      \* the parent each rollout's header names
    running,     \* the provider's process is running
    contained,   \* a containment notice forbids the provider's deletions
    changes,     \* ghost: how often the surroundings changed
    flags,       \* [scope, yes, dryRun, allowRunning, isDefault]
    pc,          \* next step of the run
    scan,        \* what the scan gathered
    unread,      \* rollouts whose modification time is still to be read
    action,      \* the plan: session -> "none", "observe" or "delete"
    withheld,    \* safety_withheld
    established, \* providers whose root could be established
    todo,        \* actions not yet executed
    outcome,     \* session -> result of its action in this run
    exit,        \* exit code
    runs,        \* ghost: number of the run
    owed,        \* ghost: deletions earlier runs confirmed
    removed,     \* ghost: what the runs removed
    blind        \* ghost: a modification time could not be read

aroundVars == <<disk, parent, running, contained, changes>>
planVars   == <<scan, unread, action, withheld>>
execVars   == <<established, todo, outcome>>
ghostVars  == <<runs, owed, removed, blind>>
vars       == <<aroundVars, flags, pc, planVars, execVars, exit, ghostVars>>

Steps == {"claude-discover", "claude-process", "codex-discover",
          "codex-process", "codex-times", "plan", "prompt", "roots", "next",
          "recheck", "delete", "exited", "killed"}
NoExit == 99
ExitCodes == {0, 1, 3, 4, NoExit}
Results == {"none", "succeeded", "safely_skipped", "failed"}

TypeOK ==
    /\ disk \in [Sessions -> 0 .. Now]
    /\ parent \in [Sessions -> Sessions \cup {0}]
    /\ running \in [Providers -> BOOLEAN]
    /\ contained \in [Providers -> BOOLEAN]
    /\ changes \in Nat
    /\ flags \in Flags
    /\ pc \in Steps
    /\ scan \in Scans
    /\ unread \subseteq Codex
    /\ action \in [Sessions -> {"none", "observe", "delete"}]
    /\ withheld \in BOOLEAN
    /\ established \subseteq Providers
    /\ todo \subseteq Sessions
    /\ outcome \in [Sessions -> Results]
    /\ exit \in ExitCodes
    /\ runs \in Nat
    /\ owed \subseteq Sessions
    /\ removed \subseteq [session : Sessions, run : Nat, time : Nat,
                          live : BOOLEAN]
    /\ blind \in BOOLEAN

-----------------------------------------------------------------------------
EmptyScan ==
    [keep     |-> flags.keepLatest,
     found    |-> {},
     complete |-> [p \in Providers |-> TRUE],
     active   |-> [p \in Providers |-> FALSE],
     seen     |-> [s \in Sessions |-> 0],
     parent   |-> [s \in Sessions |-> 0]]

\* What a process holds when it starts, and all of it is gone when it dies.
Blank(step) ==
    /\ pc' = step
    /\ scan' = EmptyScan
    /\ unread' = {}
    /\ action' = [s \in Sessions |-> "none"]
    /\ withheld' = FALSE
    /\ established' = {}
    /\ todo' = {}
    /\ outcome' = [s \in Sessions |-> "none"]
    /\ exit' = NoExit

Init ==
    /\ disk \in [Sessions -> 1 .. Now]
    /\ parent \in Families
    /\ running = [p \in Providers |-> FALSE]
    /\ contained = [p \in Providers |-> FALSE]
    /\ changes = 0
    /\ flags \in FlagChoices
    /\ pc = "claude-discover"
    /\ scan = EmptyScan
    /\ unread = {}
    /\ action = [s \in Sessions |-> "none"]
    /\ withheld = FALSE
    /\ established = {}
    /\ todo = {}
    /\ outcome = [s \in Sessions |-> "none"]
    /\ exit = NoExit
    /\ runs = 1
    /\ owed = {}
    /\ removed = {}
    /\ blind = FALSE

-----------------------------------------------------------------------------
(* Around the runs.                                                        *)

Around ==
    /\ changes < MaxChanges
    /\ changes' = changes + 1
    /\ UNCHANGED <<parent, flags, pc, planVars, execVars, exit, ghostVars>>

\* The session is resumed, or its file written anew.
Written(s) ==
    /\ Around
    /\ disk[s] # Now
    /\ disk' = [disk EXCEPT ![s] = Now]
    /\ UNCHANGED <<running, contained>>

Vanished(s) ==
    /\ Around
    /\ disk[s] # 0
    /\ disk' = [disk EXCEPT ![s] = 0]
    /\ UNCHANGED <<running, contained>>

StartedOrStopped(p) ==
    /\ Around
    /\ running' = [running EXCEPT ![p] = ~@]
    /\ UNCHANGED <<disk, contained>>

NoticeInstalledOrLifted(p) ==
    /\ Around
    /\ contained' = [contained EXCEPT ![p] = ~@]
    /\ UNCHANGED <<disk, running>>

Surroundings ==
    \/ \E s \in Sessions : Written(s) \/ Vanished(s)
    \/ \E p \in Providers : StartedOrStopped(p) \/ NoticeInstalledOrLifted(p)

-----------------------------------------------------------------------------
(* The scan: resolve_claude, then resolve_codex.                           *)

\* A walk that met an error is incomplete, and found what it found.
Discovered(p) ==
    LET there == {s \in Of(p) : disk[s] # 0}
    IN  {<<TRUE, there>>} \cup {<<FALSE, some>> : some \in SUBSET there}

ClaudeDiscover ==
    /\ pc = "claude-discover"
    /\ IF "claude-code" \in flags.scope
       THEN /\ \E d \in Discovered("claude-code") :
                  scan' = [scan EXCEPT
                     !.found = d[2],
                     !.complete["claude-code"] = d[1],
                     !.seen = [s \in Sessions |->
                                 IF s \in d[2] THEN disk[s] ELSE 0]]
            /\ pc' = "claude-process"
       ELSE pc' = "codex-discover" /\ UNCHANGED scan
    /\ UNCHANGED <<aroundVars, flags, unread, action, withheld, execVars,
                   exit, ghostVars>>

\* A probe that could not list every process reads as running.
ProcessActive(p) ==
    IF flags.allowRunning
    THEN {FALSE}
    ELSE {running[p], TRUE}

ObserveProcess(p, step, next) ==
    /\ pc = step
    /\ \E a \in ProcessActive(p) : scan' = [scan EXCEPT !.active[p] = a]
    /\ pc' = next
    /\ UNCHANGED <<aroundVars, flags, unread, action, withheld, execVars,
                   exit, ghostVars>>

ClaudeProcess == ObserveProcess("claude-code", "claude-process", "codex-discover")

CodexDiscover ==
    /\ pc = "codex-discover"
    /\ IF "codex-cli" \in flags.scope
       THEN /\ \E d \in Discovered("codex-cli") :
                  /\ scan' = [scan EXCEPT
                        !.found = @ \cup d[2],
                        !.complete["codex-cli"] = d[1],
                        !.parent = [s \in Sessions |->
                                      IF s \in d[2] THEN parent[s] ELSE 0]]
                  /\ unread' = d[2]
            /\ pc' = "codex-process"
       ELSE pc' = "plan" /\ UNCHANGED <<scan, unread>>
    /\ UNCHANGED <<aroundVars, flags, action, withheld, execVars, exit,
                   ghostVars>>

CodexProcess == ObserveProcess("codex-cli", "codex-process", "codex-times")

\* One member's modification time; a file that is gone by now has none.
ObserveMtime ==
    /\ pc = "codex-times"
    /\ IF unread = {}
       THEN pc' = "plan" /\ UNCHANGED <<scan, unread, blind>>
       ELSE /\ LET s == NextInOrder(scan, "codex-cli", unread)
               IN  /\ \E readable \in BOOLEAN :
                         /\ scan' = [scan EXCEPT !.seen[s] =
                                       IF readable THEN disk[s] ELSE 0]
                         /\ blind' = (blind \/ ~readable)
                   /\ unread' = unread \ {s}
            /\ UNCHANGED pc
    /\ UNCHANGED <<aroundVars, flags, action, withheld, execVars, exit,
                   runs, owed, removed>>

-----------------------------------------------------------------------------
(* The plan and the prompt: plan_actions and cmd_clean.                    *)

\* LedgerState::load: one read of the ledger, which may fail.
Ledger(readable, p) ==
    CASE ~readable                   -> "unknown"
      [] readable /\ contained[p]    -> "contained"
      [] readable /\ ~contained[p]   -> "clear"

\* An unreadable ledger caps authority at Recommend.
DeleteAuthority(s, ledger) ==
    LET in    == [Classify(scan, s) EXCEPT !.requested = Govern]
        level == EffectiveAuthorityUnderContainment(in, Channel,
                     IF ledger = "contained" THEN {Recommend} ELSE {})
    IN  IF ledger = "unknown" /\ level > Recommend THEN Recommend ELSE level

Authorised(s, ledger) == DeleteAuthority(s, ledger) >= MinimumAuthorityFor("delete")

\* Mutant of WithholdsSomething: an incomplete scan is not reported.
WithholdsSomethingPlanned(proposed, final) == final # proposed

WithholdsSomething(proposed, final) ==
    \/ \E p \in Providers : ~scan.complete[p]
    \/ final # proposed

Plan ==
    /\ pc = "plan"
    /\ \E readable \in BOOLEAN :
          LET proposed  == BuildActions(scan)
              allowed(s) == /\ flags.isDefault[ProviderOf(s)]
                            /\ Authorised(s, Ledger(readable, ProviderOf(s)))
              final     == [s \in Sessions |->
                              IF proposed[s] = "delete" /\ ~allowed(s)
                              THEN "observe"
                              ELSE proposed[s]]
          IN  /\ action' = final
              /\ withheld' = WithholdsSomething(proposed, final)
    /\ pc' = "prompt"
    /\ UNCHANGED <<aroundVars, flags, scan, unread, execVars, exit, ghostVars>>

Deletions == {s \in Sessions : action[s] = "delete"}

Exit(code) == pc' = "exited" /\ exit' = code

\* Nothing to delete or a dry run ends here; otherwise the user, or --yes.
Prompt ==
    /\ pc = "prompt"
    /\ \/ /\ Deletions = {} \/ flags.dryRun
          /\ Exit(IF withheld THEN 4 ELSE 0)
          /\ UNCHANGED owed
       \/ /\ Deletions # {} /\ ~flags.dryRun /\ ~flags.yes
          /\ Exit(1)
          /\ UNCHANGED owed
       \/ /\ Deletions # {} /\ ~flags.dryRun
          /\ pc' = "roots"
          /\ owed' = owed \cup Deletions
          /\ UNCHANGED exit
    /\ UNCHANGED <<aroundVars, flags, planVars, execVars, runs, removed, blind>>

-----------------------------------------------------------------------------
(* execute_clean.                                                          *)

EstablishRoots ==
    /\ pc = "roots"
    /\ established' \in SUBSET Providers
    /\ todo' = {s \in Sessions : action[s] # "none"}
    /\ pc' = "next"
    /\ UNCHANGED <<aroundVars, flags, planVars, outcome, exit, ghostVars>>

\* any_failed, then any_blocked, then what the plan withheld.
ExitCode ==
    IF \E s \in Deletions : outcome[s] = "failed" THEN 3
    ELSE IF \E s \in Deletions : outcome[s] = "safely_skipped" THEN 4
    ELSE IF withheld THEN 4 ELSE 0

\* Claude's actions come first, then Codex's.
Current ==
    LET p == IF todo \cap Claude # {} THEN "claude-code" ELSE "codex-cli"
    IN  NextInOrder(scan, p, todo \cap Of(p))

Finished(result) ==
    /\ outcome' = [outcome EXCEPT ![Current] = result]
    /\ todo' = todo \ {Current}
    /\ pc' = "next"

\* The next action in plan order; the last one is followed by the report.
NextAction ==
    /\ pc = "next"
    /\ IF todo = {}
       THEN Exit(ExitCode) /\ UNCHANGED <<todo, outcome>>
       ELSE /\ UNCHANGED exit
            /\ IF action[Current] = "delete"
               THEN pc' = "recheck" /\ UNCHANGED <<todo, outcome>>
               ELSE Finished("safely_skipped")
    /\ UNCHANGED <<aroundVars, flags, planVars, established, ghostVars>>

\* containment::recheck, immediately before each deletion.
Recheck ==
    /\ pc = "recheck"
    /\ \E readable \in BOOLEAN :
          IF Authorised(Current, Ledger(readable, ProviderOf(Current)))
          THEN pc' = "delete" /\ UNCHANGED <<todo, outcome>>
          ELSE Finished("safely_skipped")
    /\ UNCHANGED <<aroundVars, flags, planVars, established, exit, ghostVars>>

Removal(s) ==
    [session |-> s, run |-> runs, time |-> disk[s],
     live |-> running[ProviderOf(s)]]

Remove(s) ==
    /\ disk' = [disk EXCEPT ![s] = 0]
    /\ removed' = removed \cup {Removal(s)}

Keep == UNCHANGED <<disk, removed>>

\* Mutant of MayMutate: the probe at deletion time is skipped.
MayMutateTrustingTheScan(s) ==
    /\ flags.isDefault[ProviderOf(s)]
    /\ ProviderOf(s) \in established
    /\ disk[s] # 0

\* What delete_one and the kernel require before they touch the file.
MayMutate(s) ==
    /\ flags.isDefault[ProviderOf(s)]
    /\ ProviderOf(s) \in established
    /\ disk[s] # 0
    /\ flags.allowRunning \/ ~running[ProviderOf(s)]

DeleteOne ==
    /\ pc = "delete"
    /\ \/ /\ MayMutate(Current)
          /\ Remove(Current)
          /\ Finished("succeeded")
       \/ /\ MayMutate(Current)
          /\ Keep
          /\ Finished("failed")
       \/ /\ Keep
          /\ Finished("safely_skipped")
    /\ UNCHANGED <<parent, running, contained, changes, flags, planVars,
                   established, exit, runs, owed, blind>>

-----------------------------------------------------------------------------
Kill ==
    /\ pc \notin {"exited", "killed"}
    /\ Blank("killed")
    /\ UNCHANGED <<aroundVars, flags, ghostVars>>

\* A new process, with the same flags.
RunAgain ==
    /\ pc \in {"exited", "killed"}
    /\ runs < MaxRuns
    /\ runs' = runs + 1
    /\ Blank("claude-discover")
    /\ UNCHANGED <<aroundVars, flags, owed, removed, blind>>

Run ==
    \/ ClaudeDiscover \/ ClaudeProcess \/ CodexDiscover \/ CodexProcess
    \/ ObserveMtime \/ Plan \/ Prompt \/ EstablishRoots \/ NextAction
    \/ Recheck \/ DeleteOne

Next == Surroundings \/ Run \/ Kill \/ RunAgain

Spec == Init /\ [][Next]_vars

-----------------------------------------------------------------------------
(* Properties.                                                             *)

\* Where a session is gone, the time it had when it was removed.
TimeBefore(s) ==
    IF disk[s] # 0
    THEN disk[s]
    ELSE (CHOOSE x \in removed : x.session = s).time

\* What a perfect scan would have gathered before the first run, when nothing
\* but the runs has changed the disk since.
Before ==
    [keep     |-> flags.keepLatest,
     found    |-> Sessions,
     complete |-> [p \in Providers |-> TRUE],
     active   |-> [p \in Providers |-> FALSE],
     seen     |-> [s \in Sessions |-> TimeBefore(s)],
     parent   |-> parent]

\* However often `clean` is killed and run again, as long as nothing else
\* touches the sessions and every time could be read, it removes only
\* sessions of trees all of whose members were older than the retention window
\* before the first run, and never of one of the --keep-latest newest trees.
OnlyOldTreesRemoved ==
    changes = 0 /\ ~blind =>
        \A x \in removed :
            LET p      == ProviderOf(x.session)
                tree   == Tree(Before, p, RootIdFor(Before, x.session))
                others == {Tree(Before, p, q) : q \in Roots(Before, p)} \ {tree}
            IN  /\ \A m \in tree : Before.seen[m] < Cutoff
                /\ Cardinality({other \in others :
                      \E m \in other : \A n \in tree :
                          Before.seen[m] >= Before.seen[n]}) >= flags.keepLatest

\* A removal rests on evidence gathered at two times: a complete scan that saw
\* this session's age and no running process, the user's consent to a plan
\* that names it, and a second look that found the process stopped
\* (SI-008, SI-009, SI-012).
EvidenceForEachRemoval ==
    \A x \in removed :
        LET p == ProviderOf(x.session)
        IN  /\ x.session \in owed \ Shielded
            /\ ~flags.dryRun
            /\ x.live => flags.allowRunning
            /\ x.run = runs /\ pc # "killed" =>
                  /\ scan.complete[p] /\ ~scan.active[p]
                  /\ scan.seen[x.session] \in 1 .. Cutoff - 1

\* The exit code tells what happened to everything the scan found eligible,
\* whatever was withheld, refused or failed on the way.
ExitCodeTruth ==
    LET gone(s)  == \E x \in removed : x.session = s /\ x.run = runs
        wanted   == {s \in scan.found : Eligible(scan, s)}
        failures == {s \in wanted : outcome[s] = "failed"}
    IN  /\ exit = 0 =>
              /\ \A p \in Providers : scan.complete[p]
              /\ \A s \in wanted : flags.dryRun \/ gone(s)
        /\ exit = 1 => \A s \in wanted : ~gone(s)
        /\ exit = 3 => failures # {} /\ \A s \in failures : ~gone(s)
        /\ exit = 4 =>
              /\ failures = {}
              /\ \/ \E p \in Providers : ~scan.complete[p]
                 \/ \E s \in wanted : ~gone(s)

\* retention.rs says a member whose time could not be observed is not silently
\* treated as very old, and a recent member protects its tree in its entirety:
\* nothing would be removed from a tree one of whose members the same scan saw
\* to be recent.
RecentMemberProtectsTree ==
    \A x \in removed : x.run = runs =>
        LET p == ProviderOf(x.session)
        IN  \A m \in Tree(scan, p, RootIdFor(scan, x.session)) :
               scan.seen[m] < Cutoff

\* The kill harness says that after a kill the rerun removes exactly the
\* remainder: when nothing else changed and a later run, which saw no provider
\* running, reports success, nothing an earlier run set out to remove would be
\* left.
RerunRemovesTheRemainder ==
    /\ changes = 0 /\ ~blind /\ runs > 1 /\ exit = 0
    /\ \A p \in Providers : ~scan.active[p]
    =>
        \A s \in owed : disk[s] = 0
=============================================================================
