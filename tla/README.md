# A specification of cancellAI

cancellAI removes old session data of Codex CLI and Claude Code. What it must
never do is remove something else: a session still in use, a file that took
the session's place, a tree one of whose members is recent, anything under a
containment notice. These modules specify the Rust engine (`rust/crates/`) in
TLA+, translated from its source; TLC checks them on small instances and TLAPS
proves the most important results for every instance.

## The system

The engine is a set of crates around one command, `clean`, that runs in the
owner's account beside the providers and shares their files with no lock.
Around it stand a local store, a Guardian that watches the disk, policy
documents, signed knowledge and requests, a desktop dashboard and a terminal.

| component | state | operations | hard behaviour |
| --- | --- | --- | --- |
| deletion kernel (`safety`, `platform`, `sealedfs`) | approved root, sealed plan, open descriptors | establish, bind, seal, execute | a provider between any two system calls, reused inodes, two runs at once |
| Windows deletion (`sealedfs`, `platform`) | open handles, dispositions | open, confirm, mark, close | files moved, linked or held open under the handle |
| moves (`platform`, `sealedfs`) | vault directory, sidecar records | quarantine, archive, restore, verify | crash and power loss between renames, failing calls, two moves at one name |
| containment ledger (`safety`, `store`, `cli`) | append-only history, trust file | install, refresh, lift, recheck | concurrent transactions, replays and rollbacks of notices, damage, edited trust |
| authority, policy (`safety`, `policy`) | none; the policy document | minimum over ceilings, resolve, pin, explain, select, group | one forgotten ceiling, a document that raises one, ties and duplicates |
| retention (`policy`, `provider-codex`) | none | trees, classification, plan | cycles and missing parents, unknown ages, incomplete scans |
| discovery and inventory (`inventory`, providers) | an agenda, a completeness log | walk, stat, read a header | entries that come and go during the walk, failing calls |
| roots and adapters (`provider-api`, providers, `cli`) | none | fingerprint, claim, probe | markers that move between two looks, a probe that hangs |
| `clean` (`cli`) | scan, plan, results | scan, ask, execute, report | a decision that is stale when it is carried out, kill and rerun |
| `configure` (`cli`, `sealedfs`) | Claude's `settings.json` | open, read, write beside, rename | swapped directories, failing calls, power loss |
| store (`store`) | three SQLite databases | open, migrate, append, compact, promote, rebuild, reset | two connections, two versions, partial failure |
| Guardian (`guardian`) | kill switch, samples, service, audit | classify, plan, withdraw, detect, install, enable | a switch half written, wavering readings, a service manager that lags |
| knowledge, remote execution, trust (`safety`) | bundles, sequences, tiers | verify, apply, roll back, promote | replay, reordering, expiry, edited trust |
| desktop bridge (`desktop-api`, `desktop`, `cli`) | an engine, a launcher page, sockets | start, answer a page, expire | connections that say nothing or do not read, wrong tokens, death of either program |
| terminal (`tui`) | screen, selection, confirmation | a key | any key between two presses |

They interact by calls within a process (`clean` resolves, asks the ledger for
ceilings, seals a plan and hands it to the kernel), through files between
processes (the ledger, the vault, the kill switch, the databases), through
sockets (the dashboard and its engine), and through the providers'
directories, which anybody may change.

## Modules

| module | models | extends |
| --- | --- | --- |
| `DeleteKernel` | one deletion, a system call at a time, and the provider | |
| `MoveKernel` | quarantine, archive and restore | |
| `ContainmentRegister` | what the containment ledger promises | |
| `Containment` | the ledger, the commands on it and the recheck of a clean; implements the register | |
| `Authority` | the ceilings and their minimum | |
| `Retention` | from a scan to proposed actions | `Authority` |
| `CleanRun` | whole runs of `clean`, killed and run again | `Retention` |
| `EventLedger`, `AnalyticalMemory`, `CurrentState` | the three layers of the store | |
| `Database` | opening and migrating any of them | |
| `LocalState` | the store: its layers and the operations that span them | the four above |
| `Guardian` | pressure, remediation, kill switch, audit | `Authority`, `StableSort` |
| `Detection` | baseline, structure, growth and forecast | `StableSort` |
| `Service` | the user service on three platforms | |
| `Grants` | remote requests, knowledge bundles, promotion | `Authority` |
| `Bridge` | dashboard and engine | |
| `Surroundings` | these five side by side | the five above |
| `SealedRoot` | opening a directory without following a link | |
| `Configure`, `WindowsDelete` | two users of it | `SealedRoot` |
| `Policy` | the policy document, the selection under pressure and the views | `Authority`, `StableSort` |
| `Discovery` | the three walks | |
| `RootClaims` | what is claimed of a root, of a manifest, of a file system | `Authority` |
| `Terminal` | the terminal interface | |
| `Interfaces` | these side by side | `SealedRoot` ... `Terminal` |
| `...Proofs` | theorems about the module named | that module |
| `MC...` | constants of the instances TLC checks | the module named |

**DeleteKernel.** `entry`, `obj` and `route` are the file system: two
directories that may stand where the session's is expected, two names in each,
inodes with an instant of birth and of the last write, and where the paths
lead. Each run goes through `establish_verified_root` (`Establish`),
`ApprovedRoot::bind` (`Bind`), `seal_with_process_guard` (`Seal`), the three
checks of `execute` (`Revalidate`, `ProcessGuard`, `RevalidateLayout`) and the
six system calls of `confirmed_delete_file` and
`unlink_child_matching_unix_identity` (`Open` ... `Corroborate`). Between any
two of them the provider replaces a file by rename, appends, removes, links,
renames, redirects a directory or a link, changes the root's listing, or starts
and stops. `raced` and `touched` are history variables: they say that the
provider moved a name in the window between `fstatat` and `unlinkat`, or wrote
to the file after the last look at it. The code documents the first window and
cannot close it; the properties except exactly these two. The look at the held
descriptor after the unlink may itself fail; the code then reports a failure
of a deletion that took place, here the outcome `unknown`.

**MoveKernel.** A move writes its sidecar records under a `.pending` name, syncs
the directory, renames the artifact without replacing, and renames each record
to its final name. `dir` is what processes see, `disk` what was last synced and
`log` the changes since. A power loss keeps some of them and loses the others
(`Kept`, `Survivors`), those of one name in their order. Calls fail (`Fault`),
processes die (`Kill`), files are written in place (`Write`). `moved` is history:
the artifact an operation's rename took.

**Containment.** `events` is the history; every command replays it under the
trust policy it read. Commands hold SQLite's immediate transaction (`lock`) from
`Begin` to `Commit`. A notice has a scope and may be malformed; what of it
applies to the running program is `Target`. The owner edits the trust file or
leaves it faulty, the ledger becomes unreadable, notices expire, commands crash.
A cleaner reads the trust file, then the rows, before each deletion. The
refinement maps the replayed history under all publishers' keys to
`ContainmentRegister`.

**Authority, Retention, CleanRun.** `CleanRun` scans both providers (discovery
that misses sessions is incomplete; a member's age may be unreadable; a process
probe may fail), plans with the operators of `Retention`, asks, establishes the
roots, and takes each action in plan order with the ledger asked again. A
deletion is one step with the outcomes `DeleteKernel` establishes. A kill at
any point forgets all a process holds.

**The store.** A SQLite transaction is one step, because that is what the code
opens for each; everything between two transactions of a call is a step of its
own. In `EventLedger` a writer that appends within the budget counts, compacts
and appends in three transactions, and any other writer may come between;
`written` and `strict` are history. In `AnalyticalMemory` the clock is an
argument of every call, as it is in the code, so it may go back. `CurrentState`
keeps of a row what an invalidation key compares. `Database` has openers whose
programs ship different numbers of migrations (`ships`); they read the version,
take the lock, check the identity, migrate and check again, and may die or find
the file busy at any of these. `LocalState` adds `RebuildWithinBudget` and
`reset_local_state`, whose layers are emptied one after another.

**The surroundings.** `Guardian` scores a reading, moves the level by one band
at a time, plans, reads the switch and applies it, and records. The switch is a
file: `engage` truncates it and then writes it, any call may fail, its directory
may vanish. Nothing in the repository composes these yet, so the cycle is in the
order their parameter types allow. `Service` runs one command of systemd,
launchd or the Task Scheduler at a time; `shown` is what a query answers, which
may lag behind `active`. `Detection` works on integers. `Grants` has messages
with at most one flaw, in the order the code looks for flaws.

`Bridge` has one connection at a time on each side. An engine answers a first
frame only if it is a hello with the session's token and of a version it
supports (`Handle`, `TokenMatches`); a dashboard may have been given an engine of
another version. A page is written in a step of its own (`WriteReply`), which a
client that does not read may hold up for good (`"stalled"`, `ClientTurns`).
`Visit`, `Stranger` (who may guess a token), `EngineDies`, `AcceptFails` and
`DashboardKilled` come from outside, and the program ends by any of its ways:
`--requests`, with or without a launcher page, and any error (`Exit`).

**The interfaces.** `SealedRoot` opens a path component by component while
somebody moves directories away and puts links in their place; `Configure` has
`settings` (seen) and `disk` (kept by a power loss). `WindowsDelete` marks a
handle for deletion; the name goes at the last close. `Discovery` keeps an
agenda, a stack of sets of calls, for the nested loops of the three walks.
`RootClaims` looks at one marker at a time, with two calls for each, either of
which may fail; the code takes a failing call for "no link" or "no marker". A
walk for the files of a manifest may be unable to list or to stat some places
(`Unreadable`) and claims what it saw. History variables say which markers stood
at some moment of the looks (`stood2`), were changed (`moved2`), were not seen
because a look failed (`failed2`), were found through a link (`followed2`), and
which files a walk could not read (`unread2`).
`Terminal` has the two ways terminals report keys.

## Runs

| run | bounds | what it checks |
| --- | --- | --- |
| `delete` | 2 runs, 3 inodes, 2 interferences | `OnlyConfirmedRemoved`, `UnseenWritesSurvive`, `NeverOneOfSeveralNames`, `OutcomeTruth`, `OneWinner`, `LiveProviderUntouched` |
| `move` | 2 operations, 2 artifacts, 1 destination, 2 troubles | `ArtifactInOnePlace`, `RecordsSurvive`, `SuccessIsDurable`, `FailureLeavesNothing`, `VerifiedIsSealed` |
| `containment` | 2 commands, a clean, 2 events before the size limit, 1 edit | `HistoryReplays`, `ImplementsRegister`, `LaterDeletionsBound`, `ReportsAreTrue` |
| `clean` | 1 Claude session, 2 rollouts, 2 runs, 1 change, 6 command lines | `OnlyOldTreesRemoved`, `EvidenceForEachRemoval`, `ExitCodeTruth` |
| `store` | 2 writers, 3 appends, limit 1; 2 samplers, 3 samples, limit 1, times to 4; 3 openers of 2 versions' migrations; 1 resetting process | `EachEventOnce`, `BudgetAtRest`, `NothingLostOrCountedTwice`, `TiersMatchAges`, `ReuseNeedsAKeyOfThisRow`, `SchemaMatchesVersion`, `SomeoneOpens`, `ResetTellsWhatIsLeft` |
| `surroundings` | 2 owners, 8 readings; 4 platforms, 2 calls, 1 trouble; series of 6 points; 5 requests of 2 controllers, 2 publishers; 2 pages, 1 stranger of three beginnings, 1 trouble, `--requests` of 1 or none | `SwitchHolds`, `NoFlapping`, `EnableEnds`, `StaleTrendIsNoForecast`, `AcceptedOnce`, `PagesAreTrue`, `LauncherForgets`, `PagesAnswered` |
| `interfaces` | 4 artifacts; 2 swaps, 2 writes, 1 fault; 2 edits; a tree of 16 places, 2 changes, 1 trouble; 2 changes or failing looks; 3 plans; 44 manifests and more | `ViewsHold`, `SettingsSurvive`, `WindowsRemovesTheConfirmed`, `CompleteMeansSeen`, `ClaimsRestOnEvidence`, `ConfirmedDeliberately` |
| `delete_root`, `clean_trio`, `clean_rerun`, `tui_press`, `store_budget` | smaller instances | where the code departs from what its documents say, below |

`store`, `surroundings` and `interfaces` put components side by side that share
no state. A behaviour is given one workload (or use) in its first state and
leaves the rest as it was; so a run explores each component on its own, and in
`store` the operations that span layers with all three.

*Why the bounds are enough.* Two interferences in `delete` let an object be
removed and its number reused, or a name moved away and another put there, or
a directory redirected and redirected back; three inodes are a session, a
replacement and a bystander. The proofs below remove these bounds. Two
troubles in `move` combine any two of kill, power loss, failing call and
write, which is what it takes to lose an unsynced record behind a durable
move. Two commands in `containment` let one commit between another's read and
write, or crash there, while a clean goes on (the proofs remove this bound and
that of one edit); a notice or an event past the limit of records or of events
is refused, and as many publishers as may be tracked are. In `clean`, a parent and child in either order of
discovery and headers that name each other are the shapes the tree grouping
distinguishes; two runs are what a kill and a rerun take. In `store`, two
writers and a limit of one event are a compaction that meets another between
its count and its transaction (the proofs remove this bound too); four
instants with windows of 1, 2 and 3 let a sample cross every tier, one at a
time or several at once; three openers with two migrations are one that is
behind, one ahead and one that dies between the two. In `surroundings`, the
readings lie on both sides of each threshold and of each band below it; three
attempts and two polls are fewer polls than the code makes, which only shortens
a loop whose count is what matters. At the bridge, a page, another and a stranger
are what it takes for one connection to wait on another; `--requests 1` ends the
program before a page was shown, when the one counted was refused or dropped, or
after it. In `interfaces`, two swaps put a link in the
place of a directory and take it away again; two changes let an entry move from
a directory not yet listed to one that was, or go and come back; two changes of markers put one there after another has gone, and one change
with a failing look puts a link there that is taken for a marker; sizes
end at 7 (`WidthLimit`), so that sums of four artifacts saturate and overflow.

The bounds of the environment (`MaxWrites`, `MaxTroubles`, `MaxEdits`,
`MaxChanges`, `MaxSwaps`, `MaxFaults`, `MaxCalls`, `MaxPages`, ...) stand in
the guard of actions of the environment or in that of a new operation, never
within one; `MaxRecords`, `MaxPublishers`, `MaxEvents`, `MaxListed`,
`MaxLedgerEvents`, `MaxRawSamples`, `MaxRows`, `MaxAttempts`, `MaxPolls`,
`MaxProbeEntries`, `MaxGlobEntries` and `MaxSelected` are the code's own
limits, most of them made small.

Deadlock is not checked: the processes of every module run to an end and stop
there. Symmetry is used only in runs without liveness properties.

*Fairness.* Two properties are of liveness. `EnableEnds` assumes weak fairness
of the program's own steps (`ProgramStep`): a process that runs takes its next
step, and each command of the service manager returns, with whatever answer; it
assumes nothing of what is answered. `PagesAnswered` assumes weak fairness of
the dashboard's and of the engine's steps: a running program goes on, and the
timeouts it set on its sockets fire (`READ_TIMEOUT` while a head is read,
`IDLE_TIMEOUT` in both directions between dashboard and engine). Nothing is
assumed of browsers, strangers or the owner. In particular a browser need not
read: the dashboard writes its pages with no timeout (`server.rs:125`, 239-249)
and serves nobody else meanwhile, so `PagesAnswered` excepts the behaviours in
which one client that has the URL stays for ever without reading its page. What
the engine writes on a connection without the token fits its socket. All else is safety, and the
register of the refinement promises no progress.

*Type invariants.* Each module with variables states one. They are not in the
runs, where they would say little about the code; those of `DeleteKernel`,
`MoveKernel` and `CleanRun` are proved (`TypeCorrect`), that of `Containment` is
part of its `IInv`, and of the others the invariants proved have as much as the
arguments need.

## What the code does otherwise than its documents say

Shown by runs that violate a property:

- `delete_root`: SI-013 says identity drift of the root blocks. The executor
  compares two copies of the identity taken at approval; a root replaced before
  sealing is accepted.
- `clean_trio`: one member whose age cannot be read makes a whole tree "not
  recent", and its old members are removed though a sibling was seen recent.
- `clean_rerun`: killed between a parent and its child, the child is an orphan
  that no rerun removes, although each reports success.
- `tui_press`: where the terminal reports releases (Windows), one press of `c`
  both arms and confirms an irreversible plan.
- `store_budget`: `budget.rs:380-382` says that the raw tier never exceeds
  `max_raw_samples` once `record_sample_within_rollup_budget` returns. It counts
  and records in two transactions, and two samplers that race leave one sample
  too many. `TiersMatchAges` states what does hold: they exceed the limit by
  less than their number, until the next compaction.

Met while modelling, in the models, and not given a run of their own:

- A file renamed over the session between `fstatat` and `unlinkat` is removed
  and the deletion reports success; `sealedfs/src/lib.rs:644-646` says such a
  swap is detected. The link count of the held descriptor cannot tell, because
  the rename already took the planned file's last name. (`raced` in
  `DeleteKernel`.)
- Two moves to one destination replace each other's pending records
  (`sealedfs/src/lib.rs:837`; `shared` in `MoveKernel`). Moves have no caller in
  the command line yet.
- The age a deletion rests on is not observed again before it, so a session
  resumed while the prompt waits is removed (`main.rs:1025`).
- `enforce_..._budget` used by itself leaves one event too many after the next
  append; only `append_within_ledger_budget` keeps the limit
  (`budget.rs:324-327` says so), and only if all writers use it (`strict`).
- On Linux `disable` and `uninstall` report success though the bus could not be
  reached; on Windows `/Delete` may fail and `uninstall` succeed, `install`
  leaves the task enabled until its second command ran although
  `service_windows.rs:139` calls disabled its postcondition, and every failure
  of a query reads as not installed (`service.rs:52-56` distinguishes them).
- Codex claims a session graph as observed although its scan was partial; Claude
  says so (`provider-claude/src/lib.rs:158-177`).
- The probe of Codex's own deletion joins its readers without a bound when the
  child has exited and a descendant keeps the pipe (`native_delete.rs:121`),
  though lines 99-111 bound the same wait after a timeout. `JoinReaders` of
  `RootClaims` waits; no liveness is claimed of it.
- `server.rs:96` says that requests are served until `max_requests` have been
  answered. Connections are counted when they are accepted (line 113; `Accept`,
  `Enough`), so one that says nothing uses up its place, and the dashboard may end
  without having answered anybody.
- `server.rs:97` says that a failed connection never stops the server; an error
  of `accept` itself does (line 112; `AcceptFails` in `Bridge`).
- In the terminal any key but `c` takes back a confirmation that waits for its
  second press; one that is complete is taken back only by moving to another
  artifact or screen, and stays under any other key, also one that means to
  abort (`app.rs:144`, 176; `HandleKey`).

## Limits the models show and no property excludes

- A temporary sidecar left by a crash is never removed, and its exclusive
  creation refuses every later operation to that destination
  (`sealedfs/src/lib.rs:815`; `Torn` in `MoveKernel`). A full containment ledger
  refuses new notices (`incident.rs:540`). The identity of the provider's root
  includes its modification time, so an unrelated file created in it refuses
  every later deletion of a sealed plan (`provider_layout.rs:183`). All three
  refuse too much; none removes too much.
- What Claude writes between the read and the rename of `configure` is lost.
- Two rollouts of one session id share an artifact id (`main.rs:781`); session
  ids are unique in `Retention` and `CleanRun`. `Policy` has duplicates.
- The bytes reported as reclaimed are those of the scan, companion payload
  included (`main.rs:1055`).
- A rollout moved from `archived` to `sessions` between the two walks is in
  neither, and the scan says it is complete; `Steady` in `CompleteMeansSeen`
  excepts it. A header half written when it is read gives no parent; a directory
  that a link replaced after it was looked at is listed.
- The markers of a root are seen at different moments: two that never stood
  there together may make a claim of it.
- On Windows a file that was moved between the opening of its handle and the
  marking is deleted where it stands.
- A client that asks for a page with its secret URL and does not read it stops
  the dashboard for all others (see *Fairness*).
- The two documents of one page come from two scans. A dashboard that is killed
  leaves its engine running, until the engine's own timeout, and its launcher
  page in place.
- The path of a database is checked and then opened; a link put there in
  between is followed.

## Theorems

Thirty-eight of the forty properties of the passing runs are theorems for
every value of the constants: all invariants, the action properties and the
refinement. The two liveness properties are only checked.

| module | theorem | property it states |
| --- | --- | --- |
| `DeleteKernelProofs` | `TypeCorrect`, `Inductive` | the types; the invariant `IInv` |
| | `ProviderIsLeftAlone` | `LiveProviderUntouched` |
| | `OnlyTheConfirmedObject` | `OnlyConfirmedRemoved` |
| | `WritesSurvive` | `UnseenWritesSurvive` |
| | `NoOtherNameIsLost` | `NeverOneOfSeveralNames` |
| | `ReportedOutcomes` | `OutcomeTruth` |
| | `DeletedOnce` | `OneWinner` |
| `MoveProofs` | `TypeCorrect` | the types |
| | `OnePlaceForEach` | `ArtifactInOnePlace` |
| | `MovedMeansRecorded` | `RecordsSurvive` |
| | `SuccessStays` | `SuccessIsDurable` |
| | `RefusalLeavesNothing` | `FailureLeavesNothing` |
| | `VerifiedMeansSealed` | `VerifiedIsSealed` |
| `ContainmentProofs` | `Inductive` | the invariant `IInv` |
| | `HistoryAlwaysReplays` | `HistoryReplays` |
| | `ReportsStayTrue` | `ReportsAreTrue` |
| | `NoDeletionOfTheContained` | `LaterDeletionsBound` |
| | `ImplementsTheRegister` | `ImplementsRegister` |
| `AuthorityProofs` | `MoreConstraintsNeverRaise`, `DeletionNeedsEveryCeiling`, `LaterCeilingsOnlyLower` | of the operators of `Authority` |
| `CleanRunProofs` | `OnlyOldUnprotectedIsProposed` | of the operators of `Retention` |
| | `TypeCorrect`, `Inductive` | the types; the invariant `CInv` |
| | `RemovalsRestOnEvidence` | `EvidenceForEachRemoval` |
| | `ExitCodesAreTrue` | `ExitCodeTruth` |
| | `OnlyOldTreesAreRemoved` | `OnlyOldTreesRemoved` |
| `StoreProofs` | `NothingIsForgotten` | `EachEventOnce` |
| | `WithinBudgetAtRest` | `BudgetAtRest` |
| | `SamplesAreAllThere` | `NothingLostOrCountedTwice` |
| | `RowsAgeIntoTheirTiers` | `TiersMatchAges` |
| | `KeysAreOfTheirRow` | `ReuseNeedsAKeyOfThisRow` |
| | `ResetsTellWhatIsLeft` | `ResetTellsWhatIsLeft` |
| | `SchemaIsTheVersions` | `SchemaMatchesVersion` |
| | `OpenersDoNotAllFail` | `SomeoneOpens` |
| `SurroundingsProofs` | `AcceptedAtMostOnce` | `AcceptedOnce` |
| | `SwitchIsHeld` | `SwitchHolds` |
| | `StateDoesNotFlap` | `NoFlapping` |
| | `FallingTrendIsNoForecast` | `StaleTrendIsNoForecast` |
| | `ShownPagesAreTrue` | `PagesAreTrue` |
| | `LauncherPageExpires` | `LauncherForgets` |
| `InterfacesProofs` | `NoDocumentRaises`, `PinnedIsNeverDeleted`, `ExplanationIsTrue` | of the operators of `Policy` |
| | `Deliberate` | `ConfirmedDeliberately` |
| | `SettingsAreKept` | `SettingsSurvive` |
| | `WindowsRemovesOnlyTheConfirmed` | `WindowsRemovesTheConfirmed` |
| | `CompleteWalksSaw` | `CompleteMeansSeen` |
| | `RootClaimsRestOnEvidence`, `PatternsAreMeant` | the two halves of it, `RootsRestOnEvidence` and `MatchesAreMeant` |
| | `AnswersRestOnEvidence` | `ClaimsRestOnEvidence` |
| | `ViewsOfListsAgree` | `ViewsHold` |

**Assumptions.** Those the modules name, and no other; TLC evaluates each in a
run.

- Placeholders: `None` is no inode, directory or plan (`DeleteKernel`), no
  operation, thing or place (`MoveKernel`), no publisher, notice, command or
  ledger (`Containment`).
- Bounds of the environment are natural numbers. So are the code's limits;
  `MaxLedgerEvents`, `MaxRawSamples` and `MaxMigrations` are positive.
- `Containment`: the project is a publisher; a notice's publisher is one, and
  its sequence is positive.
- `AnalyticalMemory`: the windows are ordered, an hour divides a day, samples
  are natural numbers, samplers are finitely many. `Database`: somebody opens.
- `Retention` and `CleanRun`: sessions are positive numbers, finitely many,
  Claude's before Codex's; the cutoff is positive and not after `Now`; the
  parent a rollout names is a rollout or 0 (none, or one that is not there), a
  Claude session names none (`retention.rs:405`).
- `Guardian`: percentages lie in `0 .. 100` or are not a number; artifacts are
  finitely many. `Grants`: requests are well formed. `Policy`: the keys include
  the empty one, and an artifact names at most one parent (`views.rs` follows
  the first it finds). `Bridge`: what is asked is one of the `Shapes`, and what
  strangers begin with a guess at the token, a frame of another kind, or nothing.
- `Detection`: what is measured is an integer or `NotFinite`, times are natural
  numbers, `MinSpan` is positive.
- `RootClaims`: paths and patterns are sequences of names, names of characters;
  the files below a root are finitely many.
- `Discovery`: places form a tree, of any size and shape; what stands at first
  is in a directory that is there; only files name a parent; only Codex has
  several roots (`sessions`, `archived_sessions`).

`Deliberate` has one hypothesis more, that the terminal reports only presses,
without which `tui_press` refutes it. The sets of runs, operations, writers, commands and
openers may be of any size, and the bounds any number, except as said above.

*The deletion.* `TypeOK` alone is not inductive: a step that uses the plan is
well typed only because an earlier one made it. `Shape` adds what each step has
in hand, `Guarded` that whoever passed the process guard saw no process. The
safety theorems follow from the invariance of `IInv`:
`Clocks`, nothing is younger than the clock, so what the provider makes or
writes next differs from all that was sealed; `Identity`, a number that was
reused carries a later instant than the plan made for its earlier object, and
an open descriptor prevents reuse, so a check that passed on the descriptor
speaks of the planned object; `Window`, between `fstatat` and `unlinkat` only
the provider can change the entry or add links, and then `raced` says so;
`Removal`, what was removed, and what is reported, follow from the above;
`Rivals`, of two deletions of one object the second finds no name. Another
deletion only ever takes names away, and the four comparisons the code makes at
four moments are of one object as long as its number is pinned.

*The moves.* A property that speaks of every state a power loss may leave is a
statement about `Kept`, which is recursive in the changes. `ChangeByChange` is
induction over them with a set of numbers for the predicate; from it,
`KeptOfOneMore`: one more change doubles the survivors, each with it and without
it. So a step's effect on all survivors is its effect on one (`Effect`,
`StepsDerive`), and invariants over `Survivors` are carried from step to step.
`Grounded` is the types, what each step has in hand (`Shape`), and that each
survivor has an artifact under one name and records under records' names;
`ArtifactInOnePlace` follows at once. `Preparing`: before the rename the records
written so far are in every survivor, those not yet written in none.
`Delivered`: an artifact at its destination has all its records, final or
pending, in every survivor, and from the last sync on the survivors agree; that
holds until another operation takes it away. `Left`: while no call failed, the
records that exist are those the operation will remove. `Contents`: a digest
that was taken and compared is that of what was sealed. A second operation with
the same destination is noticed by `shared`, and finds the name taken.

*Containment.* `RowByRow` is the same induction for `Replay`. With it, one more
row is one more step (`ReplayOfOneMore`), a replay is a ledger or `Unusable`,
and a trust policy decides only whether a history is accepted, never what it
then says (`PolicyOnlyRefuses`): so what a command decided under its own policy
stands under all keys. `HistoryReplays` is inductive with `LockIsHeld` (a
command between its read and its write holds the lock, so the rows are those it
read) and `DecisionStands`. `CheckedIsThere` gives `ReportsAreTrue`;
`CleanerSaw`, which names the instant at which the rows were read, gives
`LaterDeletionsBound`. The refinement is proved step by step: a commit of an
install or a lift is the register's (`CommitIsARegisterStep`), all else a
stutter.

*The runs of clean.* `CInv`: the plan is of what the scan found (`PlanHolds`),
and what was consented to was in it (`Consented`); while an action runs,
everything planned either has its result or is to do (`Executed`); what was
removed in this run or one that was killed rests on the evidence of its own run
(`History`, which is why `removed` keeps the run). `ExitCodeTruth` follows in
`ReportKeeps`, where nothing is to do any more. That only what is old and
unprotected is proposed is a theorem about the operators, for every scan.

`OldInv` is about all runs against what stood before the first (`Before`): the
headers and `keepLatest` stay (`Standing`), while the surroundings rest a session
is where it was or is one of those removed (`DiskIsAccounted`), what a scan found
has the times it had then and what a complete one did not find was removed
(`ScanIsAccounted`), and what was removed was of a tree eligible in `Before`
(`LostWereOld`). The last is the hard one: a killed run may have removed a parent, and
what was one tree is several to the next. A tree nothing was removed of is found
whole (`WholeTreesStayWhole`), since the walk up its headers ends, in a root or
in a cycle, within the sessions found (`EndsWithinTheFound`, by the pigeonhole).
A tree something was removed of was old, all of it, and has as many newer ones
as it must (`NewerThanTheNewer`). So what is eligible in a scan is of a tree that
was so before the first (`EligibleIsOfAnOldTree`).

*The store.* `LInv` is `EachEventOnce` with the types of the tables and of the
writers' work. The one hard step is `CompactKeeps`: the range a compaction was
given may be old, but the code refuses one that does not have a row for each
number in it (`ContiguousIsAllRows`), and then the new summary covers exactly
the rows that go, and no earlier summary meets it. `BudgetAtRest` is not
inductive either: between append and compaction the ledger may be over its
limit. `OverIsPending` says that then some writer is `Pending`, one who still
will count, or has counted a prefix that, if it is still there, brings the
ledger within the limit when compacted. When one writer compacts, the prefixes
of the others are gone, but so is the excess (`OthersStayPending`,
`OverStaysPending`).

`AgesHold`: each tier's rows are older than the windows before it at the latest
time compacted at, a time that may lie after later samples' because the clock
may go back; `WithinTheCeiling` counts the samplers that have measured the room
and not yet written. `TotalsHold` is the property with the types of the tiers.
It speaks of sums over finite sets taken in an order `CHOOSE` picks, so the
lemmas begin there: `SetBySet` is induction on finite sets; by it a sum takes
its members in any order (`AnyMemberFirst`), the sum of the sums of groups is
the sum of all (`SumOfGroups`), and merged statistics of groups are the merged
statistic of all in them (`MergedOfGroups`). A compaction is three moves of rows
to the rows of a coarser tier, and each move merges groups (`MovesOn`).

`CacheHolds`: a key that is set was set since the last rebuild and has the row's
own token. `ResetHolds`: what is empty is what comes before the layer at hand.
`DatabaseHolds`: the tables are those of the version, and nobody goes on who
read a version the file no longer can have. `SomeoneIsInTime`: of openers that
met, one has still to read the version or has read the present one, so not all
can be refused.

*The surroundings.* `LogHolds`: the log holds, for each controller, the number
of the last intent accepted from it, and the accepted ones increase.
`StoreHolds`: a bundle there is to go back to means that none was withdrawn
since it came, and differs from the current one. `BindingHolds`: while an
engagement binds, nobody is writing the other word. That the filtered plan has
only observations needs that a stable sort rearranges and drops nothing
(`EveryPlaceIsTaken`, `PlansAreRearranged`). `TurnHolds`: the last change of
level was at a score beyond its threshold, and the thresholds down lie a band
below those up (`ChangesCrossABand`).

Of a forecast the theorem is arithmetic, for series of any length. The slope is
a covariance over a variance, and the covariance of `n` points is the sum, over
all pairs of them, of the products of their differences. `CovarianceOfPairs`
says so much of this as is needed: a set closed under sums that has all these
products has the covariance. It goes one point at a time, with `Cross` for the
products of a new point with those before it. So the variance is never negative,
and where all pairs fall the covariance is negative (`SlopesOfFits`), also when
the point farthest from the line is left out (`AtMostOneLeftOut`,
`OneLeftOut`); and half of a positive slope is more than a negative one
(`FallenTrend`). Sums and the choice of usable observations are recursive
functions: that these are what their equations say is proved by steps over
`0 .. n` (`StepsCanBeTaken`, `StepByStep`, from the well-foundedness of `<`).
`SeriesHolds` then says of a state only that what is forecast grows.

*The bridge.* `Guarded` (only a connection that began with the token is welcomed,
and no other gets a document) and `OfQuery` (all that is asked on a connection,
queued on it or answered on it is of one query) are kept by whatever serves a
connection (`Served`); `PagesHold`, `QueryHolds` and `LauncherHolds` follow what
the dashboard holds.

*The interfaces.* `WalksThePath`: whatever links are put in the way, the walk
holds a directory of the path. `ConfigureInv` says of what is seen and of what
a power loss would leave that both are files that stood there, with the keys of
one of them. `WindowsInv`: a file written to before the second look has not the
time that was confirmed, and a marked handle is the confirmed file's. `ArmedByAPress`, of the terminal: what is armed was armed by
the key just before, for the artifact on the screen. The theorems of `Policy`
are about the operators: no document raises what the facts allow, a pinned
session keeps no authority to delete, and an explanation names what bound.

*The walks.* `DiscoveryInv` is about what is still to call, for a tree of any
shape. `NothingMissed`: while nothing failed, all that is wanted and stood
throughout is reported, or some call ahead leads to it (`Leads`: one at a
directory above it, or at the place itself). A call that succeeds hands on to
the next on the way (`ListingLeadsOn`, since what is steady has steady
directories above it), one that fails says so, and others cannot disturb what
is steady (`OthersLeaveTheSteady`). What a call was told earlier is still right
of steady places (`KindsAgree`, `DeviceHolds`). `SessionHolds` says the same of
the files of a companion, and that its calls come before the report of its
session (`Ordered`), with no call of another session among them. `AboveOf` is
the least set closed under going up, so that no induction over the tree is
needed (`AboveIsLeast`).

*The claims.* `MarkersHold`: what was found was good at some moment or was
reached through a link; that takes a change of the marker or a look that failed;
what was opened and is now a link was good before it became one, or the look for
links failed; and a marker nobody touched and no look at which failed is found if
it is good, or is still to be looked at. When all looks are over, so, the evidence
found lies between what stood throughout, less what a failing look lost, and what
stood at some moment, and `RootConfidence`, which only counts it, is right of both
(`EvidenceOfARoot`). For a file system: two mounts over one path are prefixes of
it, so that the longest is unique, and where no mount hides another's parent it
is the one mounted last (`TheLastIsLongest`).

*The patterns.* `Means` says what part of a text the first characters of a
pattern may stand for; `segment_matches` looks for each piece between two stars
only where it first comes. What it finds at a star is the least that may be
reached there (`LeastReached`, `SearchIsLeast`), and after a star whatever is
later than the least may be reached too, so that the first place is enough
(`FirstPlacesAreEnough`). Both recursive functions are shown to exist first
(`UptoExists`, `SearchExists`).

*The views.* `ListHolds` is all the invariant there is: the list is well typed
whatever grows in it, and the views are computed from it. Sums are sums over
finite sets (`SumOver`), so that the sum of a list is that of its groups by
induction over the groups. Under pressure, the places of a sorted list are a
bijection (`EveryPlaceIsTaken`), so that what is not selected stands after what
is. For the sessions, the chain of a parent is that of its child a step ahead,
so both end at one root if they end at all. A chain that goes on for as many
steps as there are artifacts meets an id twice (`ChainsRepeat`, by counting) and
never ends; so the length of the list is enough to look ahead
(`ChainsEndInTime`), and whoever is alone leads into a cycle.

**Only model-checked.** Liveness (`EnableEnds`, `PagesAnswered`) rests on
fairness and on what is `ENABLED`, which these provers do not reason about.

## What is assumed

- Two writes have two modification times (the code compares nanoseconds).
- One volume. The static refusals of `execute` (authority, reversibility, kind
  of action) hold by construction of the plan and are left to `Authority`.
- In `MoveKernel` a rename is atomic on disk and a directory sync makes all
  earlier changes of the directory durable; content may keep its length when
  it changes (2n and 2n+1 have one length).
- In `Containment` every notice is genuine: a text nobody signed is refused
  before the ledger is read. A zero-byte or absent file is an empty history. In
  `Grants` only what its signer signed verifies.
- In `CleanRun` session ids are unique, discovery of one provider is one step,
  the cutoff is the same in all runs, and providers start stopped. The last
  window of a deletion stays in `DeleteKernel`. Protected names are empty in
  the runs; the theorem covers them.
- SQLite keeps a transaction whole. Databases are not damaged behind it.
- `Detection` and `Guardian` use integers (thousandths where the code has
  fractions), so no property is about rounding.
- `summarize` adds with `+=`, which wraps in a release build: the totals of
  `ViewsHold` are those that do not overflow. The selection under pressure
  saturates (`budget.rs:239`), and nothing is excepted there.
- `CompleteMeansSeen` and `ClaimsRestOnEvidence` speak of what stood throughout
  or at some moment; hidden mounts (one over another's parent) are excepted.
- Of the walks, a failing look at the type or the time of an entry is not a
  choice of the model (`provider-claude/src/session.rs:176-182`, 207-213, 242-251,
  351-357): the code marks the scan partial then, as it does for the listings and
  the headers that fail in the model.
- A terminal that repeats a held key is not distinguished from a user who
  presses it again.
- A row reused for reading (`CacheReadHint`) has an observed modification time;
  a file changed without it is beyond what the hint compares.

## Not modelled, and what is left

Left out for good: rendering and document formats, argument parsing, the text
of notifications (`notification.rs`) and of unit files, protected names and the
built-in manifest texts (`protection.rs`, `builtin.rs`), plain types
(`remote_target.rs`), the commands that only print a scan and a plan, the
process probe of Windows, cryptography, the Python reference implementation,
the repository's own scripts.

What a next step would take up:

1. Liveness of `clean`: a stale tree nobody touches is eventually removed by
   runs that are neither killed nor refused, except where `clean_rerun` shows it
   is not; and a bound on the join of the native-delete probe.
2. `Discovery` under `CleanRun`: the scan call by call while the plan is made,
   with duplicate session ids.
