----------------------------- MODULE MoveKernel -----------------------------
(***************************************************************************)
(* Quarantine, archive and restore: an artifact is renamed between the     *)
(* provider's directory and a store of cancellAI's own ("vault"), and a    *)
(* move into the vault is accompanied by sidecar records, written durably  *)
(* under a ".pending" name before the move and renamed to their final name *)
(* after it.                                                               *)
(*                                                                         *)
(*   cancellai-platform mutation.rs      confirmed_move_prepare,           *)
(*                                       commit_move_with_sidecars,        *)
(*                                       verify_archive_integrity          *)
(*   cancellai-sealedfs lib.rs           write_new_child_atomically,       *)
(*                                       rename_child_matching_...,        *)
(*                                       finalize_own_child,               *)
(*                                       remove_own_child                  *)
(*   cancellai-safety   sealed_plan.rs   seal_quarantine, seal_archive,    *)
(*                                       seal_restore                      *)
(*                                                                         *)
(* Processes die and the machine loses power at any step.  After a power   *)
(* loss a directory change made since the vault directory was last synced  *)
(* may or may not be there; but the changes of one name are kept in the    *)
(* order they were made, and a rename is never half done.  What a move     *)
(* checks about links and swapped directories is the subject of            *)
(* DeleteKernel and is left out here.                                      *)
(***************************************************************************)
EXTENDS Naturals, Sequences

CONSTANTS
    Moves,      \* operations on the store, each run once by a process
    Artifacts,  \* provider files
    Dests,      \* names in the vault
    None,       \* no file at a name, no operation
    MaxTroubles \* bound on the writes of the provider, the processes killed,
                \* the calls the system fails and the power losses, together

Kinds    == {"quarantine", "archive", "restore"}
Suffixes == {"quarantine-record", "archive-record", "archive-length", "archive-digest"}
Stages   == {"tmp", "pending", "final"}

\* The sidecars of a move, in the order they are written.
SidecarsOf(kind) ==
    CASE kind = "quarantine" -> <<"quarantine-record">>
      [] kind = "archive"    -> <<"archive-record", "archive-length", "archive-digest">>
      [] kind = "restore"    -> << >>

Home(a)          == <<a, "home", "file">>
Vault(d)         == <<d, "vault", "file">>
Side(d, s, stage) == <<d, s, stage>>

FilePlaces == {Home(a) : a \in Artifacts} \cup {Vault(d) : d \in Dests}
SidePlaces == {Side(d, s, stage) : d \in Dests, s \in Suffixes, stage \in Stages}
Places     == FilePlaces \cup SidePlaces

\* A sidecar names the operation that wrote it and the content it describes; a
\* write that failed leaves a torn file.
Records == [by : Moves, of : Artifacts, content : Nat]
Torn    == [by |-> None, of |-> None, content |-> 0]
Things  == Artifacts \cup Records \cup {Torn}

ASSUME MoveAssumption ==
    /\ None \notin Moves \cup Things \cup Places
    /\ MaxTroubles \in Nat

VARIABLES
    dir,      \* the two directories, as processes see them
    disk,     \* the two directories, as last synced
    log,      \* changes of dir since, oldest first
    content,  \* what an artifact holds, and its modification time
    move,     \* SealedPlan and PreparedMove of each operation
    pc,       \* next step of each operation
    k,        \* sidecar the operation is at
    result,   \* ActionResult
    writes, kills, faults, losses,
    moved,    \* ghost: the artifact the operation's rename took, if it happened
    shared    \* ghost: another operation had the same destination at the
              \* same time

fsVars  == <<dir, disk, log>>
vars    == <<fsVars, content, move, pc, k, result, writes, kills, faults, losses, moved, shared>>

Steps == {"idle", "revalidate", "open", "digest", "recheck", "write", "publish",
          "sync", "undo", "stat", "rename", "finalize", "syncfinal", "done"}
Outcomes == {"pending", "succeeded", "safely_skipped", "failed", "crashed"}
Plans == [kind : Kinds, from : FilePlaces, to : FilePlaces, thing : Artifacts,
          content : Nat, digest : Nat, error : BOOLEAN]
Changes == [from : Places \cup {None}, to : Places \cup {None}, thing : Things,
            over : Things \cup {None}]

TypeOK ==
    /\ dir \in [Places -> Things \cup {None}]
    /\ disk \in [Places -> Things \cup {None}]
    /\ log \in Seq(Changes)
    /\ content \in [Artifacts -> Nat]
    /\ move \in [Moves -> Plans \cup {None}]
    /\ pc \in [Moves -> Steps]
    /\ k \in [Moves -> Nat]
    /\ result \in [Moves -> Outcomes]
    /\ writes \in Nat /\ kills \in Nat /\ faults \in Nat /\ losses \in Nat
    /\ moved \in [Moves -> Artifacts \cup {None}]
    /\ shared \in [Moves -> BOOLEAN]

-----------------------------------------------------------------------------
(* Directories that lose what was not synced.                              *)

\* A rename (from, to), a creation (no from) or a removal (no to) is kept only
\* with the earlier changes of its names: where they hold what they held then.
Fits(d, c) ==
    /\ c.from # None => d[c.from] = c.thing
    /\ c.to # None => d[c.to] = c.over

Apply(d, c) ==
    IF Fits(d, c)
    THEN [p \in Places |-> CASE p = c.to   -> c.thing
                             [] p = c.from -> None
                             [] OTHER      -> d[p]]
    ELSE d

Change(from, to, thing) ==
    LET c == [from |-> from, to |-> to, thing |-> thing,
              over |-> IF to = None THEN None ELSE dir[to]]
    IN  /\ dir' = Apply(dir, c)
        /\ log' = Append(log, c)
        /\ UNCHANGED disk

Sync == disk' = dir /\ log' = << >> /\ UNCHANGED dir

\* What some of the changes, in order, make of a state of the directories.
Kept(base, changes) ==
    LET after[n \in 0 .. Len(changes)] ==
            IF n = 0
            THEN {base}
            ELSE LET before == after[n - 1]
                 IN  before \cup {Apply(d, changes[n]) : d \in before}
    IN  after[Len(changes)]

\* What a power loss now would leave.
Survivors == Kept(disk, log)

Active(m) == pc[m] \notin {"idle", "done"}

Init ==
    /\ dir = [p \in Places |-> IF \E a \in Artifacts : p = Home(a) THEN p[1] ELSE None]
    /\ disk = dir
    /\ log = << >>
    /\ content = [a \in Artifacts |-> 0]
    /\ move = [m \in Moves |-> None]
    /\ pc = [m \in Moves |-> "idle"]
    /\ k = [m \in Moves |-> 1]
    /\ result = [m \in Moves |-> "pending"]
    /\ writes = 0 /\ kills = 0 /\ faults = 0 /\ losses = 0
    /\ moved = [m \in Moves |-> None]
    /\ shared = [m \in Moves |-> FALSE]

-----------------------------------------------------------------------------
(* The environment.                                                        *)

Trouble == writes + kills + faults + losses < MaxTroubles

\* The provider, or a user of the vault, writes to a file in place.
Write(a) ==
    /\ Trouble
    /\ writes' = writes + 1
    /\ content' = [content EXCEPT ![a] = @ + 1]
    /\ UNCHANGED <<fsVars, move, pc, k, result, kills, faults, losses, moved>>

Kill(m) ==
    /\ Active(m)
    /\ Trouble
    /\ kills' = kills + 1
    /\ pc' = [pc EXCEPT ![m] = "done"]
    /\ result' = [result EXCEPT ![m] = "crashed"]
    /\ UNCHANGED <<fsVars, content, writes, move, k, faults, losses, moved>>

PowerLoss ==
    /\ Trouble
    /\ losses' = losses + 1
    /\ \E d \in Survivors : dir' = d /\ disk' = d
    /\ log' = << >>
    /\ pc' = [m \in Moves |-> IF Active(m) THEN "done" ELSE pc[m]]
    /\ result' = [m \in Moves |-> IF Active(m) THEN "crashed" ELSE result[m]]
    /\ UNCHANGED <<content, writes, kills, move, k, faults, moved>>

-----------------------------------------------------------------------------
(* The operation.                                                          *)

Sidecars(m) == SidecarsOf(move[m].kind)
At(m, i, stage) == Side(move[m].to[1], Sidecars(m)[i], stage)
Record(m) == [by |-> m, of |-> move[m].thing, content |-> move[m].digest]
Confirmed(m) ==
    /\ dir[move[m].from] = move[m].thing
    /\ content[move[m].thing] = move[m].content

Goto(m, step) == pc' = [pc EXCEPT ![m] = step] /\ UNCHANGED <<k, result>>
GotoAt(m, step, i) ==
    /\ pc' = [pc EXCEPT ![m] = step]
    /\ k' = [k EXCEPT ![m] = i]
    /\ UNCHANGED result
Finish(m, outcome) ==
    /\ pc' = [pc EXCEPT ![m] = "done"]
    /\ result' = [result EXCEPT ![m] = outcome]
    /\ UNCHANGED k

\* A call that the operating system may fail.
Fault == Trouble /\ faults' = faults + 1

\* Sealing: the target is bound, its identity recorded, and the destination
\* found to be absent (prepare_destination).
Begin(m, kind, from, to) ==
    /\ pc[m] = "idle"
    /\ dir[from] # None
    /\ dir[to] = None
    /\ move' = [move EXCEPT ![m] =
                  [kind |-> kind, from |-> from, to |-> to, thing |-> dir[from],
                   content |-> content[dir[from]], digest |-> 0, error |-> FALSE]]
    /\ Goto(m, "revalidate")
    /\ UNCHANGED <<fsVars, content, writes, kills, faults, losses, moved>>

Seal(m) ==
    \E a \in Artifacts, d \in Dests :
        \/ Begin(m, "quarantine", Home(a), Vault(d))
        \/ Begin(m, "archive", Home(a), Vault(d))
        \/ dir[Vault(d)] = a /\ Begin(m, "restore", Vault(d), Home(a))

\* sealed_plan.rs revalidate, called by mutation_executor.rs execute.
Revalidate(m) ==
    /\ pc[m] = "revalidate"
    /\ IF Confirmed(m) THEN Goto(m, "open") ELSE Finish(m, "safely_skipped")
    /\ UNCHANGED <<fsVars, content, writes, kills, move, faults, losses, moved>>

Open(m) ==
    /\ pc[m] = "open"
    /\ IF Confirmed(m)
       THEN Goto(m, IF move[m].kind = "archive" THEN "digest" ELSE "recheck")
       ELSE Finish(m, "failed")
    /\ UNCHANGED <<fsVars, content, writes, kills, move, faults, losses, moved>>

\* Length and digest, read through the open descriptor.
ReadDigest(m) ==
    /\ pc[m] = "digest"
    /\ move' = [move EXCEPT ![m].digest = content[move[m].thing]]
    /\ Goto(m, "recheck")
    /\ UNCHANGED <<fsVars, content, writes, kills, faults, losses, moved>>

\* Mutant of Recheck: the modification time is not compared again.
RecheckNameOnly(m) ==
    /\ pc[m] = "recheck"
    /\ IF dir[move[m].from] = move[m].thing
       THEN Goto(m, IF Sidecars(m) = << >> THEN "stat" ELSE "write")
       ELSE Finish(m, "failed")
    /\ UNCHANGED <<fsVars, content, writes, kills, move, faults, losses, moved>>

\* The fresh lookup by path, then both parents bound.
Recheck(m) ==
    /\ pc[m] = "recheck"
    /\ IF Confirmed(m)
       THEN Goto(m, IF Sidecars(m) = << >> THEN "stat" ELSE "write")
       ELSE Finish(m, "failed")
    /\ UNCHANGED <<fsVars, content, writes, kills, move, faults, losses, moved>>

\* Mutant of UndoFrom: the sidecar written last is forgotten.
UndoFromPrevious(m, i) ==
    IF i <= 1 THEN Finish(m, "failed") ELSE GotoAt(m, "undo", i - 1)

\* Removal, best effort, of pending names 1 .. k: of those already written
\* when a sidecar fails, of all of them when the move fails.
UndoFrom(m, i) == IF i = 0 THEN Finish(m, "failed") ELSE GotoAt(m, "undo", i)

\* O_CREAT|O_EXCL, write, fsync of the temporary file.
WriteSidecar(m) ==
    /\ pc[m] = "write"
    /\ LET tmp == At(m, k[m], "tmp")
       IN  IF dir[tmp] # None
           THEN UndoFrom(m, k[m] - 1) /\ UNCHANGED <<fsVars, faults>>
           ELSE \/ /\ Change(None, tmp, Record(m))
                   /\ Goto(m, "publish")
                   /\ UNCHANGED faults
                \/ /\ Fault
                   /\ Change(None, tmp, Torn)
                   /\ UndoFrom(m, k[m] - 1)
    /\ UNCHANGED <<content, writes, kills, move, losses, moved>>

\* renameat over whatever the pending name held.
PublishSidecar(m) ==
    /\ pc[m] = "publish"
    /\ \/ /\ Change(At(m, k[m], "tmp"), At(m, k[m], "pending"), Record(m))
          /\ Goto(m, "sync")
          /\ UNCHANGED faults
       \/ /\ Fault
          /\ UndoFrom(m, k[m] - 1)
          /\ UNCHANGED fsVars
    /\ UNCHANGED <<content, writes, kills, move, losses, moved>>

NextSidecar(m) ==
    IF k[m] < Len(Sidecars(m)) THEN GotoAt(m, "write", k[m] + 1) ELSE Goto(m, "stat")

\* Mutant of SyncSidecar: the directory is not synced before the move.
SyncSidecarSkipped(m) ==
    /\ pc[m] = "sync"
    /\ NextSidecar(m)
    /\ UNCHANGED <<fsVars, faults, content, writes, kills, move, losses, moved>>

\* fsync of the directory.
SyncSidecar(m) ==
    /\ pc[m] = "sync"
    /\ \/ Sync /\ NextSidecar(m) /\ UNCHANGED faults
       \/ Fault /\ UndoFrom(m, k[m] - 1) /\ UNCHANGED fsVars
    /\ UNCHANGED <<content, writes, kills, move, losses, moved>>

Undo(m) ==
    /\ pc[m] = "undo"
    /\ LET p == At(m, k[m], "pending")
       IN  IF dir[p] = None THEN UNCHANGED fsVars ELSE Change(p, None, dir[p])
    /\ UndoFrom(m, k[m] - 1)
    /\ UNCHANGED <<content, writes, kills, move, faults, losses, moved>>

\* rename_child_matching_unix_identity, first call: fstatat.
Stat(m) ==
    /\ pc[m] = "stat"
    /\ IF dir[move[m].from] = move[m].thing
       THEN Goto(m, "rename")
       ELSE UndoFrom(m, Len(Sidecars(m)))
    /\ UNCHANGED <<fsVars, content, writes, kills, move, faults, losses, moved>>

\* Mutant of Rename: the destination may be replaced.
RenameReplacing(m) ==
    /\ pc[m] = "rename"
    /\ LET from == move[m].from
           to   == move[m].to
       IN  IF dir[from] = None
           THEN UndoFrom(m, Len(Sidecars(m))) /\ UNCHANGED <<fsVars, moved>>
           ELSE /\ Change(from, to, dir[from])
                /\ moved' = [moved EXCEPT ![m] = dir[from]]
                /\ IF Sidecars(m) = << >>
                   THEN Finish(m, "succeeded")
                   ELSE GotoAt(m, "finalize", 1)
    /\ UNCHANGED <<content, writes, kills, move, faults, losses>>

\* Second call: the atomic rename, by name, that never replaces.
Rename(m) ==
    /\ pc[m] = "rename"
    /\ LET from == move[m].from
           to   == move[m].to
       IN  IF dir[from] = None \/ dir[to] # None
           THEN UndoFrom(m, Len(Sidecars(m))) /\ UNCHANGED <<fsVars, moved>>
           ELSE /\ Change(from, to, dir[from])
                /\ moved' = [moved EXCEPT ![m] = dir[from]]
                /\ IF Sidecars(m) = << >>
                   THEN Finish(m, "succeeded")
                   ELSE GotoAt(m, "finalize", 1)
    /\ UNCHANGED <<content, writes, kills, move, faults, losses>>

\* Every sidecar is tried; an error is remembered and the others go on.
NextFinal(m, error) ==
    IF k[m] < Len(Sidecars(m))
    THEN /\ move' = [move EXCEPT ![m].error = @ \/ error]
         /\ GotoAt(m, "finalize", k[m] + 1)
    ELSE /\ Finish(m, IF move[m].error \/ error THEN "failed" ELSE "succeeded")
         /\ UNCHANGED move

\* Mutant of Finalize: a sidecar that cannot be finalized is passed over.
FinalizeSilently(m) ==
    /\ pc[m] = "finalize"
    /\ LET pending == At(m, k[m], "pending")
       IN  \/ /\ dir[pending] # None
              /\ Change(pending, At(m, k[m], "final"), dir[pending])
              /\ Goto(m, "syncfinal")
              /\ UNCHANGED <<move, faults>>
           \/ /\ dir[pending] = None
              /\ NextFinal(m, FALSE)
              /\ UNCHANGED <<fsVars, faults>>
           \/ /\ Fault
              /\ NextFinal(m, FALSE)
              /\ UNCHANGED fsVars
    /\ UNCHANGED <<content, writes, kills, losses, moved>>

Finalize(m) ==
    /\ pc[m] = "finalize"
    /\ LET pending == At(m, k[m], "pending")
       IN  \/ /\ dir[pending] # None
              /\ Change(pending, At(m, k[m], "final"), dir[pending])
              /\ Goto(m, "syncfinal")
              /\ UNCHANGED <<move, faults>>
           \/ /\ dir[pending] = None
              /\ NextFinal(m, TRUE)
              /\ UNCHANGED <<fsVars, faults>>
           \/ /\ Fault
              /\ NextFinal(m, TRUE)
              /\ UNCHANGED fsVars
    /\ UNCHANGED <<content, writes, kills, losses, moved>>

SyncFinal(m) ==
    /\ pc[m] = "syncfinal"
    /\ \/ Sync /\ NextFinal(m, FALSE) /\ UNCHANGED faults
       \/ Fault /\ NextFinal(m, TRUE) /\ UNCHANGED fsVars
    /\ UNCHANGED <<content, writes, kills, losses, moved>>

\* The ghost follows every step of an operation.
Overlap(n) ==
    /\ Active(n)
    /\ \E o \in Moves : o # n /\ Active(o) /\ move[o].to = move[n].to
Sharing == shared' = [n \in Moves |-> shared[n] \/ Overlap(n)]

Operation(m) ==
    \/ Seal(m) \/ Revalidate(m) \/ Open(m) \/ ReadDigest(m) \/ Recheck(m)
    \/ WriteSidecar(m) \/ PublishSidecar(m) \/ SyncSidecar(m) \/ Undo(m)
    \/ Stat(m) \/ Rename(m) \/ Finalize(m) \/ SyncFinal(m)

Next ==
    /\ \/ \E m \in Moves : Operation(m) \/ Kill(m)
       \/ \E a \in Artifacts : Write(a)
       \/ PowerLoss
    /\ Sharing

Spec == Init /\ [][Next]_vars

-----------------------------------------------------------------------------
(* verify_archive_integrity.  A write in place may keep the length: the    *)
(* contents 2n and 2n+1 have the same one.                                 *)

Length(c) == c \div 2

ArchiveIntegrity(d) ==
    LET file   == dir[Vault(d)]
        length == dir[Side(d, "archive-length", "final")]
        digest == dir[Side(d, "archive-digest", "final")]
    IN  CASE None \in {length, digest}                         -> "record_unreadable"
          [] Torn \in {length, digest}                         -> "record_malformed"
          [] file = None                                       -> "copy_unreadable"
          [] Length(content[file]) # Length(length.content)    -> "length_mismatch"
          [] <<file, content[file]>> # <<digest.of, digest.content>> -> "digest_mismatch"
          [] OTHER                                             -> "verified"

-----------------------------------------------------------------------------
(* Properties.                                                             *)

HasMoved(m)   == moved[m] # None
HasRecords(m) == pc[m] # "idle" /\ move[m].kind # "restore"

\* No other operation moved the artifact m moved, or into its destination.
Latest(m) ==
    \A n \in Moves : n # m /\ HasMoved(n) =>
        moved[n] # moved[m] /\ move[n].to # move[m].to

\* An artifact is never lost and never duplicated: whatever operations meet at
\* one name, die half way or lose power, it has exactly one name, and no move
\* replaces another artifact.
ArtifactInOnePlace ==
    \A d \in Survivors, a \in Artifacts :
        \E p \in FilePlaces : {q \in FilePlaces : d[q] = a} = {p}

\* An artifact found at its destination, even after a power loss, has every
\* sidecar of the move that brought it there, under its pending or its final
\* name: there is no moved, unrecorded object (mutation.rs, round 3).
RecordsSurvive ==
    \A m \in Moves, d \in Survivors :
        /\ HasRecords(m) /\ HasMoved(m) /\ ~shared[m] /\ Latest(m)
        /\ d[move[m].to] = moved[m]
        => \A i \in 1 .. Len(Sidecars(m)) :
              Record(m) \in {d[At(m, i, "pending")], d[At(m, i, "final")]}

\* A move that reported success stays done: after any power loss the artifact
\* is at its destination with every sidecar under its final name.
SuccessIsDurable ==
    \A m \in Moves, d \in Survivors :
        result[m] = "succeeded" /\ HasRecords(m) /\ ~shared[m] /\ Latest(m) =>
            /\ d[move[m].to] = moved[m]
            /\ \A i \in 1 .. Len(Sidecars(m)) : d[At(m, i, "final")] = Record(m)

\* An archive that verifies holds the content its plan was sealed for: a write
\* at any moment from sealing on was either refused or is seen here.
VerifiedIsSealed ==
    \A m \in Moves :
        /\ HasMoved(m) /\ ~shared[m] /\ Latest(m) /\ move[m].kind = "archive"
        /\ dir[move[m].to] = moved[m]
        /\ ArchiveIntegrity(move[m].to[1]) = "verified"
        => content[move[m].thing] = move[m].content

\* A refused move leaves nothing behind: when no call was failed by the system
\* and no power was lost, none of its sidecars exists under any name.
FailureLeavesNothing ==
    \A m \in Moves :
        result[m] = "failed" /\ ~HasMoved(m) /\ ~shared[m] /\ faults = 0 /\ losses = 0 =>
            \A i \in 1 .. Len(Sidecars(m)), stage \in Stages :
                dir[At(m, i, stage)] # Record(m)
=============================================================================
