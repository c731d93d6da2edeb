---------------------------- MODULE DeleteKernel ----------------------------
(***************************************************************************)
(* One deletion of a Rust `clean`, system call by system call, against a   *)
(* provider (or another `clean`) that keeps using the same directory:      *)
(*                                                                         *)
(*   cancellai-cli    main.rs            establish_verified_root           *)
(*   cancellai-safety root_capability.rs ApprovedRoot::establish, bind     *)
(*   cancellai-safety sealed_plan.rs     seal_with_process_guard,          *)
(*                                       revalidate*                       *)
(*   cancellai-safety mutation_executor.rs execute                         *)
(*   cancellai-platform mutation.rs      confirmed_delete_file             *)
(*   cancellai-sealedfs lib.rs           unlink_child_matching_...         *)
(*                                                                         *)
(* The file system is two directories that may stand where the session's   *)
(* directory is expected (the provider's own, "home", and another one,     *)
(* "decoy"), two names in each, and inodes.  An inode number is reused     *)
(* once no name and no open descriptor refers to it, so an object is an    *)
(* inode number together with the instant it was created (born).  Every    *)
(* write gets a modification time of its own: the code tells two writes    *)
(* apart by their nanoseconds (identity.rs, E07-S05), and so does the      *)
(* model.                                                                  *)
(***************************************************************************)
EXTENDS Naturals

CONSTANTS
    Runs,        \* concurrent deletions of the same session
    Inodes,      \* inode numbers of the volume
    None,        \* no inode, no directory, no observation
    MaxWrites,   \* bound on what the provider does during the deletions
    Wsl2         \* the deletion runs on a WSL2 guest

ASSUME KernelAssumption ==
    /\ None \notin Inodes
    /\ None \notin {"home", "decoy"}
    /\ MaxWrites \in Nat
    /\ Wsl2 \in BOOLEAN

Dirs   == {"home", "decoy"}
Names  == {"session", "aside"}
Places == Dirs \X Names

VARIABLES
    entry,       \* directory entries: Places -> inode or None
    obj,         \* inode -> [born, stamp, kind]
    route,       \* what the paths resolve to: [root, dir, link]
    layout,      \* instant of the last change of the provider root's listing
    running,     \* a provider process is running
    clock,       \* instant of the last thing the provider did
    pc,          \* next step of each deletion
    approved,    \* ApprovedRoot: the directory established as the root
    plan,        \* SealedPlan and BoundedPath
    fd,          \* descriptor held open on the target
    dirfd,       \* descriptor held open on the target's directory
    result,      \* ActionResult
    removed,     \* ghost: objects whose name the deletion unlinked
    raced,       \* ghost: the provider moved a name inside the last window
    touched,     \* ghost: the target was written to after the last look at it
    live         \* ghost: a provider process ran ever since the plan was sealed

fsVars     == <<entry, obj, route, layout, running, clock>>
kernelVars == <<pc, approved, plan, fd, dirfd, result, removed>>
ghostVars  == <<raced, touched, live>>
vars       == <<fsVars, kernelVars, ghostVars>>

Steps == {"establish", "bind", "seal", "revalidate", "guard", "layout",
          "open", "recheck", "parent", "confirm", "unlink", "corroborate",
          "done"}
\* "unknown" is a failure as well: that of the look after the unlink.
Outcomes == {"pending", "succeeded", "safely_skipped", "failed", "unknown"}

Objects  == [born : Nat, stamp : Nat, kind : {"file", "symlink"}]
Layouts  == [root : Dirs, seen : Nat]
Plans    == [name : Names, ino : Inodes, stamp : Nat, born : Nat,
             guarded : BOOLEAN, layout : Layouts \cup {None}]

ASSUME NoPlanAssumption == None \notin Plans

TypeOK ==
    /\ entry \in [Places -> Inodes \cup {None}]
    /\ obj \in [Inodes -> Objects]
    /\ route \in [root : Dirs, dir : Dirs, link : {"none", "root", "below"}]
    /\ layout \in Nat
    /\ running \in BOOLEAN
    /\ clock \in Nat
    /\ pc \in [Runs -> Steps]
    /\ approved \in [Runs -> Dirs \cup {None}]
    /\ plan \in [Runs -> Plans \cup {None}]
    /\ fd \in [Runs -> Inodes \cup {None}]
    /\ dirfd \in [Runs -> Dirs \cup {None}]
    /\ result \in [Runs -> Outcomes]
    /\ removed \in [Runs -> SUBSET [ino : Inodes, born : Nat, stamp : Nat]]
    /\ raced \in [Runs -> BOOLEAN]
    /\ touched \in [Runs -> BOOLEAN]
    /\ live \in [Runs -> BOOLEAN]

-----------------------------------------------------------------------------
(* The names of an object, and what a path leads to.                       *)

Links(i)     == {p \in Places : entry[p] = i}
SoleLink(i)  == \E p \in Places : Links(i) = {p}
AtPath(n)    == entry[<<route.dir, n>>]
IsSymlink(i) == i # None /\ obj[i].kind = "symlink"
Free(i)      == Links(i) = {} /\ \A r \in Runs : fd[r] # i

\* A symbolic link standing at a name leads to "aside" in the same directory.
Followed(n) == IF IsSymlink(AtPath(n)) THEN AtPath("aside") ELSE AtPath(n)

Slot(r)    == <<dirfd[r], plan[r].name>>
Planned(r) == [ino |-> plan[r].ino, born |-> plan[r].born]
Object(x)  == [ino |-> x.ino, born |-> x.born]

Init ==
    /\ \E i \in Inodes, j \in Inodes \cup {None} :
          /\ i # j
          /\ entry = [p \in Places |->
                        CASE p = <<"home", "session">>  -> i
                          [] p = <<"decoy", "session">> -> j
                          [] OTHER                      -> None]
    /\ obj = [i \in Inodes |-> [born |-> 0, stamp |-> 0, kind |-> "file"]]
    /\ route = [root |-> "home", dir |-> "home", link |-> "none"]
    /\ layout = 0
    /\ running \in BOOLEAN
    /\ clock = 0
    /\ pc = [r \in Runs |-> "establish"]
    /\ approved = [r \in Runs |-> None]
    /\ plan = [r \in Runs |-> None]
    /\ fd = [r \in Runs |-> None]
    /\ dirfd = [r \in Runs |-> None]
    /\ result = [r \in Runs |-> "pending"]
    /\ removed = [r \in Runs |-> {}]
    /\ raced = [r \in Runs |-> FALSE]
    /\ touched = [r \in Runs |-> FALSE]
    /\ live = [r \in Runs |-> FALSE]

-----------------------------------------------------------------------------
(* What the provider, its user and other programs do meanwhile.            *)

\* The ghosts follow every step of the environment.
Witness ==
    /\ raced' = [r \in Runs |->
          \/ raced[r]
          \/ /\ pc[r] = "unlink"
             /\ \/ entry'[Slot(r)] # entry[Slot(r)]
                \/ {p \in Places : entry'[p] = fd[r]} # Links(fd[r])]
    /\ touched' = [r \in Runs |->
          \/ touched[r]
          \/ /\ pc[r] \in {"parent", "confirm", "unlink"}
             /\ obj'[fd[r]].stamp # obj[fd[r]].stamp]
    /\ live' = [r \in Runs |-> live[r] /\ running']

Environment ==
    /\ clock < MaxWrites
    /\ clock' = clock + 1
    /\ UNCHANGED kernelVars

\* A new file, or a new symbolic link, put at a name in one step: the atomic
\* save a provider does, or a create when the name was absent.
Replace(p) ==
    /\ Environment
    /\ \E i \in Inodes, k \in {"file", "symlink"} :
          /\ Free(i)
          /\ k = "symlink" => p[2] = "session"
          /\ entry' = [entry EXCEPT ![p] = i]
          /\ obj' = [obj EXCEPT ![i] =
                        [born |-> clock', stamp |-> clock', kind |-> k]]
    /\ UNCHANGED <<route, layout, running>>

Append(p) ==
    /\ Environment
    /\ entry[p] # None
    /\ ~IsSymlink(entry[p])
    /\ obj' = [obj EXCEPT ![entry[p]].stamp = clock']
    /\ UNCHANGED <<entry, route, layout, running>>

Remove(p) ==
    /\ Environment
    /\ entry[p] # None
    /\ entry' = [entry EXCEPT ![p] = None]
    /\ UNCHANGED <<obj, route, layout, running>>

HardLink(p, q) ==
    /\ Environment
    /\ entry[p] # None
    /\ ~IsSymlink(entry[p])
    /\ entry[q] = None
    /\ entry' = [entry EXCEPT ![q] = entry[p]]
    /\ UNCHANGED <<obj, route, layout, running>>

Rename(p, q) ==
    /\ Environment
    /\ p # q
    /\ entry[p] # None
    /\ ~IsSymlink(entry[p])
    /\ entry' = [entry EXCEPT ![q] = entry[p], ![p] = None]
    /\ UNCHANGED <<obj, route, layout, running>>

\* The provider root, or a directory between it and the session, becomes
\* another directory, in place or behind a symbolic link; or the first one
\* comes back.
Redirect ==
    /\ Environment
    /\ route' \in {[root |-> "home",  dir |-> "home",  link |-> "none"],
                   [root |-> "home",  dir |-> "decoy", link |-> "none"],
                   [root |-> "home",  dir |-> "decoy", link |-> "below"],
                   [root |-> "decoy", dir |-> "decoy", link |-> "none"],
                   [root |-> "decoy", dir |-> "decoy", link |-> "root"]}
    /\ route' # route
    /\ UNCHANGED <<entry, obj, layout, running>>

\* A file or directory appears in, or leaves, the provider root itself.
Drift ==
    /\ Environment
    /\ layout' = clock'
    /\ UNCHANGED <<entry, obj, route, running>>

ProviderStartsOrStops ==
    /\ Environment
    /\ running' = ~running
    /\ UNCHANGED <<entry, obj, route, layout>>

Provider ==
    /\ \/ \E p \in Places : Replace(p) \/ Append(p) \/ Remove(p)
       \/ \E p, q \in Places : HardLink(p, q) \/ Rename(p, q)
       \/ Redirect
       \/ Drift
       \/ ProviderStartsOrStops
    /\ Witness

-----------------------------------------------------------------------------
(* The deletion.                                                           *)

Goto(r, step) ==
    /\ pc' = [pc EXCEPT ![r] = step]
    /\ UNCHANGED result

\* Every early return closes the descriptor that pinned the target.
Finish(r, outcome) ==
    /\ pc' = [pc EXCEPT ![r] = "done"]
    /\ result' = [result EXCEPT ![r] = outcome]

\* A precondition: the next step when it holds, otherwise the refusal.
Require(r, condition, step, refusal) ==
    IF condition THEN Goto(r, step) ELSE Finish(r, refusal)

\* establish_verified_root: no component of the path may be a link; the root
\* is then whatever directory stands there, established once per run.
Establish(r) ==
    /\ pc[r] = "establish"
    /\ IF route.link = "root"
       THEN Finish(r, "safely_skipped") /\ UNCHANGED approved
       ELSE Goto(r, "bind") /\ approved' = [approved EXCEPT ![r] = route.root]
    /\ UNCHANGED <<fsVars, ghostVars, plan, fd, dirfd, removed>>

\* ApprovedRoot::bind: canonicalize follows links, so a link above the target
\* leads outside the root, and a link at the target's own name leads to the
\* object it names.
Bind(r) ==
    /\ pc[r] = "bind"
    /\ LET name == IF IsSymlink(AtPath("session")) THEN "aside" ELSE "session"
           ino  == AtPath(name)
       IN  IF route.link # "none" \/ ino = None
           THEN Finish(r, "safely_skipped") /\ UNCHANGED plan
           ELSE /\ Goto(r, "seal")
                /\ \E guarded \in BOOLEAN :
                      plan' = [plan EXCEPT ![r] =
                                 [name |-> name, ino |-> ino,
                                  stamp |-> obj[ino].stamp,
                                  born |-> obj[ino].born,
                                  guarded |-> guarded, layout |-> None]]
    /\ UNCHANGED <<fsVars, ghostVars, approved, fd, dirfd, removed>>

\* BoundLayoutObservation::observe: the root is walked without following
\* links, and any failure to list it is a failure of the observation.
ObservedLayouts ==
    {None} \cup (IF route.link = "root"
                 THEN {}
                 ELSE {[root |-> route.root, seen |-> layout]})

Seal(r) ==
    /\ pc[r] = "seal"
    /\ \E seen \in ObservedLayouts :
          plan' = [plan EXCEPT ![r].layout = seen]
    /\ live' = [live EXCEPT ![r] = running]
    /\ Goto(r, "revalidate")
    /\ UNCHANGED <<fsVars, raced, touched, approved, fd, dirfd, removed>>

\* Mutant of StillAt: the modification time is not compared.
StillAtInodeOnly(r, i) ==
    /\ i # None
    /\ i = plan[r].ino

\* The object a lookup of the bound path, not following its last component,
\* must still find.
StillAt(r, i) ==
    /\ i # None
    /\ i = plan[r].ino
    /\ obj[i].stamp = plan[r].stamp

Revalidate(r) ==
    /\ pc[r] = "revalidate"
    /\ Require(r, StillAt(r, AtPath(plan[r].name)), "guard", "safely_skipped")
    /\ UNCHANGED <<fsVars, ghostVars, approved, plan, fd, dirfd, removed>>

\* Mutant of ProcessGuard: a probe that could not see everything reads as idle.
ProcessGuardFailOpen(r) ==
    /\ pc[r] = "guard"
    /\ \E complete \in BOOLEAN :
          Require(r, plan[r].guarded => ~complete \/ ~running,
                  "layout", "safely_skipped")
    /\ UNCHANGED <<fsVars, ghostVars, approved, plan, fd, dirfd, removed>>

\* ProcessObservation::is_running: an incomplete probe reads as running.
ProcessGuard(r) ==
    /\ pc[r] = "guard"
    /\ \E complete \in BOOLEAN :
          Require(r, plan[r].guarded => complete /\ ~running,
                  "layout", "safely_skipped")
    /\ UNCHANGED <<fsVars, ghostVars, approved, plan, fd, dirfd, removed>>

\* revalidate_provider_layout compares with what was observed at sealing.
RevalidateLayout(r) ==
    /\ pc[r] = "layout"
    /\ \E fresh \in ObservedLayouts :
          Require(r, plan[r].layout # None /\ fresh = plan[r].layout,
                  "open", "safely_skipped")
    /\ UNCHANGED <<fsVars, ghostVars, approved, plan, fd, dirfd, removed>>

\* The open-time check, on the descriptor that stays open to the end.
Open(r) ==
    /\ pc[r] = "open"
    /\ LET i == Followed(plan[r].name)
       IN  IF ~Wsl2 /\ StillAt(r, i) /\ SoleLink(i)
           THEN Goto(r, "recheck") /\ fd' = [fd EXCEPT ![r] = i]
           ELSE Finish(r, "failed") /\ UNCHANGED fd
    /\ UNCHANGED <<fsVars, ghostVars, approved, plan, dirfd, removed>>

Close(r) == fd' = [fd EXCEPT ![r] = None]

\* A check made while the descriptor is open.
Holding(r, condition, step) ==
    IF condition
    THEN Goto(r, step) /\ UNCHANGED fd
    ELSE Finish(r, "failed") /\ Close(r)

Recheck(r) ==
    /\ pc[r] = "recheck"
    /\ Holding(r, StillAt(r, AtPath(plan[r].name)), "parent")
    /\ UNCHANGED <<fsVars, ghostVars, approved, plan, dirfd, removed>>

\* SealedRoot::bind_existing walks the parent without following a link.
BindParent(r) ==
    /\ pc[r] = "parent"
    /\ Holding(r, route.link = "none", "confirm")
    /\ dirfd' = [dirfd EXCEPT ![r] = route.dir]
    /\ UNCHANGED <<fsVars, ghostVars, approved, plan, removed>>

\* Mutant of Confirm: any entry of that name will do.
ConfirmByName(r) ==
    /\ pc[r] = "confirm"
    /\ Holding(r, entry[Slot(r)] # None, "unlink")
    /\ UNCHANGED <<fsVars, ghostVars, approved, plan, dirfd, removed>>

\* Mutant of Confirm: the link count is read at open time only.
ConfirmIdentityOnly(r) ==
    /\ pc[r] = "confirm"
    /\ Holding(r, entry[Slot(r)] = plan[r].ino, "unlink")
    /\ UNCHANGED <<fsVars, ghostVars, approved, plan, dirfd, removed>>

\* unlink_child_matching_unix_identity, first call: fstatat.
Confirm(r) ==
    /\ pc[r] = "confirm"
    /\ Holding(r, entry[Slot(r)] = plan[r].ino /\ SoleLink(plan[r].ino), "unlink")
    /\ UNCHANGED <<fsVars, ghostVars, approved, plan, dirfd, removed>>

\* Mutant of Unlink: a name that is already gone counts as removed.
UnlinkIdempotent(r) ==
    /\ pc[r] = "unlink"
    /\ Goto(r, "corroborate")
    /\ LET i == entry[Slot(r)]
       IN  IF i = None
           THEN UNCHANGED <<entry, removed>>
           ELSE /\ entry' = [entry EXCEPT ![Slot(r)] = None]
                /\ removed' = [removed EXCEPT ![r] =
                     @ \cup {[ino |-> i, born |-> obj[i].born,
                              stamp |-> obj[i].stamp]}]
    /\ UNCHANGED <<obj, route, layout, running, clock, ghostVars,
                   approved, plan, fd, dirfd>>

\* Second call: unlinkat, by name.
Unlink(r) ==
    /\ pc[r] = "unlink"
    /\ LET i == entry[Slot(r)]
       IN  /\ Holding(r, i # None, "corroborate")
           /\ IF i = None
              THEN UNCHANGED <<entry, removed>>
              ELSE /\ entry' = [entry EXCEPT ![Slot(r)] = None]
                   /\ removed' = [removed EXCEPT ![r] =
                        @ \cup {[ino |-> i, born |-> obj[i].born,
                                 stamp |-> obj[i].stamp]}]
    /\ UNCHANGED <<obj, route, layout, running, clock, ghostVars,
                   approved, plan, dirfd>>

\* Mutant of Corroborate: the unlink's own success is believed.
CorroborateNothing(r) ==
    /\ pc[r] = "corroborate"
    /\ Finish(r, "succeeded")
    /\ Close(r)
    /\ UNCHANGED <<fsVars, ghostVars, approved, plan, dirfd, removed>>

\* The link count of the descriptor opened at the start must have dropped to 0;
\* it may fail to be read.
Corroborate(r) ==
    /\ pc[r] = "corroborate"
    /\ \E seen \in {IF Links(fd[r]) = {} THEN "succeeded" ELSE "failed", "unknown"} :
          Finish(r, seen)
    /\ Close(r)
    /\ UNCHANGED <<fsVars, ghostVars, approved, plan, dirfd, removed>>

Delete(r) ==
    \/ Establish(r) \/ Bind(r) \/ Seal(r) \/ Revalidate(r) \/ ProcessGuard(r)
    \/ RevalidateLayout(r) \/ Open(r) \/ Recheck(r) \/ BindParent(r)
    \/ Confirm(r) \/ Unlink(r) \/ Corroborate(r)

Next == Provider \/ \E r \in Runs : Delete(r)

Spec == Init /\ [][Next]_vars

-----------------------------------------------------------------------------
(* Properties.                                                             *)

\* No name is left of the object the plan was sealed for (a later object may
\* have been given its inode number).
PlannedIsGone(r) ==
    \A p \in Places :
        entry[p] = plan[r].ino => obj[plan[r].ino].born # plan[r].born

\* The only object a deletion unlinks is the one its plan was sealed for,
\* unless the provider moved a name between the last look at the entry and
\* the unlink: no earlier replacement, rename, link or directory swap makes
\* the kernel remove somebody else's file (mutation.rs, sealedfs lib.rs).
OnlyConfirmedRemoved ==
    \A r \in Runs : ~raced[r] => \A x \in removed[r] : Object(x) = Planned(r)

\* What is removed is what was there when the plan was sealed: a session the
\* provider wrote to at any time between binding and the re-check before the
\* unlink is kept, however many checks lie between.
UnseenWritesSurvive ==
    \A r \in Runs : ~raced[r] /\ ~touched[r] =>
        \A x \in removed[r] : x.stamp = plan[r].stamp

\* A file that has another name is never unlinked (E06-S13): outside the last
\* window, an object whose name the kernel removed has no name left anywhere.
NeverOneOfSeveralNames ==
    \A r \in Runs : removed[r] # {} /\ ~raced[r] => PlannedIsGone(r)

\* What is reported is what happened: a skip removed nothing, a success
\* removed something and left no name of the planned object, a failure after a
\* removal only follows interference in the last window, and one that could not
\* look afterwards follows a removal.
OutcomeTruth ==
    \A r \in Runs :
        /\ result[r] = "safely_skipped" => removed[r] = {}
        /\ result[r] = "succeeded" => removed[r] # {} /\ PlannedIsGone(r)
        /\ result[r] = "failed" /\ removed[r] # {} => raced[r]
        /\ result[r] = "unknown" => removed[r] # {}

\* Two runs never both report the deletion of one object, so the bytes it
\* frees are counted once, unless the provider interfered in a last window.
OneWinner ==
    \A r, s \in Runs :
        r # s /\ result[r] = "succeeded" /\ result[s] = "succeeded" =>
            Planned(r) # Planned(s) \/ raced[r] \/ raced[s]

\* A guarded deletion unlinks nothing when the provider's process has been
\* running ever since the plan was sealed, even if the probe came back
\* incomplete.
LiveProviderUntouched ==
    \A r \in Runs : live[r] /\ removed[r] # {} => ~plan[r].guarded

\* SI-013 says identity drift of the root, too, blocks: the root whose layout
\* was last confirmed before a removal would then be the approved one.
ApprovedRootStillThere ==
    \A r \in Runs : removed[r] # {} => plan[r].layout.root = approved[r]
=============================================================================
