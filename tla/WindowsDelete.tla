----------------------------- MODULE WindowsDelete -----------------------------
(***************************************************************************)
(* The deletion of one file on Windows (mutation.rs, the windows           *)
(* confirmed_delete_file_inner; windows_sealed.rs; windows_identity.rs).   *)
(* A file is not removed by its name: a handle opened relative to that of  *)
(* its directory is asked what it is, and told to delete what it holds.    *)
(* The name goes when the last handle is closed.                           *)
(***************************************************************************)
EXTENDS SealedRoot, FiniteSets

CONSTANTS
    Objects0,     \* files, by their index
    MaxEdits      \* bound on what is done to them

ASSUME WindowsAssumption == MaxEdits \in Nat

VARIABLES
    place,    \* the directories in which each file has the session's name
    version,  \* last write time of each file
    opened,   \* how another program has each file open
    edits,
    dying,    \* <<directory, file>> of the name marked for deletion
    token,    \* the identity that was confirmed: file and last write time
    held,     \* the handle opened first: directory and file
    child,    \* the handle the deletion goes through
    dpc, outcome,
    early     \* history: the file was written to before it was looked at again

windowsVars == <<place, version, opened, edits, dying, token, held, child, dpc, outcome, early>>

Name(d, f) == [dir |-> d, file |-> f]
NoName     == [dir |-> "top", file |-> "none"]
Files0     == Objects0 \cup {"none"}
Holders    == {"closed", "shared", "exclusive"}
Folders    == {"claude", "outside"}

WindowsTypeOK ==
    /\ place \in [Objects0 -> SUBSET Folders] /\ version \in [Objects0 -> 0 .. MaxEdits]
    /\ opened \in [Objects0 -> Holders] /\ edits \in 0 .. MaxEdits
    /\ {dying, held, child} \subseteq [dir : Dirs, file : Files0]
    /\ token.file \in Files0 /\ early \in BOOLEAN
    /\ dpc \in {"observe", "open", "recheck", "walk", "child", "confirm", "pending", "close", "done"}
    /\ outcome \in {"none", "deleted", "failed"}

WindowsInit ==
    /\ \E f \in Objects0 : place = [o \in Objects0 |-> IF o = f THEN {"claude"} ELSE {}]
    /\ version = [o \in Objects0 |-> 0] /\ opened = [o \in Objects0 |-> "closed"] /\ edits = 0
    /\ dying = NoName /\ held = NoName /\ child = NoName
    /\ token = [file |-> "none", version |-> 0]
    /\ dpc = "observe" /\ outcome = "none" /\ early = FALSE

\* The file of that name in a directory; a name that is being deleted cannot
\* be opened any more (STATUS_DELETE_PENDING).
Standing(d) ==
    IF \E f \in Objects0 : d \in place[f] /\ dying # Name(d, f)
    THEN CHOOSE f \in Objects0 : d \in place[f] ELSE "none"
NumberOfLinks(f) == Cardinality(place[f])

FilesOnly == <<place, version, opened, edits>>
Stop(r)   == dpc' = "done" /\ outcome' = r
To(step)  == dpc' = step /\ UNCHANGED outcome

-----------------------------------------------------------------------------
(* The deletion.                                                           *)

ObserveTarget ==
    /\ dpc = "observe" /\ Resolves /\ Standing(Resolved) # "none"
    /\ token' = [file |-> Standing(Resolved), version |-> version[Standing(Resolved)]]
    /\ To("open") /\ UNCHANGED <<FilesOnly, dying, held, child, early>>

\* The volume and index, and the last write time, converted as the token's were.
SameFile(f)  == f = token.file
Unwritten(f) == version[f] = token.version

\* open_and_observe_identity: the whole path is opened, junctions on the way
\* are followed, a reparse point at its end is opened itself.
OpenTarget ==
    /\ dpc = "open"
    /\ LET f == Standing(Resolved) IN
       IF Resolves /\ f # "none" /\ SameFile(f) /\ Unwritten(f) /\ NumberOfLinks(f) <= 1
             /\ opened[f] # "exclusive"
       THEN held' = Name(Resolved, f) /\ To("recheck")
       ELSE Stop("failed") /\ UNCHANGED held
    /\ UNCHANGED <<FilesOnly, dying, token, child, early>>

\* observe_identity: again, by its path.
StillThere == Resolves /\ Standing(Resolved) # "none" /\ SameFile(Standing(Resolved))
              /\ Unwritten(Standing(Resolved))

RecheckTarget ==
    /\ dpc = "recheck"
    /\ IF StillThere THEN To("walk") /\ UNCHANGED held ELSE Stop("failed") /\ held' = NoName
    /\ UNCHANGED <<FilesOnly, dying, token, child, early>>

\* SealedRoot::bind_existing: FILE_OPEN, FILE_OPEN_REPARSE_POINT, and the
\* handle is asked whether it holds a junction.
BindParent0 ==
    /\ dpc = "walk"
    /\ \/ OpenChild /\ To(IF hop = Len(Path) THEN "child" ELSE "walk") /\ UNCHANGED held
       \/ (Refused \/ LeafIsMissing) /\ Stop("failed") /\ held' = NoName /\ UNCHANGED rootVars
    /\ UNCHANGED <<FilesOnly, dying, token, child, early>>

\* nt_open_child with DELETE: refused while another program does not share it.
OpenForDelete ==
    /\ dpc = "child"
    /\ LET f == Standing(dir) IN
       IF f # "none" /\ opened[f] # "exclusive"
       THEN child' = Name(dir, f) /\ To("confirm") /\ UNCHANGED held
       ELSE Stop("failed") /\ held' = NoName /\ UNCHANGED child
    /\ UNCHANGED <<FilesOnly, dying, token, early>>

\* Mutant of Deletable: what stands at the confirmed name.
DeletableByName == NumberOfLinks(child.file) = 1

\* observe_identity_of_handle, and SetFileInformationByHandle on that handle.
Deletable == SameFile(child.file) /\ NumberOfLinks(child.file) = 1

MarkForDeletion ==
    /\ dpc = "confirm"
    /\ \E done \in BOOLEAN :
          IF Deletable /\ done
          THEN dying' = child /\ To("pending") /\ UNCHANGED held
          ELSE Stop("failed") /\ held' = NoName /\ UNCHANGED dying
    /\ child' = NoName /\ UNCHANGED <<FilesOnly, token, early>>

\* is_delete_pending of the handle opened first, which may not answer.
CorroboratePending ==
    /\ dpc = "pending"
    /\ \E answers \in BOOLEAN :
          IF answers /\ dying = held THEN To("close") ELSE Stop("failed")
    /\ held' = NoName /\ UNCHANGED <<FilesOnly, dying, token, child, early>>

DropHandle ==
    /\ dpc = "close" /\ Stop("deleted")
    /\ UNCHANGED <<FilesOnly, dying, token, held, child, early>>

Deletion0 ==
    \/ /\ ObserveTarget \/ OpenTarget \/ RecheckTarget \/ OpenForDelete \/ MarkForDeletion
          \/ CorroboratePending \/ DropHandle
       /\ UNCHANGED rootVars
    \/ BindParent0

-----------------------------------------------------------------------------
(* Others.                                                                 *)

Edit == edits < MaxEdits /\ edits' = edits + 1

Unlooked == dpc \in {"open", "recheck"}

WriteTo(f) ==
    /\ Edit /\ place[f] # {} /\ dying.file # f
    /\ version' = [version EXCEPT ![f] = edits + 1]
    /\ early' = (early \/ (f = token.file /\ Unlooked))
    /\ UNCHANGED <<place, opened, dying, token, held, child>>

\* A file is created, moved between the directories, or given another name.
Renamed(name, f, d, e) == IF name = Name(d, f) THEN Name(e, f) ELSE name
PlaceIn(f, e) ==
    /\ Edit /\ \A o \in Objects0 : e \notin place[o]
    /\ \/ place[f] = {} /\ place' = [place EXCEPT ![f] = {e}] /\ UNCHANGED <<dying, held, child>>
       \/ \E d \in place[f] :
             /\ dying # Name(d, f)
             /\ place' = [place EXCEPT ![f] = {e}]
             /\ held' = Renamed(held, f, d, e) /\ child' = Renamed(child, f, d, e)
             /\ UNCHANGED dying
       \/ /\ place[f] # {} /\ place' = [place EXCEPT ![f] = @ \cup {e}]
          /\ UNCHANGED <<dying, held, child>>
    /\ UNCHANGED <<version, opened, token, early>>

OpenElsewhere(f) ==
    /\ Edit /\ place[f] # {} /\ dying.file # f
    /\ \E how \in Holders \ {opened[f]} :
          /\ how = "exclusive" => held.file # f /\ child.file # f
          /\ opened' = [opened EXCEPT ![f] = how]
    /\ UNCHANGED <<place, version, dying, token, held, child, early>>

\* Another program closes a file it had open.
CloseElsewhere(f) ==
    /\ dying.file = f /\ opened[f] # "closed"
    /\ opened' = [opened EXCEPT ![f] = "closed"]
    /\ UNCHANGED <<place, version, edits, dying, token, held, child, early>>

\* The last handle of a name that is being deleted has been closed.
NameGoes ==
    /\ dying # NoName /\ dying \notin {held, child} /\ opened[dying.file] = "closed"
    /\ dying.dir \in place[dying.file]
    /\ place' = [place EXCEPT ![dying.file] = @ \ {dying.dir}]
    /\ UNCHANGED <<version, opened, edits, dying, token, held, child, early>>

WindowsNext ==
    \/ Deletion0
    \/ /\ \/ \E f \in Objects0 : WriteTo(f) \/ OpenElsewhere(f) \/ CloseElsewhere(f)
          \/ \E f \in Objects0, e \in Folders : PlaceIn(f, e)
          \/ NameGoes
       /\ UNCHANGED <<rootVars, dpc, outcome>>
    \/ Swap /\ UNCHANGED windowsVars

-----------------------------------------------------------------------------
(* Properties.                                                             *)

\* Whatever is moved, linked, written or opened between any two calls
\* (confirmed_delete_file_inner): the name marked for deletion is
\* one of the confirmed file, found in a directory no junction led to, and not
\* one that was written to before the last look; "deleted" is said when that name
\* is gone, or goes with the last handle of another program.
WindowsRemovesTheConfirmed ==
    /\ dying # NoName => dying.file = token.file /\ dir # "outside" /\ ~early
    /\ outcome = "deleted" =>
          /\ dying # NoName
          /\ dying.dir \notin place[dying.file] \/ Standing(dying.dir) = "none"
=============================================================================
