------------------------------- MODULE Configure -------------------------------
(***************************************************************************)
(* configure --days: reads Claude's settings.json, sets one key of it, and *)
(* replaces the file (cmd_configure, configure_claude_retention), while    *)
(* Claude writes the same file, calls fail, and the program or the machine *)
(* stops.                                                                  *)
(***************************************************************************)
EXTENDS SealedRoot

CONSTANTS
    MaxWrites,   \* bound on Claude's writes
    MaxFaults    \* bound on failing calls, deaths and power losses

ASSUME ConfigureAssumption == {MaxWrites, MaxFaults} \subseteq Nat

VARIABLES
    settings,    \* settings.json of each directory, as it is seen
    disk,        \* and as it is on the disk
    temp,        \* the temporary file, in the same directory
    writes,      \* Claude's writes, each with keys of its own
    faults,
    cpc,         \* where configure is
    read,        \* what it read
    result,
    stood        \* history: the keys that have stood in each directory

configureVars == <<settings, disk, temp, writes, faults, cpc, read, result, stood>>

\* Directories a walk can end in, and where links lead.
Homes == {"claude", "new", "outside"}

\* keys = 0: an object without any key of Claude's.
Settings(days, keys) == [days |-> days, keys |-> keys]
Objects  == [days : BOOLEAN, keys : 0 .. MaxWrites]
NoFile   == [days |-> FALSE, keys |-> -1]
Invalid  == [days |-> FALSE, keys |-> -2]   \* not JSON, or no object
Torn     == [days |-> FALSE, keys |-> -3]
Contents == Objects \cup {NoFile, Invalid, Torn}

Results == {"none", "set", "invalid_input", "safety_block", "internal_fault", "killed"}
Steps   == {"begin", "walk", "create_leaf", "read", "create", "write", "sync", "rename",
            "sync_dir", "done"}

ConfigureTypeOK ==
    /\ settings \in [Homes -> Contents] /\ disk \in [Homes -> Contents]
    /\ temp \in [text : Contents, synced : BOOLEAN]
    /\ writes \in 0 .. MaxWrites /\ faults \in 0 .. MaxFaults
    /\ cpc \in Steps /\ read \in Contents /\ result \in Results
    /\ \A d \in Homes : stood[d] \subseteq -2 .. MaxWrites

NoTemp == [text |-> NoFile, synced |-> FALSE]

ConfigureInit ==
    /\ \E c \in {NoFile, Invalid, Settings(FALSE, 0)} :
          settings = [d \in Homes |-> IF d = "new" THEN NoFile ELSE c]
    /\ disk = settings
    /\ temp = NoTemp /\ writes = 0 /\ faults = 0
    /\ cpc = "begin" /\ read = NoFile /\ result = "none"
    /\ stood = [d \in Homes |-> {settings[d].keys}]

Seen(d, content) == stood' = [stood EXCEPT ![d] = @ \cup {content.keys}]

Goto0(step) == cpc' = step /\ UNCHANGED result
Return0(r)  == cpc' = "done" /\ result' = r

files == <<settings, disk, temp, stood>>

\* cmd_configure: only the default root; a link there is seen before anything
\* is opened.
BeginConfigure ==
    /\ cpc = "begin"
    /\ \E default \in BOOLEAN :
          IF default /\ ~LeafIsSymlink THEN Goto0("walk") ELSE Return0("safety_block")
    /\ UNCHANGED <<rootVars, files, read>>

\* SealedRoot::establish
Establish0 ==
    \/ /\ cpc = "walk" /\ OpenChild /\ Goto0(IF hop = Len(Path) THEN "read" ELSE "walk")
    \/ /\ cpc = "walk" /\ Refused
       /\ Return0(IF Next(dir).kind = "missing" THEN "internal_fault" ELSE "safety_block")
       /\ Forget /\ UNCHANGED <<tree, swaps>>
    \/ /\ cpc = "walk" /\ LeafIsMissing /\ Goto0("create_leaf") /\ UNCHANGED rootVars
    \/ /\ cpc = "create_leaf" /\ CreateLeaf /\ Goto0("walk")

\* read_child_to_string, from_str, is_object; "cleanupPeriodDays" is inserted.
ReadSettings ==
    /\ cpc = "read"
    /\ IF settings[dir] \in {Invalid, Torn}
       THEN Return0("safety_block") /\ UNCHANGED read
       ELSE /\ Goto0("create")
            /\ read' = IF settings[dir] = NoFile THEN Settings(FALSE, 0) ELSE settings[dir]

ReadStep == ReadSettings /\ UNCHANGED <<rootVars, files>>

\* write_new_child_atomically: O_EXCL under a name of its own, write_all,
\* sync_all, renameat, and sync_all of the directory.
CreateTemp ==
    /\ cpc = "create" /\ Goto0("write")
    /\ temp' = [text |-> Torn, synced |-> FALSE]
    /\ UNCHANGED <<rootVars, settings, disk, stood, read>>
WriteTemp ==
    /\ cpc = "write" /\ Goto0("sync")
    /\ temp' = [text |-> Settings(TRUE, read.keys), synced |-> FALSE]
    /\ UNCHANGED <<rootVars, settings, disk, stood, read>>
SyncTemp ==
    /\ cpc = "sync" /\ Goto0("rename")
    /\ temp' = [temp EXCEPT !.synced = TRUE]
    /\ UNCHANGED <<rootVars, settings, disk, stood, read>>

RenameOver ==
    /\ cpc = "rename" /\ Goto0("sync_dir")
    /\ settings' = [settings EXCEPT ![dir] = temp.text]
    /\ UNCHANGED <<rootVars, disk, temp, stood, read>>

\* The name now leads to the new file; the temporary one has no name left.
SyncDirectory ==
    /\ cpc = "sync_dir" /\ Return0("set")
    /\ disk' = [disk EXCEPT ![dir] = settings[dir]]
    /\ temp' = NoTemp
    /\ UNCHANGED <<rootVars, settings, stood, read>>

\* A call fails: what was written under the temporary name stays.
CallFails ==
    /\ cpc \in Steps \ {"begin", "done"} /\ faults < MaxFaults /\ faults' = faults + 1
    /\ Return0("internal_fault")
    /\ UNCHANGED <<rootVars, files, read, writes>>

Die0 ==
    /\ cpc # "done" /\ faults < MaxFaults /\ faults' = faults + 1 /\ Return0("killed")
    /\ UNCHANGED <<rootVars, files, read, writes>>

\* A rename that was not yet synced is on the disk or not; a file that was not
\* synced has lost some of its content.
LosePower ==
    /\ faults < MaxFaults /\ faults' = faults + 1
    /\ cpc' = "done" /\ result' = IF cpc = "done" THEN result ELSE "killed"
    /\ IF cpc = "sync_dir"
       THEN \E text \in {disk[dir], IF temp.synced THEN settings[dir] ELSE Torn} :
               /\ settings' = [settings EXCEPT ![dir] = text]
               /\ disk' = [disk EXCEPT ![dir] = text]
       ELSE UNCHANGED <<settings, disk>>
    /\ temp' = NoTemp
    /\ UNCHANGED <<rootVars, stood, read, writes>>

\* Claude, or its user, replaces the file, or leaves it half edited.
ClaudeWrites(d) ==
    /\ writes < MaxWrites /\ writes' = writes + 1
    /\ \E content \in {Settings(settings[d].days, writes + 1), Invalid} :
          /\ settings' = [settings EXCEPT ![d] = content]
          /\ disk' = [disk EXCEPT ![d] = content]
          /\ Seen(d, content)
    /\ UNCHANGED <<rootVars, temp, faults, cpc, read, result>>

Interfere == Swap /\ UNCHANGED configureVars

ConfigureNext ==
    \/ /\ \/ BeginConfigure \/ ReadStep \/ CreateTemp \/ WriteTemp \/ SyncTemp \/ RenameOver
          \/ SyncDirectory
          \/ Establish0 /\ UNCHANGED <<files, read>>
       /\ UNCHANGED <<writes, faults>>
    \/ CallFails \/ Die0 \/ LosePower
    \/ \E d \in {"claude", "new"} : ClaudeWrites(d)
    \/ Interfere

-----------------------------------------------------------------------------
(* Properties.                                                             *)

\* Whatever is swapped under the path, fails, dies or loses power
\* (configure_claude_retention): settings.json is never torn; a directory that
\* only a link leads to keeps what it had; what configure leaves behind has the
\* keys of a file that stood there, never fewer because that one could not be
\* read; and what it reports as set is on the disk until Claude writes again.
SettingsSurvive ==
    /\ \A d \in Homes :
          /\ Torn \notin {settings[d], disk[d]}
          /\ settings[d].keys \in stood[d] \cup (IF NoFile.keys \in stood[d] THEN {0} ELSE {})
    /\ stood["outside"] = {settings["outside"].keys} /\ ~settings["outside"].days
    /\ result = "set" /\ writes = 0 => \E d \in Homes : disk[d].days
=============================================================================
