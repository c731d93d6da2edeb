------------------------------ MODULE SealedRoot ------------------------------
(***************************************************************************)
(* A directory opened one component at a time, each relative to the handle *)
(* of the one before it and never through a link (cancellai-sealedfs), and *)
(* two of its users: the command that writes Claude's settings (cmd_       *)
(* configure), and the deletion of a file on Windows.                      *)
(*                                                                         *)
(* The path is top/home/claude.  Somebody moves directories away and back, *)
(* and puts links or files in their place, between any two system calls.   *)
(***************************************************************************)
EXTENDS Integers, Sequences

CONSTANTS
    Dirs,       \* directories; "outside" is reachable through links only
    MaxSwaps    \* bound on what happens to the path

ASSUME SealedRootAssumption ==
    /\ {"top", "home", "claude", "elsewhere", "outside", "new"} \subseteq Dirs
    /\ MaxSwaps \in Nat

VARIABLES
    tree,    \* what stands at each name of each directory
    swaps,   \* how often the path was interfered with
    dir,     \* the handle the walk holds
    hop      \* the component it opens next

rootVars == <<tree, swaps, dir, hop>>

Path  == <<"home", "claude">>
Names == {"home", "claude"}

Entry(kind, to) == [kind |-> kind, to |-> to]
Missing   == Entry("missing", "top")
PlainFile == Entry("file", "top")
Entries   == [kind : {"missing", "file", "dir", "link"}, to : Dirs]

Opening == hop <= Len(Path)
Next(d) == tree[d][Path[hop]]

SealedRootTypeOK ==
    /\ tree \in [Dirs -> [Names -> Entries]] /\ swaps \in 0 .. MaxSwaps
    /\ dir \in Dirs /\ hop \in 1 .. Len(Path) + 1

Bare == [n \in Names |-> Missing]

SealedRootInit ==
    /\ \E leaf \in {Missing, Entry("dir", "claude")} :
          tree = [d \in Dirs |->
                    CASE d = "top"       -> [Bare EXCEPT !["home"] = Entry("dir", "home")]
                      [] d = "home"      -> [Bare EXCEPT !["claude"] = leaf]
                      [] d = "elsewhere" -> [Bare EXCEPT !["claude"] = Entry("dir", "outside")]
                      [] OTHER           -> Bare]
    /\ swaps = 0 /\ dir = "top" /\ hop = 1

\* Where a path leads that is handed to a system call whole: links are followed.
Resolved ==
    LET home == tree["top"]["home"]
        leaf == tree[home.to]["claude"]
    IN  IF home.kind \in {"dir", "link"} /\ leaf.kind \in {"dir", "link"} THEN leaf.to ELSE "top"
Resolves == Resolved # "top"

\* roots::is_symlink: lstat of the path.
LeafIsSymlink ==
    LET home == tree["top"]["home"]
    IN  home.kind \in {"dir", "link"} /\ tree[home.to]["claude"].kind = "link"

-----------------------------------------------------------------------------
(* The walk.                                                               *)

Forget == dir' = "top" /\ hop' = 1

\* Mutant of OpenChild: without O_NOFOLLOW.
OpenChildFollowing ==
    /\ Opening /\ Next(dir).kind \in {"dir", "link"}
    /\ dir' = Next(dir).to /\ hop' = hop + 1
    /\ UNCHANGED <<tree, swaps>>

\* open_child_dir_nofollow: the entry is a directory, and it is the one opened.
OpenChild ==
    /\ Opening /\ Next(dir).kind = "dir"
    /\ dir' = Next(dir).to /\ hop' = hop + 1
    /\ UNCHANGED <<tree, swaps>>

\* IsSymlinkOrReparsePoint, NotADirectory, and NotFound before the leaf.
Refused ==
    /\ Opening /\ Next(dir).kind # "dir"
    /\ Next(dir).kind = "missing" => hop < Len(Path)

LeafIsMissing == hop = Len(Path) /\ Next(dir).kind = "missing"

\* establish: mkdirat; what another program created meanwhile (EEXIST) is
\* opened like any other entry, link or not.
CreateLeaf ==
    /\ hop = Len(Path)
    /\ tree' = IF Next(dir).kind = "missing"
               THEN [tree EXCEPT ![dir]["claude"] = Entry("dir", "new")] ELSE tree
    /\ UNCHANGED <<swaps, dir, hop>>

-----------------------------------------------------------------------------
(* Others.                                                                 *)

Named(d) == \E p \in Dirs, n \in Names : tree[p][n] = Entry("dir", d)

\* A directory moves away, comes back, or a link or a file takes its name.
Put(p, n, entry) ==
    /\ swaps < MaxSwaps /\ swaps' = swaps + 1
    /\ tree[p][n] # entry
    /\ tree' = [tree EXCEPT ![p][n] = entry]
    /\ UNCHANGED <<dir, hop>>

Swap ==
    \/ \E e \in {Missing, Entry("link", "elsewhere"), Entry("dir", "home")} : Put("top", "home", e)
    \/ \E e \in {Missing, PlainFile, Entry("link", "outside"), Entry("dir", "claude")} :
          Put("home", "claude", e)
=============================================================================
