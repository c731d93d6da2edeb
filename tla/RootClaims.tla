------------------------------ MODULE RootClaims ------------------------------
(***************************************************************************)
(* What the program claims of a provider's root: whether it is one, what   *)
(* the adapter can do with it, whether the provider's own program deletes, *)
(* and what a deletion would free (cancellai-provider-api, the two         *)
(* provider crates, roots.rs, wsl.rs, filesystem_kind.rs, reclaim.rs).     *)
(*                                                                         *)
(* A claim is made of several looks at the disk, and others put, remove    *)
(* and replace what is looked at in between.  An option is a set of at     *)
(* most one member.                                                        *)
(***************************************************************************)
EXTENDS Authority, Sequences, FiniteSets, FiniteSetsExt, SequencesExt

CONSTANTS
    Claimants,     \* adapter -> what is asked of it: subset of the kinds below
    Movable,       \* adapter -> markers that may stand at a root, and come and go
    Manifests,     \* manifests the adapter for them may be given
    Overrides,     \* values of an environment variable that names the root
    Standing2,     \* shapes what stands at a marker may have, and may be given
    Stock,         \* files below a root, of a manifest
    Mounts, Paths, \* tables of mounts, and paths below them
    MaxMoves,      \* bound on what others do and on the looks that fail
    Unreadable,    \* sets of places a walk may fail to list or to stat
    MaxProbeEntries, MaxGlobEntries  \* limits of the walks below a root

ASSUME RootClaimsAssumption ==
    /\ {MaxMoves, MaxProbeEntries, MaxGlobEntries} \subseteq Nat
    /\ Mounts \subseteq Seq([at : Seq(STRING), fs : STRING]) /\ Paths \subseteq Seq(STRING)
    /\ IsFiniteSet(Stock) /\ Stock \subseteq Seq(Seq(STRING))
    /\ \A m \in Manifests : \A a \in ToSet(m.artifacts) : a.glob \in Seq(Seq(STRING))

VARIABLES
    asking,     \* adapter, kind, the root as it was resolved, and the manifest
    shelf,      \* what stands at each marker
    looks,      \* markers still to look at
    opened2,    \* whether the first of them was seen to be no link
    found2,     \* markers found
    child2,     \* the provider's program: its state, and who holds its output
    claim,      \* the outcome, as an option
    stood2,     \* history: markers that were good at some moment of the looks
    moved2,     \* history: markers that were changed
    failed2,    \* history: markers a look at which failed
    followed2,  \* history: markers found through a link
    unread2,    \* history: for each pattern, files the walk could not read
    moves       \* number of changes and of failing looks

historyVars2 == <<stood2, moved2, failed2, followed2, unread2>>
claimVars == <<asking, shelf, looks, opened2, found2, child2, claim, historyVars2, moves>>

Adapters == {"codex", "claude", "manifest"}
CapabilityKinds ==
    {"detect", "fingerprint_root", "inventory_map", "project_attribution", "session_graph",
     "activity_state", "native_delete_capability", "retention_capability", "explain"}

Outcome(support, confidence, ceiling) ==
    [support |-> support, confidence |-> confidence, ceiling |-> ceiling]
Unsupported(confidence) == Outcome("unsupported", confidence, {})
SupportedObserved == Outcome("supported_observed", "observed", {})
ErrorPartial(ceiling) == Outcome("error_partial", "low_unknown", ceiling)

-----------------------------------------------------------------------------
(* Markers and probes.                                                     *)

Marker(name, probe, identifying) == [root |-> "root", name |-> name, probe |-> probe, identifying |-> identifying]

CodexRootMarkers ==
    {Marker("auth.json", "json_object", TRUE), Marker("session_index.jsonl", "jsonl_of_objects", TRUE),
     Marker("installation_id", "nonempty_file", TRUE), Marker("sessions", "sessions", TRUE),
     Marker("config.toml", "nonempty_file", FALSE), Marker("history.jsonl", "jsonl_of_objects", FALSE)}
        \cup {Marker(n, "dir", FALSE) : n \in {"archived_sessions", "skills", "rules", "memories",
                                               "plugins", "sqlite"}}
ClaudeRootMarkers ==
    {Marker("settings.json", "json_object", TRUE), Marker("keybindings.json", "json_object", TRUE),
     Marker("projects", "sessions", TRUE), Marker("history.jsonl", "jsonl_of_objects", FALSE)}
        \cup {Marker(n, "dir", FALSE) : n \in {"file-history", "shell-snapshots", "plugins",
                 "agent-memory", "session-env", "tasks", "statsig", "todos"}}

\* A file, a JSON object, lines of which one of the first is an object, a
\* directory, one with a session in it, and one with more files beside it than
\* the walk looks at.  A link leads to what would be looked for.
Shapes2 == {"absent", "link", "empty", "file", "object", "lines", "dir", "tree", "crowded"}

Good(probe, shape) ==
    CASE probe = "dir"              -> shape \in {"dir", "tree", "crowded"}
      [] probe = "nonempty_file"    -> shape \in {"file", "object", "lines"}
      [] probe = "json_object"      -> shape = "object"
      [] probe = "jsonl_of_objects" -> shape \in {"object", "lines"}
      [] probe = "sessions"         -> shape \in {"tree", "crowded"}

\* What a probe says when its calls succeed.  contains_uuid_named_jsonl gives up,
\* or finds one first: entries come in any order.
Reads(marker) ==
    LET shape == shelf[marker] IN
    IF shape = "link" THEN {TRUE}
    ELSE IF marker.probe = "sessions" /\ shape = "crowded" THEN {MaxProbeEntries > 0, FALSE}
    ELSE {Good(marker.probe, shape)}

\* Mutant of RootConfidence: two markers of any kind.
RootConfidenceByCount(isDefault, markers) ==
    IF isDefault THEN "default"
    ELSE IF Cardinality(markers) >= 2 THEN "high" ELSE IF markers # {} THEN "low" ELSE "unknown"

\* derive_root_confidence
RootConfidence(isDefault, markers) ==
    IF isDefault THEN "default"
    ELSE IF (\E m \in markers : m.identifying) /\ Cardinality(markers) >= 2 THEN "high"
    ELSE IF markers # {} THEN "low" ELSE "unknown"

-----------------------------------------------------------------------------
(* Roots.                                                                  *)

\* roots.rs: where the variable points to, and whether the default root is a
\* link.  "same" is the default root under some spelling.
Unresolved == [path |-> "nowhere", isDefault |-> FALSE]
ResolveFrom(override, home, linked) ==
    CASE override = "none" -> IF home THEN [path |-> "root", isDefault |-> ~linked] ELSE Unresolved
      [] override = "same" -> [path |-> "root", isDefault |-> home /\ ~linked]
      [] OTHER             -> [path |-> "root", isDefault |-> FALSE]

\* manifest_provider.rs resolve_root, of a root of a manifest.
ResolveRoot(root, override) ==
    LET over == root.env # {} /\ override # "none"
        base == IF over THEN <<override>> ELSE <<"home">> \o root.default
    IN  [path |-> IF (over /\ root.full) \/ root.subdir = {} THEN base ELSE base \o CHOOSE p \in root.subdir : TRUE,
         isDefault |-> ~over]

\* parse_manifest: the first fault, in this order.  A path is a sequence of
\* names, and a name one of characters.
IsSafe(path) == path # <<>> /\ {<<".", ".">>, <<".">>, <<"/">>} \cap ToSet(path) = {}
FirstFault(faults) ==
    LET real == SelectSeq(faults, LAMBDA f : f # "none") IN IF real = <<>> THEN "none" ELSE real[1]
RootFault(roots, n) ==
    LET root == roots[n]
        Unless(fine, fault) == IF fine THEN "none" ELSE fault
    IN  FirstFault(
          <<Unless(root.plain, "InvalidRootName"),
            Unless(\A k \in 1 .. n - 1 : roots[k].name # root.name, "DuplicateRootName"),
            Unless(root.env # {""}, "EmptyEnvVarName"),
            Unless(\A p \in root.subdir : IsSafe(p), "PathEscapesRoot"),
            Unless(root.default = <<>> \/ IsSafe(root.default), "PathEscapesRoot"),
            Unless(\A k \in DOMAIN root.markers : IsSafe(root.markers[k].path), "PathEscapesRoot")>>)
ParseManifest(manifest) ==
    LET roots == manifest.roots
        patterns == manifest.artifacts
    IN  FirstFault(
          <<IF manifest.version # 1 THEN "UnsupportedSchemaVersion" ELSE "none",
            IF manifest.id = "" THEN "EmptyProviderId" ELSE "none",
            IF roots = <<>> THEN "NoRoots" ELSE "none">>
          \o [n \in DOMAIN roots |-> RootFault(roots, n)]
          \o [n \in DOMAIN patterns |->
                IF \A k \in DOMAIN roots : roots[k].name # patterns[n].root THEN "ArtifactReferencesUnknownRoot"
                ELSE IF ~IsSafe(patterns[n].glob) THEN "PathEscapesRoot" ELSE "none"])

\* Where a piece of a pattern comes in a text, from a place on.
\* Mutant of Occurs: from the start again.
OccursAnywhere(piece, text, after) == {k \in 0 .. Len(text) - Len(piece) : SubSeq(text, k + 1, k + Len(piece)) = piece}
Occurs(piece, text, after) == {k \in after .. Len(text) - Len(piece) : SubSeq(text, k + 1, k + Len(piece)) = piece}

\* segment_matches: the pieces between the stars, each where it first comes.
Stars(pattern) == {n \in DOMAIN pattern : pattern[n] = "*"}
Before(stars, n) == Max({k \in stars : k < n})
SegmentMatches(pattern, actual) ==
    LET stars  == Stars(pattern)
        first  == SubSeq(pattern, 1, Min(stars) - 1)
        last   == SubSeq(pattern, Max(stars) + 1, Len(pattern))
        end    == Len(actual) - Len(last)
        window == SubSeq(actual, 1, end)
        \* Where the search goes on after the piece before a star; -1 when it was not found.
        cursor[n \in stars] ==
            IF n = Min(stars) THEN Len(first)
            ELSE LET from  == cursor[Before(stars, n)]
                     piece == SubSeq(pattern, Before(stars, n) + 1, n - 1)
                     at    == IF from = -1 THEN {} ELSE Occurs(piece, window, from)
                 IN  IF at = {} THEN -1 ELSE Min(at) + Len(piece)
    IN  IF stars = {} THEN pattern = actual
        ELSE /\ IsPrefix(first, actual) /\ IsSuffix(last, actual) /\ end >= Len(first)
             /\ cursor[Max(stars)] # -1
MatchesPattern(path, glob) ==
    Len(path) = Len(glob) /\ \A n \in DOMAIN glob : SegmentMatches(glob[n], path[n])

\* What a walk misses that cannot read some places.
Losses == {{f \in Stock : \E place \in places : IsPrefix(place, f)} : places \in Unreadable}

\* find_matching_files: of the files it gets to see.  It skips what it cannot read
\* and stops after the entries it may look at, whichever these are.
MatchCounts(glob, unread) ==
    LET there == Stock \ unread
        match == {f \in there : MatchesPattern(f, glob)}
        over  == Cardinality(there) - MaxGlobEntries
    IN  {k \in 0 .. Cardinality(match) :
            LET missed == Cardinality(match) - k
            IN  IF over <= 0 THEN missed = 0
                ELSE missed <= over /\ over - missed <= Cardinality(there) - Cardinality(match)}

-----------------------------------------------------------------------------
(* What is asked.                                                          *)

ResolvedRoots == {ResolveFrom(o, h, l) : o \in {"none", "same", "other"}, h, l \in BOOLEAN} \ {Unresolved}
Scans == {"unavailable", "unobservable", "partial", "complete"}
SessionKinds == {"project_attribution", "session_graph"}
Asked ==
    [adapter : {"codex", "claude"} \cap DOMAIN Claimants, kind : SessionKinds, scan : Scans]
    \cup [adapter : {"codex", "claude"} \cap DOMAIN Claimants, kind : CapabilityKinds \ SessionKinds,
          root : ResolvedRoots]
    \cup [adapter : {"manifest"} \cap DOMAIN Claimants, kind : CapabilityKinds, manifest : Manifests,
          override : Overrides]
    \cup [adapter : {"disk"} \cap DOMAIN Claimants, kind : {"reclaim"}, mounts : Mounts, path : Paths,
          sizesKnown : BOOLEAN]
Questions == {a \in Asked : a.kind \in Claimants[a.adapter]}

ManifestMarkers(manifest, names) ==
    UNION {{[root |-> r.name, name |-> r.markers[n].path, probe |-> r.markers[n].probe,
             identifying |-> r.markers[n].identifying] : n \in DOMAIN r.markers} :
           r \in {r \in ToSet(manifest.roots) : r.name \in names}}
SessionPatterns(manifest) == {a \in ToSet(manifest.artifacts) : a.category = "session"}

\* The markers looked at for a claim; those that cannot stand are left out.
\* They are looked at one after the other, here in any order.
MarkersFor(ask) ==
    LET named == IF ask.kind \in {"detect", "fingerprint_root"} THEN {r.name : r \in ToSet(ask.manifest.roots)}
                 ELSE IF ask.kind = "inventory_map" THEN {a.root : a \in SessionPatterns(ask.manifest)}
                 ELSE {}
        known == ask.kind \in {"detect", "fingerprint_root", "explain"}
    IN  {m \in CASE ask.adapter = "codex"    -> IF known THEN CodexRootMarkers ELSE {}
                 [] ask.adapter = "claude"   -> IF known THEN ClaudeRootMarkers ELSE {}
                 [] ask.adapter = "manifest" -> IF ParseManifest(ask.manifest) # "none" THEN {}
                                                ELSE ManifestMarkers(ask.manifest, named)
                 [] ask.adapter = "disk"     -> {} :
            m.name \in Movable[ask.adapter]}

\* One of which nothing is looked at.
Plain2 == CHOOSE a \in Questions : MarkersFor(a) = {}

NoChild == [state |-> "none", ok |-> FALSE, force |-> FALSE, held |-> FALSE]

RootClaimsInit ==
    /\ asking \in Questions
    /\ looks = MarkersFor(asking)
    /\ shelf \in [looks -> {"absent", "link"} \cup Standing2]
    /\ opened2 = {} /\ found2 = {} /\ child2 = NoChild /\ claim = {}
    /\ stood2 = {m \in looks : Good(m.probe, shelf[m])} /\ moved2 = {} /\ failed2 = {}
    /\ followed2 = {} /\ unread2 = <<>> /\ moves = 0

-----------------------------------------------------------------------------
(* The claims.                                                             *)

Asks2(adapter, kinds) == claim = {} /\ asking.adapter = adapter /\ asking.kind \in kinds
Answers2(outcome) == claim' = {outcome} /\ UNCHANGED <<asking, shelf, looks, opened2, found2, child2, moves>>
Claims(outcome) == Answers2(outcome) /\ UNCHANGED historyVars2

Fails(m) == moves < MaxMoves /\ moves' = moves + 1 /\ failed2' = failed2 \cup {m}

\* is_symlink, and then the rest of the probe, which follows links.  Where the
\* first fails the probe goes on, as if there were no link.
LookForLink ==
    /\ claim = {} /\ opened2 = {}
    /\ \E m \in looks :
          \/ shelf[m] = "link" /\ looks' = looks \ {m} /\ UNCHANGED <<opened2, failed2, moves>>
          \/ shelf[m] # "link" /\ opened2' = {m} /\ UNCHANGED <<looks, failed2, moves>>
          \/ shelf[m] = "link" /\ opened2' = {m} /\ Fails(m) /\ UNCHANGED looks
    /\ UNCHANGED <<asking, shelf, found2, child2, claim, stood2, moved2, followed2, unread2>>

\* A call that fails, also of the walk below a marker, says that there is none.
ReadMarker ==
    /\ claim = {}
    /\ \E m \in opened2 :
          /\ looks' = looks \ {m}
          /\ \/ \E good \in Reads(m) :
                   /\ found2' = found2 \cup IF good THEN {m} ELSE {}
                   /\ followed2' = followed2 \cup IF good /\ shelf[m] = "link" THEN {m} ELSE {}
                   /\ UNCHANGED <<failed2, moves>>
             \/ Fails(m) /\ UNCHANGED <<found2, followed2>>
    /\ opened2' = {} /\ UNCHANGED <<asking, shelf, child2, claim, stood2, moved2, unread2>>

RootOutcome(confidence) ==
    CASE confidence = "default" -> Outcome("verified", "verified", {})
      [] confidence = "high"    -> SupportedObserved
      [] confidence = "low"     -> Outcome("supported_observed", "inferred", {Recommend})
      [] confidence = "unknown" -> Outcome("unsupported", "low_unknown", {Observe})

\* Codex and Claude, of their roots.
ClaimRoot ==
    /\ looks = {}
    /\ \E a \in {"codex", "claude"} :
          \/ /\ Asks2(a, {"detect", "fingerprint_root"})
             /\ Claims(RootOutcome(RootConfidence(asking.root.isDefault, found2)))
          \/ Asks2(a, {"explain", "inventory_map"}) /\ Claims(SupportedObserved)

\* Codex does not look at whether its scan was complete.
ClaimSessions ==
    \/ Asks2("codex", {"session_graph"}) /\ Claims(SupportedObserved)
    \/ /\ Asks2("claude", SessionKinds)
       /\ Claims(CASE asking.scan = "unavailable"  -> Unsupported("low_unknown")
                   [] asking.scan = "unobservable" -> ErrorPartial({Observe})
                   [] asking.scan = "partial"      -> ErrorPartial({Recommend})
                   [] asking.scan = "complete"     -> SupportedObserved)

ClaimNothing ==
    \/ Asks2("codex", {"project_attribution", "activity_state"}) /\ Claims(Unsupported("low_unknown"))
    \/ Asks2("codex", {"retention_capability"}) /\ Claims(Unsupported("verified"))
    \/ /\ Asks2("claude", {"activity_state", "retention_capability"})
       /\ Claims(Unsupported("low_unknown"))
    \/ Asks2("claude", {"native_delete_capability"}) /\ Claims(Unsupported("verified"))

\* codex_delete_supported: a child that is asked, and its output.
Asking == Asks2("codex", {"native_delete_capability"})
Child2(child) ==
    child2' = child /\ UNCHANGED <<asking, shelf, looks, opened2, found2, claim, historyVars2, moves>>
StartProbe ==
    /\ Asking /\ child2 = NoChild
    /\ \/ Claims(Unsupported("low_unknown"))    \* BinaryNotFound
       \/ Claims(ErrorPartial({}))              \* it cannot be started
       \/ Child2([child2 EXCEPT !.state = "running", !.held = TRUE])
\* The readers are joined: they read until whoever else has its output closes it.
TryWait == Asking /\ child2.state = "exited" /\ Child2([child2 EXCEPT !.state = "joining"])
\* PROBE_TIMEOUT: it may have ended since it was last looked at.
ProbeTimesOut == Asking /\ child2.state \in {"running", "exited"} /\ Claims(ErrorPartial({}))
JoinReaders ==
    /\ Asking /\ child2.state = "joining" /\ ~child2.held
    /\ Claims(IF child2.ok /\ child2.force THEN Outcome("verified", "verified", {})
              ELSE Unsupported("observed"))

\* A manifest: its roots, and the files its patterns match.
RootNamed(name) == CHOOSE r \in ToSet(asking.manifest.roots) : r.name = name
ConfidenceOf(name) ==
    RootConfidence(ResolveRoot(RootNamed(name), asking.override).isDefault, {m \in found2 : m.root = name})
Rank == [unknown |-> 0, low |-> 1, high |-> 2, default |-> 3]
ManifestOutcome(confidence) ==
    CASE confidence \in {"default", "high"} -> SupportedObserved
      [] confidence = "low"     -> Outcome("supported_observed", "inferred", {})
      [] confidence = "unknown" -> Unsupported("low_unknown")
RefuseManifest ==
    /\ Asks2("manifest", CapabilityKinds) /\ ParseManifest(asking.manifest) # "none"
    /\ Claims(Outcome(ParseManifest(asking.manifest), "low_unknown", {}))
ClaimManifestRoot ==
    /\ Asks2("manifest", {"detect", "fingerprint_root"}) /\ looks = {}
    /\ ParseManifest(asking.manifest) = "none"
    /\ LET of == {ConfidenceOf(r.name) : r \in ToSet(asking.manifest.roots)}
       IN  Claims(ManifestOutcome(CHOOSE c \in of : \A d \in of : Rank[d] <= Rank[c]))
ClaimMatches ==
    /\ Asks2("manifest", {"inventory_map"}) /\ looks = {}
    /\ ParseManifest(asking.manifest) = "none"
    /\ LET confident == {a \in SessionPatterns(asking.manifest) : ConfidenceOf(a.root) # "unknown"}
       IN  IF confident = {} THEN Claims(Unsupported("low_unknown"))
           ELSE \E unread \in [confident -> Losses] :
                LET of == [a \in confident |-> MatchCounts(a.glob, unread[a])] IN
                \E counts \in [confident -> UNION Range(of)] :
                   /\ \A a \in confident : counts[a] \in of[a]
                   /\ Answers2([support |-> "supported_observed", confidence |-> "observed",
                                ceiling |-> {}, matches |-> counts])
                   /\ unread2' = unread /\ UNCHANGED <<stood2, moved2, failed2, followed2>>
ClaimManifestNothing ==
    /\ Asks2("manifest", CapabilityKinds \ {"detect", "fingerprint_root", "inventory_map"})
    /\ ParseManifest(asking.manifest) = "none" /\ Claims(Unsupported("low_unknown"))

\* longest_matching_mount_fstype: the last of the longest.
NotSharing == {"ext4", "vfat", "ntfs", "tmpfs"}
MountsOver(mounts, path) == {n \in DOMAIN mounts : IsPrefix(mounts[n].at, path)}
MountFor(mounts, path) ==
    Max({n \in MountsOver(mounts, path) :
            \A k \in MountsOver(mounts, path) : Len(mounts[k].at) <= Len(mounts[n].at)})

\* estimate_reclaim, on the file system of the path.
ClaimReclaim ==
    /\ Asks2("disk", {"reclaim"})
    /\ LET known  == MountsOver(asking.mounts, asking.path) # {}
           shares == known => asking.mounts[MountFor(asking.mounts, asking.path)].fs \notin NotSharing
       IN  Claims(Outcome(IF asking.sizesKnown /\ ~shares THEN "verified" ELSE "estimated", "observed", {}))

-----------------------------------------------------------------------------
(* Others, while the program looks.                                        *)

Moves2 ==
    /\ claim = {} /\ looks # {} /\ moves < MaxMoves /\ moves' = moves + 1
    /\ \E m \in DOMAIN shelf, shape \in {"absent", "link"} \cup Standing2 :
          /\ shape # shelf[m] /\ shelf' = [shelf EXCEPT ![m] = shape]
          /\ moved2' = moved2 \cup {m}
          /\ stood2' = stood2 \cup IF Good(m.probe, shape) THEN {m} ELSE {}
    /\ UNCHANGED <<asking, looks, opened2, found2, child2, claim, failed2, followed2, unread2>>

\* The child ends; what it has started may keep its output open.
ChildEnds ==
    /\ claim = {} /\ child2.state = "running"
    /\ \E ok, force, held \in BOOLEAN : Child2([state |-> "exited", ok |-> ok, force |-> force, held |-> held])
OutputCloses ==
    /\ claim = {} /\ child2.state \in {"exited", "joining"} /\ child2.held
    /\ Child2([child2 EXCEPT !.held = FALSE])

RootClaimsNext ==
    \/ LookForLink \/ ReadMarker \/ ClaimRoot \/ ClaimSessions \/ ClaimNothing
    \/ StartProbe \/ TryWait \/ ProbeTimesOut \/ JoinReaders
    \/ RefuseManifest \/ ClaimManifestRoot \/ ClaimMatches \/ ClaimManifestNothing
    \/ ClaimReclaim \/ Moves2 \/ ChildEnds \/ OutputCloses

-----------------------------------------------------------------------------
(* Properties.                                                             *)

\* The file system at a path is the one mounted last over it.
MountedLast(mounts, path) == mounts[Max(MountsOver(mounts, path))]
NoneHidden(mounts) == \A j, k \in DOMAIN mounts : j < k => ~IsStrictPrefix(mounts[k].at, mounts[j].at)

\* However what is looked at comes and goes between two looks, and whichever looks
\* fail (derive_root_confidence, root_probe.rs): a custom root is observed only
\* when an identifying marker and another each stood there at a moment of the
\* looks, not always the same one; is so whenever two such stood throughout and no
\* look at them failed; and is only looked at when none did.  A link is taken for a
\* marker only where it came after the look for links, or that look failed.  What
\* a deletion frees is verified only on a file system that does not share blocks,
\* the one last mounted over the path.
RootsRestOnEvidence ==
    \A outcome \in claim :
        LET pair(markers) == \E m \in markers : m.identifying /\ markers # {m}
            evidence == stood2 \cup followed2
            steady == {m \in DOMAIN shelf \ (moved2 \cup failed2) :
                          Good(m.probe, shelf[m]) /\ shelf[m] # "crowded"}
        IN  /\ asking.adapter \in {"codex", "claude"} /\ asking.kind = "detect" =>
                  /\ followed2 \subseteq moved2 \cup failed2
                  /\ outcome.support = "verified" <=> asking.root.isDefault
                  /\ outcome.confidence = "observed" => pair(evidence)
                  /\ ~asking.root.isDefault /\ pair(steady) => outcome.confidence = "observed"
                  /\ ~asking.root.isDefault /\ evidence = {} => outcome.ceiling = {Observe}
            /\ asking.adapter = "disk" /\ outcome.support = "verified" /\ NoneHidden(asking.mounts) =>
                  MountedLast(asking.mounts, asking.path).fs \in NotSharing

\* What a pattern means: a star stands for any characters.  How much of the text
\* the first characters of the pattern may stand for:
Means(pattern, text) ==
    LET upTo[i \in 0 .. Len(pattern)] ==
            IF i = 0 THEN {0}
            ELSE IF pattern[i] = "*" THEN {j \in 0 .. Len(text) : \E k \in upTo[i - 1] : k <= j}
            ELSE {j \in 1 .. Len(text) : j - 1 \in upTo[i - 1] /\ text[j] = pattern[i]}
    IN  Len(text) \in upTo[Len(pattern)]

\* The files a manifest's patterns are said to match (find_matching_files, segment_
\* matches) are those their stars mean, wherever the pieces between the stars
\* occur, among the files that could be read: whatever fails to be read is lost
\* with all below it and nothing else is, but for as many as there are more files
\* than are looked at.
MatchesAreMeant ==
    asking.adapter = "manifest" /\ asking.kind = "inventory_map" =>
        \A outcome \in claim : "matches" \in DOMAIN outcome =>
            \A a \in DOMAIN outcome.matches :
                LET there == Stock \ unread2[a]
                    meant == {f \in there : Len(f) = Len(a.glob) /\ \A n \in DOMAIN f : Means(a.glob[n], f[n])}
                    missed == Cardinality(meant) - outcome.matches[a]
                IN  /\ missed >= 0
                    /\ IF Cardinality(there) <= MaxGlobEntries THEN missed = 0
                       ELSE missed <= Cardinality(there) - MaxGlobEntries

\* What an adapter answers of its roots and of its files rests on what is there
\* (root_fingerprint.rs, manifest_provider.rs): on the markers that stood at the
\* looks, and on the meaning of the patterns for what could be read.
ClaimsRestOnEvidence == RootsRestOnEvidence /\ MatchesAreMeant
=============================================================================
