----------------------------- MODULE MCInterfaces -----------------------------
(* A handful of artifacts, places and keys.                                 *)
EXTENDS Interfaces

\* Two sessions of a tree, a third that is as large as one of them, and one of
\* another provider that only may be looked at.
SomeArtifacts ==
    LET Artifact(k, n, from, bytes, above, upTo) ==
            [id |-> n, identity |-> k, provider |-> from, project |-> {}, size |-> bytes,
             parent |-> above, reach |-> upTo]
    IN  <<Artifact(1, "a", "codex", 2, {}, Govern), Artifact(2, "b", "codex", 1, {"a"}, Govern),
          Artifact(3, "c", "codex", 2, {"b"}, Govern), Artifact(4, "d", "claude", 1, {}, Recommend)>>

SomeRoots == [codex |-> <<"sessions", "archived">>, claude |-> <<"projects">>, inventory |-> <<"scope">>]
SomeDirectories ==
    [sessions |-> Nowhere, archived |-> Nowhere, projects |-> Nowhere, scope |-> Nowhere,
     day |-> "sessions", r1 |-> "day", r2 |-> "archived",
     project |-> "projects", s |-> "project", s_dir |-> "project", sub |-> "s_dir", s1 |-> "sub",
     d |-> "scope", f |-> "d", mount |-> "scope", g |-> "mount"]
SomeCompanions == [s |-> "s_dir"]
SomeGround ==
    [p \in DOMAIN SomeDirectories |->
        Node(IF p \in {"r1", "r2", "s", "s1", "f", "g"} THEN "file" ELSE "dir",
             IF p \in {"mount", "g"} THEN "there" ELSE "here",
             IF p = "r1" THEN "s" ELSE "none")]

\* An irreversible one, one that is not, and one nothing is recommended of.
SomeViews ==
    <<[outcome |-> "recommended", reversibility |-> "irreversible"],
      [outcome |-> "recommended", reversibility |-> "fully_reversible"],
      [outcome |-> "observation_only", reversibility |-> "irreversible"]>>

\* Of the rest of what is asked, what others could put in the way.
SomeClaimants ==
    [codex |-> {"detect", "inventory_map", "project_attribution", "session_graph", "native_delete_capability",
                "retention_capability"},
     claude |-> {"detect", "session_graph", "activity_state", "native_delete_capability"},
     manifest |-> {"detect", "inventory_map", "explain"},
     disk |-> {"reclaim"}]
Up   == <<".", ".">>
ConfFile == <<<<"c">>>>
LogDir == <<<<"l">>>>
SomeMarkers ==
    [codex |-> {"auth.json", "skills", "rules"}, claude |-> {"settings.json", "projects"},
     manifest |-> {ConfFile, LogDir}, disk |-> {}]

Strings(letters, length) == UNION {[1 .. n -> letters] : n \in 1 .. length}
SomeStock == {<<t>> : t \in Strings({"a", "b"}, 4)} \cup {<<<<"c">>, <<"a">>>>, <<<<"c">>, <<"b">>>>}
\* Nothing, the root, a directory below it, or one file.
SomeUnreadable == {{}, {<<>>}, {<<<<"c">>>>}} \cup {{<<t>>} : t \in Strings({"a", "b"}, 2)}

RootOf(n, ways, below) ==
    [name |-> n, plain |-> TRUE, env |-> {ways}, full |-> TRUE, subdir |-> below, default |-> <<<<".", "d">>>>,
     markers |-> <<[path |-> ConfFile, probe |-> "nonempty_file", identifying |-> TRUE],
                   [path |-> LogDir, probe |-> "dir", identifying |-> FALSE]>>]
ArtifactOf(n, pattern) == [root |-> n, category |-> "session", glob |-> pattern]
ManifestOf(r, patterns) == [version |-> 1, id |-> "p", roots |-> r, artifacts |-> patterns]
Plain  == ManifestOf(<<RootOf("one", "VAR", {})>>, <<ArtifactOf("one", <<<<"a", "*">>>>)>>)
Second == [RootOf("two", "VAR2", {<<<<"b">>>>}) EXCEPT !.markers = SubSeq(@, 1, 1)]

\* A manifest for each fault, one of two roots, and one for each pattern.
SomeManifests ==
    {Plain, [Plain EXCEPT !.roots = <<@[1], Second>>, !.artifacts[1].root = "two"],
     [Plain EXCEPT !.version = 2], [Plain EXCEPT !.id = ""], [Plain EXCEPT !.roots = <<>>],
     [Plain EXCEPT !.roots[1].plain = FALSE], [Plain EXCEPT !.roots = @ \o @],
     [Plain EXCEPT !.roots[1].env = {""}], [Plain EXCEPT !.roots[1].subdir = {<<Up>>}],
     [Plain EXCEPT !.roots[1].default = <<<<"a">>, Up>>],
     [Plain EXCEPT !.roots[1].markers[1].path = <<<<"/">>>>],
     [Plain EXCEPT !.artifacts[1].root = "two"], [Plain EXCEPT !.artifacts[1].glob = <<Up>>],
     [Plain EXCEPT !.artifacts[1].glob = <<<<"*">>, <<"b">>>>]}
    \cup {ManifestOf(<<[RootOf("one", "VAR", {}) EXCEPT !.markers = <<>>]>>,
                    <<ArtifactOf("one", <<p>>)>>) : p \in Strings({"a", "b", "*"}, 4)}

\* One mount over another, at the same place and below.
SomeMounts ==
    {<<[at |-> <<>>, fs |-> a], [at |-> <<"h">>, fs |-> b], [at |-> c, fs |-> d]>> :
        a, b, d \in {"ext4", "btrfs"}, c \in {<<"h">>, <<"h", "k">>}} \cup {<<>>}
SomePaths == {<<"h", "k", "f">>, <<"h", "g">>, <<"e">>}
=============================================================================
