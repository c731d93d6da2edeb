---------------------------- MODULE MCContainment ----------------------------
(* Two publishers.  The project publishes a first notice twice under one    *)
(* sequence (two texts) and then a second one; the owner's own publisher    *)
(* repeats an entry of the project.                                         *)
EXTENDS Containment, TLC

CONSTANTS project, owner

\* An entry of the provider: of all versions, actions and platforms, or of some.
Entry(incident, ceiling, versions, actions, platforms) ==
    [incident |-> incident, ceiling |-> ceiling, versions |-> versions, actions |-> actions,
     platforms |-> platforms, invariants |-> {"SI-001"}]
Notice(publisher, sequence, entries) ==
    [publisher |-> publisher, sequence |-> sequence, entries |-> entries]

MCPublishers == {project, owner}

First   == Notice(project, 1, {Entry("I1", "recommend", {}, {}, {})})
Reissue == Notice(project, 1, {Entry("I1", "observe", {}, {{"archive"}}, {})})
Second  == Notice(project, 2, {Entry("I1", "observe", {{"1.0"}}, {}, {}),
                               Entry("I2", "recommend", {}, {}, {{"macos"}})})
Owners  == Notice(owner, 1, {Entry("I1", "recommend", {}, {}, {})})

\* One with an empty list.
EmptyList == Notice(owner, 2, {Entry("I2", "observe", {{}}, {}, {})})

MCTarget == [version |-> {}, action |-> "delete", platform |-> "linux"]

MCNotices == {First, Reissue, Second, Owners, EmptyList}

Symmetry == Permutations(Commands)
=============================================================================
