SPECIFICATION Spec
CONSTANTS
    Moves = {m1, m2}
    Artifacts = {a1, a2}
    Dests = {d1}
    None = None
    MaxTroubles = 2
SYMMETRY Symmetry
INVARIANTS
    ArtifactInOnePlace
    RecordsSurvive
    SuccessIsDurable
    FailureLeavesNothing
    VerifiedIsSealed
CHECK_DEADLOCK FALSE
