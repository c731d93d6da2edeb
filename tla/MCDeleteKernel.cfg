SPECIFICATION Spec
CONSTANTS
    Runs = {r1, r2}
    Inodes = {i1, i2, i3}
    None = None
    MaxWrites = 2
    Wsl2 = FALSE
SYMMETRY Symmetry
INVARIANTS
    OnlyConfirmedRemoved
    UnseenWritesSurvive
    NeverOneOfSeveralNames
    OutcomeTruth
    OneWinner
    LiveProviderUntouched
CHECK_DEADLOCK FALSE
