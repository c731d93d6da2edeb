CONSTANTS
    Claude <- MCNobody
    Codex <- MCCodex
    Shielded <- MCNobody
    Cutoff = 2
    Now = 2
    Families <- MCFamilies
    FlagChoices <- MCOrdinary
    Channel = "stable"
    MaxChanges = 0
    MaxRuns = 2
SPECIFICATION Spec
CHECK_DEADLOCK FALSE
INVARIANTS
    RerunRemovesTheRemainder
