CONSTANTS
    Claude <- MCClaude
    Codex <- MCCodex
    Shielded <- MCNobody
    Cutoff = 2
    Now = 2
    Families <- MCFamilies
    FlagChoices <- MCFlagChoices
    Channel = "stable"
    MaxChanges = 1
    MaxRuns = 2
SPECIFICATION Spec
CHECK_DEADLOCK FALSE
INVARIANTS
    OnlyOldTreesRemoved
    EvidenceForEachRemoval
    ExitCodeTruth
