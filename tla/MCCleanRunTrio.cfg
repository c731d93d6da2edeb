CONSTANTS
    Claude <- MCNobody
    Codex <- MCTrio
    Shielded <- MCNobody
    Cutoff = 2
    Now = 2
    Families <- MCTrioFamily
    FlagChoices <- MCOrdinary
    Channel = "stable"
    MaxChanges = 0
    MaxRuns = 1
SPECIFICATION Spec
CHECK_DEADLOCK FALSE
INVARIANTS
    RecentMemberProtectsTree
