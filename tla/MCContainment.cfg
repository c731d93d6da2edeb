SPECIFICATION Spec
CONSTANTS
    project = project
    owner = owner
    Publishers <- MCPublishers
    Project = project
    Notices <- MCNotices
    Commands = {c1, c2}
    Cleaners = {d1}
    None = None
    MaxRecords = 3
    MaxListed = 4
    Target <- MCTarget
    MaxPublishers = 2
    MaxEvents = 2
    MaxEdits = 1
SYMMETRY Symmetry
INVARIANTS
    HistoryReplays
    LaterDeletionsBound
    ReportsAreTrue
PROPERTY ImplementsRegister
CHECK_DEADLOCK FALSE
