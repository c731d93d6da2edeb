SPECIFICATION StoreSpec
SYMMETRY Processes
CONSTANTS
    Workloads = {"ledger", "memory", "cache", "open", "layers"}
    Writers = {w1, w2}
    KindsUsed = {"quarantined", "purged"}
    MaxLedgerEvents = 1
    MaxAppends = 3
    Samplers = {s1, s2}
    Scopes = {k1}
    Values = {0, 1}
    Hour = 1
    Day = 2
    Recent = 1
    Medium = 2
    Long = 3
    MaxRawSamples = 1
    MaxTime = 4
    SampleTimes = {0, 1}
    MaxSamples = 3
    Artifacts = {a1, a2}
    Tokens = {t1, t2}
    Facts = {f1}
    MaxRows = 1
    MaxBuilds = 2
    Openers = {o1, o2, o3}
    MaxMigrations = 2
    Managers = {m1}
    DegradedCeiling = 0
    LayerBound = 1
INVARIANTS
    EachEventOnce
    BudgetAtRest
    NothingLostOrCountedTwice
    TiersMatchAges
    ReuseNeedsAKeyOfThisRow
    SchemaMatchesVersion
    SomeoneOpens
    ResetTellsWhatIsLeft
CHECK_DEADLOCK FALSE
