SPECIFICATION SurroundingsSpec
CONSTANTS
    Workloads = {"pressure", "switch", "service", "baseline", "forecast", "remote", "knowledge",
                 "bridge"}
    Owners = {o1, o2}
    Artifacts0 = {a1, a2}
    NaN = NaN
    Readings <- SomeReadings
    MaxTroubles0 = 1
    Platforms = {"linux", "macos", "windows", "other"}
    MaxAttempts = 3
    MaxPolls = 2
    MaxCalls = 2
    MaxTroubles1 = 1
    NotFinite = NotFinite
    Measured = {0, 9, 28}
    Watched = {"session_count"}
    Capacity = 4
    Markers0 = {"sessions", "projects"}
    KnownLayouts = {{"sessions"}, {"sessions", "projects"}}
    MinSpan = 3
    Seeds <- SomeSeries
    MaxPoints = 6
    Instants = {3, 7}
    Controllers = {c1, c2}
    Here = "here"
    Requests <- SomeRequests
    Publishers = {p1, p2}
    PromotedTo = {"untrusted", "builtin_verified"}
    MaxSequence = 1
    MaxClock = 1
    Asks = {"page", "silent", "other_path"}
    Begins = {"nothing", "guess", "plan"}
    MaxPages = 2
    MaxStrangers = 1
    MaxTroubles2 = 1
INVARIANTS
    SwitchHolds
    StaleTrendIsNoForecast
    AcceptedOnce
    PagesAreTrue
    LauncherForgets
PROPERTIES
    NoFlapping
    EnableEnds
    PagesAnswered
CHECK_DEADLOCK FALSE
