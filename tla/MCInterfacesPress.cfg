SPECIFICATION InterfacesSpec
CONSTANTS
    Uses = {"terminal"}
    Keys = {""}
    PinIds = {""}
    WidthLimit = 99
    Catalogue <- SomeArtifacts
    SizesOf = {1, 2, 3}
    MaxTouches = 2
    Dirs = {"top", "home", "claude", "elsewhere", "outside", "new"}
    MaxSwaps = 2
    MaxWrites = 2
    MaxFaults = 1
    Objects0 = {"s1", "s2"}
    MaxEdits = 2
    Roots3 <- SomeRoots
    InDirectory <- SomeDirectories
    Stands <- SomeGround
    Nowhere = Nowhere
    Rollouts = {"r1", "r2"}
    Companion <- SomeCompanions
    MaxChanges = 2
    MaxTroubles3 = 1
    Views <- SomeViews
    ReportsReleases = TRUE
    MaxSelected = 5
    Claimants <- SomeClaimants
    Movable <- SomeMarkers
    Manifests <- SomeManifests
    Overrides = {"none", "set"}
    Standing2 = {"object", "tree", "crowded"}
    Stock <- SomeStock
    Mounts <- SomeMounts
    Paths <- SomePaths
    MaxMoves = 2
    Unreadable <- SomeUnreadable
    MaxProbeEntries = 1
    MaxGlobEntries = 31
INVARIANT TwoPresses
CHECK_DEADLOCK FALSE
