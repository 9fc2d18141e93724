CONSTANTS
    MaxFiles = 2
    NoSecret = NoSecret
    MaxTime = 2
    MaxCalls = 2
    MaxFaults = 1
    Users = {ann, bob}
    Photos = {p}
    Crawls = {c1, c2}
    MaxStarts = 2
    MaxTroubles = 2
    Names = {1, 2, 3, 4, 5}
    Vocabulary = {1, 2, 3}
    Marked = {5}
    Twins <- TwinPairs
    MaxUsage = 1
    Workers = {v, w}
    Places = {paris, rome}
    Nobody = Nobody
    MinInterval = 2
    MaxLocates = 3
    MaxLost = 1
    Readers = {r1, r2}
    TTL = 2
    MaxLoad = 1
    MaxClock = 5
    MaxRebuilds = 1
    MaxFailedLoads = 1
    Jobs = {j1, j2, j3}
    Watched = j1
    Threads = {t1, t2}
    MaxTouches = 2
    MaxHung = 1
    Polls = {p1, p2}
    MaxClicks = 3
    MaxFailedCalls = 2
SPECIFICATION ServicesSpec
INVARIANTS
    ServicesTypeOK
    FreshFilesStayVisible
    HookAccepted
    CompleteWhenAlone
    ResolvesAsMeant
    ComposeKeepsAliases
    CaptionsGrow
    RequestsSpaced
    LookedUpOnce
    MapsAreRecent
PROPERTIES
    FreshFilesAreSeen
    ScansEnd
    AutoclusterEnds
    NobodyStarves
    WidgetSettles
CHECK_DEADLOCK FALSE
