CONSTANTS
    Deliveries = {1, 2}
    Clock = {1, 2}
    MaxText = 2
    MaxDelta = 3
    MaxPending = 2
    MaxQueued = 1
    MaxEnvelope = 2
    Attempts = 2
    MaxShown = 2
    MaxShownSize = 3
    MaxEvents = 2
    NoExecution = NoExecution
    MaxTurns = 1
    MaxToolCalls = 1
    QueueSize = 1
    ToolIds = {1}
    MaxLines = 3
    Compiles = {1, 2}
    Pods = {p, q}
    Entries = {e, f}
    FirstPod = p
    FaultyEntry = e
    Projects = {x}
    MaxRestored = 1
    MaxFaults = 1
    NoPod = NoPod
    Jobs = {j}
    Replicas = {r}
    Pollers = {o}
    MaxDeliver = 1
    MaxCopies = 1
    MaxVersion = 2
    Singles <- MCSingles
    Parts <- MCParts
    Unmarked = Unmarked
    MaxStatements = 3
    Inquiries = {"a", "b", "c", "d", "e", "v", "w", "o", "p"}
    Paths = {"nsw", "ga", "wind", "overture", "microsoft"}
    Chain <- MCChain
    Referring = {"nsw", "ga"}
    Dropping = {"nsw", "ga", "wind"}
    Sheets = {"nsw"}
    Evidence = {"x", "y"}
    NoFile = "none"
    Empty = "empty"
    Garbled = "garbled"
    MaxRestarts = 1
    Logins = {"sign-in"}
    Calls = {"first", "second"}
    Logouts = {"sign-out"}
    Bearers = {"token"}
    Users = {u}
    UserOf <- MCUserOf
    IdleTime = 2
    LongestTime = 3
    TokenTime = 1
    Skew = 0
    StateTime = 0
    MaxClock = 3
    NoSession = "none"
    Nobody = "nobody"
    Bundles = {"p", "q", "r"}
    Sites = {"a", "b"}
    Home <- MCHome
    Scene <- MCScene
    Links = {l}
    Keys = {"k1", "k2"}
    Views = {v}
    KeptBundles = 1
    MaxTaken = 2
    NoOne = "none"
SPECIFICATION Spec
INVARIANTS
    ShownIsOneExecution
    SuccessSawEverything
    CacheIsSound
    ReplayIsBuilding
    EntriesAreServable
    SyncedIsSearchable
    SessionsAreSound
    ViewsAreWhole
PROPERTIES
    ResultIsLast
    ClosingEnds
    RunEndsClean
    PolledEditsSettle
CONSTRAINT Bounds
CHECK_DEADLOCK FALSE
