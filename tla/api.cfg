CONSTANTS
    Analyses = {a, b}
    Exports = {e, f}
    Saves = {s, t}
    Servers = {u}
    Designs = {c, d}
    Configurations = {x}
    MaxCompiles = 1
    Nobody = Nobody
    Builds = {m, n}
    FirstBuild = m
    MaxEdits = 1
    MaxLost = 1
    NoBuild = NoBuild
    SaveTargets <- MCSaveTargets
    EditTargets <- MCEditTargets
    DropTargets <- MCDropTargets
    ProjectFiles = {"f", "g"}
    NoWriter = NoWriter
    Kind <- MCKind
    Length <- MCLength
    TensionOnly = {"n"}
    Restrains <- MCRestrains
    Rank <- MCRank
    Compiled <- MCCompiled
    Saved <- MCSaved
    Frames <- MCFrames
    Selections = {"none", "sls", "uls", "gone"}
    Scripted <- MCScripted
    Statements <- MCStatements
    MaxDepartures <- MCMaxDepartures
    Declaration = "TERTIUS_STRUCTURAL"
    Close = 1
    Workbenches = {e1}
    Patchers = {p1}
    Places <- MCPlaces
    Sizes = {6}
    Bearings = {0, 22}
    Heights = {3, 10}
    Regions = {"A", "C"}
    Recurrences <- MCRecurrences
    RegionSpeed <- MCRegionSpeed
    LevelRecurrence <- MCLevelRecurrence
    StarterDirection <- MCStarterDirection
    StarterClimate <- MCStarterClimate
    HeightRows <- MCHeightRows
    HeightFactor <- MCHeightFactor
    Multiplier <- MCMultiplier
    FineHeights = {10}
    Overlay <- MCOverlay
    TerrainAt <- MCTerrainAt
    Uploads <- MCUploads
    NewSite <- MCNewSite
    MaxSiteEdits = 3
    Sheds <- MCSheds
    WindSites <- MCWindSites
    WindSettings <- MCWindSettings
    Pitch <- MCPitch
    Prompts = {"short", "long", "blank"}
    BlankPrompt = "blank"
    TurnCost <- MCTurnCost
    LineCost <- MCLineCost
    MaxTurns = 2
    MaxSummary = 3
    MaxRendered = 6
    MaxRows = 3
    Legacies <- MCLegacies
    MaxChats = 6
    NoContext = NoContext
SPECIFICATION Spec
INVARIANTS
    NoDuplicateSolve
    ReportIsOfReviewed
    SnapshotIsWhole
    CaptureIsSound
    BracesReachGround
    CertificateIsEarned
    DeclarationIsManifest
    ManifestIsCaptured
    DeclaredIsDerived
    SiteIsSound
    WindIsCarried
    HistoryIsTold
PROPERTIES
    RequestsAreAnswered
    BuildsEnd
    WritesEnd
CONSTRAINT Bounds
ACTION_CONSTRAINT EachOnce
CHECK_DEADLOCK FALSE
