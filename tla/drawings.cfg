CONSTANTS
    Builds = {m}
    MaxEdits = 1
    MaxLost = 0
    NoBuild = NoBuild
SPECIFICATION DrawingsSpec
INVARIANT ServedViewsAreCurrent
CHECK_DEADLOCK FALSE
