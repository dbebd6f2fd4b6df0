CONSTANTS
    Frames <- MCFrames
    Selections = {"none"}
SPECIFICATION ChecksSpec
INVARIANT PacksAreAuthoritative
CHECK_DEADLOCK FALSE
