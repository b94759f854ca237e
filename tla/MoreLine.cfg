CONSTANTS
    MaxMatches = 4
    MaxQueryLimit = 3
    RenderedFirst = 2
    TextSize = 3
    DataSize = 2
    LargeThreshold = 6
SPECIFICATION QuerySpec
CHECK_DEADLOCK FALSE
INVARIANTS
    MoreLineFollowable
