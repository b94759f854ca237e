CONSTANTS
    MaxRecords = 3
    MaxSize = 4
    MaxPage = 3
    Budget = 3
    Timeout = 5
    PollInterval = 2
    MaxListed = 5
    ListingCap = 3
    Rendered = 2
    CompactSize = 1
    FullSize = 2
    LargeSize = 4
    MaxRule = 4
    IdBatch = 2
    RuleBatch = 2
    MaxRules = 2
    MaxRuleChanges = 2
    MaxTime = 2
    MaxRisks = 2
    MaxChanges = 1
    MaxEvents = 2
    MaxRows = 2
    Entity = {1, 2}
    First = 1
    MaxLimit = 2
    MaxTypes = 4
    MaxMatches = 4
    MaxQueryLimit = 3
    RenderedFirst = 2
    TextSize = 3
    DataSize = 2
    LargeThreshold = 6
    MaxAlerts = 4
    MaxAlertPage = 2
    MaxLeft = 1
SPECIFICATION ReadSpec
CHECK_DEADLOCK FALSE
INVARIANTS
    ReadTypeOK
    InOrderOnce
    EndMeansAll
    GivenUpIsStopped
    TimelineIsNewestPart
    ListingCounts
    ReportIsWhole
    HintsLeadThrough
    AnswerIsHonest
    CutIsReadable
    OffsetsLeadToAll
PROPERTIES
    ReadsEnd
