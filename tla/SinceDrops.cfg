CONSTANTS
    MaxTime = 2
    MaxRisks = 2
    MaxChanges = 1
    MaxEvents = 2
    MaxRows = 2
SPECIFICATION TimelineSpec
CHECK_DEADLOCK FALSE
INVARIANTS
    SinceDropsOlderOnly
