CONSTANTS
    Timeout = 2
    PollInterval = 2
SPECIFICATION SearchSpec
CHECK_DEADLOCK FALSE
INVARIANTS
    NoKnownOrphan
