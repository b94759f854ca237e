CONSTANTS
    Worker = {t1, t2}
    NoWorker = NoWorker
    MaxCalls = 2
    MaxTokens = 2
SPECIFICATION RefreshSpec
CHECK_DEADLOCK FALSE
INVARIANTS
    NoDuplicateRequest
