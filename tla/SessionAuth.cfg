CONSTANTS
    c1 = c1
    c2 = c2
    c3 = c3
    a = a
    a1 = a1
    b = b
    c = c
    w1 = w1
    r1 = r1
    NoKey = NoKey
    Credential = {c1, c2, c3}
    SessionKey = {a, a1, b, c}
    Owner <- OwnerMap
    Response = {r1}
    Worker = {w1}
    MaxEntries = 1
    MaxSessions = 2
    TombstoneCap = 1
    TTL = 2
    AuthTTL = 1
    AuthMax = 2
    MaxRef = 1
    MaxTime = 2
SPECIFICATION GFairSpec
CHECK_DEADLOCK FALSE
INVARIANTS
    GTypeOK
    EvictionWipes
PROPERTIES
    EvictionSparesOthers
    EvictionJustified
    RequestsAnswered
