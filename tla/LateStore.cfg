CONSTANTS
    c1 = c1
    c2 = c2
    c3 = c3
    c = c
    a = a
    a1 = a1
    b = b
    w1 = w1
    r1 = r1
    NoKey = NoKey
    Credential = {c1, c2}
    SessionKey = {a, b}
    Owner <- TwoTenants
    Response = {r1}
    Worker = {w1}
    MaxEntries = 1
    MaxSessions = 2
    TombstoneCap = 1
    TTL = 1
    AuthTTL = 1
    AuthMax = 1
    MaxRef = 1
    MaxTime = 2
SPECIFICATION GSpec
CHECK_DEADLOCK FALSE
INVARIANTS
    DataDoesNotOutliveCredential
