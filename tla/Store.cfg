CONSTANTS
    c1 = c1
    c2 = c2
    a = a
    a1 = a1
    b = b
    r1 = r1
    r2 = r2
    Credential = {c1, c2}
    SessionKey = {a, a1, b}
    Owner <- OwnerMap
    Response = {r1, r2}
    MaxEntries = 2
    MaxSessions = 2
    TombstoneCap = 1
    TTL = 1
    MaxRef = 3
    MaxTime = 2
SPECIFICATION HSpec
CONSTRAINT Alternating
CHECK_DEADLOCK FALSE
INVARIANTS
    TypeOK
    PartitionsAgree
    Bounded
    RefsDistinct
    MissExplained
    Truthful
    RecentStays
PROPERTIES
    KeepsShelf
