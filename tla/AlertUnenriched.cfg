CONSTANTS
    c1 = c1
    c2 = c2
    loop = loop
    n1 = n1
    n2 = n2
    al1 = al1
    al2 = al2
    al3 = al3
    open = open
    closed = closed
    NoStatus = NoStatus
    Deferred = Deferred
    u1 = u1
    h1 = h1
    w1 = w1
    w2 = w2
    o1 = o1
    Client = {c1, c2}
    Loop = loop
    Refresher = {w1}
    MaxVersion = 2
    Tenant = {c1, c2}
    Analyst = {n1, n2}
    Alert = {al1, al2, al3}
    ThirdParty = {al1, al2}
    AlertStatus = {open, closed}
    Updater = {u1}
    Host = {h1}
    Responder = {w1, w2}
    BaseCommand = {"ls", "echo", "runscript", "format"}
    DefaultAllowed = {"ls"}
    ExtraAllowed = {"echo", "runscript"}
    HardDenied = {"runscript"}
    Operator = {o1}
    k1 = k1
    e1 = e1
    e2 = e2
    f1 = f1
    f2 = f2
    v1 = v1
    v2 = v2
    i1 = i1
    Case = {k1}
    Editor = {e1, e2}
    Field = {f1, f2}
    Value = {v1, v2}
    Item = {i1}
    MaxCaseVersion = 3
    t1 = t1
    t2 = t2
    t3 = t3
    Worker = {t1, t2, t3}
    NoWorker = NoWorker
    MaxCalls = 1
    MaxTokens = 3
    d1 = d1
    d2 = d2
    p1 = p1
    p2 = p2
    m1 = m1
    m2 = m2
    IacRule = {d1, d2}
    Path = {p1, p2}
    Importer = {m1, m2}
    NoFile = NoFile
    Partial = Partial
SPECIFICATION ToolSpec
INVARIANT FailureHasACause
