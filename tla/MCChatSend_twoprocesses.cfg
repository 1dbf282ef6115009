CONSTANTS
    c1 = c1
    c2 = c2
    c3 = c3
    p1 = p1
    p2 = p2
    k1 = k1
    k2 = k2
    t1 = t1
    t2 = t2
    a1 = a1
    a2 = a2
    e1 = e1
    e2 = e2
    e3 = e3
    None = None
    Callers = {c1, c2, c3}
    Processes = {p1, p2}
    ProcessOf <- TwoProcesses
    Keys = {k1}
    Texts = {t1, t2}
    Answers = {a1, a2}
    Entries = {e1, e2}
    Remembers = {TRUE}
    RecallLimit = 9
    MaxMemories = 0
    MayCrash = TRUE
SPECIFICATION FairSpec
PROPERTIES
    ImplementsExchange
    EveryCallReturns
