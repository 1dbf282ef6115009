CONSTANTS
    c1 = c1
    c2 = c2
    c3 = c3
    p1 = p1
    p2 = p2
    k1 = k1
    k2 = k2
    t1 = t1
    t2 = t2
    a1 = a1
    a2 = a2
    e1 = e1
    e2 = e2
    e3 = e3
    None = None
    Callers = {c1, c2}
    Processes = {p1}
    ProcessOf <- OneProcess
    Keys = {k1, k2}
    Texts = {t1, t2}
    Answers = {a1}
    Entries = {e1, e2}
    Remembers = {TRUE, FALSE}
    RecallLimit = 9
    MaxMemories = 2
    MayCrash = TRUE
SPECIFICATION Spec
INVARIANTS
    TypeOK
    OneThreadPerKey
    AskedOnlyUnanswered
    ConflictMeansOtherText
    RememberedOncePerKey
SYMMETRY AlikeThreads
