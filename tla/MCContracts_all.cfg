CONSTANTS
    w1 = w1
    w2 = w2
    a1 = a1
    h1 = h1
    h2 = h2
    c1 = c1
    c2 = c2
    c3 = c3
    m1 = m1
    m2 = m2
    p1 = p1
    p2 = p2
    None = None
    Unusable = Unusable
    Unreadable = Unreadable
    Invented = Invented
    Workers = {w1, w2}
    Attachments = {a1}
    Url <- MCUrl
    AllowLists <- MCAllowLists
    Severity <- MCSeverity
    Scores = {0, 80}
    MaxJobs = 2
    MaxRestarts = 1
    Order <- MCOrder
    Documents <- MCDocuments
    Nothing = Nothing
    Marks = {m1, m2}
    MaxRefs = 2
    PerContract = 2
    ClauseCap = 2
    TotalCap = 3
    BodyCap = 1
    MaxQuestions = 1
    Callers = {p1, p2}
    Assets <- MCAssets
    Keys = {"k1", "k2", "k3"}
    Lifetime = 0
    MaxDrafts = 2
    MaxCalls = 4
    MaxTime = 1
    Tables <- MCTables
    Days <- MCDays
    Budgets = {0, 3}
    MaxItems = 2
SPECIFICATION MCSpec
SYMMETRY Symmetry
INVARIANTS
    AllTypesOK
    SignalsTellWhatWasRead
    JobsNameTheirSummaries
    OnlyMatchingFragmentsLeave
    LossIsTold
    ReferencesLeadToClauses
    OverIsOver
    TrailIsComplete
    WorstFirst
PROPERTIES
    WaitingNeverHelps
CHECK_DEADLOCK FALSE
