CONSTANTS
    w1 = w1
    w2 = w2
    a1 = a1
    a2 = a2
    h1 = h1
    h2 = h2
    None = None
    Unusable = Unusable
    Workers = {w1}
    Attachments = {a1, a2}
    Url <- Urls
    AllowLists <- Lists
    Severity <- Texts
    Scores = {0, 80}
    MaxJobs = 1
    MaxRestarts = 0
SPECIFICATION DocumentsSpec
INVARIANTS
    RefusalIsVisible
CHECK_DEADLOCK FALSE
