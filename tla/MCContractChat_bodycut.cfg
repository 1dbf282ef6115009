CONSTANTS
    c1 = c1
    m1 = m1
    m2 = m2
    Unreadable = Unreadable
    Invented = Invented
    Nothing = Nothing
    Order <- OneContract
    Documents <- TwoArticles
    Marks = {m1, m2}
    MaxRefs = 1
    PerContract = 2
    ClauseCap = 1
    TotalCap = 2
    BodyCap = 1
    MaxQuestions = 1
SPECIFICATION ChatSpec
INVARIANT
    CheckedAgainstWhatWasSent
CHECK_DEADLOCK FALSE
