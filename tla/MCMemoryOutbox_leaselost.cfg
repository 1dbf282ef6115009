CONSTANTS
    w1 = w1
    w2 = w2
    m1 = m1
    m2 = m2
    m3 = m3
    s1 = s1
    s2 = s2
    Nobody = Nobody
    Forever = Forever
    Memories = {m1, m2}
    ScopeOf <- OneScope
    Workers <- TwoWorkers
    Ttls <- NoExpiry
    LeaseTicks = 1
    MaxAttempts = 2
    Backoff <- MCBackoff
    BatchLimit = 2
    MaxOutbox = 2
    MayCrash = FALSE
SPECIFICATION Spec
PROPERTIES
    LeaseLostKeepsLaterRows
CHECK_DEADLOCK FALSE
