CONSTANTS
    r1 = r1
    r2 = r2
    s1 = s1
    s2 = s2
    Refreshers = {r1, r2}
    Cuts <- MCCuts
    LineLimit = 2
    Limit = 8
    Threshold = 2
    Keep = 1
    MaxMessages = 5
    MaxVersions = 3
    Catalogues <- MCCatalogues
    Conversations <- MCConversations
    Summaries = {0, 5}
    Questions = {1, 6, 12}
    RiskItems <- MCRiskItems
    RiskCaps <- MCRiskCaps
    RecentMessageLimit = 2
    RetrievalLimit = 2
    Budget = 10
    Frame = 1
    Base = 2
    JsonLimit = 10
    MessageClip = 4
    MemoryClip = 2
    SummaryClip = 4
    QuestionClip = 5
    Projects = {"p1", "p2"}
    Savers = {s1, s2}
    Versions = {"v1", "v2"}
    Levels = {"low", "high"}
    Hits = {"h1", "h2"}
    Results <- MCResults
    RecentLimit = 2
    MaxRows = 3
    MaxTime = 2
SPECIFICATION MCSpec
SYMMETRY Symmetry
INVARIANTS
    AllTypesOK
    CoversWhatItSays
    KeepsTheBeginning
    RefreshClosesTheGap
    OnlyLiveMemoriesLeave
    OneVoicePerText
    QuestionIsCutLast
    ReadersAgree
    DashboardAddsUp
    DiffTellsWhatIsMissing
CHECK_DEADLOCK FALSE
