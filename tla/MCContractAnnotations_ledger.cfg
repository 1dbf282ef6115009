CONSTANTS
    x = x
    y = y
    g1 = g1
    g2 = g2
    whole = whole
    draft = draft
    ann = ann
    nobody = nobody
    None = None
    Contracts = {x}
    Rules = {whole, draft}
    Whole = whole
    Owners = {nobody, ann}
    Nobody = nobody
    Scores = {1, 2}
    Pages = {g1}
    MaxWrites = 2
    Findings <- AboutX
SPECIFICATION Spec
INVARIANTS
    TypeOK
    TrailTellsWhatHolds
    OnlyDismissalsPin
PROPERTIES
    DismissedAsSeen
CHECK_DEADLOCK FALSE
