CONSTANTS
    x = x
    y = y
    g1 = g1
    g2 = g2
    whole = whole
    draft = draft
    ann = ann
    nobody = nobody
    None = None
    Contracts = {x, y}
    Rules = {whole}
    Whole = whole
    Owners = {nobody, ann}
    Nobody = nobody
    Scores = {1, 2}
    Pages = {g1}
    MaxWrites = 2
    Findings <- OnlyThePage
SPECIFICATION Spec
INVARIANTS
    RowShowsItsOwnAnnotation
CHECK_DEADLOCK FALSE
