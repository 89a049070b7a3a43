SPECIFICATION Spec
CONSTANTS
    p1 = p1
    p2 = p2
    v1 = v1
    v2 = v2
    d1 = d1
    d2 = d2
    d3 = d3
    r1 = r1
    r2 = r2
    r3 = r3
    u1 = u1
    u2 = u2
    w1 = w1
    w2 = w2
    j1 = j1
    j2 = j2
    None = None
    Paths <- OneFile
    Versions <- TwoVersions
    Docs <- TwoDocs
    Rows <- TwoRows
    Runs <- TwoRuns
    Drains <- OneDrain
    Jobs <- OneJob
    MaxAttempts = 1
    MaxPushes = 1
    MaxMishaps = 1
SYMMETRY Symmetry
INVARIANTS
    OneDocumentPerFile
    PendingIsCovered
    RecordedIsContent
CHECK_DEADLOCK FALSE
