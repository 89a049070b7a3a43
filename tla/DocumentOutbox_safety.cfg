SPECIFICATION Spec
CONSTANTS
    d1 = d1
    d2 = d2
    r1 = r1
    r2 = r2
    r3 = r3
    w1 = w1
    w2 = w2
    NoDoc = NoDoc
    NoRow = NoRow
    Docs <- OneDoc
    Requests <- TwoRequests
    Drains <- TwoDrains
    Kinds <- AllKinds
    MaxAttempts = 2
    BatchLimit = 1
    MaxFaults = 2
    MaxCrashes = 1
    MaxDeletes = 1
SYMMETRY Symmetry
INVARIANTS
    ClaimExclusive
    FailedIsExhausted
    OneActiveRow
CHECK_DEADLOCK FALSE
