SPECIFICATION Spec
CONSTANTS
    t1 = t1
    t2 = t2
    j1 = j1
    j2 = j2
    j3 = j3
    u1 = u1
    u2 = u2
    u3 = u3
    NoText = NoText
    Types <- AllTypes
    Texts <- TwoTexts
    EditTexts <- TextsOrNone
    Jobs <- TwoJobs
    Users <- TwoUsers
    Operations <- AllOperations
    MaxDeliveries = 2
    MaxRetries = 1
    MaxFaults = 1
    MaxLost = 1
SYMMETRY Symmetry
INVARIANTS
    SettledIsFinal
    SettledIsIndexed
PROPERTIES
    DeletedStaysDeleted
    LifeIsKept
CHECK_DEADLOCK FALSE
