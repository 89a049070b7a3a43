SPECIFICATION Spec
CONSTANTS
    t1 = t1
    t2 = t2
    j1 = j1
    j2 = j2
    j3 = j3
    u1 = u1
    u2 = u2
    u3 = u3
    NoText = NoText
    Types <- OnlyText
    Texts <- TwoTexts
    EditTexts <- TwoTexts
    Jobs <- TwoJobs
    Users <- TwoUsers
    Operations <- OnlyEdit
    MaxDeliveries = 1
    MaxRetries = 1
    MaxFaults = 0
    MaxLost = 0
SYMMETRY Symmetry
PROPERTIES
    TextIsTheOwners
CHECK_DEADLOCK FALSE
