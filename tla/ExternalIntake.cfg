SPECIFICATION Spec
CONSTANTS
    k1 = k1
    e1 = e1
    e2 = e2
    e3 = e3
    t1 = t1
    t2 = t2
    None = None
    Keys <- OneKey
    Deliveries <- ThreeDeliveries
    Retries <- TwoRetries
    MaxMishaps = 2
SYMMETRY Symmetry
INVARIANTS
    DeliveredOnce
    OneDocumentPerItem
    LinkIsSound
    SettledIsAnswered
CHECK_DEADLOCK FALSE
