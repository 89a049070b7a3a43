SPECIFICATION FairSpec
CONSTANTS
    q1 = q1
    q2 = q2
    q3 = q3
    None = None
    Questions <- ThreeQuestions
    MaxTurns = 2
    MaxMishaps = 2
    MaxDeletes = 1
INVARIANTS
    CacheIsHistory
    CacheCoversRecords
    
    NoOrphans

    
CHECK_DEADLOCK FALSE
