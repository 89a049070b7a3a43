SPECIFICATION Spec
CONSTANTS
    Moved = {"notes", "cache", "topics", "papers", "shelves", "sessions", "chats", "notion", "cards", "goals", "drafts", "chunker", "answering", "compare", "graph", "conflicts", "statistics", "gaps", "pictures", "vectors", "evaluation", "metrics", "bot", "writing", "making"}
    Texts = {a, b, blank}
    Blank = blank
    Writers = {w1, w2, w3}
    NoNote = NoNote
    Requests = {r1, r2}
    Workers = {j1, j2}
    MaxJobRetries = 1
    MaxCacheFaults = 1
    Names = {n1, n2}
    TopicDocs = {d1}
    NoOverride = NoOverride
    Papers = {p1, p2}
    Shelves = {f1}
    Tags = {t1}
    Tasks = {k1, k2}
    MaxShares = 2
    Nothing = Nothing
    Devices = {m1, m2}
    MaxSecond = 2
    NoToken = NoToken
    Users = {u1, u2}
    Chats = {c1, c2}
    Codes = {x1, x2}
    MaxBindings = 2
    Workspaces = {s1, s2}
    Nobody = Nobody
    Clients = {q1, q2}
    GoalTopics = {g1, g2}
    MaxReviews = 3
    MaxVersions = 3
    NoTopic = NoTopic
    ChunkTexts <- ShortTexts
    MaxChunkChars = 4
    Passages = {a1, a2, a3}
    Limit = 3
    TopK = 2
    FullTop = 1
    Fallbacks = 1
    Dimensions = {y1}
    MaxSources = 3
    PerSide = 1
    GraphDocs = {d1, d2}
    GraphTopics = {g1, g2}
    Folders = {f1, f2}
    Recomputes = {v1, v2}
    Unfiltered = Unfiltered
    Hidden = Hidden
    Sources = {d1, d2}
    Binders = {b1, b2}
    Detections = {v1, v2}
    Everything = Everything
    StatDocs = {d1, d2}
    ColdDays = 1
    ForgottenDays = 2
    MonthDays = 1
    FirstMonth = 10
    LastDay = 3
    Window = 2
    Subjects = {g1}
    Areas = {1, 2, 3, 4}
    Matches <- GapMatches
    Page = 2
    MaxHoldings = 3
    Width = 11
    Height = 3
    Pictures <- Drawings
    MinWidth = 3
    MinHeight = 3
    MinArea = 9
    MaxFill = 90
    MinBorder = 25
    MinLength = 3
    Close = 1
    Pieces = {i1, i2}
    Callers = {q1, q2}
    ListLength = 2
    Missing = Missing
    Seeds <- TwoFolders
    Attempts = 2
    Foreign = Foreign
    MaxShown = 2
    MaxFailures = 2
    Processes = {j1, j2}
    Calls = {q1, q2}
    MaxLosses = 1
    Items = {i1}
    PairMessages = {p1, p2}
    MaxBotFaults = 1
    Materials <- MaterialList
    Foreigner = "theirs"
    DraftFolders = {f1}
    DraftTags = {t1}
    NoScope = NoScope
    FallbackLimit = 1
    Decks <- DeckList
    Suggestions <- SomeQuestions
    NoQuestion = " "
    Makers = {q1, q2}
    CardLimit = 2
INVARIANTS
    HistoryIsKept
    
    
    SessionsHold
    
    
    ChunksCoverText
    ExtractionIsExact
    
    CitationsFollowScores
    
    
    ConflictsAreBacked
    
PROPERTIES
    ShownSettles
    OwnerSeesEffect
    SourcesNeverHurt
CONSTRAINT Excusable
CHECK_DEADLOCK FALSE
