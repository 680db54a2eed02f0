CONSTANTS
    Guest = {u1}
    Owner = boss
    MaxInvites = 2
    MaxSessions = 2
    MaxLaunches = 1
    MaxRemovals = 1
    Person = {a1, a2}
    Talk = {g1, g2}
    FollowTalk = g2
    MaxShares = 1
    MaxChanges = 2
    Maker = {m1, m2}
    Boss = boss
    Key = {key1}
    MaxRequests = 2
    MaxToggles = 2
    MaxStarts = 1
    FolderId = {"f1", "f2"}
    FolderName = {"a", "b"}
    Placed = {d1}
    MaxPosition = 3
    MaxUnsaved = 1
    Page = {w1, w2}
    Element = {e1, e2}
    QueueSize = 1
    MaxEdits = 2
    Member = {a1, a2}
    FollowQueue = 2
    MaxMoves = 3
    SlideNumber = {1, 2, 3}
    MaxReorders = 2
    MaxMade = 1
    MaxChoices = 1
    Transfer = {t1, t2}
    Slug = {g1, g2}
    MaxSlides = 3
    Refresher = {r1, r2}
    MaxSource = 2
    MaxOwn = 1
    Slide = {s1, s2}
    Content = {c1, c2}
    MaxExports = 2
    Sweeper = {r1, r2}
    Inside = {p1}
    Outside = {p2}
    Pass = {3, 4}
    Tree = {p1, p2}
    MaxHandEdits = 1
    Wanted = {q1}
    Picture = {h1}
    VideoId = {x1, x2}
    Clip = {y1, y2}
    NoClip = none
    OldClip = y1
    Ingester = {"command"}
    MaxIngests = 1
    MaxInterrupts = 1
    Call = {l1, l2}
    MaxConcurrentCalls = 1
    Conversation = {n1, n2, n3}
    MaxClears = 2
    Speaker = {s1, s2}
    MaxChats = 2
    MaxTurns = 1
    InboxSize = 3
    MaxStops = 1
    v1 = v1
    v2 = v2
    d1 = d1
    k1 = k1
    none = none
    Event <- MCEvent
    NoKey = none
    EventQueue = 2
    EventBatch = 2
    DetailLimit = 2
    MaxOutages = 1
    Command = {p1, p2}
    MaxLogins = 2
    MaxRenewals = 3
    MaxLosses = 1
    Releaser = {p1, p2}
    MaxContent = 2
    MaxOperations = 3
    MaxFaults = 1
    FilePath = {p1, p2}
    Bytes = {b1, b2}
    NoFile = nofile
    Reference = ref
    Gateway = {r1, r2}
    EditedFile = {p1, p2}
    Absence = absent
    MaxEditions = 2
SPECIFICATION StudioSpec
INVARIANTS
    StudioTypeOK
    TeamKept
    DeckFilesKept
    CatalogueKept
    PagesKept
    SlidesKept
    SandboxKept
    LibraryKept
    StageKept
    BriefKept
    EventsKept
    CloudKept
PROPERTIES
    RejoinNeedsInvitation
CHECK_DEADLOCK FALSE
