SPECIFICATION SuiteSpec
CONSTANTS
    Parts = {"transfer", "channel", "sync", "copies", "history", "merge", "views", "chat", "requests"}
    Data = {"a", "b"}
    Thread = {"t1", "t2"}
    Chunks = 1
    Pieces = 4
    MaxDatas = 1
    Window = 2
    MaxFails = 1
    MaxLoad = 2
    Opening = {"o1"}
    Server = {"s1", "s2"}
    Grants <- JustBoth
    MaxLosses = 1
    Chunk = {1, 2}
    AutoFetch = TRUE
    MaxFaults = 1
    MaxStops = 1
    MaxCuts = 0
    MaxAsks = 1
    Holder = {"h1", "h2"}
    Item = {"x"}
    Slice = {1}
    Primary = {"h1", "h2"}
    Entry = {"h1"}
    Quota = 1
    MaxUploads = 1
    MaxBreaks = 1
    MaxReleaseBreaks = 1
    Founder = {"w"}
    Newcomer = {"n"}
    Writer = {"w"}
    Pruner = {"n"}
    Object = {"o", "p"}
    Changes <- OneOrBoth
    KeptVersions = 1
    MaxReturned = 2
    MaxLog = 5
    Tags = 3
    Replica = {"r"}
    Kinds = {"update", "removal", "full", "full_removal", "full_without", "unread"}
    MaxHead = 9
    Endpoints = 2
    Reachable = {1}
    Chat = {"c", "d"}
    Invited = {"d"}
    Waiter = {"w"}
    MaxCalls = 3
    MaxDrops = 1
    ShortDelays = 1
    Packet = {"p", "q", "u"}
    Running = {"s"}
    Home <- OneAtT
    Registered = {"p", "q"}
    Forged = {"q"}
    Unreadable = {"u"}
    MaxRows = 2
    MaxRequestBreaks = 1
    MaxTries = 1
INVARIANTS
    SuiteTypeOK
    AnswersTheirOwn ChunksInOrder
    CacheIsHeld FilesAsClaimed OnlyCopyKept
    StoreCounts ListedIsHeld
    BoundsBracketTheFork PullsWhatIsMissing EqualHeadsTellForks
    AttachedAreTold ListedChatsExist
    CutKeepsHistory MemberIfEffective
CHECK_DEADLOCK FALSE
