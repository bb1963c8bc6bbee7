SPECIFICATION FairSuiteSpec
CONSTANTS
    Parts = {"transfer", "channel", "sync", "copies", "releases", "chat", "requests"}
    Data = {"a"}
    Thread = {"t1", "t2"}
    Chunks = 1
    Pieces = 2
    MaxDatas = 1
    Window = 1
    MaxFails = 1
    MaxLoad = 2
    Opening = {"o1", "o2"}
    Server = {"s1", "s2"}
    Grants <- NoneOrOne
    MaxLosses = 1
    Chunk = {1}
    AutoFetch = TRUE
    MaxFaults = 0
    MaxStops = 1
    MaxCuts = 1
    MaxAsks = 1
    Holder = {"h1", "h2"}
    Item = {"x"}
    Slice = {1}
    Primary = {"h1", "h2"}
    Entry = {"h1"}
    Quota = 1
    MaxUploads = 1
    MaxBreaks = 0
    MaxReleaseBreaks = 1
    Founder = {"w"}
    Newcomer = {"n"}
    Writer = {"w"}
    Pruner = {"n"}
    Object = {"o", "p"}
    Changes <- OneOrBoth
    KeptVersions = 1
    MaxReturned = 2
    MaxLog = 1
    Tags = 1
    Replica = {"r"}
    Kinds = {"update"}
    MaxHead = 0
    Endpoints = 2
    Reachable = {1}
    Chat = {"c"}
    Invited = {}
    Waiter = {"w"}
    MaxCalls = 3
    MaxDrops = 1
    ShortDelays = 1
    Packet = {"p", "q", "r"}
    Running = {"s"}
    Home <- OneAtT
    Registered = {"p", "q"}
    Forged = {"q"}
    Unreadable = {"u"}
    MaxRows = 2
    MaxRequestBreaks = 1
    MaxTries = 1
PROPERTIES
    ServesItsOwner AnswersEveryCall OwedIsUploaded ReleasedIsGone CopiesMade ComesBack RequestsDecided
CHECK_DEADLOCK FALSE
