SPECIFICATION Spec
CHECK_DEADLOCK FALSE
CONSTANTS
    Client = {"c1", "c2"}
    Op = {"u0", "x0", "a", "b"}
    SpecialOps <- MCSpecial
    ObjectOf <- MCObjectOf
    RefusedOps = {}
    Mode = 2
    Server = {"A", "B"}
    NoServer = "none"
    AuthorOf <- MCTwo
    Replicas <- MCAll
    Root = "u0"
    First = "x0"
    Joined = {"c1"}
    AskClients = {}
    MaxReturned = 2
    Faulty = {"c1"}
    MaxFaults = 1
INVARIANT DroppedOnlyIfRefused

