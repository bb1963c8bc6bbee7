SPECIFICATION FairSpec
CHECK_DEADLOCK FALSE
CONSTANTS
    Client = {"c1", "c2"}
    Op = {"u0", "x0", "a", "b"}
    SpecialOps <- MCSpecial
    ObjectOf <- MCObjectOf
    RefusedOps = {}
    Mode = 3
    Server = {"A"}
    NoServer = "none"
    AuthorOf <- MCTwo
    Replicas <- MCOne
    Root = "u0"
    First = "x0"
    Joined = {"c1", "c2"}
    AskClients = {}
    MaxReturned = 2
    Faulty = {"c1"}
    MaxFaults = 1
PROPERTY GapCloses

