SPECIFICATION FairSpec
CHECK_DEADLOCK FALSE
CONSTANTS
    Client = {"c1", "c2"}
    Op = {"u0", "x0", "v", "u", "b"}
    SpecialOps <- MCSpecial
    ObjectOf <- MCObjectOf
    RefusedOps = {"b"}
    Mode = 2
    Server = {"A", "B"}
    NoServer = "none"
    AuthorOf <- MCTwo
    Replicas <- MCHomes
    Root = "u0"
    First = "x0"
    Joined = {"c1", "c2"}
    AskClients = {}
    MaxReturned = 2
    Faulty = {"c1", "c2"}
    MaxFaults = 1
INVARIANT TypeOK
INVARIANT ConfirmedAsServed
INVARIANT DroppedOnlyIfRefused
INVARIANT CommittedOnce
PROPERTY CaughtUp

