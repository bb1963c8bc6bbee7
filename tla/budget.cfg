CONSTANTS
    A = A  B = B  C = C
    r1 = r1  r2 = r2  r3 = r3  r4 = r4
    k1 = k1
    Server = {A, B}
    Home = A
    Conn <- Pair
    Record = {r1, r2, r3, r4}
    Op = {r1, r2, r3, r4}
    OpOf <- OwnOp
    Signer = {k1}
    SignerOf <- OneSigner
    CommitAt <- AtHome
    InitKeys <- AllKeys
    Unacceptable <- Nothing
    Fitting <- SmallerFit
    MaxReturned = 4
    CrashInside = FALSE
    RollbackServers = {}
    MaxFaults = 0
SPECIFICATION Spec
INVARIANTS NoHoles
