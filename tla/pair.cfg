CONSTANTS
    A = A  B = B  C = C
    r1 = r1  r2 = r2  r3 = r3  r4 = r4
    k1 = k1
    Server = {A, B}
    Home = A
    Conn <- Pair
    Record = {r1, r2, r3}
    Op = {r1, r2}
    OpOf <- Retried
    Signer = {k1}
    SignerOf <- OneSigner
    CommitAt <- LastAway
    InitKeys <- HomeKeys
    Unacceptable <- Nothing
    Fitting <- AllFit
    MaxReturned = 1
    CrashInside = FALSE
    RollbackServers = {}
    MaxFaults = 1
SPECIFICATION FairSpec
INVARIANTS TypeOK NoHoles OpsOnce
PROPERTIES Converges SyncingEnds
