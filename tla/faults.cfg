CONSTANTS
    A = A  B = B  C = C
    r1 = r1  r2 = r2  r3 = r3  r4 = r4
    k1 = k1
    Server = {A, B}
    Home = A
    Conn <- Pair
    Record = {r1, r2}
    Op = {r1, r2}
    OpOf <- OwnOp
    Signer = {k1}
    SignerOf <- OneSigner
    CommitAt <- FirstAtHome
    InitKeys <- AllKeys
    Unacceptable <- Nothing
    Fitting <- AllFit
    MaxReturned = 1
    CrashInside = TRUE
    RollbackServers = {A}
    MaxFaults = 3
SPECIFICATION Spec
INVARIANTS EvidenceSound HonestNeverCondemned
PROPERTIES HeadsOnlyAdvance
