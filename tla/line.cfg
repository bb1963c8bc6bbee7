CONSTANTS
    A = A  B = B  C = C
    r1 = r1  r2 = r2  r3 = r3  r4 = r4
    k1 = k1
    Server = {A, B, C}
    Home = A
    Conn <- Line
    Record = {r1, r2}
    Op = {r1, r2}
    OpOf <- OwnOp
    Signer = {k1}
    SignerOf <- OneSigner
    CommitAt <- AtHome
    InitKeys <- MemberKeys
    Unacceptable <- Nothing
    Fitting <- AllFit
    MaxReturned = 1
    CrashInside = FALSE
    RollbackServers = {}
    MaxFaults = 0
SPECIFICATION Spec
INVARIANTS SameHeadsSameOps KeyAlwaysServed
SYMMETRY RecordSymmetry
