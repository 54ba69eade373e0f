SPECIFICATION FairSpec
CONSTANTS
    a = a
    Req = {r1, r2}
    Upload = {u1}
    Block = {a}
    Bodies <- MCBodies
    Declared <- MCDeclared
    Faults = {"copy", "ipfs"}
    GCEnabled = TRUE
    Announces = TRUE
    NoReq = NoReq
    NoUpload = NoUpload
    NoDigest = NoDigest
    NoCID = NoCID
PROPERTY EveryRequestAnswered
PROPERTY StaleSessionCollected
INVARIANT TypeOK
INVARIANT NoOrphanTempFile
INVARIANT ClosedStaysClosed
