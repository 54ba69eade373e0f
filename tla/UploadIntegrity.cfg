SPECIFICATION Spec
CONSTANTS
    a = a
    Req = {r1, r2, r3}
    Upload = {u1}
    Block = {a}
    Bodies <- MCBodies
    Declared <- MCDeclared
    Faults = {}
    GCEnabled = FALSE
    Announces = TRUE
    NoReq = NoReq
    NoUpload = NoUpload
    NoDigest = NoDigest
    NoCID = NoCID
SYMMETRY Symm
INVARIANT Integrity
