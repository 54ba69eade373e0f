SPECIFICATION Spec
CONSTANTS
    d1 = d1
    d2 = d2
    x1 = x1
    y1 = y1
    x2 = x2
    Node = {n1, n2}
    Digest = {d1, d2}
    CID = {x1, y1, x2}
    Known <- MCKnown
    Query = {q1, q2}
    RequestID = {i1, i2}
    TTL = 1
    MaxTime = 1
    MaxSent = 2
    None = None
INVARIANT TypeOK
INVARIANT AnswersMatch
INVARIANT PendingOwned
INVARIANT EntryExpires
PROPERTY NoEarlyExpiry
SYMMETRY Symm
CHECK_DEADLOCK FALSE
