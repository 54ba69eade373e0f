SPECIFICATION Spec
CONSTANTS
    Content = {c1, c2}
    Name = {n1}
    PeerHolds = {c1}
    MaxAge = 1
    MaxTime = 2
    PinContent = TRUE
    GCEnabled = FALSE
    MayGrow = FALSE
    Faults = {}
    Absent = Absent
    NoDigest = NoDigest
    Req = {r1, r2}
    Ops = {"getBlob"}
    Pushed = {}
    Hosted = {c1, c2}
    Upstreamed = {n1}
    TagTTL = 0
    Federated = TRUE
    Shared = {}
    NoName = NoName
    NoContent = NoContent
    NoCID = NoCID
SYMMETRY Symm
INVARIANT FallsBackToUpstream
\* Requests are served once and the clock stops at MaxTime.
CHECK_DEADLOCK FALSE
