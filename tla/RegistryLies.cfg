SPECIFICATION Spec
CONSTANTS
    Content = {c1, c2}
    Name = {n1}
    PeerHolds = {c1}
    MaxAge = 0
    MaxTime = 0
    PinContent = TRUE
    GCEnabled = TRUE
    MayGrow = TRUE
    Faults = {"header", "peer", "body", "ipfs", "db"}
    Absent = Absent
    NoDigest = NoDigest
    Req = {r1, r2}
    Ops = {"getTag", "getDigest", "getBlob", "headBlob", "putDigest", "delDigest"}
    Pushed = {c1}
    Hosted = {c1, c2}
    Upstreamed = {n1}
    TagTTL = 0
    Federated = TRUE
    Shared = {"push", "upstream manifest", "upstream blob"}
    NoName = NoName
    NoContent = NoContent
    NoCID = NoCID
SYMMETRY Symm
 
INVARIANT ServedManifestsVerified
\* Requests are served once and the clock stops at MaxTime.
CHECK_DEADLOCK FALSE
