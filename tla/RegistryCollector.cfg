SPECIFICATION FairSpec
CONSTANTS
    Content = {c1}
    Name = {n1}
    PeerHolds = {c1}
    MaxAge = 1
    MaxTime = 2
    PinContent = TRUE
    GCEnabled = TRUE
    MayGrow = TRUE
    Faults = {"ipfs", "upstream"}
    Absent = Absent
    NoDigest = NoDigest
    Req = {r1, r2}
    Ops = {"getTag", "getBlob", "putTag", "delTag"}
    Pushed = {c1}
    Hosted = {c1}
    Upstreamed = {n1}
    TagTTL = 1
    Federated = TRUE
    Shared = {}
    NoName = NoName
    NoContent = NoContent
    NoCID = NoCID
INVARIANT OwnContentPinned
PROPERTY SparesYoung
PROPERTY EveryRequestAnswered
PROPERTY OldIsCollected
\* Requests are served once and the clock stops at MaxTime.
CHECK_DEADLOCK FALSE
