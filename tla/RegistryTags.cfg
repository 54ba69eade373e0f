SPECIFICATION Spec
CONSTANTS
    Content = {c1, c2}
    Name = {n1}
    PeerHolds = {}
    MaxAge = 1
    MaxTime = 2
    PinContent = TRUE
    GCEnabled = FALSE
    MayGrow = FALSE
    Faults = {"upstream", "crash"}
    Absent = Absent
    NoDigest = NoDigest
    Req = {r1, r2, r3}
    Ops = {"getTag", "getDigest", "putTag"}
    Pushed = {c1}
    Hosted = {c1, c2}
    Upstreamed = {n1}
    TagTTL = 1
    Federated = FALSE
    Shared = {}
    NoName = NoName
    NoContent = NoContent
    NoCID = NoCID
SYMMETRY Symm
INVARIANT TypeOK
INVARIANT StaleIsRevalidated
INVARIANT CacheOutlivesUpstream
INVARIANT TagNamesStored
\* Requests are served once and the clock stops at MaxTime.
CHECK_DEADLOCK FALSE
