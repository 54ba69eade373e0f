SPECIFICATION FairSpec
CONSTANTS
    Handler = {h1, h2}
    GC = GC
    Main = Main
    Digest = {d1, d2}
    Programs <- MCPrograms
    MayGrow = TRUE
    Faults = {"crash"}
    Nobody = Nobody
    NoDigest = NoDigest
INVARIANT TypeOK
INVARIANT DrainedBeforeClose
INVARIANT StopLeaksOne
PROPERTY UnpinnedIsDeleted
PROPERTY EveryCallEnds
PROPERTY StopsUnlessHung
