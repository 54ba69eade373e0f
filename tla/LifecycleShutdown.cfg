SPECIFICATION FairSpec
CONSTANTS
    Handler = {h1, h2}
    GC = GC
    Main = Main
    Digest = {d1, d2}
    Programs <- MCPrograms
    MayGrow = FALSE
    Faults = {}
    Nobody = Nobody
    NoDigest = NoDigest
PROPERTY ShutdownEnds
\* The property is about the system stopping for good.
CHECK_DEADLOCK FALSE
