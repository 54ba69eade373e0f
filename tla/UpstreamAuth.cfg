SPECIFICATION FairSpec
CONSTANTS
    Fetcher = {f1, f2}
    Repo <- MCRepo
    Kind = {"manifests"}
    Permitted <- MCPermitted
    Basic = TRUE
    TokenURL = FALSE
    Challenges = {"full", "no scope", "no realm"}
    Lifetimes = {0, 1}
    DefaultLife = 3
    ServerLife = 1
    Margin = 1
    MaxTime = 2
    Faults = {"network", "token server", "no token", "limit", "redirect"}
    NoToken = NoToken
    NoRepo = NoRepo
INVARIANT TypeOK
INVARIANT RetryCarriesOwnScope
INVARIANT MarginCoversDelay
PROPERTY RefusedForCause
PROPERTY FetchEnds
