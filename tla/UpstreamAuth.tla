---------------------------- MODULE UpstreamAuth ----------------------------
(* How the upstream client gets an answer out of one upstream registry        *)
(* (internal/upstream/client.go): the token cache that all fetches of the     *)
(* registry share, the challenge, the token request, the one retry, the 429   *)
(* answer and the one redirect. One action is one exchange over the network   *)
(* or one access to the cache; fetches interleave between any two. A fetcher  *)
(* serves one fetch after another.                                            *)
EXTENDS Integers, Sequences

CONSTANTS
    Fetcher,        \* goroutines that fetch from this registry
    Repo,           \* repositories, each a sequence of path components
    Kind,           \* "manifests", "blobs": the component after the repository
    Permitted,      \* repositories the upstream lets us pull
    Basic,          \* config: auth type "basic" with a user name
    TokenURL,       \* config: a token_url is given
    Challenges,     \* challenges the upstream makes, a subset of ChallengeKinds
    Lifetimes,      \* values of expires_in, 0 for none
    DefaultLife,    \* what the client takes for none: 300 s
    ServerLife,     \* what the token server means by none
    Margin,         \* "Expire 30s early"
    MaxTime,        \* bound of the clock
    Faults,         \* a subset of FaultKinds
    NoToken, NoRepo

ChallengeKinds == {"full", "no scope", "no realm"}
FaultKinds == {"network", "token server", "no token", "limit", "redirect"}

ASSUME AuthAssumption ==
    /\ Permitted \subseteq Repo /\ NoRepo \notin Repo
    /\ Basic \in BOOLEAN /\ TokenURL \in BOOLEAN
    /\ Challenges \subseteq ChallengeKinds /\ Faults \subseteq FaultKinds
    /\ Lifetimes \subseteq Nat
    /\ DefaultLife \in Nat /\ ServerLife \in Nat /\ Margin \in Nat
    /\ MaxTime \in Nat

(* A bearer token: the repository its scope names (NoRepo: there is none of    *)
(* that name) and how long the upstream takes it. exact tells that the answer  *)
(* it came in stated its life.                                                 *)
Token(scope, issued, expires, exact) ==
    [scope |-> IF scope \in Repo THEN scope ELSE NoRepo,
     issued |-> issued, expires |-> expires, exact |-> exact]
Tokens == [scope : Repo \cup {NoRepo}, issued : Nat, expires : Nat,
           exact : BOOLEAN]

ASSUME NoTokenAssumption == NoToken \notin Tokens

VARIABLES
    now,        \* time.Now(), and the clock of the servers
    cache,      \* Client.tokens[registry]: [token, until, at]; at (history)
                \* is when it was stored
    pc,         \* where each fetcher stands
    loc         \* the variables of its fetch

vars == <<now, cache, pc, loc>>

CacheEntry(token, until, at) == [token |-> token, until |-> until, at |-> at]

(* repo, kind: the path. token: what the next request carries. read, got       *)
(* (history): when that was taken from the cache, and had been stored there.   *)
(* granted (history): a token was issued for the repository. status: the       *)
(* outcome of the fetch, when it has ended.                                    *)
Frame(repo, kind, token, read, got, granted, status) ==
    [repo |-> repo, kind |-> kind, token |-> token, read |-> read,
     got |-> got, granted |-> granted, status |-> status]

Ended(status) == Frame(NoRepo, "none", NoToken, 0, 0, FALSE, status)

Init ==
    /\ now = 0
    /\ cache = CacheEntry(NoToken, -1, 0)
    /\ pc = [f \in Fetcher |-> "done"]
    /\ loc = [f \in Fetcher |-> Ended("none")]

Goto(f, label) == pc' = [pc EXCEPT ![f] = label]

(* doRequestWithAuth returns: a response or an error.                          *)
Return(f, status) ==
    /\ Goto(f, "done")
    /\ loc' = [loc EXCEPT ![f] = Ended(status)]
    /\ UNCHANGED <<now, cache>>

-----------------------------------------------------------------------------
(* Mutant: ExpiresAt is not looked at.                                         *)
CachedTokenForever == cache.token

(* getCachedToken; a token that is empty counts as none.                       *)
CachedToken == IF now <= cache.until THEN cache.token ELSE NoToken

Arrive(f, p, k) ==
    /\ pc[f] = "done"
    /\ loc' = [loc EXCEPT ![f] =
                  Frame(p, k, CachedToken, now, cache.at, FALSE, "none")]
    /\ Goto(f, "first")
    /\ UNCHANGED <<now, cache>>

(* What the upstream thinks of a token, when the request reaches it.           *)
Valid(token, p) ==
    /\ token # NoToken
    /\ token.scope = p /\ p \in Permitted
    /\ now <= token.expires

SendsBasic(f) == pc[f] = "first" /\ loc[f].token = NoToken /\ Basic
Requesting(f) == pc[f] \in {"first", "retry"}
Accepted(f) == SendsBasic(f) \/ Valid(loc[f].token, loc[f].repo)

Serve(f) ==
    /\ Requesting(f) /\ Accepted(f)
    /\ Return(f, "answered")

(* Mutant: a request that carried a token is not authenticated anew.           *)
ChallengeOnce(f, ch) ==
    /\ pc[f] = "first"
    /\ ~ Valid(loc[f].token, loc[f].repo)
    /\ ch # "no realm" \/ TokenURL
    /\ \/ /\ loc[f].token = NoToken
          /\ Goto(f, IF ch = "full" THEN "ask" ELSE "ask by path")
          /\ UNCHANGED <<now, cache, loc>>
       \/ /\ loc[f].token # NoToken
          /\ Return(f, "unauthorized")

(* 401 to the first request, whose token is of no more use to this fetch. The  *)
(* challenge names a realm and a scope, or the configuration and the path      *)
(* stand in for them.                                                          *)
Challenge(f, ch) ==
    /\ pc[f] = "first"
    /\ ~ Valid(loc[f].token, loc[f].repo)
    /\ ch # "no realm" \/ TokenURL
    /\ Goto(f, IF ch = "full" THEN "ask" ELSE "ask by path")
    /\ loc' = [loc EXCEPT ![f] =
            Frame(loc[f].repo, loc[f].kind, NoToken, 0, 0, FALSE, "none")]
    /\ UNCHANGED <<now, cache>>

NoRealm(f) ==
    /\ pc[f] = "first"
    /\ ~ Valid(loc[f].token, loc[f].repo)
    /\ "no realm" \in Challenges /\ ~ TokenURL
    /\ Return(f, "error")

(* authenticate: without a scope in the challenge it drops the last component  *)
(* of <repo>/<kind>/<reference>, so the kind stays.                            *)
Scope(f) == IF pc[f] = "ask" THEN loc[f].repo
            ELSE Append(loc[f].repo, loc[f].kind)

(* The token server answers; the answer is on its way until StoreToken.        *)
IssueToken(f, life) ==
    LET l == loc[f]
        real == IF life = 0 THEN ServerLife ELSE life
    IN
    /\ pc[f] \in {"ask", "ask by path"}
    /\ loc' = [loc EXCEPT ![f] =
            Frame(l.repo, l.kind, Token(Scope(f), now, now + real, life # 0),
                  0, 0, Scope(f) = l.repo, "none")]
    /\ Goto(f, "store")
    /\ UNCHANGED <<now, cache>>

(* A 200 that carries neither token nor access_token is not an error.          *)
IssueNothing(f) ==
    /\ pc[f] \in {"ask", "ask by path"}
    /\ "no token" \in Faults
    /\ Goto(f, "store")
    /\ UNCHANGED <<now, cache, loc>>

TokenFails(f) ==
    /\ pc[f] \in {"ask", "ask by path"}
    /\ "token server" \in Faults
    /\ Return(f, "error")

(* expires_in as the client takes it; a stated 0 cannot be told from none.     *)
LifeOf(token) ==
    IF token # NoToken /\ token.exact THEN token.expires - token.issued
    ELSE DefaultLife

(* Mutant: a valid token that another fetch stored meanwhile is used instead.  *)
StoreTokenOnce(f) ==
    LET l == loc[f]
        kept == CachedToken # NoToken
    IN
    /\ pc[f] = "store"
    /\ cache' = IF kept THEN cache
                ELSE CacheEntry(l.token, now + LifeOf(l.token) - Margin, now)
    /\ loc' = [loc EXCEPT ![f] =
            Frame(l.repo, l.kind, cache'.token, 0, 0, l.granted, "none")]
    /\ Goto(f, "retry")
    /\ UNCHANGED now

(* Mutant: no margin.                                                          *)
StoreTokenFull(f) ==
    LET token == loc[f].token IN
    /\ pc[f] = "store"
    /\ cache' = CacheEntry(token, now + LifeOf(token), now)
    /\ Goto(f, "retry")
    /\ UNCHANGED <<now, loc>>

(* The token is cached for the registry, whatever its scope, and the retry     *)
(* carries the one this fetch was given. Cached tokens are replaced, never     *)
(* dropped; one that lives shorter than Margin is cached dead.                 *)
StoreToken(f) ==
    LET token == loc[f].token IN
    /\ pc[f] = "store"
    /\ cache' = CacheEntry(token, now + LifeOf(token) - Margin, now)
    /\ Goto(f, "retry")
    /\ UNCHANGED <<now, loc>>

(* Mutant: every 401 is taken for a challenge.                                 *)
RetryAgain(f) ==
    /\ pc[f] = "retry"
    /\ ~ Valid(loc[f].token, loc[f].repo)
    /\ Goto(f, "ask")
    /\ UNCHANGED <<now, cache, loc>>

(* A second 401 is the response.                                               *)
RetryRefused(f) ==
    /\ pc[f] = "retry"
    /\ ~ Valid(loc[f].token, loc[f].repo)
    /\ Return(f, "unauthorized")

(* 429 becomes an error; its RetryAfter has no reader.                         *)
Limited(f) ==
    /\ Requesting(f)
    /\ "limit" \in Faults
    /\ Return(f, "error")

Redirect(f) ==
    /\ Requesting(f) /\ Accepted(f)
    /\ "redirect" \in Faults
    /\ Goto(f, "redirect")
    /\ UNCHANGED <<now, cache, loc>>

(* The redirect is followed once and without credentials: whatever is answered *)
(* is returned, also the registry's refusal of a redirect back to itself.      *)
Follow(f) ==
    /\ pc[f] = "redirect"
    /\ Return(f, "answered")

(* A request that fails or times out ends the fetch.                           *)
RequestFails(f) ==
    /\ Requesting(f) \/ pc[f] = "redirect"
    /\ "network" \in Faults
    /\ Return(f, "error")

Tick ==
    /\ now < MaxTime
    /\ now' = now + 1
    /\ UNCHANGED <<cache, pc, loc>>

-----------------------------------------------------------------------------
Go(f) ==
    \/ Serve(f) \/ (\E ch \in Challenges : Challenge(f, ch)) \/ NoRealm(f)
    \/ (\E life \in Lifetimes : IssueToken(f, life))
    \/ IssueNothing(f) \/ TokenFails(f) \/ StoreToken(f) \/ RetryRefused(f)
    \/ Limited(f) \/ Redirect(f) \/ Follow(f) \/ RequestFails(f)

Next ==
    \/ \E f \in Fetcher : (\E p \in Repo, k \in Kind : Arrive(f, p, k)) \/ Go(f)
    \/ Tick

Spec == Init /\ [][Next]_vars

(* Every exchange ends within the client's timeout of 60 seconds.              *)
FairSpec == Spec /\ \A f \in Fetcher : WF_vars(Go(f))

-----------------------------------------------------------------------------
Labels == {"done", "first", "ask", "ask by path", "store", "retry", "redirect"}
Statuses == {"none", "answered", "unauthorized", "error"}

Locals == [repo : Repo \cup {NoRepo}, kind : Kind \cup {"none"},
           token : Tokens \cup {NoToken}, read : 0..MaxTime, got : 0..MaxTime,
           granted : BOOLEAN, status : Statuses]

(* The cache never promises a token for longer than its life, or the default,  *)
(* less the margin.                                                            *)
CacheOK ==
    /\ cache \in [token : Tokens \cup {NoToken}, until : Int, at : 0..MaxTime]
    /\ cache.token # NoToken =>
          cache.until <= cache.at + LifeOf(cache.token) - Margin

(* Every variable holds a value of its type, the times in the cache included.  *)
TypeOK ==
    /\ now \in 0..MaxTime
    /\ CacheOK
    /\ pc \in [Fetcher -> Labels]
    /\ loc \in [Fetcher -> Locals]

(* A fetch that was given a token for its repository retries with that token,  *)
(* however the fetches of other repositories replace what the registry's one   *)
(* cache entry holds meanwhile.                                                *)
RetryCarriesOwnScope ==
    \A f \in Fetcher : pc[f] = "retry" /\ loc[f].granted =>
        loc[f].token # NoToken /\ loc[f].token.scope = loc[f].repo

(* "Expire 30s early" does what it is for: a token from the cache whose life   *)
(* was stated is still alive when the request reaches the upstream, if getting *)
(* it from the token server and sending it took no longer than the margin.     *)
MarginCoversDelay ==
    \A f \in Fetcher :
        LET l == loc[f] IN
        /\ pc[f] = "first" /\ l.token # NoToken /\ l.token.exact
        /\ (l.got - l.token.issued) + (now - l.read) <= Margin
        => now <= l.token.expires

(* Whatever is in the cache (an expired token, one of another repository, none *)
(* at all), a fetch comes back unauthorized only after it asked for a token    *)
(* and tried again, and for one of three reasons: the upstream does not permit *)
(* it, no token was issued for its repository, or the token expired on its way.*)
RefusedForCause ==
    [][\A f \in Fetcher :
          pc[f] # "done" /\ loc'[f].status = "unauthorized" =>
              /\ pc[f] = "retry"
              /\ \/ loc[f].repo \notin Permitted
                 \/ ~ loc[f].granted
                 \/ now > loc[f].token.expires]_vars

(* Every fetch ends, with one retry and one redirect at most.                  *)
FetchEnds == \A f \in Fetcher : pc[f] = "first" ~> pc[f] = "done"
=============================================================================
