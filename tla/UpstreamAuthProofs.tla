------------------------- MODULE UpstreamAuthProofs -------------------------
(* Proofs about module UpstreamAuth: for any fetchers, repositories,          *)
(* lifetimes, margin and faults.                                              *)
EXTENDS UpstreamAuth, TLAPS

(* What a fetch knows at each of its labels, beyond the types: its repository, *)
(* no outcome yet; whose token it was granted; how old a cached token may be.  *)
Knows(label, l) ==
    /\ label # "done" => l.repo \in Repo /\ l.status = "none"
    /\ label \in {"ask", "ask by path"} => ~ l.granted
    /\ label \in {"store", "retry"} /\ l.granted =>
          l.token # NoToken /\ l.token.scope = l.repo
    /\ label = "first" /\ l.token # NoToken /\ l.token.exact =>
          l.read <= l.got + (l.token.expires - l.token.issued) - Margin

AuthInv == TypeOK /\ \A f \in Fetcher : Knows(pc[f], loc[f])

-----------------------------------------------------------------------------
(* A fetch that has ended has its type.                                       *)
LEMMA EndedType ==
    ASSUME NEW status \in Statuses
    PROVE  Ended(status) \in Locals /\ Ended(status).status = status
BY AuthAssumption DEF Ended, Frame, Locals

(* The life the client takes a token to have is a number.                     *)
LEMMA LifeType ==
    ASSUME NEW token \in Tokens \cup {NoToken}
    PROVE  LifeOf(token) \in Int
BY AuthAssumption DEF LifeOf, Tokens

(* A step of one fetch: the others know what they knew.                        *)
LEMMA Move ==
    ASSUME AuthInv, NEW f \in Fetcher, NEW label \in Labels, NEW l \in Locals,
           pc' = [pc EXCEPT ![f] = label], loc' = [loc EXCEPT ![f] = l],
           now' = now, CacheOK', Knows(label, l)
    PROVE  AuthInv'
<1>1. TypeOK'
  BY DEF AuthInv, TypeOK
<1>2. ASSUME NEW g \in Fetcher PROVE Knows(pc[g], loc[g])'
  <2>1. CASE g = f
    <3>1. pc'[g] = label /\ loc'[g] = l
      BY <2>1 DEF AuthInv, TypeOK
    <3>2. QED
      BY <3>1 DEF Knows
  <2>2. CASE g # f
    <3>1. pc'[g] = pc[g] /\ loc'[g] = loc[g]
      BY <2>2 DEF AuthInv, TypeOK
    <3>2. QED
      BY <3>1 DEF AuthInv, Knows
  <2>3. QED
    BY <2>1, <2>2
<1>3. QED
  BY <1>1, <1>2 DEF AuthInv

(* The cache keeps its margin when nobody writes it.                          *)
LEMMA CacheKept == ASSUME CacheOK, UNCHANGED cache PROVE CacheOK'
BY DEF CacheOK, LifeOf

(* A fetch that returns leaves the invariant as it is.                         *)
LEMMA ReturnStep ==
    ASSUME AuthInv, NEW f \in Fetcher, NEW status \in Statuses,
           Return(f, status)
    PROVE  AuthInv'
<1>1. Ended(status) \in Locals
  BY EndedType
<1>2. Knows("done", Ended(status))
  BY DEF Knows
<1>3. CacheOK'
  BY CacheKept DEF AuthInv, TypeOK, Return
<1>4. QED
  BY <1>1, <1>2, <1>3, Move DEF Return, Goto, Labels

(* The start: an empty cache and idle fetchers.                                *)
LEMMA AuthInit == Init => AuthInv
<1> SUFFICES ASSUME Init PROVE AuthInv
  OBVIOUS
<1>1. Ended("none") \in Locals
  BY EndedType DEF Statuses
<1>2. CacheOK
  BY AuthAssumption DEF Init, CacheEntry, CacheOK
<1>3. TypeOK
  BY <1>1, <1>2, AuthAssumption DEF Init, TypeOK, Labels
<1>4. QED
  BY <1>3 DEF AuthInv, Init, Knows

(* A cached token is read with what its entry promises.                        *)
LEMMA ArriveStep ==
    ASSUME AuthInv, NEW f \in Fetcher, NEW p \in Repo, NEW k \in Kind,
           Arrive(f, p, k)
    PROVE  AuthInv'
<1> DEFINE l == Frame(p, k, CachedToken, now, cache.at, FALSE, "none")
<1>0. now \in 0..MaxTime /\ cache.at \in 0..MaxTime /\ cache.until \in Int
      /\ cache.token \in Tokens \cup {NoToken}
  BY DEF AuthInv, TypeOK, CacheOK
<1>1. /\ l \in Locals
      /\ l.repo = p /\ l.token = CachedToken /\ l.read = now
      /\ l.got = cache.at /\ l.granted = FALSE /\ l.status = "none"
  BY <1>0 DEF CachedToken, Statuses, Frame, Locals
<1> HIDE DEF l
<1>2. ASSUME l.token # NoToken, l.token.exact
      PROVE  l.read <= l.got + (l.token.expires - l.token.issued) - Margin
  <2>1. l.token = cache.token /\ now <= cache.until
    BY <1>1, <1>2 DEF CachedToken
  <2>2. cache.until <= cache.at + (cache.token.expires - cache.token.issued)
                       - Margin
    BY <2>1, <1>2 DEF AuthInv, TypeOK, CacheOK, LifeOf
  <2>3. l.token \in Tokens
    BY <2>1, <1>0, <1>2
  <2>4. l.token.expires \in Nat /\ l.token.issued \in Nat
    BY <2>3 DEF Tokens
  <2>5. QED
    BY <1>0, <1>1, <2>1, <2>2, <2>4, AuthAssumption
<1>3. Knows("first", l)
  BY <1>1, <1>2 DEF Knows
<1>4. CacheOK'
  BY CacheKept DEF AuthInv, TypeOK, Arrive
<1>5. QED
  BY <1>1, <1>3, <1>4, Move DEF Arrive, Goto, Labels, l

(* A 401 to the first request forgets the token it carried.                   *)
LEMMA ChallengeStep ==
    ASSUME AuthInv, NEW f \in Fetcher, NEW ch, Challenge(f, ch)
    PROVE  AuthInv'
<1> DEFINE l == Frame(loc[f].repo, loc[f].kind, NoToken, 0, 0, FALSE, "none")
           label == IF ch = "full" THEN "ask" ELSE "ask by path"
<1>0. loc[f] \in Locals /\ loc[f].repo \in Repo
  BY DEF AuthInv, TypeOK, Challenge, Knows
<1>1. loc[f].kind \in Kind \cup {"none"} /\ 0 \in 0..MaxTime
  BY <1>0, AuthAssumption DEF Locals
<1>2. l \in Locals /\ l.repo = loc[f].repo /\ l.status = "none"
      /\ l.granted = FALSE
  BY <1>0, <1>1 DEF Statuses, Frame, Locals
<1> HIDE DEF l
<1>3. label \in Labels /\ Knows(label, l)
  BY <1>0, <1>2 DEF Labels, Knows
<1>4. CacheOK'
  BY CacheKept DEF AuthInv, TypeOK, Challenge
<1>5. QED
  BY <1>2, <1>3, <1>4, Move DEF Challenge, Goto, l

(* What is issued for the scope of the repository is a token for it.           *)
LEMMA IssueTokenStep ==
    ASSUME AuthInv, NEW f \in Fetcher, NEW life \in Lifetimes,
           IssueToken(f, life)
    PROVE  AuthInv'
<1> DEFINE real == IF life = 0 THEN ServerLife ELSE life
           scope == Scope(f)
           exact == life # 0
           t == Token(scope, now, now + real, exact)
           own == scope = loc[f].repo
           l == Frame(loc[f].repo, loc[f].kind, t, 0, 0, own, "none")
<1>0. loc[f] \in Locals /\ loc[f].repo \in Repo /\ now \in Nat
  <2>1. pc[f] # "done"
    BY DEF IssueToken
  <2>2. loc[f] \in Locals /\ now \in 0..MaxTime
    BY DEF AuthInv, TypeOK
  <2>3. Knows(pc[f], loc[f])
    BY DEF AuthInv
  <2>4. loc[f].repo \in Repo
    BY <2>1, <2>3 DEF Knows
  <2>5. QED
    BY <2>2, <2>4
<1>1. loc[f].kind \in Kind \cup {"none"} /\ 0 \in 0..MaxTime
  BY <1>0, AuthAssumption DEF Locals
<1>2. now + real \in Nat /\ exact \in BOOLEAN
  BY <1>0, AuthAssumption
<1> HIDE DEF scope, exact
<1>3. t \in Tokens /\ t # NoToken /\ (own => t.scope = loc[f].repo)
  <2>1. (IF scope \in Repo THEN scope ELSE NoRepo) \in Repo \cup {NoRepo}
    OBVIOUS
  <2>2. t \in Tokens
    BY <1>0, <1>2, <2>1 DEF Token, Tokens
  <2>3. own => t.scope = loc[f].repo
    BY <1>0 DEF Token
  <2>4. QED
    BY <2>2, <2>3, NoTokenAssumption
<1>4. loc' = [loc EXCEPT ![f] = l] /\ pc' = [pc EXCEPT ![f] = "store"]
      /\ now' = now /\ cache' = cache
  BY DEF IssueToken, Goto, scope, exact
<1> HIDE DEF t, own
<1>5. own \in BOOLEAN
  BY DEF own
<1>6. l \in Locals /\ l.repo = loc[f].repo /\ l.status = "none"
      /\ l.token = t /\ l.granted = own
  BY <1>0, <1>1, <1>3, <1>5 DEF Statuses, Frame, Locals
<1> HIDE DEF l
<1>7. Knows("store", l)
  BY <1>0, <1>3, <1>6 DEF Knows
<1>8. CacheOK'
  BY <1>4, CacheKept DEF AuthInv, TypeOK
<1>9. QED
  BY <1>4, <1>6, <1>7, <1>8, Move DEF Labels

(* Moves that change only the label.                                           *)
LEMMA LabelStep ==
    ASSUME AuthInv, NEW f \in Fetcher, NEW label \in Labels,
           Goto(f, label), UNCHANGED <<now, cache, loc>>,
           Knows(label, loc[f])
    PROVE  AuthInv'
<1>1. loc[f] \in Locals /\ loc' = [loc EXCEPT ![f] = loc[f]]
  BY DEF AuthInv, TypeOK
<1>2. CacheOK'
  BY CacheKept DEF AuthInv, TypeOK
<1>3. QED
  BY <1>1, <1>2, Move DEF Goto

(* An answer without a token grants nothing.                                  *)
LEMMA IssueNothingStep ==
    ASSUME AuthInv, NEW f \in Fetcher, IssueNothing(f)
    PROVE  AuthInv'
<1>1. pc[f] \in {"ask", "ask by path"} /\ Knows(pc[f], loc[f])
  BY DEF AuthInv, IssueNothing
<1>2. Knows("store", loc[f])
  BY <1>1 DEF Knows
<1>3. QED
  BY <1>2, LabelStep DEF IssueNothing, Labels

(* The entry that is stored promises no more than the answer said.             *)
LEMMA StoreTokenStep ==
    ASSUME AuthInv, NEW f \in Fetcher, StoreToken(f)
    PROVE  AuthInv'
<1> DEFINE token == loc[f].token
           until == now + LifeOf(token) - Margin
<1>0. /\ loc[f] \in Locals /\ token \in Tokens \cup {NoToken}
      /\ now \in 0..MaxTime
  BY DEF AuthInv, TypeOK, Locals
<1>1. LifeOf(token) \in Int
  BY <1>0, LifeType
<1>2. until \in Int
  BY <1>0, <1>1, AuthAssumption
<1>3. cache' = CacheEntry(token, until, now) /\ now' = now /\ loc' = loc
      /\ pc' = [pc EXCEPT ![f] = "retry"]
  BY DEF StoreToken, Goto
<1>4. CacheOK'
  <2>1. cache'.token = token /\ cache'.until = until /\ cache'.at = now
    BY <1>3 DEF CacheEntry
  <2>2. cache' \in [token : Tokens \cup {NoToken}, until : Int, at : 0..MaxTime]
    BY <1>0, <1>2, <1>3 DEF CacheEntry
  <2>3. LifeOf(cache'.token) = LifeOf(token)
    BY <2>1
  <2>4. QED
    BY <2>1, <2>2, <2>3, <1>0, <1>1, AuthAssumption DEF CacheOK, LifeOf
<1>5. Knows("retry", loc[f])
  BY DEF AuthInv, StoreToken, Knows
<1>6. loc' = [loc EXCEPT ![f] = loc[f]]
  BY <1>3 DEF AuthInv, TypeOK
<1>7. QED
  BY <1>0, <1>3, <1>4, <1>5, <1>6, Move DEF Labels

(* A redirect shows nothing of the token.                                     *)
LEMMA RedirectStep ==
    ASSUME AuthInv, NEW f \in Fetcher, Redirect(f)
    PROVE  AuthInv'
<1>1. pc[f] # "done" /\ Knows(pc[f], loc[f])
  BY DEF AuthInv, Redirect, Requesting
<1>2. Knows("redirect", loc[f])
  BY <1>1 DEF Knows
<1>3. QED
  BY <1>2, LabelStep DEF Redirect, Labels

(* Time passes: what was read in the past stays in the past.                  *)
LEMMA TickStep == ASSUME AuthInv, Tick PROVE AuthInv'
<1>1. CacheOK'
  BY CacheKept DEF AuthInv, TypeOK, Tick
<1>2. TypeOK'
  BY <1>1, AuthAssumption DEF AuthInv, TypeOK, Tick
<1>3. QED
  BY <1>2 DEF AuthInv, Tick, Knows

(* Whatever ends a fetch other than the second refusal.                        *)
Ends(f) == \E status \in Statuses \ {"unauthorized"} : Return(f, status)

(* The steps of a fetch, by what they change.                                 *)
LEMMA GoCases ==
    ASSUME NEW f \in Fetcher, Go(f)
    PROVE  \/ Ends(f) \/ RetryRefused(f)
           \/ (\E ch \in Challenges : Challenge(f, ch))
           \/ (\E life \in Lifetimes : IssueToken(f, life))
           \/ IssueNothing(f) \/ StoreToken(f) \/ Redirect(f)
BY DEF Go, Ends, Serve, NoRealm, TokenFails, Limited, Follow, RequestFails,
       Statuses

(* The invariant holds in every state the client can reach.                    *)
LEMMA AuthStep == AuthInv /\ [Next]_vars => AuthInv'
<1> SUFFICES ASSUME AuthInv, [Next]_vars PROVE AuthInv'
  OBVIOUS
<1>1. ASSUME NEW f \in Fetcher, NEW p \in Repo, NEW k \in Kind, Arrive(f, p, k)
      PROVE AuthInv'
  BY <1>1, ArriveStep
<1>2. ASSUME NEW f \in Fetcher, Go(f) PROVE AuthInv'
  <2>1. CASE Ends(f)
    BY <2>1, ReturnStep DEF Ends
  <2>2. CASE RetryRefused(f)
    BY <2>2, ReturnStep DEF RetryRefused, Statuses
  <2>3. CASE \E ch \in Challenges : Challenge(f, ch)
    BY <2>3, ChallengeStep
  <2>4. CASE \E life \in Lifetimes : IssueToken(f, life)
    BY <2>4, IssueTokenStep
  <2>5. CASE IssueNothing(f)
    BY <2>5, IssueNothingStep
  <2>6. CASE StoreToken(f)
    BY <2>6, StoreTokenStep
  <2>7. CASE Redirect(f)
    BY <2>7, RedirectStep
  <2>8. QED
    BY <1>2, <2>1, <2>2, <2>3, <2>4, <2>5, <2>6, <2>7, GoCases
<1>3. CASE Tick
  BY <1>3, TickStep
<1>4. CASE UNCHANGED vars
  <2>1. CacheOK'
    BY <1>4, CacheKept DEF AuthInv, TypeOK, vars
  <2>2. QED
    BY <1>4, <2>1 DEF AuthInv, TypeOK, vars, Knows
<1>5. QED
  BY <1>1, <1>2, <1>3, <1>4 DEF Next

-----------------------------------------------------------------------------
(* The cache and every fetch keep their types, and the cache its margin.       *)
THEOREM AuthTypeCorrect == Spec => []TypeOK
<1>1. AuthInv => TypeOK
  BY DEF AuthInv
<1>2. QED
  BY <1>1, AuthInit, AuthStep, PTL DEF Spec

(* However fetches of several repositories replace the registry's one cache    *)
(* entry, a retry carries the token that its own fetch was granted.            *)
THEOREM RetriesCarryOwnScope == Spec => []RetryCarriesOwnScope
<1>1. AuthInv => RetryCarriesOwnScope
  BY DEF AuthInv, Knows, RetryCarriesOwnScope
<1>2. QED
  BY <1>1, AuthInit, AuthStep, PTL DEF Spec

(* The 30 seconds cover the way of the token to the cache and the way of the   *)
(* request to the upstream together.                                           *)
THEOREM MarginCovers == Spec => []MarginCoversDelay
<1>1. AuthInv => MarginCoversDelay
  <2> SUFFICES ASSUME AuthInv, NEW f \in Fetcher,
                      pc[f] = "first", loc[f].token # NoToken,
                      loc[f].token.exact,
                      (loc[f].got - loc[f].token.issued)
                          + (now - loc[f].read) <= Margin
               PROVE  now <= loc[f].token.expires
    BY DEF MarginCoversDelay
  <2>1. loc[f] \in Locals /\ now \in 0..MaxTime
    BY DEF AuthInv, TypeOK
  <2>2. loc[f].token \in Tokens /\ loc[f].got \in Int /\ loc[f].read \in Int
    BY <2>1 DEF Locals
  <2>3. loc[f].token.issued \in Int /\ loc[f].token.expires \in Int
    BY <2>2 DEF Tokens
  <2>4. loc[f].read <= loc[f].got + (loc[f].token.expires - loc[f].token.issued)
                       - Margin
    BY DEF AuthInv, Knows
  <2>5. QED
    BY <2>1, <2>2, <2>3, <2>4, AuthAssumption
<1>2. QED
  BY <1>1, AuthInit, AuthStep, PTL DEF Spec

(* A fetch comes back with a 401 only after its retry, and for want of          *)
(* permission, of a token for its repository, or of time.                      *)
THEOREM FetchesRefusedForCause == Spec => RefusedForCause
<1> DEFINE Cause(f) == /\ pc[f] = "retry"
                       /\ \/ loc[f].repo \notin Permitted
                          \/ ~ loc[f].granted
                          \/ now > loc[f].token.expires
           Fine == \A f \in Fetcher :
                      pc[f] # "done" /\ loc'[f].status = "unauthorized"
                          => Cause(f)
<1>1. AuthInv /\ [Next]_vars => [Fine]_vars
  <2> SUFFICES ASSUME AuthInv, [Next]_vars, NEW f \in Fetcher,
                      pc[f] # "done", loc'[f].status = "unauthorized"
               PROVE  Cause(f)
    OBVIOUS
  <2>0. loc \in [Fetcher -> Locals] /\ loc[f].status = "none"
    BY DEF AuthInv, TypeOK, Knows
  <2>1. loc'[f] # loc[f]
    BY <2>0
  <2>2. PICK g \in Fetcher : Go(g) \/ (\E p \in Repo, k \in Kind : Arrive(g, p, k))
    BY <2>1 DEF Next, Tick, vars
  <2>3. \E l : loc' = [loc EXCEPT ![g] = l]
    BY <2>2, <2>1 DEF Go, Arrive, Serve, Challenge, NoRealm, IssueToken,
       IssueNothing, TokenFails, StoreToken, RetryRefused, Limited, Redirect,
       Follow, RequestFails, Return
  <2>4. g = f
    BY <2>0, <2>1, <2>3
  <2>5. Go(f)
    BY <2>2, <2>4 DEF Arrive
  <2>6. CASE RetryRefused(f)
    <3>1. pc[f] = "retry" /\ ~ Valid(loc[f].token, loc[f].repo)
      BY <2>6 DEF RetryRefused
    <3>2. loc[f].granted => loc[f].token # NoToken
                            /\ loc[f].token.scope = loc[f].repo
      BY <3>1 DEF AuthInv, Knows
    <3>3. loc[f].granted => loc[f].token \in Tokens
      BY <2>0, <3>2 DEF Locals
    <3>4. now \in Int
      BY DEF AuthInv, TypeOK
    <3>5. QED
      BY <3>1, <3>2, <3>3, <3>4 DEF Valid, Tokens
  <2>7. CASE Ends(f)
    <3>1. PICK status \in Statuses \ {"unauthorized"} : Return(f, status)
      BY <2>7 DEF Ends
    <3>2. loc'[f] = Ended(status)
      BY <2>0, <3>1 DEF Return
    <3>3. QED
      BY <3>1, <3>2, EndedType
  <2>8. CASE \E ch \in Challenges : Challenge(f, ch)
    <3> DEFINE l == Frame(loc[f].repo, loc[f].kind, NoToken, 0, 0, FALSE, "none")
    <3>1. loc' = [loc EXCEPT ![f] = l]
      BY <2>8 DEF Challenge
    <3>2. loc'[f] = l
      BY <2>0, <3>1
    <3>3. l.status = "none"
      BY DEF Frame
    <3>4. QED
      BY <3>2, <3>3
  <2>9. CASE \E life \in Lifetimes : IssueToken(f, life)
    <3>1. PICK token, own :
             loc' = [loc EXCEPT ![f] =
                       Frame(loc[f].repo, loc[f].kind, token, 0, 0, own, "none")]
      BY <2>9 DEF IssueToken
    <3> DEFINE l == Frame(loc[f].repo, loc[f].kind, token, 0, 0, own, "none")
    <3>2. loc'[f] = l
      BY <2>0, <3>1
    <3>3. l.status = "none"
      BY DEF Frame
    <3>4. QED
      BY <3>2, <3>3
  <2>10. CASE IssueNothing(f) \/ StoreToken(f) \/ Redirect(f)
    BY <2>1, <2>10 DEF IssueNothing, StoreToken, Redirect
  <2>11. QED
    BY <2>5, <2>6, <2>7, <2>8, <2>9, <2>10, GoCases
<1>2. QED
  BY <1>1, AuthInit, AuthStep, PTL DEF Spec, RefusedForCause
=============================================================================
