-------------------------- MODULE FederationProofs --------------------------
(* Proofs about the federation: its types, that the table of queries and the  *)
(* cache drain, and that answers match their queries.                         *)
EXTENDS Federation, TLAPS

-----------------------------------------------------------------------------
(* Types. What a message and a query carry depends on its kind and its step.   *)

MessageOK(m) ==
    /\ m.type # "query" => m.cid \in CID
    /\ m.type # "mapping" => m.id \in RequestID

MessagesOK ==
    /\ \A n \in Node : \A m \in inbox[n] : MessageOK(m)
    /\ \A n \in Node : handling[n] # None =>
            handling[n].type = "response" /\ MessageOK(handling[n])

QueryOK(q) ==
    /\ pc[q] # "new" => at[q].node \in Node /\ at[q].digest \in Digest
    /\ pc[q] \in {"publish", "wait", "cancel"} => at[q].id \in RequestID
    /\ pc[q] \in {"new", "create"} =>
            at[q].id = None /\ channel[q] = None /\ answer[q] = None

Typed == TypeOK /\ MessagesOK /\ \A q \in Query : QueryOK(q)

Labels == {"new", "create", "publish", "wait", "cancel", "done"}
Askings == [node : Node \cup {None}, digest : Digest \cup {None},
            id : RequestID \cup {None}]

(* None is told apart from whatever stands in its place.                       *)
LEMMA NoneIsNothing ==
  /\ \A c \in CID : c # None
  /\ \A i \in RequestID : i # None
  /\ \A q \in Query : q # None
  /\ \A n \in Node : n # None
  /\ \A d \in Digest : d # None
  /\ \A e \in Entries : e # None
  /\ \A p \in Pairs : p # None
  /\ \A m \in Messages : m # None
  BY FederationAssumption

(* The initial state is typed.                                                 *)
LEMMA InitTyped == Init => Typed
  <1> SUFFICES ASSUME Init PROVE Typed
    OBVIOUS
  <1>1. TypeOK
    <2>1. now \in 0..MaxTime /\ sent \in 0..MaxSent
      BY FederationAssumption DEF Init
    <2>2. timers \in [Node -> [Timers -> Nat]]
      BY DEF Init
    <2>3. cache \in [Node -> [Digest -> Entries \cup {None}]]
      BY DEF Init
    <2>4. at \in [Query -> Askings]
      BY DEF Init, Asked, Askings
    <2> QED
      BY <2>1, <2>2, <2>3, <2>4 DEF Init, TypeOK, Askings
  <1>2. MessagesOK
    BY DEF Init, MessagesOK
  <1>3. \A q \in Query : QueryOK(q)
    BY DEF Init, QueryOK, Asked
  <1> QED
    BY <1>1, <1>2, <1>3 DEF Typed

-----------------------------------------------------------------------------
(* Which steps touch what *)

(* A mapping is set from a message, or from the response under way.            *)
Source(n, m) ==
    /\ m.digest \in Digest /\ m.cid \in CID
    /\ \/ m \in inbox[n]
       \/ m = handling[n] /\ handling[n] # None

(* The cache changes when a mapping is set or an entry expires.                *)
LEMMA CacheSteps ==
  ASSUME Typed, [Next]_vars
  PROVE  \/ UNCHANGED <<cache, timers>>
         \/ /\ now' = now
            /\ \E n \in Node, m \in Messages : Source(n, m) /\ Set(n, m)
         \/ \E n \in Node, t \in Timers : Expire(n, t)
  <1> USE DEF caches, queries, messages
  <1>1. CASE UNCHANGED vars
    BY <1>1 DEF vars
  <1>2. ASSUME NEW q \in Query, Ask(q)
        PROVE  UNCHANGED <<cache, timers>>
    BY <1>2 DEF Ask, Create, Send, SendFails, Receive, Timeout, Cancel
  <1>3. ASSUME NEW q \in Query, NEW n \in Node, NEW d \in Digest, Lookup(q, n, d)
        PROVE  UNCHANGED <<cache, timers>>
    BY <1>3 DEF Lookup
  <1>4. ASSUME NEW n \in Node, NEW m \in inbox[n], HandleMapping(n, m)
        PROVE  m \in Messages /\ Source(n, m) /\ Set(n, m) /\ now' = now
    <2>1. m \in Messages
      BY DEF Typed, TypeOK
    <2> QED
      BY <1>4, <2>1 DEF HandleMapping, Typed, MessagesOK, MessageOK, Source, Messages
  <1>5. ASSUME NEW n \in Node, NEW m \in inbox[n],
               HandleQuery(n, m) \/ HandleResponse(n, m) \/ Lose(n, m)
        PROVE  UNCHANGED <<cache, timers>>
    BY <1>5 DEF HandleQuery, HandleResponse, Lose
  <1>6. ASSUME NEW n \in Node, Remember(n)
        PROVE  \E m \in Messages : Source(n, m) /\ Set(n, m) /\ now' = now
    <2>1. handling[n] \in Messages
      BY <1>6 DEF Remember, Typed, TypeOK
    <2>2. Source(n, handling[n])
      BY <1>6, <2>1 DEF Remember, Typed, MessagesOK, MessageOK, Source, Messages
    <2> QED
      BY <1>6, <2>1, <2>2 DEF Remember
  <1>7. ASSUME NEW n \in Node, NEW p \in Known, Announce(n, p)
        PROVE  UNCHANGED <<cache, timers>>
    BY <1>7 DEF Announce
  <1>8. CASE Tick
    BY <1>8 DEF Tick
  <1> QED
    BY <1>1, <1>2, <1>3, <1>4, <1>5, <1>6, <1>7, <1>8 DEF Next, Handle, Age

-----------------------------------------------------------------------------
(* The cache *)

CachesTyped ==
    /\ cache \in [Node -> [Digest -> Entries \cup {None}]]
    /\ timers \in [Node -> [Timers -> Nat]]

(* A cache entry that is set, and the timer that goes with it, are typed.      *)
LEMMA SetTyped ==
  ASSUME Typed, NEW n \in Node, NEW m \in Messages, Source(n, m), Set(n, m)
  PROVE  /\ CachesTyped'
         /\ Timer(m, now + TTL) \in Timers
         /\ \A k \in Node, d \in Digest :
                cache'[k][d] = IF k = n /\ d = m.digest
                               THEN Entry(m.cid, now, Sleeping(n, m)) ELSE cache[k][d]
         /\ \A k \in Node, t \in Timers :
                timers'[k][t] = IF k = n /\ t = Timer(m, now + TTL)
                                THEN timers[k][t] + 1 ELSE timers[k][t]
  <1> DEFINE e == Entry(m.cid, now, Sleeping(n, m))
             t0 == Timer(m, now + TTL)
             row == [cache[n] EXCEPT ![m.digest] = e]
             col == [timers[n] EXCEPT ![t0] = timers[n][t0] + 1]
  <1>1. /\ now \in 0..MaxTime /\ MaxTime \in Nat /\ TTL \in Nat
        /\ cache \in [Node -> [Digest -> Entries \cup {None}]]
        /\ timers \in [Node -> [Timers -> Nat]]
        /\ m.digest \in Digest /\ m.cid \in CID
    BY FederationAssumption DEF Typed, TypeOK, Source
  <1>2. now + TTL \in TTL..(MaxTime + TTL)
    BY <1>1
  <1>3. t0 \in Timers
    BY <1>1, <1>2 DEF Timer, Timers
  <1>4. Sleeping(n, m) \in BOOLEAN
    BY DEF Sleeping
  <1>5. e \in Entries
    BY <1>1, <1>4 DEF Entry, Entries
  <1>6. cache' = [cache EXCEPT ![n] = row]
    BY DEF Set, Cached
  <1>7. timers' = [timers EXCEPT ![n] = col]
    BY DEF Set
  <1>8. /\ row \in [Digest -> Entries \cup {None}]
        /\ \A d \in Digest : row[d] = IF d = m.digest THEN e ELSE cache[n][d]
    BY <1>1, <1>5
  <1>9. /\ col \in [Timers -> Nat]
        /\ \A t \in Timers : col[t] = IF t = t0 THEN timers[n][t] + 1 ELSE timers[n][t]
    BY <1>1, <1>3
  <1> HIDE DEF e, t0, row, col
  <1>10. CachesTyped'
    BY <1>1, <1>6, <1>7, <1>8, <1>9 DEF CachesTyped
  <1>11. \A k \in Node, d \in Digest :
            cache'[k][d] = IF k = n /\ d = m.digest THEN e ELSE cache[k][d]
    BY <1>1, <1>6, <1>8
  <1>12. \A k \in Node, t \in Timers :
            timers'[k][t] = IF k = n /\ t = t0 THEN timers[k][t] + 1 ELSE timers[k][t]
    BY <1>1, <1>7, <1>9
  <1> QED
    BY <1>3, <1>10, <1>11, <1>12 DEF e, t0

(* So are the caches after a timer has fired.                                  *)
LEMMA ExpireTyped ==
  ASSUME Typed, NEW n \in Node, NEW t \in Timers, Expire(n, t)
  PROVE  /\ CachesTyped'
         /\ \A k \in Node, d \in Digest :
                cache'[k][d] = IF k = n /\ d = t.digest /\ Is(cache[n][d], t.cid)
                               THEN None ELSE cache[k][d]
         /\ \A k \in Node, s \in Timers :
                timers'[k][s] = IF k = n /\ s = t
                                THEN timers[k][s] - 1 ELSE timers[k][s]
  <1> DEFINE row == [cache[n] EXCEPT ![t.digest] = None]
             col == [timers[n] EXCEPT ![t] = timers[n][t] - 1]
  <1>1. /\ cache \in [Node -> [Digest -> Entries \cup {None}]]
        /\ timers \in [Node -> [Timers -> Nat]]
        /\ t.digest \in Digest
        /\ timers[n][t] > 0
    BY DEF Typed, TypeOK, Timers, Expire
  <1>2. timers' = [timers EXCEPT ![n] = col]
    BY DEF Expire
  <1>3. timers[n][t] \in Nat
    BY <1>1
  <1>4. timers[n][t] - 1 \in Nat
    BY <1>1, <1>3
  <1>5. /\ col \in [Timers -> Nat]
        /\ \A s \in Timers : col[s] = IF s = t THEN timers[n][s] - 1 ELSE timers[n][s]
    BY <1>1, <1>4
  <1> HIDE DEF col
  <1>6. timers' \in [Node -> [Timers -> Nat]]
    BY <1>1, <1>2, <1>5
  <1>7. \A k \in Node, s \in Timers :
            timers'[k][s] = IF k = n /\ s = t THEN timers[k][s] - 1 ELSE timers[k][s]
    BY <1>1, <1>2, <1>5
  <1>8. CASE Is(cache[n][t.digest], t.cid)
    <2>1. cache' = [cache EXCEPT ![n] = row]
      BY <1>8 DEF Expire
    <2>2. /\ row \in [Digest -> Entries \cup {None}]
          /\ \A d \in Digest : row[d] = IF d = t.digest THEN None ELSE cache[n][d]
      BY <1>1
    <2> HIDE DEF row
    <2>3. cache' \in [Node -> [Digest -> Entries \cup {None}]]
      BY <1>1, <2>1, <2>2
    <2> QED
      BY <1>1, <1>6, <1>7, <1>8, <2>1, <2>2, <2>3 DEF CachesTyped
  <1>9. CASE ~ Is(cache[n][t.digest], t.cid)
    <2>1. cache' = cache
      BY <1>9 DEF Expire
    <2> QED
      BY <1>1, <1>6, <1>7, <1>9, <2>1 DEF CachesTyped
  <1> QED
    BY <1>8, <1>9

(* Every step keeps the caches and the timers typed.                           *)
LEMMA CachesStayTyped ==
  ASSUME Typed, [Next]_vars
  PROVE  CachesTyped'
  <1>1. CASE UNCHANGED <<cache, timers>>
    BY <1>1 DEF Typed, TypeOK, CachesTyped
  <1> QED
    BY <1>1, CacheSteps, SetTyped, ExpireTyped

(* An entry keeps its goroutine until the goroutine takes it out: another      *)
(* goroutine that ends first takes the entry with it if it fits.               *)
LEMMA EntryExpiresStep ==
  ASSUME Typed, EntryExpires, [Next]_vars
  PROVE  EntryExpires'
  <1>1. CASE UNCHANGED <<cache, timers>>
    BY <1>1 DEF EntryExpires
  <1>2. ASSUME NEW n \in Node, NEW m \in Messages, Source(n, m), Set(n, m)
        PROVE  EntryExpires'
    <2> SUFFICES ASSUME NEW k \in Node, NEW d \in Digest, cache'[k][d] # None
                 PROVE  \E t \in Timers : /\ t.digest = d /\ t.cid = cache'[k][d].cid
                                          /\ timers'[k][t] > 0
      BY DEF EntryExpires
    <2>1. timers \in [Node -> [Timers -> Nat]]
      BY DEF Typed, TypeOK
    <2>2. CASE k = n /\ d = m.digest
      <3>1. cache'[k][d] = Entry(m.cid, now, Sleeping(n, m))
        BY <1>2, <2>2, SetTyped
      <3>2. cache'[k][d].cid = m.cid
        BY <3>1 DEF Entry
      <3>3. Timer(m, now + TTL) \in Timers
        BY <1>2, SetTyped
      <3>4. timers'[k][Timer(m, now + TTL)] = timers[k][Timer(m, now + TTL)] + 1
        BY <1>2, <2>2, <3>3, SetTyped
      <3>5. timers[k][Timer(m, now + TTL)] \in Nat
        BY <2>1, <3>3
      <3>6. timers'[k][Timer(m, now + TTL)] > 0
        BY <3>4, <3>5
      <3> QED
        BY <2>2, <3>2, <3>3, <3>6 DEF Timer
    <2>3. CASE ~ (k = n /\ d = m.digest)
      <3>1. cache'[k][d] = cache[k][d]
        BY <1>2, <2>3, SetTyped
      <3>2. PICK t \in Timers : /\ t.digest = d /\ t.cid = cache[k][d].cid
                                /\ timers[k][t] > 0
        BY <3>1 DEF EntryExpires
      <3>3. timers[k][t] \in Nat
        BY <2>1
      <3>4. timers'[k][t] = timers[k][t] \/ timers'[k][t] = timers[k][t] + 1
        BY <1>2, SetTyped
      <3>5. timers'[k][t] > 0
        BY <3>2, <3>3, <3>4
      <3> QED
        BY <3>1, <3>2, <3>5
    <2> QED
      BY <2>2, <2>3
  <1>3. ASSUME NEW n \in Node, NEW t \in Timers, Expire(n, t)
        PROVE  EntryExpires'
    <2> SUFFICES ASSUME NEW k \in Node, NEW d \in Digest, cache'[k][d] # None
                 PROVE  \E s \in Timers : /\ s.digest = d /\ s.cid = cache'[k][d].cid
                                          /\ timers'[k][s] > 0
      BY DEF EntryExpires
    <2>1. /\ cache'[k][d] = cache[k][d]
          /\ ~ (k = n /\ d = t.digest /\ Is(cache[n][d], t.cid))
      BY <1>3, ExpireTyped
    <2>2. PICK s \in Timers : /\ s.digest = d /\ s.cid = cache[k][d].cid
                              /\ timers[k][s] > 0
      BY <2>1 DEF EntryExpires
    <2>3. ~ (k = n /\ s = t)
      BY <2>1, <2>2 DEF Is
    <2>4. timers'[k][s] = timers[k][s]
      BY <1>3, <2>3, ExpireTyped
    <2> QED
      BY <2>1, <2>2, <2>4
  <1> QED
    BY <1>1, <1>2, <1>3, CacheSteps

-----------------------------------------------------------------------------
(* Entries leave in time *)

(* A sleeping timer that would take the entry out. An entry that was set while *)
(* none slept has only timers that are due when it has lived its time.         *)
Fits(t, n, d) ==
    t.digest = d /\ t.cid = cache[n][d].cid /\ timers[n][t] > 0
DueInTime ==
    \A n \in Node, d \in Digest : cache[n][d] # None =>
        \/ cache[n][d].renewed
        \/ \A t \in Timers : Fits(t, n, d) => t.due >= cache[n][d].since + TTL

(* A new entry is no None, so what disappears was not set.                     *)
LEMMA SetLeavesEntry ==
  ASSUME Typed, NEW n \in Node, NEW m \in Messages, Source(n, m), Set(n, m),
         NEW k \in Node, NEW d \in Digest, cache[k][d] # None
  PROVE  cache'[k][d] # None
  <1>1. now \in 0..MaxTime /\ m.cid \in CID /\ Sleeping(n, m) \in BOOLEAN
    BY DEF Typed, TypeOK, Source, Sleeping
  <1>2. Entry(m.cid, now, Sleeping(n, m)) \in Entries
    BY <1>1 DEF Entry, Entries
  <1>3. Entry(m.cid, now, Sleeping(n, m)) # None
    BY <1>2, NoneIsNothing
  <1> QED
    BY <1>3, SetTyped

(* A mapping set while no timer of it sleeps has one timer, due a TTL later;   *)
(* any other entry keeps the timers it has.                                    *)
LEMMA DueAfterSet ==
  ASSUME Typed, DueInTime, NEW n \in Node, NEW m \in Messages,
         Source(n, m), Set(n, m)
  PROVE  DueInTime'
  <1> SUFFICES ASSUME NEW k \in Node, NEW d \in Digest, cache'[k][d] # None,
                      ~ cache'[k][d].renewed,
                      NEW t \in Timers, t.digest = d, t.cid = cache'[k][d].cid,
                      timers'[k][t] > 0
               PROVE  t.due >= cache'[k][d].since + TTL
    BY DEF DueInTime, Fits
  <1>1. now \in Nat /\ TTL \in Nat
    BY FederationAssumption DEF Typed, TypeOK
  <1>2. CASE k = n /\ d = m.digest
    <2>1. cache'[k][d] = Entry(m.cid, now, Sleeping(n, m))
      BY <1>2, SetTyped
    <2>2. cache'[k][d].cid = m.cid /\ cache'[k][d].since = now /\ ~ Sleeping(n, m)
      BY <2>1 DEF Entry
    <2>3. ~ timers[n][t] > 0
      BY <1>2, <2>2 DEF Sleeping
    <2>4. t = Timer(m, now + TTL)
      BY <1>2, <2>3, SetTyped
    <2>5. t.due = now + TTL
      BY <2>4 DEF Timer
    <2> QED
      BY <1>1, <2>2, <2>5
  <1>3. CASE ~ (k = n /\ d = m.digest)
    <2>1. cache'[k][d] = cache[k][d]
      BY <1>3, SetTyped
    <2>2. ~ (k = n /\ t = Timer(m, now + TTL))
      BY <1>3 DEF Timer
    <2>3. timers'[k][t] = timers[k][t]
      BY <2>2, SetTyped
    <2> QED
      BY <2>1, <2>3 DEF DueInTime, Fits
  <1> QED
    BY <1>2, <1>3

(* A timer that ends is one less, and the entries it leaves are as before.     *)
LEMMA DueAfterExpire ==
  ASSUME Typed, DueInTime, NEW n \in Node, NEW s \in Timers, Expire(n, s)
  PROVE  DueInTime'
  <1> SUFFICES ASSUME NEW k \in Node, NEW d \in Digest, cache'[k][d] # None,
                      ~ cache'[k][d].renewed,
                      NEW t \in Timers, t.digest = d, t.cid = cache'[k][d].cid,
                      timers'[k][t] > 0
               PROVE  t.due >= cache'[k][d].since + TTL
    BY DEF DueInTime, Fits
  <1>1. cache'[k][d] = cache[k][d]
    BY ExpireTyped
  <1>2. timers[k][t] \in Nat
    BY DEF Typed, TypeOK
  <1>3. timers'[k][t] = timers[k][t] \/ timers'[k][t] = timers[k][t] - 1
    BY ExpireTyped
  <1>4. timers[k][t] > 0
    BY <1>2, <1>3
  <1> QED
    BY <1>1, <1>4 DEF DueInTime, Fits

(* Every step keeps the timers of first announcements in time.                 *)
LEMMA DueInTimeStep ==
  ASSUME Typed, DueInTime, [Next]_vars
  PROVE  DueInTime'
  <1>1. CASE UNCHANGED <<cache, timers>>
    BY <1>1 DEF DueInTime, Fits
  <1> QED
    BY <1>1, CacheSteps, DueAfterSet, DueAfterExpire

(* The step property: what leaves the cache was taken by a timer that fits.    *)
EarlyOnlyIfRenewed ==
    \A n \in Node, d \in Digest :
        (cache[n][d] # None /\ cache'[n][d] = None)
            => now >= cache[n][d].since + TTL \/ cache[n][d].renewed

(* No step takes an entry out early, unless its mapping was set twice.         *)
LEMMA LeavesInTime ==
  ASSUME Typed, DueInTime, [Next]_vars
  PROVE  EarlyOnlyIfRenewed
  <1> SUFFICES ASSUME NEW k \in Node, NEW d \in Digest,
                      cache[k][d] # None, cache'[k][d] = None,
                      ~ cache[k][d].renewed
               PROVE  now >= cache[k][d].since + TTL
    BY DEF EarlyOnlyIfRenewed
  <1>1. PICK n \in Node, t \in Timers : Expire(n, t)
    BY CacheSteps, SetLeavesEntry
  <1>2. k = n /\ d = t.digest /\ Is(cache[n][d], t.cid)
    BY <1>1, ExpireTyped
  <1>3. Fits(t, k, d) /\ now >= t.due
    BY <1>1, <1>2 DEF Expire, Is, Fits
  <1>4. t.due >= cache[k][d].since + TTL
    BY <1>3 DEF DueInTime
  <1>5. /\ cache[k][d] \in Entries /\ now \in Nat
        /\ TTL \in Nat /\ MaxTime \in Nat
    BY FederationAssumption DEF Typed, TypeOK
  <1>6. cache[k][d].since \in Nat /\ t.due \in Nat
    BY <1>5 DEF Entries, Timers
  <1> QED
    BY <1>3, <1>4, <1>5, <1>6

-----------------------------------------------------------------------------
(* Messages *)

Boxes(boxes) ==
    /\ boxes \in [Node -> SUBSET Messages]
    /\ \A n \in Node : \A m \in boxes[n] : MessageOK(m)

(* Publishing a good message fills the inboxes with good messages.             *)
LEMMA PublishTyped ==
  ASSUME NEW msg \in Messages, MessageOK(msg), NEW boxes, Boxes(boxes),
         Publish(msg, boxes)
  PROVE  Boxes(inbox')
  BY DEF Publish, Boxes

(* Taking a message out of an inbox leaves good messages.                      *)
LEMMA WithoutTyped ==
  ASSUME Boxes(inbox), NEW n \in Node, NEW msg
  PROVE  Boxes(Without(n, msg))
  BY DEF Boxes, Without

(* The messages the code builds are good messages.                             *)
LEMMA MessageTyped ==
  ASSUME NEW type \in {"mapping", "query", "response"}, NEW p,
         p.digest \in Digest, p.cid \in CID \cup {None},
         NEW n \in Node, NEW id \in RequestID \cup {None},
         type # "query" => p.cid \in CID,
         type # "mapping" => id \in RequestID
  PROVE  Message(type, p, n, id) \in Messages /\ MessageOK(Message(type, p, n, id))
  BY DEF Message, Messages, MessageOK

MessagesTyped == Boxes(inbox) /\ sent \in 0..MaxSent /\ now \in 0..MaxTime
                 /\ handling \in [Node -> Messages \cup {None}] /\ MessagesOK

(* Every step keeps what is under way typed.                                   *)
LEMMA MessagesStayTyped ==
  ASSUME Typed, [Next]_vars
  PROVE  MessagesTyped'
  <1> USE DEF messages
  <1>1. MessagesTyped
    BY DEF Typed, TypeOK, MessagesTyped, MessagesOK, Boxes
  <1>2. /\ MaxTime \in Nat /\ MaxSent \in Nat
        /\ now \in 0..MaxTime /\ sent \in 0..MaxSent /\ Boxes(inbox)
        /\ handling \in [Node -> Messages \cup {None}]
        /\ \A n \in Node : handling[n] # None =>
                handling[n].type = "response" /\ MessageOK(handling[n])
    BY <1>1, FederationAssumption DEF MessagesTyped, MessagesOK
  <1>3. ASSUME UNCHANGED <<now, messages>> PROVE MessagesTyped'
    BY <1>1, <1>3 DEF MessagesTyped, MessagesOK, Boxes, MessageOK
  <1>4. ASSUME Boxes(inbox'), UNCHANGED <<now, handling>>, sent' \in 0..MaxSent
        PROVE  MessagesTyped'
    BY <1>2, <1>4 DEF MessagesTyped, MessagesOK, Boxes, MessageOK
  <1>5. ASSUME NEW q \in Query, Ask(q) PROVE MessagesTyped'
    <2>1. CASE Send(q)
      <3> DEFINE p == Pair(at[q].digest, None)
                 msg == Message("query", p, at[q].node, at[q].id)
      <3>1. /\ at[q].node \in Node /\ at[q].digest \in Digest /\ at[q].id \in RequestID
        BY <2>1 DEF Send, Typed, QueryOK
      <3>2. p.digest \in Digest /\ p.cid = None
        BY <3>1 DEF Pair
      <3> HIDE DEF p
      <3>3. msg \in Messages /\ MessageOK(msg)
        BY <3>1, <3>2, MessageTyped
      <3>4. Publish(msg, inbox)
        BY <2>1 DEF Send, p
      <3> HIDE DEF msg
      <3>5. Boxes(inbox')
        BY <1>2, <3>3, <3>4, PublishTyped
      <3>6. UNCHANGED <<now, handling, sent>>
        BY <2>1 DEF Send
      <3> QED
        BY <1>2, <1>4, <3>5, <3>6
    <2>2. CASE ~ Send(q)
      BY <1>3, <1>5, <2>2 DEF Ask, Create, SendFails, Receive, Timeout, Cancel
    <2> QED
      BY <2>1, <2>2
  <1>6. ASSUME NEW q \in Query, NEW n \in Node, NEW d \in Digest, Lookup(q, n, d)
        PROVE  MessagesTyped'
    BY <1>3, <1>6 DEF Lookup
  <1>7. ASSUME NEW n \in Node, NEW msg \in inbox[n],
               HandleMapping(n, msg) \/ Lose(n, msg)
        PROVE  MessagesTyped'
    <2>1. Boxes(inbox') /\ UNCHANGED <<now, handling, sent>>
      BY <1>2, <1>7, WithoutTyped DEF HandleMapping, Lose
    <2> QED
      BY <1>2, <1>4, <2>1
  <1>8. ASSUME NEW n \in Node, NEW msg \in inbox[n], HandleQuery(n, msg)
        PROVE  MessagesTyped'
    <2> DEFINE p == Pair(msg.digest, cache[n][msg.digest].cid)
               answered == Message("response", p, n, msg.id)
    <2>1. UNCHANGED <<now, handling, sent>> /\ Boxes(Without(n, msg))
      BY <1>2, <1>8, WithoutTyped DEF HandleQuery
    <2>2. CASE inbox' = Without(n, msg)
      BY <1>2, <1>4, <2>1, <2>2
    <2>3. CASE cache[n][msg.digest] # None /\ Publish(answered, Without(n, msg))
      <3>1. msg \in Messages /\ MessageOK(msg) /\ msg.type = "query"
        BY <1>2, <1>8 DEF HandleQuery, Boxes
      <3>2. msg.digest \in Digest /\ msg.id \in RequestID
        BY <3>1 DEF Messages, MessageOK
      <3>3. cache[n][msg.digest] \in Entries
        BY <2>3, <3>2 DEF Typed, TypeOK
      <3>4. p.digest \in Digest /\ p.cid \in CID
        BY <3>2, <3>3 DEF Pair, Entries
      <3> HIDE DEF p
      <3>5. answered \in Messages /\ MessageOK(answered)
        BY <3>2, <3>4, MessageTyped
      <3>6. Boxes(inbox')
        BY <2>1, <2>3, <3>5, PublishTyped
      <3> QED
        BY <1>2, <1>4, <2>1, <3>6
    <2> QED
      BY <1>8, <2>2, <2>3 DEF HandleQuery
  <1>9. ASSUME NEW n \in Node, NEW msg \in inbox[n], HandleResponse(n, msg)
        PROVE  MessagesTyped'
    <2>1. msg \in Messages /\ MessageOK(msg) /\ msg.type = "response"
      BY <1>2, <1>9 DEF HandleResponse, Boxes
    <2>2. /\ Boxes(inbox') /\ UNCHANGED <<now, sent>>
          /\ handling' = [handling EXCEPT ![n] = msg]
      BY <1>2, <1>9, WithoutTyped DEF HandleResponse
    <2> QED
      BY <1>2, <2>1, <2>2 DEF MessagesTyped, MessagesOK, Boxes, MessageOK
  <1>10. ASSUME NEW n \in Node, Remember(n) PROVE MessagesTyped'
    <2>1. UNCHANGED <<now, inbox, sent>> /\ handling' = [handling EXCEPT ![n] = None]
      BY <1>10 DEF Remember
    <2> QED
      BY <1>2, <2>1 DEF MessagesTyped, MessagesOK, Boxes, MessageOK
  <1>11. ASSUME NEW n \in Node, NEW p \in Known, Announce(n, p)
         PROVE  MessagesTyped'
    <2>1. p.digest \in Digest /\ p.cid \in CID
      BY FederationAssumption DEF Pairs
    <2>2. /\ Message("mapping", p, n, None) \in Messages
          /\ MessageOK(Message("mapping", p, n, None))
      BY <2>1, MessageTyped
    <2>3. Boxes(inbox')
      BY <1>2, <1>11, <2>2, PublishTyped DEF Announce
    <2> QED
      BY <1>2, <1>4, <1>11, <2>3 DEF Announce
  <1>12. ASSUME NEW n \in Node, NEW t \in Timers, Expire(n, t)
         PROVE  MessagesTyped'
    BY <1>3, <1>12 DEF Expire
  <1>13. CASE Tick
    <2>1. now' \in 0..MaxTime /\ UNCHANGED <<inbox, handling, sent>>
      BY <1>2, <1>13 DEF Tick
    <2> QED
      BY <1>2, <2>1 DEF MessagesTyped, MessagesOK, Boxes, MessageOK
  <1>14. CASE UNCHANGED vars
    BY <1>3, <1>14 DEF vars
  <1> QED
    BY <1>5, <1>6, <1>7, <1>8, <1>9, <1>10, <1>11, <1>12, <1>13, <1>14
    DEF Next, Handle, Age

-----------------------------------------------------------------------------
(* Queries *)

QueriesTyped ==
    /\ pending \in [Node -> [RequestID -> Query \cup {None}]]
    /\ pc \in [Query -> Labels]
    /\ at \in [Query -> Askings]
    /\ channel \in [Query -> Pairs \cup {None}]
    /\ answer \in [Query -> Pairs \cup {None}]
    /\ collided \subseteq Query
    /\ \A q \in Query : QueryOK(q)

(* What typing says of the queries.                                            *)
LEMMA QueriesAreTyped == ASSUME Typed PROVE QueriesTyped
  BY DEF Typed, TypeOK, QueriesTyped, Labels, Askings

(* One row of the table of queries: what registering or taking out does.       *)
LEMMA PendingSet ==
  ASSUME QueriesTyped, NEW n \in Node, NEW i \in RequestID,
         NEW x \in Query \cup {None},
         pending' = [pending EXCEPT ![n][i] = x]
  PROVE  /\ pending' \in [Node -> [RequestID -> Query \cup {None}]]
         /\ \A k \in Node, j \in RequestID :
                pending'[k][j] = IF k = n /\ j = i THEN x ELSE pending[k][j]
  <1> DEFINE row == [pending[n] EXCEPT ![i] = x]
  <1>1. pending \in [Node -> [RequestID -> Query \cup {None}]]
    BY DEF QueriesTyped
  <1>2. pending' = [pending EXCEPT ![n] = row]
    OBVIOUS
  <1>3. /\ row \in [RequestID -> Query \cup {None}]
        /\ \A j \in RequestID : row[j] = IF j = i THEN x ELSE pending[n][j]
    BY <1>1
  <1> HIDE DEF row
  <1> QED
    BY <1>1, <1>2, <1>3

(* The steps that are not a query's own touch the table and the channels only  *)
(* when a response is delivered.                                               *)
Deliver(n, m) ==
    /\ m \in inbox[n] /\ m.type = "response"
    /\ Respond(n, m)
    /\ UNCHANGED <<pc, at, answer, collided>>

(* The steps that move a query; every other leaves them alone.                 *)
LEMMA QuerySteps ==
  ASSUME Typed, [Next]_vars
  PROVE  \/ UNCHANGED queries
         \/ \E q \in Query : Ask(q)
         \/ \E q \in Query, n \in Node, d \in Digest : Lookup(q, n, d)
         \/ \E n \in Node, m \in Messages : MessageOK(m) /\ Deliver(n, m)
  <1>1. CASE UNCHANGED vars
    BY <1>1 DEF vars
  <1>2. ASSUME NEW n \in Node, NEW m \in inbox[n],
               HandleMapping(n, m) \/ HandleQuery(n, m) \/ Lose(n, m)
        PROVE  UNCHANGED queries
    BY <1>2 DEF HandleMapping, HandleQuery, Lose
  <1>3. ASSUME NEW n \in Node, NEW m \in inbox[n], HandleResponse(n, m)
        PROVE  m \in Messages /\ MessageOK(m) /\ Deliver(n, m)
    BY <1>3 DEF HandleResponse, Deliver, Typed, TypeOK, MessagesOK
  <1>4. ASSUME NEW n \in Node, Remember(n)
        PROVE  UNCHANGED queries
    BY <1>4 DEF Remember
  <1>5. ASSUME NEW n \in Node, NEW p \in Known, Announce(n, p)
        PROVE  UNCHANGED queries
    BY <1>5 DEF Announce
  <1>6. ASSUME NEW n \in Node, NEW t \in Timers, Expire(n, t)
        PROVE  UNCHANGED queries
    BY <1>6 DEF Expire
  <1>7. CASE Tick
    BY <1>7 DEF Tick
  <1> QED
    BY <1>1, <1>2, <1>3, <1>4, <1>5, <1>6, <1>7 DEF Next, Handle, Age

(* What a delivered response does to the query it was for.                     *)
LEMMA DeliverTyped ==
  ASSUME Typed, NEW n \in Node, NEW m \in Messages, MessageOK(m), Deliver(n, m)
  PROVE  /\ pending' \in [Node -> [RequestID -> Query \cup {None}]]
         /\ channel' \in [Query -> Pairs \cup {None}]
         /\ \A k \in Node, j \in RequestID :
                pending'[k][j] = None \/ pending'[k][j] = pending[k][j]
         /\ \A q \in Query :
                \/ channel'[q] = channel[q]
                \/ /\ q = pending[n][m.id] /\ m.id \in RequestID
                   /\ channel'[q] = Pair(m.digest, m.cid)
  <1> DEFINE q0 == pending[n][m.id]
  <1>1. QueriesTyped
    BY QueriesAreTyped
  <1>2. /\ m.digest \in Digest /\ m.cid \in CID /\ m.id \in RequestID
        /\ Pair(m.digest, m.cid) \in Pairs
    BY DEF Messages, MessageOK, Deliver, Pair, Pairs
  <1>3. q0 \in Query \cup {None}
    BY <1>1, <1>2 DEF QueriesTyped
  <1>4. CASE q0 = None
    <2>1. UNCHANGED <<pending, channel>>
      BY <1>4 DEF Deliver, Respond
    <2> QED
      BY <1>1, <2>1 DEF QueriesTyped
  <1>5. CASE q0 # None
    <2>1. pending' = [pending EXCEPT ![n][m.id] = None]
      BY <1>5 DEF Deliver, Respond
    <2>2. channel' = [channel EXCEPT ![q0] =
                        IF channel[q0] = None THEN Pair(m.digest, m.cid)
                        ELSE channel[q0]]
      BY <1>5 DEF Deliver, Respond
    <2>3. /\ pending' \in [Node -> [RequestID -> Query \cup {None}]]
          /\ \A k \in Node, j \in RequestID :
                pending'[k][j] = None \/ pending'[k][j] = pending[k][j]
      BY <1>1, <1>2, <2>1, PendingSet
    <2>4. channel \in [Query -> Pairs \cup {None}] /\ q0 \in Query
      BY <1>1, <1>3, <1>5 DEF QueriesTyped
    <2> HIDE DEF q0
    <2>5. channel' \in [Query -> Pairs \cup {None}]
      BY <1>2, <2>2, <2>4
    <2>6. \A q \in Query :
            \/ channel'[q] = channel[q]
            \/ q = q0 /\ channel'[q] = Pair(m.digest, m.cid)
      BY <2>2, <2>4
    <2> QED
      BY <1>2, <2>3, <2>5, <2>6 DEF q0
  <1> QED
    BY <1>4, <1>5

(* The steps of one query: its own variables change, the others' do not.       *)
LEMMA OneQuery ==
  ASSUME NEW S, NEW T, NEW f \in [S -> T], NEW x \in S, NEW v \in T
  PROVE  /\ [f EXCEPT ![x] = v] \in [S -> T]
         /\ \A y \in S : [f EXCEPT ![x] = v][y] = IF y = x THEN v ELSE f[y]
  OBVIOUS

Table == Typed /\ PendingOwned

(* A lookup starts a query without registering it.                             *)
LEMMA LookupStep ==
  ASSUME Table, NEW q \in Query, NEW n \in Node, NEW d \in Digest, Lookup(q, n, d)
  PROVE  QueriesTyped' /\ PendingOwned'
  <1>1. QueriesTyped
    BY QueriesAreTyped DEF Table
  <1>2. Asked(n, d, None) \in Askings
    BY DEF Asked, Askings
  <1>3. /\ at' = [at EXCEPT ![q] = Asked(n, d, None)]
        /\ at' \in [Query -> Askings]
        /\ \A p \in Query : at'[p] = IF p = q THEN Asked(n, d, None) ELSE at[p]
    BY <1>1, <1>2, OneQuery DEF Lookup, QueriesTyped
  <1>4. pc[q] = "new" /\ UNCHANGED <<pending, channel, collided>>
    BY DEF Lookup
  <1>5. PendingOwned'
    BY <1>1, <1>3, <1>4 DEF Table, PendingOwned, QueriesTyped, Lookup, Goto, Labels
  <1>6. CASE cache[n][d] # None /\ answer' = [answer EXCEPT ![q] = Pair(d, cache[n][d].cid)]
             /\ Goto(q, "done")
    <2>1. cache[n][d] \in Entries
      BY <1>6 DEF Table, Typed, TypeOK
    <2>2. Pair(d, cache[n][d].cid) \in Pairs
      BY <2>1 DEF Entries, Pair, Pairs
    <2>3. answer' \in [Query -> Pairs \cup {None}]
      BY <1>1, <1>6, <2>2 DEF QueriesTyped
    <2>4. pc' \in [Query -> Labels] /\ \A p \in Query : pc'[p] = IF p = q THEN "done" ELSE pc[p]
      BY <1>1, <1>6 DEF QueriesTyped, Goto, Labels
    <2>5. ASSUME NEW p \in Query PROVE QueryOK(p)'
      BY <1>1, <1>3, <1>4, <1>6, <2>4 DEF QueriesTyped, QueryOK, Asked
    <2> QED
      BY <1>1, <1>3, <1>4, <1>5, <2>3, <2>4, <2>5 DEF QueriesTyped
  <1>7. CASE UNCHANGED answer /\ Goto(q, "create")
    <2>1. pc' \in [Query -> Labels] /\ \A p \in Query : pc'[p] = IF p = q THEN "create" ELSE pc[p]
      BY <1>1, <1>7 DEF QueriesTyped, Goto, Labels
    <2>2. ASSUME NEW p \in Query PROVE QueryOK(p)'
      BY <1>1, <1>3, <1>4, <1>7, <2>1 DEF QueriesTyped, QueryOK, Asked
    <2> QED
      BY <1>1, <1>3, <1>4, <1>5, <1>7, <2>1, <2>2 DEF QueriesTyped
  <1> QED
    BY <1>6, <1>7 DEF Lookup

(* A query is registered under its own ID.                                     *)
LEMMA CreateStep ==
  ASSUME Table, NEW q \in Query, NEW id \in RequestID, Create(q, id)
  PROVE  QueriesTyped' /\ PendingOwned'
  <1> DEFINE n == at[q].node
             a == Asked(n, at[q].digest, id)
  <1>1. QueriesTyped
    BY QueriesAreTyped DEF Table
  <1>2. pc[q] = "create" /\ n \in Node /\ at[q].digest \in Digest
    BY <1>1 DEF Create, QueriesTyped, QueryOK
  <1>3. a \in Askings /\ a.node = n /\ a.id = id /\ a.digest \in Digest
    BY <1>2 DEF Asked, Askings
  <1>4. at' = [at EXCEPT ![q] = a] /\ pending' = [pending EXCEPT ![n][id] = q]
    BY DEF Create
  <1>5. /\ pending' \in [Node -> [RequestID -> Query \cup {None}]]
        /\ \A k \in Node, j \in RequestID :
                pending'[k][j] = IF k = n /\ j = id THEN q ELSE pending[k][j]
    BY <1>1, <1>2, <1>4, PendingSet
  <1>6. pc' \in [Query -> Labels] /\ \A p \in Query : pc'[p] = IF p = q THEN "publish" ELSE pc[p]
    BY <1>1 DEF QueriesTyped, Create, Goto, Labels
  <1> HIDE DEF a, n
  <1>7. at' \in [Query -> Askings] /\ \A p \in Query : at'[p] = IF p = q THEN a ELSE at[p]
    BY <1>1, <1>3, <1>4 DEF QueriesTyped
  <1>8. collided' \subseteq Query /\ UNCHANGED <<channel, answer>>
    BY <1>1 DEF QueriesTyped, Create
  <1>9. ASSUME NEW p \in Query PROVE QueryOK(p)'
    BY <1>1, <1>2, <1>3, <1>6, <1>7, <1>8 DEF QueriesTyped, QueryOK
  <1>10. PendingOwned'
    BY <1>1, <1>2, <1>3, <1>5, <1>6, <1>7 DEF Table, PendingOwned, QueriesTyped
  <1> QED
    BY <1>1, <1>5, <1>6, <1>7, <1>8, <1>9, <1>10 DEF QueriesTyped

(* Send, SendFails, Receive, Timeout: the query keeps its ID and stays in the  *)
(* part of QueryDigest that ends with Cancel.                                  *)
LEMMA UnderWayStep ==
  ASSUME Table, NEW q \in Query,
         Send(q) \/ SendFails(q) \/ Receive(q) \/ Timeout(q)
  PROVE  QueriesTyped' /\ PendingOwned'
  <1>1. QueriesTyped
    BY QueriesAreTyped DEF Table
  <1>2. /\ pc[q] \in {"publish", "wait"} /\ UNCHANGED <<pending, at, collided>>
        /\ \E label \in {"wait", "cancel"} : pc' = [pc EXCEPT ![q] = label]
    BY DEF Send, SendFails, Receive, Timeout, Goto
  <1>3. PICK label \in {"wait", "cancel"} :
            pc' \in [Query -> Labels] /\ \A p \in Query : pc'[p] = IF p = q THEN label ELSE pc[p]
    BY <1>1, <1>2 DEF QueriesTyped, Labels
  <1>4. /\ channel' \in [Query -> Pairs \cup {None}]
        /\ answer' \in [Query -> Pairs \cup {None}]
        /\ \A p \in Query : p # q => channel'[p] = channel[p] /\ answer'[p] = answer[p]
    BY <1>1 DEF QueriesTyped, Send, SendFails, Receive, Timeout
  <1>5. ASSUME NEW p \in Query PROVE QueryOK(p)'
    BY <1>1, <1>2, <1>3, <1>4 DEF QueriesTyped, QueryOK
  <1>6. PendingOwned'
    BY <1>1, <1>2, <1>3 DEF Table, PendingOwned, QueriesTyped
  <1> QED
    BY <1>1, <1>2, <1>3, <1>4, <1>5, <1>6 DEF QueriesTyped

(* Cancel takes out the entry under the query's ID, its own or another's.      *)
LEMMA CancelStep ==
  ASSUME Table, NEW q \in Query, Cancel(q)
  PROVE  QueriesTyped' /\ PendingOwned'
  <1> DEFINE n == at[q].node
             id == at[q].id
  <1>1. QueriesTyped
    BY QueriesAreTyped DEF Table
  <1>2. pc[q] = "cancel" /\ n \in Node /\ id \in RequestID
    BY <1>1 DEF Cancel, QueriesTyped, QueryOK
  <1>3. pending' = [pending EXCEPT ![n][id] = None]
    BY DEF Cancel
  <1>4. /\ pending' \in [Node -> [RequestID -> Query \cup {None}]]
        /\ \A k \in Node, j \in RequestID :
                pending'[k][j] = IF k = n /\ j = id THEN None ELSE pending[k][j]
    BY <1>1, <1>2, <1>3, PendingSet
  <1>5. pc' \in [Query -> Labels] /\ \A p \in Query : pc'[p] = IF p = q THEN "done" ELSE pc[p]
    BY <1>1 DEF QueriesTyped, Cancel, Goto, Labels
  <1>6. UNCHANGED <<at, channel, answer, collided>>
    BY DEF Cancel
  <1>7. ASSUME NEW p \in Query PROVE QueryOK(p)'
    BY <1>1, <1>2, <1>5, <1>6 DEF QueriesTyped, QueryOK
  <1>8. PendingOwned'
    BY <1>1, <1>4, <1>5, <1>6 DEF Table, PendingOwned, QueriesTyped
  <1> QED
    BY <1>1, <1>4, <1>5, <1>6, <1>7, <1>8 DEF QueriesTyped

(* An answer goes to the query that is registered, and takes it out.           *)
LEMMA DeliverStep ==
  ASSUME Table, NEW n \in Node, NEW m \in Messages, MessageOK(m), Deliver(n, m)
  PROVE  QueriesTyped' /\ PendingOwned'
  <1>1. QueriesTyped /\ Typed
    BY QueriesAreTyped DEF Table
  <1>2. UNCHANGED <<pc, at, answer, collided>>
    BY DEF Deliver
  <1>3. /\ pending' \in [Node -> [RequestID -> Query \cup {None}]]
        /\ channel' \in [Query -> Pairs \cup {None}]
        /\ \A k \in Node, j \in RequestID :
               pending'[k][j] = None \/ pending'[k][j] = pending[k][j]
        /\ \A q \in Query :
               \/ channel'[q] = channel[q]
               \/ q = pending[n][m.id] /\ m.id \in RequestID
    BY <1>1, DeliverTyped
  <1>4. ASSUME NEW q \in Query, pc[q] \in {"new", "create"}
        PROVE  channel'[q] = channel[q]
    <2>1. CASE q = pending[n][m.id] /\ m.id \in RequestID
      <3>1. pending[n][m.id] # None
        BY <2>1, NoneIsNothing
      <3>2. pc[pending[n][m.id]] \in {"publish", "wait", "cancel"}
        BY <2>1, <3>1 DEF Table, PendingOwned
      <3> QED
        BY <1>4, <2>1, <3>2
    <2>2. CASE ~ (q = pending[n][m.id] /\ m.id \in RequestID)
      BY <1>3, <2>2
    <2> QED
      BY <2>1, <2>2
  <1>5. ASSUME NEW q \in Query PROVE QueryOK(q)'
    BY <1>1, <1>2, <1>4 DEF QueriesTyped, QueryOK
  <1>6. PendingOwned'
    BY <1>2, <1>3 DEF Table, PendingOwned
  <1> QED
    BY <1>1, <1>2, <1>3, <1>5, <1>6 DEF QueriesTyped

(* Every step keeps the table.                                                 *)
LEMMA TableStep ==
  ASSUME Table, [Next]_vars
  PROVE  Table'
  <1>1. Typed
    BY DEF Table
  <1>2. MessagesTyped' /\ CachesTyped'
    BY <1>1, MessagesStayTyped, CachesStayTyped
  <1>3. QueriesTyped' /\ PendingOwned'
    <2>1. CASE UNCHANGED queries
      BY <1>1, <2>1, QueriesAreTyped DEF queries, QueriesTyped, QueryOK, Table, PendingOwned
    <2>2. ASSUME NEW q \in Query, Ask(q) PROVE QueriesTyped' /\ PendingOwned'
      BY <2>2, CreateStep, UnderWayStep, CancelStep DEF Ask
    <2> QED
      BY <1>1, <2>1, <2>2, QuerySteps, LookupStep, DeliverStep
  <1> QED
    BY <1>2, <1>3
    DEF Table, Typed, TypeOK, MessagesTyped, CachesTyped, QueriesTyped, Boxes, Labels, Askings

(* Nothing is registered at first.                                             *)
LEMMA InitTable == Init => Table
  <1> SUFFICES ASSUME Init PROVE PendingOwned
    BY InitTyped DEF Table
  <1> QED
    BY DEF Init, PendingOwned

-----------------------------------------------------------------------------
(* Answers. A message with a request ID carries the digest of a query that has *)
(* that ID; if the ID belongs to one query only, it is the right one.          *)

Asker(m) == \E q \in Query : at[q].id = m.id /\ at[q].digest = m.digest

UniqueOrCollided ==
    \A p, q \in Query : p # q /\ at[p].id # None /\ at[p].id = at[q].id => p \in collided

MessagesAsked ==
    \A n \in Node : \A m \in inbox[n] : m.type # "mapping" => Asker(m)

ChannelsMatch ==
    \A q \in Query : q \notin collided /\ channel[q] # None
                        => channel[q].digest = at[q].digest

MatchInv == UniqueOrCollided /\ MessagesAsked /\ ChannelsMatch /\ AnswersMatch

(* A query that draws an ID in use collides, and so does its owner.            *)
LEMMA CreateCollides ==
  ASSUME Table, NEW q \in Query, NEW id \in RequestID, Create(q, id)
  PROVE  /\ \A p \in Query : p # q => at'[p] = at[p]
         /\ at[q].id = None /\ at'[q].id = id
         /\ collided \subseteq collided'
         /\ \A p \in Query : at[p].id = id => p \in collided' /\ q \in collided'
  <1>1. QueriesTyped
    BY QueriesAreTyped DEF Table
  <1>2. at[q].id = None
    BY <1>1 DEF Create, QueriesTyped, QueryOK
  <1>3. at' = [at EXCEPT ![q] = Asked(at[q].node, at[q].digest, id)]
    BY DEF Create
  <1>4. at'[q].id = id /\ \A p \in Query : p # q => at'[p] = at[p]
    BY <1>1, <1>3 DEF QueriesTyped, Asked
  <1>5. ASSUME NEW p \in Query, at[p].id = id
        PROVE  p \in collided' /\ q \in collided'
    BY <1>5 DEF Create
  <1>6. collided \subseteq collided'
    BY DEF Create
  <1> QED
    BY <1>2, <1>4, <1>5, <1>6

(* A query that has its ID keeps what it asked for; who has collided stays so. *)
LEMMA AskedStays ==
  ASSUME Table, [Next]_vars
  PROVE  /\ \A q \in Query : at[q].id # None => at'[q] = at[q]
         /\ collided \subseteq collided'
  <1>1. Typed /\ QueriesTyped
    BY QueriesAreTyped DEF Table
  <1>2. CASE UNCHANGED queries
    BY <1>2 DEF queries
  <1>3. ASSUME NEW q \in Query, NEW id \in RequestID, Create(q, id)
        PROVE  /\ \A p \in Query : at[p].id # None => at'[p] = at[p]
               /\ collided \subseteq collided'
    BY <1>3, CreateCollides
  <1>4. ASSUME NEW q \in Query,
               Send(q) \/ SendFails(q) \/ Receive(q) \/ Timeout(q) \/ Cancel(q)
        PROVE  UNCHANGED <<at, collided>>
    BY <1>4 DEF Send, SendFails, Receive, Timeout, Cancel
  <1>5. ASSUME NEW q \in Query, NEW n \in Node, NEW d \in Digest, Lookup(q, n, d)
        PROVE  /\ \A p \in Query : at[p].id # None => at'[p] = at[p]
               /\ UNCHANGED collided
    <2>1. at[q].id = None
      BY <1>1, <1>5 DEF Lookup, QueriesTyped, QueryOK
    <2>2. at' = [at EXCEPT ![q] = Asked(n, d, None)] /\ collided' = collided
      BY <1>5 DEF Lookup
    <2> QED
      BY <1>1, <2>1, <2>2 DEF QueriesTyped
  <1>6. ASSUME NEW n \in Node, NEW m \in Messages, Deliver(n, m)
        PROVE  UNCHANGED <<at, collided>>
    BY <1>6 DEF Deliver
  <1> QED
    BY <1>1, <1>2, <1>3, <1>4, <1>5, <1>6, QuerySteps DEF Ask

(* Whoever has asked for a message's ID has asked for good.                    *)
LEMMA AskerStays ==
  ASSUME Table, [Next]_vars, NEW m \in Messages, m.id \in RequestID, Asker(m)
  PROVE  Asker(m)'
  <1>1. PICK q \in Query : at[q].id = m.id /\ at[q].digest = m.digest
    BY DEF Asker
  <1>2. at'[q] = at[q]
    BY <1>1, AskedStays, NoneIsNothing
  <1> QED
    BY <1>1, <1>2 DEF Asker

(* Where a message of the next state comes from.                               *)
LEMMA MessageOrigins ==
  ASSUME Typed, [Next]_vars, NEW k \in Node, NEW m \in inbox'[k]
  PROVE  \/ m.type = "mapping"
         \/ m \in inbox[k]
         \/ \E q \in Query : m.id = at[q].id /\ m.digest = at[q].digest
         \/ \E n \in Node : \E o \in inbox[n] :
                o.type = "query" /\ m.id = o.id /\ m.digest = o.digest
  <1> USE DEF messages
  <1>1. inbox \in [Node -> SUBSET Messages]
    BY DEF Typed, TypeOK
  <1>2. CASE UNCHANGED inbox
    BY <1>2
  <1>3. ASSUME NEW q \in Query, Ask(q), ~ UNCHANGED inbox
        PROVE  \/ m \in inbox[k]
               \/ m.id = at[q].id /\ m.digest = at[q].digest
    <2>1. Send(q)
      BY <1>3 DEF Ask, Create, SendFails, Receive, Timeout, Cancel
    <2> QED
      BY <2>1 DEF Send, Publish, Message, Pair
  <1>4. ASSUME NEW q \in Query, NEW n \in Node, NEW d \in Digest, Lookup(q, n, d)
        PROVE  UNCHANGED inbox
    BY <1>4 DEF Lookup
  <1>5. ASSUME NEW n \in Node, NEW o \in inbox[n],
               HandleMapping(n, o) \/ HandleResponse(n, o) \/ Lose(n, o)
        PROVE  m \in inbox[k]
    BY <1>1, <1>5 DEF HandleMapping, HandleResponse, Lose, Without
  <1>6. ASSUME NEW n \in Node, NEW o \in inbox[n], HandleQuery(n, o)
        PROVE  \/ m \in inbox[k]
               \/ o.type = "query" /\ m.id = o.id /\ m.digest = o.digest
    <2>1. \A b \in Node : Without(n, o)[b] \subseteq inbox[b]
      BY <1>1 DEF Without
    <2>2. CASE inbox' = Without(n, o)
      BY <2>1, <2>2
    <2>3. CASE inbox' # Without(n, o)
      <3>1. Publish(Message("response", Pair(o.digest, cache[n][o.digest].cid), n, o.id),
                    Without(n, o))
        BY <1>6, <2>3 DEF HandleQuery
      <3>2. o.type = "query"
        BY <1>6 DEF HandleQuery
      <3> QED
        BY <2>1, <3>1, <3>2 DEF Publish, Message, Pair
    <2> QED
      BY <2>2, <2>3
  <1>7. ASSUME NEW n \in Node, Remember(n) PROVE UNCHANGED inbox
    BY <1>7 DEF Remember
  <1>8. ASSUME NEW n \in Node, NEW p \in Known, Announce(n, p)
        PROVE  m \in inbox[k] \/ m.type = "mapping"
    BY <1>8 DEF Announce, Publish, Message
  <1>9. ASSUME NEW n \in Node, NEW t \in Timers, Expire(n, t) PROVE UNCHANGED inbox
    BY <1>9 DEF Expire
  <1>10. CASE Tick
    BY <1>10 DEF Tick
  <1>11. CASE UNCHANGED vars
    BY <1>11 DEF vars
  <1> QED
    BY <1>2, <1>3, <1>4, <1>5, <1>6, <1>7, <1>8, <1>9, <1>10, <1>11 DEF Next, Handle, Age

(* Every step leaves only messages that were asked for.                        *)
LEMMA MessagesAskedStep ==
  ASSUME Table, MatchInv, [Next]_vars
  PROVE  MessagesAsked'
  <1> SUFFICES ASSUME NEW k \in Node, NEW m \in inbox'[k], m.type # "mapping"
               PROVE  Asker(m)'
    BY DEF MessagesAsked
  <1>1. MessagesTyped' /\ Typed
    BY MessagesStayTyped DEF Table
  <1>2. m \in Messages /\ m.id \in RequestID
    BY <1>1 DEF MessagesTyped, Boxes, MessageOK
  <1>3. CASE m \in inbox[k]
    BY <1>2, <1>3, AskerStays DEF MatchInv, MessagesAsked
  <1>4. ASSUME NEW q \in Query, m.id = at[q].id, m.digest = at[q].digest
        PROVE  Asker(m)'
    <2>1. Asker(m)
      BY <1>4 DEF Asker
    <2> QED
      BY <1>2, <2>1, AskerStays
  <1>5. ASSUME NEW n \in Node, NEW o \in inbox[n], o.type = "query",
               m.id = o.id, m.digest = o.digest
        PROVE  Asker(m)'
    <2>1. Asker(o)
      BY <1>5 DEF MatchInv, MessagesAsked
    <2>2. Asker(m)
      BY <1>5, <2>1 DEF Asker
    <2> QED
      BY <1>2, <2>2, AskerStays
  <1> QED
    BY <1>1, <1>3, <1>4, <1>5, MessageOrigins

(* Every step leaves IDs unique but for the collided.                          *)
LEMMA UniqueStep ==
  ASSUME Table, UniqueOrCollided, [Next]_vars
  PROVE  UniqueOrCollided'
  <1> SUFFICES ASSUME NEW p \in Query, NEW q \in Query, p # q,
                      at'[p].id # None, at'[p].id = at'[q].id
               PROVE  p \in collided'
    BY DEF UniqueOrCollided
  <1>1. Typed /\ QueriesTyped
    BY QueriesAreTyped DEF Table
  <1>2. CASE UNCHANGED <<at, collided>>
    BY <1>2 DEF UniqueOrCollided
  <1>3. ASSUME NEW r \in Query, NEW id \in RequestID, Create(r, id)
        PROVE  p \in collided'
    <2>1. /\ \A x \in Query : x # r => at'[x] = at[x]
          /\ at'[r].id = id
          /\ collided \subseteq collided'
          /\ \A x \in Query : at[x].id = id => x \in collided' /\ r \in collided'
      BY <1>3, CreateCollides
    <2>2. CASE p = r
      BY <2>1, <2>2
    <2>3. CASE q = r
      BY <2>1, <2>3
    <2>4. CASE p # r /\ q # r
      BY <2>1, <2>4 DEF UniqueOrCollided
    <2> QED
      BY <2>2, <2>3, <2>4
  <1>4. ASSUME NEW r \in Query,
               Send(r) \/ SendFails(r) \/ Receive(r) \/ Timeout(r) \/ Cancel(r)
        PROVE  UNCHANGED <<at, collided>>
    BY <1>4 DEF Send, SendFails, Receive, Timeout, Cancel
  <1>5. ASSUME NEW r \in Query, NEW n \in Node, NEW d \in Digest, Lookup(r, n, d)
        PROVE  p \in collided'
    <2>1. at' = [at EXCEPT ![r] = Asked(n, d, None)] /\ collided' = collided
      BY <1>5 DEF Lookup
    <2>2. at'[r].id = None /\ \A x \in Query : x # r => at'[x] = at[x]
      BY <1>1, <2>1 DEF QueriesTyped, Asked
    <2>3. p # r /\ q # r
      BY <2>2
    <2> QED
      BY <2>1, <2>2, <2>3 DEF UniqueOrCollided
  <1>6. ASSUME NEW n \in Node, NEW m \in Messages, Deliver(n, m)
        PROVE  UNCHANGED <<at, collided>>
    BY <1>6 DEF Deliver
  <1>7. CASE UNCHANGED queries
    BY <1>2, <1>7 DEF queries
  <1> QED
    BY <1>1, <1>2, <1>3, <1>4, <1>5, <1>6, <1>7, QuerySteps DEF Ask

(* What is delivered was asked for by a query with the response's ID: either   *)
(* by the query that gets it, or the two have collided.                        *)
LEMMA ChannelsStep ==
  ASSUME Table, MatchInv, [Next]_vars
  PROVE  ChannelsMatch'
  <1> SUFFICES ASSUME NEW q \in Query, q \notin collided', channel'[q] # None
               PROVE  channel'[q].digest = at'[q].digest
    BY DEF ChannelsMatch
  <1>1. Typed /\ QueriesTyped
    BY QueriesAreTyped DEF Table
  <1>2. q \notin collided
    BY AskedStays
  <1>3. CASE channel'[q] = channel[q]
    <2>1. at[q].id # None => at'[q] = at[q]
      BY AskedStays
    <2>2. at[q].digest = channel[q].digest
      BY <1>2, <1>3 DEF MatchInv, ChannelsMatch
    <2>3. CASE UNCHANGED at
      BY <1>3, <2>2, <2>3
    <2>4. ASSUME NEW r \in Query, NEW id \in RequestID, Create(r, id)
          PROVE  at'[q].digest = at[q].digest
      <3>1. at' = [at EXCEPT ![r] = Asked(at[r].node, at[r].digest, id)]
        BY <2>4 DEF Create
      <3> QED
        BY <1>1, <3>1 DEF QueriesTyped, Asked
    <2>5. ASSUME NEW r \in Query,
                 Send(r) \/ SendFails(r) \/ Receive(r) \/ Timeout(r) \/ Cancel(r)
          PROVE  UNCHANGED at
      BY <2>5 DEF Send, SendFails, Receive, Timeout, Cancel
    <2>6. ASSUME NEW r \in Query, NEW n \in Node, NEW d \in Digest, Lookup(r, n, d)
          PROVE  at'[q] = at[q]
      <3>1. channel[r] = None /\ channel' = channel
        BY <1>1, <2>6 DEF Lookup, QueriesTyped, QueryOK
      <3>2. r # q
        BY <3>1
      <3>3. at' = [at EXCEPT ![r] = Asked(n, d, None)]
        BY <2>6 DEF Lookup
      <3> QED
        BY <1>1, <3>2, <3>3 DEF QueriesTyped
    <2>7. ASSUME NEW n \in Node, NEW m \in Messages, Deliver(n, m)
          PROVE  UNCHANGED at
      BY <2>7 DEF Deliver
    <2>8. CASE UNCHANGED queries
      BY <2>8, <2>3 DEF queries
    <2> QED
      BY <1>1, <1>3, <2>2, <2>3, <2>4, <2>5, <2>6, <2>7, <2>8, QuerySteps DEF Ask
  <1>4. CASE channel'[q] # channel[q]
    <2>1. ASSUME NEW r \in Query, Ask(r) PROVE FALSE
      BY <1>1, <1>4, <2>1
      DEF Ask, Create, Send, SendFails, Receive, Timeout, Cancel, QueriesTyped
    <2>2. ASSUME NEW r \in Query, NEW n \in Node, NEW d \in Digest, Lookup(r, n, d)
          PROVE  FALSE
      BY <1>4, <2>2 DEF Lookup
    <2>3. ~ UNCHANGED queries
      BY <1>4 DEF queries
    <2>4. PICK n \in Node, m \in Messages : MessageOK(m) /\ Deliver(n, m)
      BY <1>1, <2>1, <2>2, <2>3, QuerySteps
    <2>5. /\ q = pending[n][m.id] /\ m.id \in RequestID
          /\ channel'[q] = Pair(m.digest, m.cid)
      BY <1>1, <1>4, <2>4, DeliverTyped
    <2>6. pending[n][m.id] # None
      BY <2>5, NoneIsNothing
    <2>7. at[q].id = m.id /\ at' = at
      BY <2>4, <2>5, <2>6 DEF Table, PendingOwned, Deliver
    <2>8. PICK p \in Query : at[p].id = m.id /\ at[p].digest = m.digest
      BY <2>4 DEF Deliver, MatchInv, MessagesAsked, Asker
    <2>9. p = q
      BY <1>2, <2>5, <2>7, <2>8, NoneIsNothing DEF MatchInv, UniqueOrCollided
    <2> QED
      BY <2>5, <2>7, <2>8, <2>9 DEF Pair
  <1> QED
    BY <1>3, <1>4

(* Every step answers a query with the digest it asked for.                    *)
LEMMA AnswersStep ==
  ASSUME Table, MatchInv, [Next]_vars
  PROVE  AnswersMatch'
  <1> SUFFICES ASSUME NEW q \in Query, q \notin collided', answer'[q] # None
               PROVE  answer'[q].digest = at'[q].digest
    BY DEF AnswersMatch
  <1>1. Typed /\ QueriesTyped
    BY QueriesAreTyped DEF Table
  <1>2. q \notin collided
    BY AskedStays
  <1>3. ASSUME answer'[q] = answer[q], at'[q].digest = at[q].digest
        PROVE  answer'[q].digest = at'[q].digest
    BY <1>2, <1>3 DEF MatchInv, AnswersMatch
  <1>4. ASSUME NEW r \in Query, NEW id \in RequestID, Create(r, id)
        PROVE  answer'[q].digest = at'[q].digest
    <2>1. at' = [at EXCEPT ![r] = Asked(at[r].node, at[r].digest, id)]
          /\ answer' = answer
      BY <1>4 DEF Create
    <2>2. at'[q].digest = at[q].digest
      BY <1>1, <2>1 DEF QueriesTyped, Asked
    <2> QED
      BY <1>3, <2>1, <2>2
  <1>5. ASSUME NEW r \in Query, Receive(r)
        PROVE  answer'[q].digest = at'[q].digest
    <2>1. channel[r] # None /\ answer' = [answer EXCEPT ![r] = channel[r]] /\ at' = at
      BY <1>5 DEF Receive
    <2>2. CASE r = q
      <3>1. answer'[q] = channel[q]
        BY <1>1, <2>1, <2>2 DEF QueriesTyped
      <3> QED
        BY <1>2, <2>1, <2>2, <3>1 DEF MatchInv, ChannelsMatch
    <2>3. CASE r # q
      BY <1>1, <1>3, <2>1, <2>3 DEF QueriesTyped
    <2> QED
      BY <2>2, <2>3
  <1>6. ASSUME NEW r \in Query, Send(r) \/ SendFails(r) \/ Timeout(r) \/ Cancel(r)
        PROVE  answer'[q].digest = at'[q].digest
    <2>1. UNCHANGED <<at, answer>>
      BY <1>6 DEF Send, SendFails, Timeout, Cancel
    <2> QED
      BY <1>3, <2>1
  <1>7. ASSUME NEW r \in Query, NEW n \in Node, NEW d \in Digest, Lookup(r, n, d)
        PROVE  answer'[q].digest = at'[q].digest
    <2>1. at' = [at EXCEPT ![r] = Asked(n, d, None)] /\ answer[r] = None
      BY <1>1, <1>7 DEF Lookup, QueriesTyped, QueryOK
    <2>2. \/ answer' = [answer EXCEPT ![r] = Pair(d, cache[n][d].cid)]
          \/ answer' = answer
      BY <1>7 DEF Lookup
    <2>3. CASE r = q
      <3>1. answer'[q] = Pair(d, cache[n][d].cid)
        BY <1>1, <2>1, <2>2, <2>3 DEF QueriesTyped
      <3>2. at'[q] = Asked(n, d, None)
        BY <1>1, <2>1, <2>3 DEF QueriesTyped
      <3> QED
        BY <3>1, <3>2 DEF Pair, Asked
    <2>4. CASE r # q
      BY <1>1, <1>3, <2>1, <2>2, <2>4 DEF QueriesTyped
    <2> QED
      BY <2>3, <2>4
  <1>8. ASSUME NEW n \in Node, NEW m \in Messages, Deliver(n, m)
        PROVE  answer'[q].digest = at'[q].digest
    BY <1>3, <1>8 DEF Deliver
  <1>9. CASE UNCHANGED queries
    BY <1>3, <1>9 DEF queries
  <1> QED
    BY <1>1, <1>4, <1>5, <1>6, <1>7, <1>8, <1>9, QuerySteps DEF Ask

-----------------------------------------------------------------------------
(* The table is right in every state.                                          *)
LEMMA TableAlways == Spec => []Table
  <1>1. Init => Table
    BY InitTable
  <1>2. Table /\ [Next]_vars => Table'
    BY TableStep
  <1> QED
    BY <1>1, <1>2, PTL DEF Spec

(* Every variable keeps its type, for any registries, queries and mappings.    *)
THEOREM FederationTypeCorrect == Spec => []TypeOK
  <1>1. Table => TypeOK
    BY DEF Table, Typed
  <1> QED
    BY <1>1, TableAlways, PTL

(* No entry of the table of queries outlives its query (Create, SendFails,     *)
(* Timeout, Cancel and late responses), with request IDs that collide as well. *)
THEOREM TableOfQueriesDrains == Spec => []PendingOwned
  <1>1. Table => PendingOwned
    BY DEF Table
  <1> QED
    BY <1>1, TableAlways, PTL

(* Every cached mapping has an expiry goroutine that fits it.                  *)
THEOREM CacheDrains == Spec => []EntryExpires
  <1>1. Init => EntryExpires
    BY DEF Init, EntryExpires
  <1>2. Table /\ EntryExpires /\ [Next]_vars => EntryExpires'
    BY EntryExpiresStep DEF Table
  <1> QED
    BY <1>1, <1>2, TableAlways, PTL DEF Spec

(* A query with a request ID of its own is answered with a mapping of the      *)
(* digest it asked for, whatever is lost, late or out of order.                *)
THEOREM AnswersMatchQueries == Spec => []AnswersMatch
  <1>1. Init => MatchInv
    <2> SUFFICES ASSUME Init PROVE MatchInv
      OBVIOUS
    <2>1. \A q \in Query : at[q].id = None /\ channel[q] = None /\ answer[q] = None
      BY DEF Init, Asked
    <2>2. \A n \in Node : inbox[n] = {}
      BY DEF Init
    <2> QED
      BY <2>1, <2>2
      DEF MatchInv, UniqueOrCollided, MessagesAsked, ChannelsMatch, AnswersMatch
  <1>2. Table /\ MatchInv /\ [Next]_vars => MatchInv'
    BY MessagesAskedStep, UniqueStep, ChannelsStep, AnswersStep DEF MatchInv
  <1>3. MatchInv => AnswersMatch
    BY DEF MatchInv
  <1> QED
    BY <1>1, <1>2, <1>3, TableAlways, PTL DEF Spec
(* An entry is taken out before its time only if the same mapping had been     *)
(* announced before; an expiry that is overtaken by another CID leaves it.     *)
THEOREM NothingExpiresEarly == Spec => NoEarlyExpiry
  <1>1. Init => DueInTime
    BY DEF Init, DueInTime
  <1>2. Table /\ DueInTime /\ [Next]_vars => DueInTime'
    BY DueInTimeStep DEF Table
  <1>3. Spec => []DueInTime
    BY <1>1, <1>2, TableAlways, PTL DEF Spec
  <1>4. Table /\ DueInTime /\ [Next]_vars => [EarlyOnlyIfRenewed]_vars
    BY LeavesInTime DEF Table
  <1>5. Spec => [][EarlyOnlyIfRenewed]_vars
    BY <1>3, <1>4, TableAlways, PTL DEF Spec
  <1> QED
    BY <1>5 DEF NoEarlyExpiry, EarlyOnlyIfRenewed
=============================================================================
