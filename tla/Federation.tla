----------------------------- MODULE Federation -----------------------------
(* Registries that tell each other digest -> CID mappings over one pubsub     *)
(* topic (internal/federation/federation.go): announcements, queries and      *)
(* responses, the cache of mappings with its expiry goroutines, and the table *)
(* of queries waiting for a response. Every node runs the same code.          *)
(*                                                                            *)
(* One action is one critical section of a lock, one publish, or one receive. *)
(* Per node there is one goroutine that handles messages; queries run in the  *)
(* goroutines of HTTP handlers, expiry in one goroutine per cached mapping.   *)
(* Tag announcements are left out: nothing sends them and nothing reads what  *)
(* they leave.                                                                *)
EXTENDS Naturals, FiniteSets

CONSTANTS
    Node,       \* registries on the topic
    Digest,     \* digests
    CID,        \* CIDs; a digest may have several (peers chunk differently)
    Known,      \* the mappings nodes announce: a set of [digest, cid]
    Query,      \* calls of QueryDigest
    RequestID,  \* what generateRequestID returns: a clock reading, so two
                \* calls may get the same one
    TTL,        \* life of a cache entry
    MaxTime,    \* bound of the clock
    MaxSent,    \* bound of the announcements
    None

Pair(digest, cid) == [digest |-> digest, cid |-> cid]
Pairs == [digest : Digest, cid : CID]
Message(type, pair, from, id) ==
    [type |-> type, digest |-> pair.digest, cid |-> pair.cid,
     from |-> from, id |-> id]
Messages == [type : {"mapping", "query", "response"}, digest : Digest,
             cid : CID \cup {None}, from : Node, id : RequestID \cup {None}]
Timer(pair, due) == [digest |-> pair.digest, cid |-> pair.cid, due |-> due]
Timers == [digest : Digest, cid : CID, due : TTL..(MaxTime + TTL)]
(* A cache entry; since and renewed are history: when it was set, and whether  *)
(* an earlier announcement of the same mapping had yet to expire.              *)
Entry(cid, since, renewed) == [cid |-> cid, since |-> since, renewed |-> renewed]
Entries == [cid : CID, since : 0..MaxTime, renewed : BOOLEAN]

ASSUME FederationAssumption ==
    /\ Known \subseteq Pairs
    /\ TTL \in Nat /\ MaxTime \in Nat /\ MaxSent \in Nat
    /\ None \notin CID \cup RequestID \cup Query \cup Node \cup Digest \cup Entries
                   \cup Pairs \cup Messages

VARIABLES
    now, sent,
    inbox,      \* node -> messages on their way to it, in no order
    handling,   \* node -> the response whose mapping is still to be cached
    cache,      \* node -> digest -> entry or None
    timers,     \* node -> expiry goroutines, counted
    pending,    \* node -> request ID -> the query whose channel is registered
    pc,         \* query -> where it stands
    at,         \* query -> [node, digest, id]
    channel,    \* query -> mapping in its channel of capacity 1, or None
    answer,     \* query -> mapping it returned, or None
    collided    \* history: queries that share their request ID with another

messages == <<inbox, handling, sent>>
caches == <<cache, timers>>
queries == <<pending, pc, at, channel, answer, collided>>
vars == <<now, messages, caches, queries>>

Asked(node, digest, id) == [node |-> node, digest |-> digest, id |-> id]

TypeOK ==
    /\ now \in 0..MaxTime /\ sent \in 0..MaxSent
    /\ inbox \in [Node -> SUBSET Messages]
    /\ handling \in [Node -> Messages \cup {None}]
    /\ cache \in [Node -> [Digest -> Entries \cup {None}]]
    /\ timers \in [Node -> [Timers -> Nat]]
    /\ pending \in [Node -> [RequestID -> Query \cup {None}]]
    /\ pc \in [Query -> {"new", "create", "publish", "wait", "cancel", "done"}]
    /\ at \in [Query -> [node : Node \cup {None}, digest : Digest \cup {None},
                         id : RequestID \cup {None}]]
    /\ channel \in [Query -> Pairs \cup {None}]
    /\ answer \in [Query -> Pairs \cup {None}]
    /\ collided \subseteq Query

Init ==
    /\ now = 0 /\ sent = 0
    /\ inbox = [n \in Node |-> {}]
    /\ handling = [n \in Node |-> None]
    /\ cache = [n \in Node |-> [d \in Digest |-> None]]
    /\ timers = [n \in Node |-> [t \in Timers |-> 0]]
    /\ pending = [n \in Node |-> [i \in RequestID |-> None]]
    /\ pc = [q \in Query |-> "new"]
    /\ at = [q \in Query |-> Asked(None, None, None)]
    /\ channel = [q \in Query |-> None]
    /\ answer = [q \in Query |-> None]
    /\ collided = {}

Goto(q, label) == pc' = [pc EXCEPT ![q] = label]

(* Everybody on the topic gets the message; a node drops its own.              *)
Publish(msg, boxes) ==
    inbox' = [n \in Node |-> IF n = msg.from
                             THEN boxes[n] ELSE boxes[n] \cup {msg}]

-----------------------------------------------------------------------------
(* mappingCache *)

Is(entry, cid) == entry # None /\ entry.cid = cid
Sleeping(n, p) == \E t \in Timers : /\ t.digest = p.digest /\ t.cid = p.cid
                                    /\ timers[n][t] > 0
Cached(n, p) == cache' = [cache EXCEPT ![n][p.digest] =
                            Entry(p.cid, now, Sleeping(n, p))]

(* Mutant: no expiry is scheduled for a digest that is there already.          *)
SetOnce(n, p) ==
    /\ Cached(n, p)
    /\ \/ /\ cache[n][p.digest] = None
          /\ timers' = [timers EXCEPT ![n][Timer(p, now + TTL)] = @ + 1]
       \/ cache[n][p.digest] # None /\ UNCHANGED timers

(* Set replaces the entry and starts a goroutine that will expire it.          *)
Set(n, p) ==
    /\ Cached(n, p)
    /\ timers' = [timers EXCEPT ![n][Timer(p, now + TTL)] = @ + 1]

(* Mutant: the entry is deleted whether or not it was updated.                 *)
ExpireAny(n, t) ==
    /\ timers[n][t] > 0 /\ now >= t.due
    /\ timers' = [timers EXCEPT ![n][t] = @ - 1]
    /\ cache' = [cache EXCEPT ![n][t.digest] = None]
    /\ UNCHANGED <<now, messages, queries>>

(* Mutant: the expiry goroutine goes on after it has deleted the entry.        *)
ExpireTwice(n, t) ==
    /\ Is(cache[n][t.digest], t.cid) /\ now >= t.due
    /\ timers' = [timers EXCEPT ![n][t] = @ - 1]
    /\ cache' = [cache EXCEPT ![n][t.digest] = None]
    /\ UNCHANGED <<now, messages, queries>>

(* After the sleep the entry is deleted if its CID is still the same.          *)
Expire(n, t) ==
    /\ timers[n][t] > 0 /\ now >= t.due
    /\ timers' = [timers EXCEPT ![n][t] = @ - 1]
    /\ \/ /\ Is(cache[n][t.digest], t.cid)
          /\ cache' = [cache EXCEPT ![n][t.digest] = None]
       \/ ~Is(cache[n][t.digest], t.cid) /\ UNCHANGED cache
    /\ UNCHANGED <<now, messages, queries>>

-----------------------------------------------------------------------------
(* QueryDigest, called with a timeout by a handler *)

Lookup(q, n, d) ==
    LET entry == cache[n][d] IN
    /\ pc[q] = "new"
    /\ at' = [at EXCEPT ![q] = Asked(n, d, None)]
    /\ \/ /\ entry # None
          /\ answer' = [answer EXCEPT ![q] = Pair(d, entry.cid)]
          /\ Goto(q, "done")
       \/ /\ entry = None
          /\ Goto(q, "create")
          /\ UNCHANGED answer
    /\ UNCHANGED <<now, messages, caches, pending, channel, collided>>

(* generateRequestID and CreateQuery: a registered channel is replaced.        *)
Create(q, id) ==
    LET n == at[q].node
        same == {p \in Query : at[p].id = id} IN
    /\ pc[q] = "create"
    /\ at' = [at EXCEPT ![q] = Asked(n, at[q].digest, id)]
    /\ pending' = [pending EXCEPT ![n][id] = q]
    /\ collided' = IF same = {} THEN collided ELSE collided \cup same \cup {q}
    /\ Goto(q, "publish")
    /\ UNCHANGED <<now, messages, caches, channel, answer>>

Send(q) ==
    LET n == at[q].node
        msg == Message("query", Pair(at[q].digest, None), n, at[q].id) IN
    /\ pc[q] = "publish"
    /\ Publish(msg, inbox)
    /\ Goto(q, "wait")
    /\ UNCHANGED <<now, handling, sent, caches, pending, at, channel,
                   answer, collided>>

(* Mutant: the query is not cancelled when it could not be published.          *)
SendFailsUncancelled(q) ==
    /\ pc[q] = "publish"
    /\ Goto(q, "done")
    /\ UNCHANGED <<now, messages, caches, pending, at, channel, answer, collided>>
SendFails(q) ==
    /\ pc[q] = "publish"
    /\ Goto(q, "cancel")
    /\ UNCHANGED <<now, messages, caches, pending, at, channel, answer, collided>>

(* The select: an answer in the channel, or the context has ended.             *)
Receive(q) ==
    /\ pc[q] = "wait" /\ channel[q] # None
    /\ answer' = [answer EXCEPT ![q] = channel[q]]
    /\ channel' = [channel EXCEPT ![q] = None]
    /\ Goto(q, "cancel")
    /\ UNCHANGED <<now, messages, caches, pending, at, collided>>

Timeout(q) ==
    /\ pc[q] = "wait"
    /\ Goto(q, "cancel")
    /\ UNCHANGED <<now, messages, caches, pending, at, channel, answer, collided>>

(* The deferred Cancel: whoever is registered under the ID is taken out.       *)
Cancel(q) ==
    /\ pc[q] = "cancel"
    /\ pending' = [pending EXCEPT ![at[q].node][at[q].id] = None]
    /\ Goto(q, "done")
    /\ UNCHANGED <<now, messages, caches, at, channel, answer, collided>>

-----------------------------------------------------------------------------
(* Announce and processMessage *)

Announce(n, p) ==
    /\ sent < MaxSent
    /\ sent' = sent + 1
    /\ Publish(Message("mapping", p, n, None), inbox)
    /\ UNCHANGED <<now, handling, caches, queries>>

Ready(n) == handling[n] = None
Without(n, msg) == [inbox EXCEPT ![n] = @ \ {msg}]

HandleMapping(n, msg) ==
    /\ Ready(n) /\ msg \in inbox[n] /\ msg.type = "mapping"
    /\ Set(n, msg)
    /\ inbox' = Without(n, msg)
    /\ UNCHANGED <<now, handling, sent, queries>>

(* A query is answered from the cache only, the store is not asked.            *)
HandleQuery(n, msg) ==
    LET entry == cache[n][msg.digest] IN
    /\ Ready(n) /\ msg \in inbox[n] /\ msg.type = "query"
    /\ \/ entry = None /\ inbox' = Without(n, msg)
       \/ /\ entry # None
          /\ \/ Publish(Message("response", Pair(msg.digest, entry.cid), n, msg.id),
                        Without(n, msg))
             \/ inbox' = Without(n, msg)
    /\ UNCHANGED <<now, handling, sent, caches, queries>>

(* Mutant: the response goes to whichever query waits.                         *)
RespondAnyone(n, msg) ==
    \E id \in RequestID :
        LET q == pending[n][id] IN
        \/ /\ q # None
           /\ pending' = [pending EXCEPT ![n][id] = None]
           /\ channel' = [channel EXCEPT ![q] =
                            IF @ = None THEN Pair(msg.digest, msg.cid) ELSE @]
        \/ q = None /\ UNCHANGED <<pending, channel>>

(* Respond: the query is taken out of the table, its channel is filled; the    *)
(* digest of the response is not compared with the one that was asked for.     *)
Respond(n, msg) ==
    LET q == pending[n][msg.id] IN
    \/ /\ q # None
       /\ pending' = [pending EXCEPT ![n][msg.id] = None]
       /\ channel' = [channel EXCEPT ![q] =
                        IF @ = None THEN Pair(msg.digest, msg.cid) ELSE @]
    \/ q = None /\ UNCHANGED <<pending, channel>>

HandleResponse(n, msg) ==
    /\ Ready(n) /\ msg \in inbox[n] /\ msg.type = "response"
    /\ Respond(n, msg)
    /\ handling' = [handling EXCEPT ![n] = msg]
    /\ inbox' = Without(n, msg)
    /\ UNCHANGED <<now, sent, caches, pc, at, answer, collided>>

(* "Also cache it", whether somebody waited for it or not.                     *)
Remember(n) ==
    /\ handling[n] # None
    /\ Set(n, handling[n])
    /\ handling' = [handling EXCEPT ![n] = None]
    /\ UNCHANGED <<now, inbox, sent, queries>>

(* Pubsub loses messages; a subscription that ends is not renewed, which loses *)
(* every later one.                                                            *)
Lose(n, msg) ==
    /\ msg \in inbox[n]
    /\ inbox' = Without(n, msg)
    /\ UNCHANGED <<now, handling, sent, caches, queries>>

Tick ==
    /\ now < MaxTime
    /\ now' = now + 1
    /\ UNCHANGED <<messages, caches, queries>>

-----------------------------------------------------------------------------
Ask(q) ==
    \/ \E id \in RequestID : Create(q, id)
    \/ Send(q) \/ SendFails(q) \/ Receive(q) \/ Timeout(q) \/ Cancel(q)
Handle(n) ==
    \/ \E msg \in inbox[n] :
        HandleMapping(n, msg) \/ HandleQuery(n, msg) \/ HandleResponse(n, msg)
    \/ Remember(n)
Age(n) == \E t \in Timers : Expire(n, t)

Next ==
    \/ \E q \in Query : Ask(q) \/ (\E n \in Node, d \in Digest : Lookup(q, n, d))
    \/ \E n \in Node :
        \/ Handle(n) \/ Age(n)
        \/ \E p \in Known : Announce(n, p)
        \/ \E msg \in inbox[n] : Lose(n, msg)
    \/ Tick

Spec == Init /\ [][Next]_vars

-----------------------------------------------------------------------------
(* A query is answered with a mapping of the digest it asked for, whatever is  *)
(* late, lost or out of order, unless another query on the topic got the same  *)
(* request ID: responses reach everybody and are matched by their ID alone.    *)
AnswersMatch ==
    \A q \in Query \ collided :
        answer[q] # None => answer[q].digest = at[q].digest

(* No entry of the table outlives the query that made it.                      *)
PendingOwned ==
    \A n \in Node, i \in RequestID : pending[n][i] # None =>
        /\ at[pending[n][i]].node = n /\ at[pending[n][i]].id = i
        /\ pc[pending[n][i]] \in {"publish", "wait", "cancel"}

(* Whatever is in the cache has a goroutine that will take it out.             *)
EntryExpires ==
    \A n \in Node, d \in Digest : cache[n][d] # None =>
        \E t \in Timers : /\ t.digest = d /\ t.cid = cache[n][d].cid
                          /\ timers[n][t] > 0

(* "Only delete if it's the same mapping (not updated)": an entry is taken out *)
(* before its time only if the same mapping had been announced before and that *)
(* announcement had yet to expire; one with another CID is left alone.         *)
NoEarlyExpiry ==
    [][\A n \in Node, d \in Digest :
        (cache[n][d] # None /\ cache'[n][d] = None)
            => now >= cache[n][d].since + TTL \/ cache[n][d].renewed]_vars
=============================================================================
