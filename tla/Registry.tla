------------------------------ MODULE Registry ------------------------------
(* The handlers that serve and store content by tag and by digest             *)
(* (internal/registry/handler.go, internal/registry/resolver.go) on top of    *)
(* the store, the IPFS node and the collector of ContentStore: manifests by   *)
(* tag (with revalidation of old tags) and by digest, blobs, manifest pushes  *)
(* and deletes. Every lookup goes local store, federation, upstream.          *)
(*                                                                            *)
(* One action is one bolt transaction, one call to the node, one answer of    *)
(* the federation or of an upstream registry; between any two of those other  *)
(* requests and the collector run.                                            *)
EXTENDS ContentStore, Sequences

CONSTANTS
    Req,        \* HTTP requests, each served once by one goroutine
    Ops,        \* what clients ask for, a subset of AllOps
    Pushed,     \* manifests clients push
    Hosted,     \* contents the upstream registries serve
    Upstreamed, \* names whose registry part has an upstream configured
    TagTTL,     \* config federation.tag_ttl, 0 = cached tags are never stale
    Federated,  \* config federation.enabled
    Shared,     \* sources of which shouldAnnounce says yes
    NoName, NoContent, NoCID

AllOps == {"getTag", "getDigest", "getBlob", "headBlob",
           "putTag", "putDigest", "delTag", "delDigest"}
BlobOps == {"getBlob", "headBlob"}
PutOps == {"putTag", "putDigest"}

ASSUME RequestAssumption ==
    /\ Ops \subseteq AllOps /\ Shared \subseteq Sources
    /\ Pushed \subseteq Content /\ Hosted \subseteq Content
    /\ Upstreamed \subseteq Name
    /\ TagTTL \in Nat /\ Federated \in BOOLEAN
    /\ NoName \notin Name /\ NoContent \notin Content /\ NoCID \notin CIDs

VARIABLES
    upstream,   \* name -> manifest its upstream registry serves for the tag
    announced,  \* what went to the federation: [digest, cid, source]
    pc,         \* where each request's handler stands
    req,        \* what was asked: [op, name]
    plan,       \* getManifestByTag: the attempts that are left
    held,       \* a handler's variables: [digest, body, cid, created]
    status,     \* the response, 0 before there is one
    seen,       \* history: tag values of the upstream since the tag was read
    stale,      \* history: requests that found their tag older than its TTL
                \* and whose upstream has not failed since
    straight,   \* history: requests that got their answer from an upstream
    stored,     \* history: digests that ever had a mapping
    raced       \* history: digests the collector unpinned while being stored

handlers == <<pc, req, plan, held, status>>
store == <<buckets, ipfsVars, now, gc>>
history == <<seen, stale, straight, stored, raced>>
vars == <<store, upstream, announced, handlers, history>>

Request(op, name) == [op |-> op, name |-> name]
Held(digest, body, cid, created) ==
    [digest |-> digest, body |-> body, cid |-> cid, created |-> created]
Nothing == Held(NoDigest, NoContent, NoCID, 0)
Requests == [op : AllOps \cup {"none"}, name : Name \cup {NoName}]
Locals == [digest : Digests \cup {NoDigest}, body : Content \cup {NoContent},
           cid : CIDs \cup {NoCID}, created : 0..MaxTime]
Codes == {0, 200, 201, 202, 404, 500}
Attempts == {"digest", "tag"}
Labels == {"new", "tag", "lookup", "cat", "query", "peer", "peermap", "fetch",
           "add", "map", "tagput", "publish", "delete", "done", "gone"}

HandlersTypeOK ==
    /\ pc \in [Req -> Labels]
    /\ req \in [Req -> Requests]
    /\ plan \in [Req -> Seq(Attempts)]
    /\ held \in [Req -> Locals]
    /\ status \in [Req -> Codes]

WorldTypeOK ==
    /\ upstream \in [Name -> Content]
    /\ announced \subseteq [digest : Digests, cid : CIDs, source : Sources]
    /\ seen \in [Req -> SUBSET Content]
    /\ stale \subseteq Req /\ straight \subseteq Req
    /\ stored \subseteq Digests /\ raced \subseteq Digests

TypeOK == StoreTypeOK /\ HandlersTypeOK /\ WorldTypeOK

Init ==
    /\ StoreInit
    /\ upstream \in [Name -> Content]
    /\ \A n \in Name : n \in Upstreamed => upstream[n] \in Hosted
    /\ announced = {}
    /\ pc = [r \in Req |-> "new"]
    /\ req = [r \in Req |-> Request("none", NoName)]
    /\ plan = [r \in Req |-> << >>]
    /\ held = [r \in Req |-> Nothing]
    /\ status = [r \in Req |-> 0]
    /\ seen = [r \in Req |-> {}]
    /\ stale = {} /\ straight = {} /\ stored = {} /\ raced = {}

-----------------------------------------------------------------------------
Goto(r, label) == pc' = [pc EXCEPT ![r] = label]
Hold(r, h) == held' = [held EXCEPT ![r] = h]
Digest(r) == held[r].digest
ByTag(r) == plan[r] # << >> /\ Head(plan[r]) = "tag"
HasUpstream(r) == req[r].name \in Upstreamed

(* The request goes on at another step, its variables as they were.            *)
Proceed(r, label) == Goto(r, label) /\ UNCHANGED <<req, plan, held, status>>

(* The handler returns. *)
Respond(r, code, digest, body) ==
    /\ Goto(r, "done")
    /\ status' = [status EXCEPT ![r] = code]
    /\ Hold(r, Held(digest, body, NoCID, 0))
    /\ plan' = [plan EXCEPT ![r] = << >>]
    /\ UNCHANGED req
Refuse(r, code) == Respond(r, code, NoDigest, NoContent)

LabelOf(attempt) == IF attempt = "tag" THEN "fetch" ELSE "lookup"

(* Mutant: the first failed attempt ends the request.                          *)
FailAtOnce(r) == Refuse(r, 404)

(* Mutant: the fallback of a failed attempt resolves the tag anew.             *)
FailResolvesAgain(r) ==
    \/ Len(plan[r]) <= 1 /\ Refuse(r, 404)
    \/ /\ Len(plan[r]) > 1
       /\ plan' = [plan EXCEPT ![r] = << >>]
       /\ Goto(r, "tag")
       /\ UNCHANGED <<req, held, status>>

(* An attempt to get the manifest failed: the next one, or 404.                *)
Fail(r) ==
    \/ Len(plan[r]) <= 1 /\ Refuse(r, 404)
    \/ /\ Len(plan[r]) > 1
       /\ plan' = [plan EXCEPT ![r] = Tail(@)]
       /\ Goto(r, LabelOf(plan[r][2]))
       /\ UNCHANGED <<req, held, status>>

quietly == <<upstream, announced, history>>

-----------------------------------------------------------------------------
(* Requests arrive *)

Start(r, op, n, label, attempts, h) ==
    /\ pc[r] = "new" /\ op \in Ops
    /\ Goto(r, label)
    /\ req' = [req EXCEPT ![r] = Request(op, n)]
    /\ plan' = [plan EXCEPT ![r] = attempts]
    /\ Hold(r, h)
    /\ UNCHANGED <<store, quietly, status>>

Wanting(c) == Held(DigestOf(c), NoContent, NoCID, 0)

ArriveByTag(r, n, op) ==
    op \in {"getTag", "delTag"} /\ Start(r, op, n, "tag", << >>, Nothing)
ArriveGet(r, n, c) == Start(r, "getDigest", n, "lookup", <<"digest">>, Wanting(c))
ArriveBlob(r, n, c, op) ==
    op \in BlobOps /\ Start(r, op, n, "lookup", << >>, Wanting(c))
ArrivePut(r, n, c, op) ==
    /\ op \in PutOps /\ c \in Pushed
    /\ Start(r, op, n, "add", << >>, Held(DigestOf(c), c, NoCID, 0))
ArriveDelete(r, n, c) == Start(r, "delDigest", n, "delete", << >>, Wanting(c))

-----------------------------------------------------------------------------
(* getManifestByTag *)

(* Mutant: the TTL is never looked at.                                         *)
NeverStale(t) == FALSE
IsTagStale(t) == TagTTL > 0 /\ now - t.updated > TagTTL

(* What is tried, in order, for a cached tag: a fresh one is served from its   *)
(* digest; a stale one is revalidated first; then the digest again, whatever   *)
(* its age; then the upstream, or for a local image the digest once more.      *)
Plan(n, old) ==
    IF n \in Upstreamed
    THEN IF old THEN <<"tag", "digest", "tag">> ELSE <<"digest", "digest", "tag">>
    ELSE IF old THEN <<"digest", "digest">> ELSE <<"digest", "digest", "digest">>

TagFound(r) ==
    LET t == tag[req[r].name]
        attempts == Plan(req[r].name, IsTagStale(t)) IN
    /\ pc[r] = "tag" /\ t # Absent /\ req[r].op = "getTag"
    /\ plan' = [plan EXCEPT ![r] = attempts]
    /\ Hold(r, Held(t.digest, NoContent, NoCID, 0))
    /\ Goto(r, LabelOf(Head(attempts)))
    /\ seen' = [seen EXCEPT ![r] = {upstream[req[r].name]}]
    /\ stale' = IF TagTTL > 0 /\ now > t.updated + TagTTL
                THEN stale \cup {r} ELSE stale
    /\ UNCHANGED <<store, upstream, announced, req, status, straight,
                   stored, raced>>

(* GetTag found nothing or failed: both handlers take the two for the same.    *)
TagMissing(r) ==
    /\ pc[r] = "tag" /\ (tag[req[r].name] = Absent \/ "db" \in Faults)
    /\ \/ /\ req[r].op = "getTag" /\ HasUpstream(r)
          /\ plan' = [plan EXCEPT ![r] = <<"tag">>]
          /\ Goto(r, "fetch")
          /\ UNCHANGED <<req, held, status>>
       \/ (req[r].op = "delTag" \/ ~ HasUpstream(r)) /\ Refuse(r, 404)
    /\ UNCHANGED <<store, quietly>>

(* handleManifestDelete resolves a tag to the digest it will delete.           *)
TagDeleted(r) ==
    LET t == tag[req[r].name] IN
    /\ pc[r] = "tag" /\ t # Absent /\ req[r].op = "delTag"
    /\ Hold(r, Held(t.digest, NoContent, NoCID, 0))
    /\ Goto(r, "delete")
    /\ UNCHANGED <<store, quietly, req, plan, status>>

-----------------------------------------------------------------------------
(* getManifestByDigest and resolveBlob: the local store *)

Miss == IF Federated THEN "query" ELSE "fetch"

(* A transaction that fails is taken for a digest that is not there.           *)
Lookup(r) ==
    LET m == mapping[Digest(r)] IN
    /\ pc[r] = "lookup"
    /\ \/ /\ m = Absent \/ "db" \in Faults
          /\ Proceed(r, Miss)
       \/ /\ m # Absent /\ req[r].op # "headBlob"
          /\ Goto(r, "cat")
          /\ Hold(r, Held(Digest(r), NoContent, m.cid, m.created))
          /\ UNCHANGED <<req, plan, status>>
       \/ /\ m # Absent /\ req[r].op = "headBlob"
          /\ Respond(r, 200, Digest(r), NoContent)
    /\ UNCHANGED <<store, quietly>>

Holds(r) == held[r].cid.cid
(* Mutant: the content's digest is not compared.                               *)
TrueUnchecked(r) == TRUE
True(r) == DigestOf(Holds(r)) = Digest(r)

CatManifest(r) ==
    /\ pc[r] = "cat" /\ req[r].op \notin BlobOps
    /\ Reachable(held[r].cid)
    /\ Fetched(held[r].cid)
    /\ \/ True(r) /\ Respond(r, 200, Digest(r), Holds(r))
       \/ ~ True(r) /\ Proceed(r, Miss)
    /\ UNCHANGED <<buckets, now, gc, quietly>>

CatManifestFails(r) ==
    /\ pc[r] = "cat" /\ req[r].op \notin BlobOps
    /\ ~ Reachable(held[r].cid) \/ "ipfs" \in Faults
    /\ Proceed(r, Miss)
    /\ UNCHANGED <<store, quietly>>

(* handleBlobGet streams while it hashes: what is found wrong has been sent.   *)
CatBlob(r) ==
    /\ pc[r] = "cat" /\ req[r].op = "getBlob"
    /\ Reachable(held[r].cid)
    /\ Fetched(held[r].cid)
    /\ Respond(r, 200, Digest(r), Holds(r))
    /\ UNCHANGED <<buckets, now, gc, quietly>>

CatBlobFails(r) ==
    /\ pc[r] = "cat" /\ req[r].op = "getBlob"
    /\ ~ Reachable(held[r].cid) \/ "ipfs" \in Faults
    /\ Refuse(r, 500)
    /\ UNCHANGED <<store, quietly>>

-----------------------------------------------------------------------------
(* The federation *)

(* What peers answer: the CID of the content, if one of them ever had it, with *)
(* a time of the peer's; anything, if the peer is wrong.                       *)
PeerCIDs(d) ==
    IF "peer" \in Faults THEN CIDs
    ELSE {CIDOf(c) : c \in {x \in PeerHolds : DigestOf(x) = d}}

Query(r) ==
    /\ pc[r] = "query"
    /\ \/ Proceed(r, "fetch")
       \/ \E cid \in PeerCIDs(Digest(r)), t \in 0..now :
            /\ Goto(r, "peer")
            /\ Hold(r, Held(Digest(r), NoContent, cid, t))
            /\ UNCHANGED <<req, plan, status>>
    /\ UNCHANGED <<store, quietly>>

(* A manifest is read and compared before its mapping is kept ...              *)
PeerManifest(r) ==
    /\ pc[r] = "peer" /\ req[r].op \notin BlobOps
    /\ Reachable(held[r].cid)
    /\ Fetched(held[r].cid)
    /\ \/ True(r) /\ Proceed(r, "peermap")
       \/ ~ True(r) /\ Proceed(r, "fetch")
    /\ UNCHANGED <<buckets, now, gc, quietly>>

(* ... of a blob only the size is asked for.                                   *)
PeerBlob(r) ==
    /\ pc[r] = "peer" /\ req[r].op \in BlobOps
    /\ Reachable(held[r].cid)
    /\ Proceed(r, "peermap")
    /\ UNCHANGED <<store, quietly>>

PeerFails(r) ==
    /\ pc[r] = "peer"
    /\ ~ Reachable(held[r].cid) \/ "ipfs" \in Faults
    /\ Proceed(r, "fetch")
    /\ UNCHANGED <<store, quietly>>

StoreMapping(r, created, source) ==
    \/ /\ PutMapping(Digest(r), Mapping(held[r].cid, created, source))
       /\ stored' = stored \cup {Digest(r)}
    \/ "db" \in Faults /\ UNCHANGED <<mapping, stored>>

(* Whether the mapping could be stored is not looked at.                       *)
PeerMap(r) ==
    /\ pc[r] = "peermap"
    /\ StoreMapping(r, held[r].created,
            IF req[r].op \in BlobOps THEN "peer blob" ELSE "peer manifest")
    /\ \/ req[r].op = "getBlob" /\ Proceed(r, "cat")
       \/ req[r].op = "headBlob" /\ Respond(r, 200, Digest(r), NoContent)
       \/ req[r].op \notin BlobOps /\ Respond(r, 200, Digest(r), Holds(r))
    /\ UNCHANGED <<tag, repo, ipfsVars, now, gc, upstream, announced,
                   seen, stale, straight, raced>>

-----------------------------------------------------------------------------
(* The upstream registry *)

FetchFails(r) ==
    /\ pc[r] = "fetch"
    /\ \/ ~ HasUpstream(r)
       \/ "upstream" \in Faults
       \/ ~ ByTag(r) /\ Digest(r) \notin {DigestOf(c) : c \in Hosted}
    /\ Fail(r)
    /\ stale' = stale \ {r}
    /\ UNCHANGED <<store, upstream, announced, seen, straight, stored, raced>>

Got(r, digest, body) ==
    /\ Goto(r, "add")
    /\ Hold(r, Held(digest, body, NoCID, 0))
    /\ straight' = straight \cup {r}
    /\ UNCHANGED <<store, upstream, announced, req, plan, status, seen, stale,
                   stored, raced>>

(* The digest of a manifest is what the header says.                           *)
FetchManifest(r) ==
    /\ pc[r] = "fetch" /\ HasUpstream(r) /\ req[r].op \notin BlobOps
    /\ \/ ByTag(r) /\ Got(r, DigestOf(upstream[req[r].name]), upstream[req[r].name])
       \/ \E c \in Hosted : /\ ~ ByTag(r) /\ DigestOf(c) = Digest(r)
                            /\ Got(r, DigestOf(c), c)
       \/ /\ "header" \in Faults
          /\ \E c \in Content, d \in Digests : Got(r, d, c)

FetchBlob(r) ==
    /\ pc[r] = "fetch" /\ HasUpstream(r) /\ req[r].op \in BlobOps
    /\ \E c \in Content :
        /\ (c \in Hosted /\ DigestOf(c) = Digest(r)) \/ "body" \in Faults
        /\ Got(r, Digest(r), c)

-----------------------------------------------------------------------------
(* What was fetched or pushed is added to IPFS, then recorded *)

(* Mutant: the node's answer is not used.                                      *)
AddedWithoutCID(r) == Hold(r, Held(Digest(r), held[r].body, NoCID, 0))
Added(r) == Hold(r, Held(Digest(r), held[r].body, CIDOf(held[r].body), 0))

(* Mutant: the tag is stored first, the mapping after it.                      *)
AddContentTagFirst(r) ==
    /\ pc[r] = "add" /\ req[r].op \notin BlobOps
    /\ Add(held[r].body)
    /\ IF req[r].op = "putTag" THEN PutTag(req[r].name, Digest(r)) ELSE UNCHANGED tag
    /\ Goto(r, "map")
    /\ Added(r)
    /\ UNCHANGED <<mapping, repo, now, gc, quietly, req, plan, status>>
AddContent(r) ==
    /\ pc[r] = "add" /\ req[r].op \notin BlobOps
    /\ Add(held[r].body)
    /\ Goto(r, "map")
    /\ Added(r)
    /\ UNCHANGED <<buckets, now, gc, quietly, req, plan, status>>

(* Without IPFS a pulled manifest is served and forgotten, a push refused. A   *)
(* call that fails (a timeout, an answer cut off) may still have done its work *)
(* on the node.                                                                *)
MaybeAdded(c) == Add(c) \/ UNCHANGED ipfsVars

AddContentFails(r) ==
    /\ pc[r] = "add" /\ req[r].op \notin BlobOps
    /\ "ipfs" \in Faults
    /\ MaybeAdded(held[r].body)
    /\ \/ req[r].op \in PutOps /\ Refuse(r, 500)
       \/ req[r].op \notin PutOps /\ Respond(r, 200, Digest(r), held[r].body)
    /\ UNCHANGED <<buckets, now, gc, quietly>>

(* Mutant: the hash is computed and not compared.                              *)
AddBlobUnchecked(r) ==
    /\ pc[r] = "add" /\ req[r].op \in BlobOps
    /\ Add(held[r].body)
    /\ Goto(r, "map") /\ Added(r)
    /\ UNCHANGED <<buckets, now, gc, quietly, req, plan, status>>

(* A blob is hashed while it streams to the node; what does not match stays    *)
(* there, and is not recorded.                                                 *)
AddBlob(r) ==
    /\ pc[r] = "add" /\ req[r].op \in BlobOps
    /\ Add(held[r].body)
    /\ \/ /\ DigestOf(held[r].body) = Digest(r)
          /\ Goto(r, "map") /\ Added(r)
          /\ UNCHANGED <<req, plan, status>>
       \/ DigestOf(held[r].body) # Digest(r) /\ Refuse(r, 404)
    /\ UNCHANGED <<buckets, now, gc, quietly>>

AddBlobFails(r) ==
    /\ pc[r] = "add" /\ req[r].op \in BlobOps
    /\ "ipfs" \in Faults
    /\ MaybeAdded(held[r].body)
    /\ Refuse(r, 404)
    /\ UNCHANGED <<buckets, now, gc, quietly>>

SourceOf(op) ==
    IF op \in PutOps THEN "push"
    ELSE IF op \in BlobOps THEN "upstream blob" ELSE "upstream manifest"
Tags(r) == req[r].op = "putTag" \/ ByTag(r)
AfterMapping(r) == IF Tags(r) THEN "tagput" ELSE "publish"

MapContent(r) ==
    /\ pc[r] = "map"
    /\ PutMapping(Digest(r), Mapping(held[r].cid, now, SourceOf(req[r].op)))
    /\ stored' = stored \cup {Digest(r)}
    /\ Proceed(r, AfterMapping(r))
    /\ UNCHANGED <<tag, repo, ipfsVars, now, gc, upstream, announced,
                   seen, stale, straight, raced>>

(* Only a push minds.                                                          *)
MapContentFails(r) ==
    /\ pc[r] = "map" /\ "db" \in Faults
    /\ \/ req[r].op \in PutOps /\ Refuse(r, 500)
       \/ req[r].op \notin PutOps /\ Proceed(r, AfterMapping(r))
    /\ UNCHANGED <<store, quietly>>

(* UpdatedAt is the time of storing, not of the upstream's answer; a failure   *)
(* is logged.                                                                  *)
TagContent(r) ==
    /\ pc[r] = "tagput"
    /\ PutTag(req[r].name, Digest(r)) \/ ("db" \in Faults /\ UNCHANGED tag)
    /\ Proceed(r, "publish")
    /\ UNCHANGED <<mapping, repo, ipfsVars, now, gc, quietly>>

Announced(r) ==
    announced' = announced \cup
        {a \in {[digest |-> Digest(r), cid |-> held[r].cid,
                 source |-> SourceOf(req[r].op)]} : a.source \in Shared}

(* AddRepositoryManifest, Announce and the answer.                             *)
Publish(r) ==
    /\ pc[r] = "publish" /\ req[r].op \notin BlobOps
    /\ AddRepositoryManifest(req[r].name, Digest(r))
       \/ ("db" \in Faults /\ UNCHANGED repo)
    /\ Announced(r)
    /\ Respond(r, IF req[r].op \in PutOps THEN 201 ELSE 200,
               Digest(r), held[r].body)
    /\ UNCHANGED <<mapping, tag, ipfsVars, now, gc, upstream, history>>

PublishBlob(r) ==
    /\ pc[r] = "publish" /\ req[r].op \in BlobOps
    /\ Announced(r)
    /\ \/ req[r].op = "getBlob" /\ Proceed(r, "cat")
       \/ req[r].op = "headBlob" /\ Respond(r, 200, Digest(r), NoContent)
    /\ UNCHANGED <<store, upstream, history>>

(* handleManifestDelete and handleBlobDelete take the mapping and nothing else *)
(* and answer 202 whatever happens.                                            *)
Delete(r) ==
    /\ pc[r] = "delete"
    /\ DeleteMapping(Digest(r)) \/ ("db" \in Faults /\ UNCHANGED mapping)
    /\ Respond(r, 202, Digest(r), NoContent)
    /\ UNCHANGED <<tag, repo, ipfsVars, now, gc, quietly>>

-----------------------------------------------------------------------------
(* The collector, the network, time and restarts *)

(* The collector does not know what the handlers are doing: it may take the    *)
(* pin of content whose mapping has been stored anew since the sweep's         *)
(* snapshot, or is about to be.                                                *)
BeingStored(d) ==
    \/ mapping[d] # gc.snapshot[d]
    \/ \E r \in Req : pc[r] = "map" /\ Digest(r) = d

Collect ==
    \/ GCBegin /\ UNCHANGED <<quietly, handlers>>
    \/ \E d \in Digests :
         /\ GCUnpin(d)
         /\ raced' = IF BeingStored(d) THEN raced \cup {d} ELSE raced
         /\ UNCHANGED <<upstream, announced, seen, stale, straight,
                        stored, handlers>>
    \/ (GCDelete \/ GCHangs) /\ UNCHANGED <<quietly, handlers>>

(* Somebody pushes to the upstream registry.                                   *)
UpstreamPush(n, c) ==
    /\ n \in Upstreamed /\ c \in Hosted /\ c # upstream[n]
    /\ upstream' = [upstream EXCEPT ![n] = c]
    /\ seen' = [r \in Req |-> IF /\ req[r].name = n /\ seen[r] # {}
                                /\ pc[r] \notin {"done", "gone"}
                             THEN seen[r] \cup {c} ELSE seen[r]]
    /\ UNCHANGED <<store, announced, handlers, stale, straight,
                   stored, raced>>

Network ==
    \/ \E c \in Content : NodeGC(c) /\ UNCHANGED <<quietly, handlers>>
    \/ \E c \in Content : PeerLeaves(c) /\ UNCHANGED <<quietly, handlers>>
    \/ \E n \in Name, c \in Content : UpstreamPush(n, c)

Time == Tick /\ UNCHANGED <<quietly, handlers>>

Crash ==
    /\ "crash" \in Faults
    /\ StoreCrash
    /\ pc' = [r \in Req |-> IF pc[r] \in {"new", "done"} THEN pc[r] ELSE "gone"]
    /\ UNCHANGED <<quietly, req, plan, held, status>>

Arrives(r) ==
    \E n \in Name :
        \/ \E op \in AllOps : ArriveByTag(r, n, op)
        \/ \E c \in Content :
            \/ ArriveGet(r, n, c) \/ ArriveDelete(r, n, c)
            \/ \E op \in AllOps : ArriveBlob(r, n, c, op) \/ ArrivePut(r, n, c, op)

(* Steps that are a transaction of the store: none begins while it is stuck.   *)
Transact(r) ==
    /\ ~ Stuck
    /\ \/ TagFound(r) \/ TagMissing(r) \/ TagDeleted(r) \/ Lookup(r)
       \/ PeerMap(r) \/ MapContent(r) \/ MapContentFails(r) \/ TagContent(r)
       \/ Publish(r) \/ Delete(r)

(* Steps that call the node, the federation or an upstream.                    *)
CallOut(r) ==
    \/ CatManifest(r) \/ CatManifestFails(r) \/ CatBlob(r) \/ CatBlobFails(r)
    \/ Query(r) \/ PeerManifest(r) \/ PeerBlob(r) \/ PeerFails(r)
    \/ FetchFails(r) \/ FetchManifest(r) \/ FetchBlob(r)
    \/ AddContent(r) \/ AddContentFails(r) \/ AddBlob(r) \/ AddBlobFails(r)
    \/ PublishBlob(r)

Step(r) == Transact(r) \/ CallOut(r)

Next ==
    \/ \E r \in Req : Arrives(r) \/ Step(r)
    \/ Collect \/ Network \/ Time \/ Crash

Spec == Init /\ [][Next]_vars

(* A handler that is under way goes on: its goroutine is scheduled and its     *)
(* calls have timeouts. The collector's ticker fires again and again. Bolt's   *)
(* locks are granted in turn, so a transaction gets through as long as the     *)
(* sweep does not wait for itself; that it may is GCHangs, which disables the  *)
(* steps it blocks, so nothing is assumed of them.                             *)
FairSpec == Spec /\ (\A r \in Req : WF_vars(Step(r))) /\ WF_vars(Collect)

-----------------------------------------------------------------------------
(* Safety *)

Young(m) == m.created + MaxAge > now

TrueRecord(d, cid, source) ==
    cid = CIDOf(d.sha256) \/ source \in {"upstream manifest", "peer blob"}

(* What is recorded or announced about a digest points at content with that    *)
(* digest, on every route that compares the two: pushes, blobs from upstream,  *)
(* manifests from peers. (Manifests from upstream are kept under the digest of *)
(* the header, blobs from peers are only asked their size.)                    *)
VerifiedMappings ==
    /\ \A d \in Digests : mapping[d] # Absent =>
            TrueRecord(d, mapping[d].cid, mapping[d].source)
    /\ \A a \in announced : TrueRecord(a.digest, a.cid, a.source)

(* A manifest that is not passed on straight from an upstream is the one its   *)
(* digest names, whatever the mappings and the peers say.                      *)
ServedManifestsVerified ==
    \A r \in Req \ straight :
        (pc[r] = "done" /\ status[r] = 200 /\ req[r].op \in {"getTag", "getDigest"})
            => DigestOf(held[r].body) = Digest(r)

(* A tag, once stored, names a digest whose mapping has been stored before it, *)
(* also when the process died in between.                                      *)
TagNamesStored ==
    "db" \notin Faults =>
        \A n \in Name : tag[n] # Absent => tag[n].digest \in stored

(* A request that found its tag older than the TTL is answered with what the   *)
(* upstream had under that tag while the request ran, not with the cached      *)
(* digest, unless the upstream failed it (or sent something else).             *)
StaleIsRevalidated ==
    "header" \notin Faults =>
        \A r \in stale :
            (pc[r] = "done" /\ req[r].name \in Upstreamed)
                => status[r] = 200 /\ held[r].body \in seen[r]

(* "Serves cache if upstream is down": once a manifest is cached under a tag,  *)
(* a GET of the tag is answered with a manifest, however old the tag and       *)
(* whatever the upstream does, across restarts. Of a registry that pins, where *)
(* nobody deletes and nothing is collected, and without federation: a peer's   *)
(* mapping could replace the one of the pinned content.                        *)
Kept ==
    /\ PinContent /\ ~ GCEnabled /\ ~ Federated
    /\ Ops \cap {"delTag", "delDigest"} = {}
    /\ Faults \subseteq {"upstream", "crash"}
CacheOutlivesUpstream ==
    Kept => \A r \in Req :
                (pc[r] = "done" /\ req[r].op = "getTag" /\ seen[r] # {})
                    => status[r] = 200

(* What this registry stored itself and is not old yet is pinned, unless the   *)
(* collector unpinned it while it was being stored again. (A wrong header or a *)
(* wrong peer maps a digest to another one's CID, and the sweep that collects  *)
(* that mapping takes the pin of the other's content.)                         *)
Truthful == Faults \cap {"header", "peer"} = {}
OwnContentPinned ==
    PinContent /\ Truthful =>
        \A d \in Digests :
            (/\ mapping[d] # Absent /\ Young(mapping[d])
             /\ mapping[d].source \notin {"peer manifest", "peer blob"}
             /\ d \notin raced)
                => mapping[d].cid \in pinned

(* "IPFS/federation failures fall back to upstream": with no faults, a blob    *)
(* that an upstream has is never refused with 500.                             *)
FallsBackToUpstream ==
    \A r \in Req :
        (pc[r] = "done" /\ req[r].op = "getBlob" /\ req[r].name \in Upstreamed)
            => status[r] # 500

-----------------------------------------------------------------------------
(* What a step of the collector may take *)

Collected(d) ==
    /\ gc.pc = "delete" /\ gc.digest = d /\ gc' # gc
    /\ mapping[d] # Absent /\ mapping'[d] = Absent

(* A mapping that is not old is only taken when it replaced, during the sweep, *)
(* an old one that the sweep's snapshot holds.                                 *)
SparesYoung ==
    [][\A d \in Digests :
        (Collected(d) /\ Young(mapping[d])) => mapping[d] # gc.snapshot[d]]_vars

-----------------------------------------------------------------------------
(* Liveness *)

(* Every request that arrived is answered, through whatever local, federated   *)
(* and upstream attempts fail, unless a sweep waits for itself.                *)
EveryRequestAnswered ==
    \A r \in Req : pc[r] # "new" ~> pc[r] = "done" \/ Stuck

(* A mapping that has become old is collected or replaced, also when its CID   *)
(* cannot be unpinned, unless a sweep waits for itself.                        *)
OldIsCollected ==
    \A d \in Digests :
        (mapping[d] # Absent /\ ~ Young(mapping[d]))
            ~> (mapping[d] = Absent \/ Young(mapping[d]) \/ Stuck)
=============================================================================
