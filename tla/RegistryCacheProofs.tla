------------------------ MODULE RegistryCacheProofs ------------------------
(* Proofs about module Registry: what the cache, the collector and the        *)
(* upstream registries do to each other.                                      *)
EXTENDS RegistryProofs

(* StaleIsRevalidated: a stale tag's handler first asks its upstream, and what *)
(* the upstream holds meanwhile is in seen.                                    *)
Revalidated(r) ==
    /\ req[r].op = "getTag" /\ seen[r] # {}
    /\ pc[r] \in {"fetch", "add", "map", "tagput", "publish", "done", "gone"}
    /\ pc[r] = "fetch" => ByTag(r)
    /\ pc[r] \in {"add", "map", "tagput", "publish", "done"}
          => held[r].body \in seen[r]
    /\ pc[r] = "done" => status[r] = 200
Watched(r) ==
    /\ pc[r] = "new" => seen[r] = {} /\ r \notin stale
    /\ (seen[r] # {} /\ pc[r] \notin {"done", "gone"})
          => upstream[req[r].name] \in seen[r]
StaleInv ==
    /\ \A r \in Req : Watched(r)
    /\ "header" \notin Faults =>
         \A r \in stale : req[r].name \in Upstreamed => Revalidated(r)

Genuine(d, cid) == cid = CIDOf(d.sha256)

(* With truthful upstreams and peers every digest has its own CID, wherever    *)
(* the two are kept together.                                                  *)
Sincere(r) ==
    /\ pc[r] \in HasCID => Genuine(Digest(r), held[r].cid)
    /\ pc[r] = "add" /\ req[r].op \notin BlobOps
          => DigestOf(held[r].body) = Digest(r)
TruthInv ==
    Truthful =>
        /\ \A d \in Digests : mapping[d] # Absent => Genuine(d, mapping[d].cid)
        /\ \A d \in gc.doomed : Genuine(d, gc.snapshot[d].cid)
        /\ \A r \in Req : Sincere(r)

(* OwnContentPinned: what a handler has added stays pinned until it is mapped. *)
PinInv ==
    /\ OwnContentPinned
    /\ PinContent /\ Truthful =>
         \A r \in Req : (pc[r] = "map" /\ Digest(r) \notin raced)
                            => held[r].cid \in pinned

(* CacheOutlivesUpstream: what is tagged is mapped, what is mapped is pinned   *)
(* on the node, and a GET that found its tag has an attempt left that reads it. *)
Safe(cid) == cid \in node /\ cid \in pinned
Served(r) ==
    /\ req[r].op = "getTag" /\ pc[r] \notin {"new", "tag"}
    /\ pc[r] \in {"lookup", "fetch"} => mapping[Digest(r)] # Absent
    /\ pc[r] = "fetch" => plan[r] = <<"tag", "digest", "tag">>
    /\ pc[r] = "done" => status[r] = 200
Keeping(r) ==
    /\ pc[r] \notin {"query", "peer", "peermap", "delete"}
    /\ req[r].op \notin {"delTag", "delDigest"}
    /\ pc[r] \in {"cat", "map", "tagput", "publish"} => Safe(held[r].cid)
    /\ pc[r] = "tagput" => mapping[Digest(r)] # Absent
    /\ seen[r] # {} => Served(r)
KeptInv ==
    /\ gc.pc = "idle"
    /\ \A d \in Digests : mapping[d] # Absent => Safe(mapping[d].cid)
    /\ \A n \in Name : tag[n] # Absent => mapping[tag[n].digest] # Absent
    /\ \A r \in Req : Keeping(r)
CacheInv == CacheOutlivesUpstream /\ (Kept => KeptInv)

-----------------------------------------------------------------------------
(* Tags that are older than their TTL.                                         *)

(* Only the handler that finds its tag begins to watch the upstream, and only  *)
(* a failure of the upstream excuses it.                                       *)
LEMMA Watching ==
    ASSUME NEW r \in Req, Arrives(r) \/ Step(r), ~ TagFound(r)
    PROVE  /\ UNCHANGED <<seen, upstream>> /\ stale' \subseteq stale
           /\ stale \ {r} \subseteq stale'
           /\ FetchFails(r) => r \notin stale'
<1> USE DEF quietly, history
<1>1. CASE Arrives(r)
  BY <1>1 DEF Arrives, ArriveByTag, ArriveGet, ArriveBlob, ArrivePut,
     ArriveDelete, Start, FetchFails, Fail, Respond, Refuse
<1>2. CASE \/ TagMissing(r) \/ TagDeleted(r) \/ Lookup(r) \/ CatManifest(r)
           \/ CatManifestFails(r) \/ CatBlob(r) \/ CatBlobFails(r) \/ Query(r)
           \/ PeerManifest(r) \/ PeerBlob(r) \/ PeerFails(r) \/ PeerMap(r)
  <2>1. UNCHANGED <<seen, upstream, stale>> /\ pc[r] # "fetch"
    BY <1>2 DEF TagMissing, TagDeleted, Lookup, CatManifest, CatManifestFails,
       CatBlob, CatBlobFails, Query, PeerManifest, PeerBlob, PeerFails, PeerMap
  <2>2. QED
    BY <2>1 DEF FetchFails
<1>3. CASE FetchFails(r)
  BY <1>3 DEF FetchFails
<1>4. CASE \/ FetchManifest(r) \/ FetchBlob(r) \/ AddContent(r) \/ AddContentFails(r)
           \/ AddBlob(r) \/ AddBlobFails(r) \/ MapContent(r) \/ MapContentFails(r)
           \/ TagContent(r) \/ Publish(r) \/ PublishBlob(r) \/ Delete(r)
  <2>1. UNCHANGED <<seen, upstream, stale>>
    BY <1>4 DEF FetchManifest, FetchBlob, Got, AddContent, AddContentFails, AddBlob,
       AddBlobFails, MapContent, MapContentFails, TagContent, Publish, PublishBlob, Delete
  <2>2. QED
    BY <2>1, <1>3
<1>5. QED
  BY <1>1, <1>2, <1>3, <1>4 DEF Step, Transact, CallOut

(* A handler that has answered takes no step, and only an arrival names the    *)
(* request.                                                                    *)
LEMMA Leaves ==
    ASSUME HandlersInv, NEW r \in Req
    PROVE  /\ Arrives(r) => pc[r] = "new"
           /\ Step(r) => /\ pc[r] \notin {"new", "done", "gone"} /\ pc'[r] # "new"
                         /\ req'[r] = req[r]
<1> DEFINE moves == /\ pc[r] \notin {"new", "done", "gone"} /\ pc'[r] # "new"
                    /\ req'[r] = req[r]
<1>1. Arrives(r) => pc[r] = "new"
  BY DEF Arrives, ArriveByTag, ArriveGet, ArriveBlob, ArrivePut, ArriveDelete, Start
<1>2. Lookup(r) => moves
  BY Lands DEF Lookup, Miss
<1>3. TagFound(r) => moves
  <2>1. \A p : LabelOf(p) # "new"
    BY DEF LabelOf
  <2>2. QED
    BY <2>1, Lands DEF TagFound
<1>4. TagMissing(r) \/ TagDeleted(r) => moves
  BY Lands DEF TagMissing, TagDeleted
<1>5. CatManifest(r) \/ CatManifestFails(r) \/ CatBlob(r) \/ CatBlobFails(r) => moves
  BY Lands DEF CatManifest, CatManifestFails, CatBlob, CatBlobFails, Miss
<1>6. Query(r) \/ PeerBlob(r) \/ PeerFails(r) => moves
  BY Lands DEF Query, PeerBlob, PeerFails
<1>7. PeerManifest(r) \/ PeerMap(r) => moves
  <2>1. PeerManifest(r) => moves
    <3>1. PeerManifest(r) => pc[r] = "peer" /\ \E label \in {"peermap", "fetch"} : Proceed(r, label)
      BY DEF PeerManifest
    <3>2. QED
      BY <3>1, Lands
  <2>2. PeerMap(r) => moves
    <3>1. PeerMap(r) =>
            /\ pc[r] = "peermap"
            /\ Proceed(r, "cat") \/ \E code, d, b : Respond(r, code, d, b)
      BY DEF PeerMap
    <3>2. QED
      BY <3>1, Lands
  <2>3. QED
    BY <2>1, <2>2
<1>8. FetchFails(r) => moves
  BY Lands DEF FetchFails, Fail, LabelOf
<1>9. FetchManifest(r) \/ FetchBlob(r) => moves
  BY Lands DEF FetchManifest, FetchBlob, Got
<1>10. AddContent(r) \/ AddContentFails(r) \/ AddBlob(r) \/ AddBlobFails(r) => moves
  BY Lands DEF AddContent, AddContentFails, AddBlob, AddBlobFails
<1>11. MapContent(r) \/ MapContentFails(r) \/ TagContent(r) => moves
  BY Lands DEF MapContent, MapContentFails, AfterMapping, TagContent
<1>12. Publish(r) \/ PublishBlob(r) \/ Delete(r) => moves
  BY Lands DEF Publish, PublishBlob, Delete
<1>13. QED
  BY <1>1, <1>2, <1>3, <1>4, <1>5, <1>6, <1>7, <1>8, <1>9, <1>10, <1>11, <1>12 DEF Step, Transact, CallOut

(* A handler whose tag is too old asks the upstream, keeps what that serves    *)
(* and answers with it.                                                        *)
LEMMA RevalidatedStep ==
    ASSUME TypeInv, NEW r \in Req, Watched(r), "header" \notin Faults,
           (r \in stale /\ req[r].name \in Upstreamed) => Revalidated(r),
           Arrives(r) \/ Step(r), r \in stale', req'[r].name \in Upstreamed
    PROVE  Revalidated(r)'
<1>1. HandlersInv /\ StoreTypeOK /\ (pc[r] # "new" => UnderWay(r))
  BY Going DEF TypeInv
<1>2. CASE TagFound(r)
  <2> DEFINE t == tag[req[r].name]
  <2>1. /\ t # Absent /\ req' = req /\ req[r].op = "getTag"
        /\ r \notin stale => (TagTTL > 0 /\ now > t.updated + TagTTL)
    BY <1>2 DEF TagFound
  <2>2. r \notin stale
    BY <1>2, <2>1 DEF TagFound, Revalidated
  <2>3. IsTagStale(t)
    <3>1. t.updated \in Nat /\ now \in Nat /\ TagTTL \in Nat
      BY <1>1, <1>2, <2>1, Found, RequestAssumption DEF TagFound, UnderWay, Knows
    <3>2. QED
      BY <2>1, <2>2, <3>1 DEF IsTagStale
  <2>4. Plan(req[r].name, IsTagStale(t)) = <<"tag", "digest", "tag">>
    BY <2>1, <2>3 DEF Plan
  <2>5. plan'[r] = <<"tag", "digest", "tag">> /\ pc'[r] = "fetch"
    <3>1. LabelOf(Head(<<"tag", "digest", "tag">>)) = "fetch"
      BY DEF LabelOf
    <3>2. QED
      BY <1>1, <1>2, <2>4, <3>1, Lands DEF TagFound, HandlersInv, HandlersTypeOK
  <2>6. ByTag(r)' /\ seen'[r] # {}
    <3>1. Head(<<"tag", "digest", "tag">>) = "tag" /\ <<"tag", "digest", "tag">> # << >>
      OBVIOUS
    <3>2. seen'[r] # {}
      BY <1>1, <1>2 DEF TagFound, WorldTypeOK, TypeInv
    <3>3. QED
      BY <2>5, <3>1, <3>2 DEF ByTag
  <2>7. QED
    BY <2>1, <2>5, <2>6 DEF Revalidated
<1>3. CASE ~ TagFound(r)
  <2>1. /\ pc[r] # "new" /\ req'[r] = req[r] /\ seen' = seen /\ Revalidated(r)
        /\ ~ FetchFails(r)
    BY <1>1, <1>3, Watching, Leaves DEF Watched
  <2>2. /\ req[r].op \notin PutOps \cup BlobOps /\ UnderWay(r)
        /\ pc[r] \in {"fetch", "add", "map", "tagput", "publish"}
    BY <1>1, <2>1, Leaves DEF Revalidated, PutOps, BlobOps
  <2>3. \/ FetchManifest(r) \/ AddContent(r) \/ AddContentFails(r)
        \/ MapContent(r) \/ MapContentFails(r) \/ TagContent(r) \/ Publish(r)
    <3>1. Step(r)
      BY <1>1, <2>1, Leaves
    <3>2. /\ ~ TagMissing(r) /\ ~ TagDeleted(r) /\ ~ Lookup(r) /\ ~ CatManifest(r)
          /\ ~ CatManifestFails(r) /\ ~ CatBlob(r) /\ ~ CatBlobFails(r)
      BY <2>2 DEF TagMissing, TagDeleted, Lookup, CatManifest, CatManifestFails,
         CatBlob, CatBlobFails
    <3>3. /\ ~ Query(r) /\ ~ PeerManifest(r) /\ ~ PeerBlob(r) /\ ~ PeerFails(r)
          /\ ~ PeerMap(r) /\ ~ FetchBlob(r) /\ ~ AddBlob(r) /\ ~ AddBlobFails(r)
          /\ ~ PublishBlob(r) /\ ~ Delete(r)
      BY <2>2 DEF Query, PeerManifest, PeerBlob, PeerFails, PeerMap, FetchBlob,
         AddBlob, AddBlobFails, PublishBlob, Delete
    <3>4. QED
      BY <1>3, <2>1, <3>1, <3>2, <3>3 DEF Step, Transact, CallOut
  <2>4. ASSUME NEW label \in {"map", "tagput", "publish"}, pc'[r] = label,
               held'[r].body = held[r].body, pc[r] # "fetch"
        PROVE  Revalidated(r)'
    BY <2>1, <2>2, <2>4 DEF Revalidated
  <2>5. CASE FetchManifest(r)
    <3> DEFINE c == upstream[req[r].name]
    <3>1. Got(r, DigestOf(c), c) /\ c \in seen[r]
      BY <2>1, <2>5 DEF FetchManifest, Revalidated, Watched
    <3>2. pc'[r] = "add" /\ held'[r].body = c
      BY <1>1, <3>1, Lands, Forms DEF Got
    <3>3. QED
      BY <2>1, <3>1, <3>2 DEF Revalidated
  <2>6. CASE AddContent(r)
    <3>1. pc'[r] = "map" /\ held'[r].body = held[r].body
      BY <1>1, <2>6, Lands, Forms DEF AddContent, Added
    <3>2. QED
      BY <2>4, <2>6, <3>1 DEF AddContent
  <2>7. CASE AddContentFails(r) \/ Publish(r)
    <3>1. Respond(r, 200, Digest(r), held[r].body) /\ pc[r] \in {"add", "publish"}
      BY <2>2, <2>7 DEF AddContentFails, Publish
    <3>2. pc'[r] = "done" /\ status'[r] = 200 /\ held'[r].body = held[r].body
      BY <1>1, <3>1, Lands
    <3>3. QED
      BY <2>1, <3>1, <3>2 DEF Revalidated
  <2>8. CASE MapContent(r) \/ MapContentFails(r) \/ TagContent(r)
    <3>1. /\ pc[r] # "fetch" /\ held'[r] = held[r] /\ pc'[r] \in {"tagput", "publish"}
      BY <1>1, <2>2, <2>8, Lands DEF MapContent, MapContentFails, AfterMapping, TagContent
    <3>2. QED
      BY <2>4, <3>1
  <2>9. QED
    BY <2>3, <2>5, <2>6, <2>7, <2>8
<1>4. QED
  BY <1>2, <1>3

(* Whoever pushes to the upstream, and whatever else happens, the handlers     *)
(* that watch it have seen what it serves.                                     *)
LEMMA OthersWatch ==
    ASSUME TypeInv, StaleInv, Collect \/ Network \/ Time \/ Crash \/ UNCHANGED vars
    PROVE  StaleInv'
<1>1. Waits /\ Takes
  BY OthersWait, OthersTake DEF TypeInv
<1>2. CASE UNCHANGED <<seen, upstream>>
  <2>1. \A r \in Req : Watched(r)'
    BY <1>1, <1>2 DEF Waits, Takes, StaleInv, Watched
  <2>2. \A r \in Req : Revalidated(r) => Revalidated(r)'
    BY <1>1, <1>2 DEF Waits, Revalidated, ByTag
  <2>3. stale \subseteq Req
    BY DEF TypeInv, WorldTypeOK
  <2>4. QED
    BY <1>1, <2>1, <2>2, <2>3 DEF Waits, Takes, StaleInv
<1>3. ASSUME NEW n \in Name, NEW c \in Content, UpstreamPush(n, c) PROVE StaleInv'
  <2>1. /\ \A r \in Req : seen[r] \subseteq seen'[r] /\ (seen[r] = {} => seen'[r] = {})
        /\ UNCHANGED <<pc, req, plan, held, status, stale>>
    BY <1>3 DEF UpstreamPush, handlers
  <2>2. \A r \in Req : Watched(r)'
    <3> SUFFICES ASSUME NEW r \in Req PROVE Watched(r)'
      OBVIOUS
    <3>1. Watched(r)
      BY DEF StaleInv
    <3>2. /\ upstream'[n] = c /\ \A m \in Name : m # n => upstream'[m] = upstream[m]
          /\ seen'[r] = IF /\ req[r].name = n /\ seen[r] # {}
                           /\ pc[r] \notin {"done", "gone"}
                        THEN seen[r] \cup {c} ELSE seen[r]
      BY <1>3 DEF UpstreamPush, TypeInv, WorldTypeOK
    <3>3. pc[r] # "new" => req[r].name \in Name
      BY Going DEF TypeInv, UnderWay, Knows
    <3>4. QED
      BY <2>1, <3>1, <3>2, <3>3 DEF Watched
  <2>3. \A r \in Req : Revalidated(r) => Revalidated(r)'
    BY <2>1 DEF Revalidated, ByTag
  <2>4. stale \subseteq Req
    BY DEF TypeInv, WorldTypeOK
  <2>5. QED
    BY <2>1, <2>2, <2>3, <2>4 DEF StaleInv
<1>4. QED
  BY <1>2, <1>3 DEF Collect, Network, Time, Crash, vars, quietly, history

(* Every step keeps the stale tags' handlers on their way.                     *)
LEMMA StaleStep == TypeInv /\ StaleInv /\ [Next]_vars => StaleInv'
<1> SUFFICES ASSUME TypeInv, StaleInv, [Next]_vars PROVE StaleInv'
  OBVIOUS
<1>1. HandlersInv /\ stale \subseteq Req /\ seen \in [Req -> SUBSET Content]
  BY DEF TypeInv, WorldTypeOK
<1>2. ASSUME NEW r \in Req, Arrives(r) \/ Step(r) PROVE StaleInv'
  <2>1. Others(r) /\ UNCHANGED upstream /\ Watched(r)
    BY <1>1, <1>2, OneMoves, HandlerWrites DEF Writes, StaleInv
  <2>2. /\ \A q \in Req \ {r} : seen'[q] = seen[q] /\ (q \in stale' <=> q \in stale)
        /\ stale' \subseteq Req
    <3>1. CASE TagFound(r)
      BY <1>1, <3>1 DEF TagFound
    <3>2. CASE ~ TagFound(r)
      BY <1>1, <1>2, <3>2, Watching
    <3>3. QED
      BY <3>1, <3>2
  <2>3. Watched(r)'
    <3>1. CASE TagFound(r)
      <4>1. pc'[r] # "new" /\ req'[r] = req[r] /\ upstream' = upstream
        BY <1>1, <1>2, <3>1, Leaves DEF TagFound
      <4>2. seen'[r] = {upstream[req[r].name]}
        BY <1>1, <3>1 DEF TagFound
      <4>3. QED
        BY <4>1, <4>2 DEF Watched
    <3>2. CASE ~ TagFound(r)
      BY <1>1, <1>2, <2>1, <3>2, Watching, Leaves DEF Watched
    <3>3. QED
      BY <3>1, <3>2
  <2>4. ("header" \notin Faults /\ r \in stale' /\ req'[r].name \in Upstreamed)
           => Revalidated(r)'
    BY <1>2, <2>1, RevalidatedStep DEF StaleInv
  <2>5. \A q \in Req \ {r} : /\ Watched(q) => Watched(q)'
                             /\ Revalidated(q) => Revalidated(q)'
    BY <2>1, <2>2 DEF Others, Watched, Revalidated, ByTag
  <2>6. QED
    BY <2>1, <2>2, <2>3, <2>4, <2>5 DEF StaleInv, Others
<1>3. QED
  BY <1>2, OthersWatch DEF Next

(* A tag older than its TTL is answered with what the upstream served while    *)
(* the request ran, unless the upstream failed it, whoever pushes meanwhile.   *)
THEOREM StaleTagsRevalidated == Spec => []StaleIsRevalidated
<1>1. Init => StaleInv
  BY DEF Init, StaleInv, Watched
<1>2. StaleInv => StaleIsRevalidated
  BY DEF StaleInv, Revalidated, StaleIsRevalidated
<1>3. QED
  BY <1>1, <1>2, StaleStep, TypeInvariant, PTL DEF Spec

-----------------------------------------------------------------------------
(* The collector and what is young.                                            *)

(* The sweep deletes a young mapping only in the place of the old one it saw.  *)
THEOREM CollectorSparesYoung == Spec => SparesYoung
<1>1. TypeInv =>
        \A d \in Digests : (Collected(d) /\ Young(mapping[d])) => mapping[d] # gc.snapshot[d]
  <2> SUFFICES ASSUME TypeInv, NEW d \in Digests, Collected(d), Young(mapping[d]),
                      mapping[d] = gc.snapshot[d]
               PROVE  FALSE
    OBVIOUS
  <2>1. Old(mapping[d]) /\ mapping[d] # Absent
    BY DEF Collected, TypeInv, SweepOK
  <2>2. mapping[d].created \in Nat /\ now \in Nat /\ MaxAge \in Nat
    BY <2>1, Found, StoreAssumption DEF TypeInv
  <2>3. QED
    BY <2>1, <2>2 DEF Young, Old
<1>2. QED
  BY <1>1, TypeInvariant, PTL DEF SparesYoung

-----------------------------------------------------------------------------
(* Every digest has its own CID.                                               *)

(* A handler keeps digest and CID of one content together.                     *)
LEMMA SincereStep ==
    ASSUME TypeInv, TruthInv, Truthful, NEW r \in Req, Arrives(r) \/ Step(r)
    PROVE  Sincere(r)'
<1>1. /\ HandlersInv /\ StoreTypeOK /\ WorldTypeOK /\ Sincere(r)
      /\ pc[r] # "new" => UnderWay(r)
  BY Going DEF TypeInv, TruthInv
<1>2. pc'[r] \notin HasCID \cup {"add"} => Sincere(r)'
  BY DEF Sincere
<1>3. (pc[r] \in HasCID /\ pc'[r] # "add" /\ held'[r] = held[r]) => Sincere(r)'
  BY <1>1 DEF Sincere, Digest
<1>4. CASE Arrives(r)
  <2>1. PICK n \in Name :
          \/ \E op \in AllOps : ArriveByTag(r, n, op)
          \/ \E c \in Content :
              \/ ArriveGet(r, n, c) \/ ArriveDelete(r, n, c)
              \/ \E op \in AllOps : ArriveBlob(r, n, c, op) \/ ArrivePut(r, n, c, op)
    BY <1>4 DEF Arrives
  <2>2. ASSUME NEW c \in Content, NEW op \in AllOps, ArrivePut(r, n, c, op)
        PROVE  Sincere(r)'
    <3>1. held'[r] = Held(DigestOf(c), c, NoCID, 0) /\ pc'[r] = "add"
      BY <1>1, <2>2, Lands DEF ArrivePut, Start
    <3>2. QED
      BY <3>1, Forms DEF Sincere, Digest, HasCID
  <2>3. ASSUME NEW label \in {"tag", "lookup", "delete"}, Goto(r, label)
        PROVE  Sincere(r)'
    BY <1>1, <1>2, <2>3, Lands DEF HasCID
  <2>4. ASSUME NEW op \in AllOps, ArriveByTag(r, n, op) PROVE Sincere(r)'
    BY <2>3, <2>4 DEF ArriveByTag, Start
  <2>5. ASSUME NEW c \in Content, ArriveGet(r, n, c) \/ ArriveDelete(r, n, c)
        PROVE  Sincere(r)'
    BY <2>3, <2>5 DEF ArriveGet, ArriveDelete, Start
  <2>6. ASSUME NEW c \in Content, NEW op \in AllOps, ArriveBlob(r, n, c, op)
        PROVE  Sincere(r)'
    BY <2>3, <2>6 DEF ArriveBlob, Start
  <2>7. QED
    BY <2>1, <2>2, <2>4, <2>5, <2>6
<1>5. CASE TagFound(r) \/ TagMissing(r) \/ TagDeleted(r) \/ FetchFails(r)
  <2>1. TagFound(r) => pc'[r] \in {"fetch", "lookup"}
    BY <1>1, Lands DEF TagFound, LabelOf
  <2>2. TagMissing(r) \/ TagDeleted(r) => pc'[r] \in {"fetch", "delete", "done"}
    BY <1>1, Lands DEF TagMissing, TagDeleted
  <2>3. FetchFails(r) => pc'[r] \in {"fetch", "lookup", "done"}
    BY <1>1, Lands DEF FetchFails, Fail, LabelOf
  <2>4. QED
    BY <1>2, <1>5, <2>1, <2>2, <2>3 DEF HasCID
<1>6. CASE Lookup(r)
  <2> DEFINE m == mapping[Digest(r)]
  <2>1. CASE m # Absent /\ Goto(r, "cat") /\ Hold(r, Held(Digest(r), NoContent, m.cid, m.created))
    <3>1. Digest(r) \in Digests
      BY <1>1, <1>6 DEF Lookup, UnderWay, Knows, Located, Digest
    <3>2. Genuine(Digest(r), m.cid)
      BY <2>1, <3>1 DEF TruthInv
    <3>3. pc'[r] = "cat" /\ held'[r].digest = Digest(r) /\ held'[r].cid = m.cid
      BY <1>1, <2>1, Lands, Forms
    <3>4. QED
      BY <3>2, <3>3 DEF Sincere, Digest
  <2>2. CASE pc'[r] \in {"query", "fetch", "done"}
    BY <1>2, <2>2 DEF HasCID
  <2>3. QED
    BY <1>1, <1>6, <2>1, <2>2, Lands DEF Lookup, Miss
<1>7. CASE CatManifest(r) \/ CatManifestFails(r) \/ CatBlob(r) \/ CatBlobFails(r)
  <2>1. pc'[r] \in {"query", "fetch", "done"}
    BY <1>1, <1>7, Lands DEF CatManifest, CatManifestFails, CatBlob, CatBlobFails, Miss
  <2>2. QED
    BY <1>2, <2>1 DEF HasCID
<1>8. CASE Query(r)
  <2>1. CASE Proceed(r, "fetch")
    BY <1>1, <1>2, <2>1, Lands DEF HasCID
  <2>2. ASSUME NEW cid \in PeerCIDs(Digest(r)), NEW t,
               Goto(r, "peer"), Hold(r, Held(Digest(r), NoContent, cid, t))
        PROVE  Sincere(r)'
    <3>1. \A c : DigestOf(c) = Digest(r) => Genuine(Digest(r), CIDOf(c))
      BY Naming DEF Genuine
    <3>2. Genuine(Digest(r), cid)
      BY <3>1 DEF PeerCIDs, Truthful
    <3>3. pc'[r] = "peer" /\ held'[r].digest = Digest(r) /\ held'[r].cid = cid
      BY <1>1, <2>2, Lands, Forms
    <3>4. QED
      BY <3>2, <3>3 DEF Sincere, Digest
  <2>3. QED
    BY <1>8, <2>1, <2>2 DEF Query
<1>9. ASSUME NEW label, Proceed(r, label), label # "add", pc[r] \in HasCID
      PROVE  Sincere(r)'
  BY <1>1, <1>3, <1>9, Lands
<1>10. ASSUME NEW code, NEW d, NEW b, Respond(r, code, d, b) PROVE Sincere(r)'
  BY <1>1, <1>2, <1>10, Lands DEF HasCID
<1>11. CASE \/ PeerManifest(r) \/ PeerBlob(r) \/ PeerFails(r)
            \/ MapContent(r) \/ MapContentFails(r) \/ TagContent(r)
  <2>1. /\ pc[r] \in HasCID
        /\ \/ \E label \in {"peermap", "fetch", "tagput", "publish"} : Proceed(r, label)
           \/ Respond(r, 500, NoDigest, NoContent)
    BY <1>11 DEF HasCID, PeerManifest, PeerBlob, PeerFails, MapContent, MapContentFails,
       AfterMapping, TagContent, Refuse
  <2>2. QED
    BY <1>9, <1>10, <2>1
<1>12. CASE PeerMap(r) \/ Publish(r) \/ PublishBlob(r)
  <2>1. /\ pc[r] \in HasCID
        /\ Proceed(r, "cat") \/ \E code, d, b : Respond(r, code, d, b)
    BY <1>12 DEF HasCID, PeerMap, Publish, PublishBlob
  <2>2. QED
    BY <1>9, <1>10, <2>1
<1>13. CASE AddContentFails(r) \/ AddBlobFails(r) \/ Delete(r)
  <2>1. \E code, d, b : Respond(r, code, d, b)
    BY <1>13 DEF AddContentFails, AddBlobFails, Delete, Refuse
  <2>2. QED
    BY <1>10, <2>1
<1>14. CASE FetchManifest(r) \/ FetchBlob(r)
  <2>1. ASSUME NEW d, NEW c, Got(r, d, c), req[r].op \notin BlobOps => DigestOf(c) = d
        PROVE  Sincere(r)'
    <3>1. /\ pc'[r] = "add" /\ held'[r].digest = d /\ held'[r].body = c
          /\ req'[r] = req[r]
      BY <1>1, <2>1, Lands, Forms DEF Got
    <3>2. QED
      BY <2>1, <3>1 DEF Sincere, Digest, HasCID
  <2>2. QED
    BY <1>14, <2>1 DEF FetchManifest, FetchBlob, Truthful
<1>15. CASE AddContent(r) \/ AddBlob(r)
  <2>1. CASE Goto(r, "map") /\ Added(r)
    <3>1. Digest(r) \in Digests /\ Digest(r) = DigestOf(held[r].body)
      BY <1>1, <1>15, <2>1, Lands DEF AddContent, AddBlob, UnderWay, Knows, Located,
         Digest, Sincere, Refuse
    <3>2. /\ pc'[r] = "map" /\ held'[r].digest = Digest(r)
          /\ held'[r].cid = CIDOf(held[r].body)
      BY <1>1, <2>1, Lands, Forms DEF Added
    <3>3. QED
      BY <3>1, <3>2, Naming DEF Sincere, Digest, Genuine
  <2>2. QED
    BY <1>10, <1>15, <2>1 DEF AddContent, AddBlob, Refuse
<1>16. QED
  BY <1>4, <1>5, <1>6, <1>7, <1>8, <1>11, <1>12, <1>13, <1>14, <1>15 DEF Step, Transact, CallOut

(* What a handler makes of the mappings: each is as it was, gone, or the one    *)
(* it was about to store.                                                      *)
LEMMA MappingMoves ==
    ASSUME TypeInv, NEW r \in Req, Arrives(r) \/ Step(r), NEW d \in Digests
    PROVE  \/ mapping'[d] \in {mapping[d], Absent}
           \/ /\ d = Digest(r) /\ d \in stored'
              /\ \/ pc[r] = "peermap"
                    /\ mapping'[d] = Mapping(held[r].cid, held[r].created, PeerSource(r))
                 \/ pc[r] = "map"
                    /\ mapping'[d] = Mapping(held[r].cid, now, SourceOf(req[r].op))
<1>1. mapping \in [Digests -> Mappings \cup {Absent}]
  BY DEF TypeInv, StoreTypeOK
<1>2. Writes(r)
  BY HandlerWrites
<1>3. QED
  BY <1>1, <1>2 DEF Writes, PutMapping, DeleteMapping

(* Every step keeps digests and CIDs together.                                 *)
LEMMA TruthStep == TypeInv /\ TruthInv /\ [Next]_vars => TruthInv'
<1> SUFFICES ASSUME TypeInv, TruthInv, [Next]_vars, Truthful PROVE TruthInv'
  BY DEF TruthInv
<1>1. HandlersInv /\ StoreTypeOK
  BY DEF TypeInv
<1>2. ASSUME NEW r \in Req, Arrives(r) \/ Step(r) PROVE TruthInv'
  <2>1. Others(r) /\ gc' = gc /\ Sincere(r)'
    BY <1>1, <1>2, OneMoves, HandlerWrites, SincereStep DEF Writes
  <2>2. \A q \in Req : Sincere(q)'
    BY <2>1 DEF TruthInv, Others, Sincere, Digest
  <2>3. \A d \in Digests : mapping'[d] # Absent => Genuine(d, mapping'[d].cid)
    <3> SUFFICES ASSUME NEW d \in Digests, mapping'[d] # Absent
                 PROVE  Genuine(d, mapping'[d].cid)
      OBVIOUS
    <3>1. \A c, t, s : Mapping(c, t, s).cid = c
      BY DEF Mapping
    <3>2. pc[r] \in {"peermap", "map"} => Genuine(Digest(r), held[r].cid)
      BY DEF TruthInv, Sincere, HasCID
    <3>3. QED
      BY <1>2, <3>1, <3>2, MappingMoves DEF TruthInv
  <2>4. QED
    BY <2>1, <2>2, <2>3 DEF TruthInv
<1>3. CASE Collect \/ Network \/ Time \/ Crash \/ UNCHANGED vars
  <2>1. Waits /\ Takes
    BY <1>1, <1>3, OthersWait, OthersTake
  <2>2. \A q \in Req : Sincere(q)'
    BY <2>1 DEF TruthInv, Waits, Sincere, Digest, HasCID
  <2>3. \A d \in Digests : mapping'[d] # Absent => Genuine(d, mapping'[d].cid)
    BY <1>1, <2>1 DEF TruthInv, Takes, DeleteMapping, StoreTypeOK
  <2>4. \A d \in gc'.doomed : Genuine(d, gc'.snapshot[d].cid)
    <3>1. CASE gc' = gc
      BY <3>1 DEF TruthInv
    <3>2. \A a, b, c, d : Sweep(a, b, c, d).snapshot = b /\ Sweep(a, b, c, d).doomed = c
      BY DEF Sweep
    <3>3. CASE GCBegin
      BY <3>2, <3>3 DEF GCBegin, TruthInv
    <3>4. CASE gc'.doomed = {}
      BY <3>4
    <3>5. CASE gc'.doomed \subseteq gc.doomed /\ gc'.snapshot = gc.snapshot
      BY <3>5 DEF TruthInv
    <3>6. CASE Collect
      <4>1. CASE \E d \in Digests : GCUnpin(d)
        BY <3>2, <3>5, <4>1 DEF GCUnpin
      <4>2. CASE GCDelete
        BY <3>2, <3>4, <3>5, <4>2 DEF GCDelete, AfterItem, Idle
      <4>3. CASE GCHangs
        BY <3>5, <4>3 DEF GCHangs, TypeInv, StoreTypeOK
      <4>4. QED
        BY <3>3, <3>6, <4>1, <4>2, <4>3 DEF Collect
    <3>7. CASE Network \/ Time \/ UNCHANGED vars
      BY <3>1, <3>7 DEF Network, NodeGC, PeerLeaves, UpstreamPush, Time, Tick, vars, store
    <3>8. CASE Crash
      BY <3>2, <3>4, <3>8 DEF Crash, StoreCrash, Idle
    <3>9. QED
      BY <1>3, <3>6, <3>7, <3>8
  <2>5. QED
    BY <2>2, <2>3, <2>4 DEF TruthInv
<1>4. QED
  BY <1>2, <1>3 DEF Next

(* At the start there is nothing to keep.                                      *)
LEMMA TruthInit == Init => TruthInv
<1> SUFFICES ASSUME Init PROVE TruthInv
  OBVIOUS
<1>1. mapping = Empty /\ gc.doomed = {} /\ \A r \in Req : pc[r] = "new"
  BY DEF Init, StoreInit, Idle, Sweep
<1>2. QED
  BY <1>1 DEF TruthInv, Sincere, HasCID, Empty

-----------------------------------------------------------------------------
(* What the registry stored stays pinned.                                      *)

(* A handler pins what it adds before it maps it, and unpins nothing.          *)
LEMMA PinnedByHandler ==
    ASSUME TypeInv, TruthInv, PinInv, PinContent, Truthful,
           NEW r \in Req, Arrives(r) \/ Step(r)
    PROVE  PinInv'
<1>1. HandlersInv /\ StoreTypeOK
  BY DEF TypeInv
<1>2. Others(r) /\ pinned \subseteq pinned' /\ UNCHANGED <<now, raced>>
  BY <1>1, OneMoves, HandlerWrites DEF Writes
<1>3. (pc'[r] = "map" /\ Digest(r)' \notin raced) => held'[r].cid \in pinned'
  <2>1. CASE AddContent(r) \/ AddBlob(r)
    <3>1. (pc'[r] = "map") => Added(r)
      BY <1>1, <2>1, Lands DEF AddContent, AddBlob
    <3>2. Added(r) => held'[r].cid = CIDOf(held[r].body)
      BY <1>1, Lands, Forms DEF Added
    <3>3. CIDOf(held[r].body) \in pinned'
      BY <2>1 DEF AddContent, AddBlob, Add
    <3>4. QED
      BY <3>1, <3>2, <3>3
  <2>2. CASE ~ (AddContent(r) \/ AddBlob(r))
    <3>1. pc'[r] # "map"
      <4>1. CASE Arrives(r)
        BY <1>1, <4>1, Lands DEF Arrives, ArriveByTag, ArriveGet, ArriveBlob,
           ArrivePut, ArriveDelete, Start
      <4>2. ASSUME NEW label, Proceed(r, label), label # "map" PROVE pc'[r] # "map"
        BY <1>1, <4>2, Lands
      <4>3. ASSUME NEW code, NEW d, NEW b, Respond(r, code, d, b) PROVE pc'[r] # "map"
        BY <1>1, <4>3, Lands
      <4>4. ASSUME NEW label, Goto(r, label), label # "map" PROVE pc'[r] # "map"
        BY <1>1, <4>4, Lands
      <4>5. CASE TagFound(r) \/ TagMissing(r) \/ TagDeleted(r)
        BY <4>3, <4>4, <4>5 DEF TagFound, TagMissing, TagDeleted, LabelOf, Refuse
      <4>6. CASE \/ Lookup(r) \/ CatManifest(r) \/ CatManifestFails(r) \/ CatBlob(r)
                 \/ CatBlobFails(r)
        BY <4>2, <4>3, <4>4, <4>6 DEF Lookup, CatManifest, CatManifestFails, CatBlob,
           CatBlobFails, Miss, Refuse
      <4>7. CASE Query(r) \/ PeerManifest(r) \/ PeerBlob(r) \/ PeerFails(r) \/ PeerMap(r)
        BY <4>2, <4>3, <4>4, <4>7 DEF Query, PeerManifest, PeerBlob, PeerFails, PeerMap
      <4>8. CASE FetchFails(r) \/ FetchManifest(r) \/ FetchBlob(r)
        BY <4>3, <4>4, <4>8 DEF FetchFails, Fail, LabelOf, FetchManifest, FetchBlob,
           Got, Refuse
      <4>9. CASE AddContentFails(r) \/ AddBlobFails(r)
        BY <4>3, <4>9 DEF AddContentFails, AddBlobFails, Refuse
      <4>10. CASE MapContent(r) \/ MapContentFails(r) \/ TagContent(r)
        BY <4>2, <4>3, <4>10 DEF MapContent, MapContentFails, AfterMapping,
           TagContent, Refuse
      <4>11. CASE Publish(r) \/ PublishBlob(r) \/ Delete(r)
        BY <4>2, <4>3, <4>11 DEF Publish, PublishBlob, Delete
      <4>12. QED
        BY <2>2, <4>1, <4>5, <4>6, <4>7, <4>8, <4>9, <4>10, <4>11 DEF Step, Transact, CallOut
    <3>2. QED
      BY <3>1
  <2>3. QED
    BY <2>1, <2>2
<1>4. \A q \in Req : (pc'[q] = "map" /\ Digest(q)' \notin raced')
                        => held'[q].cid \in pinned'
  BY <1>2, <1>3 DEF Others, PinInv, Digest
<1>5. ASSUME NEW d \in Digests, mapping'[d] # Absent, mapping'[d].created + MaxAge > now',
             mapping'[d].source \notin {"peer manifest", "peer blob"}, d \notin raced
      PROVE  mapping'[d].cid \in pinned'
  <2>1. \A c, t, s : Mapping(c, t, s).cid = c /\ Mapping(c, t, s).source = s
    BY DEF Mapping
  <2>2. PeerSource(r) \in {"peer manifest", "peer blob"}
    BY DEF PeerSource
  <2>3. CASE mapping'[d] = mapping[d]
    BY <1>2, <1>5, <2>3 DEF PinInv, OwnContentPinned, Young
  <2>4. CASE d = Digest(r) /\ pc[r] = "map"
             /\ mapping'[d] = Mapping(held[r].cid, now, SourceOf(req[r].op))
    <3>1. held[r].cid \in pinned
      BY <1>5, <2>4 DEF PinInv
    <3>2. QED
      BY <1>2, <2>1, <2>4, <3>1
  <2>5. mapping'[d] # Mapping(held[r].cid, held[r].created, PeerSource(r))
    <3>1. Mapping(held[r].cid, held[r].created, PeerSource(r)).source = PeerSource(r)
      BY <2>1
    <3>2. mapping'[d].source # PeerSource(r)
      BY <1>5, <2>2
    <3>3. QED
      BY <3>1, <3>2
  <2>6. \/ mapping'[d] = mapping[d]
        \/ /\ d = Digest(r) /\ pc[r] = "map"
           /\ mapping'[d] = Mapping(held[r].cid, now, SourceOf(req[r].op))
    BY <1>5, <2>5, MappingMoves
  <2>7. QED
    BY <2>3, <2>4, <2>6
<1>6. QED
  BY <1>2, <1>4, <1>5 DEF PinInv, OwnContentPinned, Young

(* The sweep unpins what is old, and what is stored anew meanwhile is raced.   *)
LEMMA PinnedBySweep ==
    ASSUME TypeInv, TruthInv, PinInv, PinContent, Truthful,
           NEW d \in Digests, GCUnpin(d), UNCHANGED handlers,
           raced' = IF BeingStored(d) THEN raced \cup {d} ELSE raced
    PROVE  PinInv'
<1>1. /\ gc.snapshot[d] # Absent /\ Old(gc.snapshot[d])
      /\ gc.snapshot[d].cid = CIDOf(d.sha256)
  BY DEF GCUnpin, TypeInv, SweepOK, TruthInv, Genuine
<1>2. /\ pinned \ {CIDOf(d.sha256)} \subseteq pinned' /\ raced \subseteq raced'
      /\ BeingStored(d) => d \in raced'
      /\ UNCHANGED <<mapping, now, pc, held>>
  BY <1>1 DEF GCUnpin, buckets, handlers
<1>3. \A e \in Digests : e.sha256 = d.sha256 => e = d
  BY Naming
<1>4. ASSUME NEW e \in Digests, NEW cid, Genuine(e, cid), e # d, cid \in pinned
      PROVE  cid \in pinned'
  <2>1. CIDOf(e.sha256) # CIDOf(d.sha256)
    BY <1>3, <1>4 DEF CIDOf
  <2>2. QED
    BY <1>2, <1>4, <2>1 DEF Genuine
<1>5. \A q \in Req : (pc'[q] = "map" /\ Digest(q)' \notin raced')
                        => held'[q].cid \in pinned'
  <2> SUFFICES ASSUME NEW q \in Req, pc[q] = "map", Digest(q) \notin raced'
               PROVE  held[q].cid \in pinned'
    BY <1>2 DEF Digest
  <2>1. /\ Genuine(Digest(q), held[q].cid) /\ held[q].cid \in pinned
        /\ Digest(q) \in Digests
    BY <1>2, Going DEF TruthInv, Sincere, HasCID, PinInv, TypeInv, UnderWay, Knows,
       Located, Digest
  <2>2. Digest(q) # d
    BY <1>2 DEF BeingStored
  <2>3. QED
    BY <1>4, <2>1, <2>2
<1>6. ASSUME NEW e \in Digests, mapping[e] # Absent, Young(mapping[e]),
             mapping[e].source \notin {"peer manifest", "peer blob"}, e \notin raced'
      PROVE  mapping[e].cid \in pinned'
  <2>1. Genuine(e, mapping[e].cid) /\ mapping[e].cid \in pinned
    BY <1>2, <1>6 DEF TruthInv, PinInv, OwnContentPinned
  <2>2. CASE e = d
    <3>1. mapping[d] = gc.snapshot[d]
      BY <1>2, <1>6, <2>2 DEF BeingStored
    <3>2. Old(mapping[d]) /\ mapping[d].created \in Nat /\ now \in Nat /\ MaxAge \in Nat
      BY <1>1, <3>1, Found, StoreAssumption DEF TypeInv
    <3>3. Young(mapping[d])
      BY <1>6, <2>2
    <3>4. QED
      BY <3>2, <3>3 DEF Old, Young
  <2>3. CASE e # d
    BY <1>4, <2>1, <2>3
  <2>4. QED
    BY <2>2, <2>3
<1>7. QED
  BY <1>2, <1>5, <1>6 DEF PinInv, OwnContentPinned, Young

(* Every step keeps pinned what the registry stored itself.                    *)
LEMMA PinStep == TypeInv /\ TruthInv /\ PinInv /\ [Next]_vars => PinInv'
<1> SUFFICES ASSUME TypeInv, TruthInv, PinInv, [Next]_vars, PinContent, Truthful
             PROVE  PinInv'
  BY DEF PinInv, OwnContentPinned
<1>1. ASSUME NEW r \in Req, Arrives(r) \/ Step(r) PROVE PinInv'
  BY <1>1, PinnedByHandler
<1>2. ASSUME NEW d \in Digests, GCUnpin(d), UNCHANGED handlers,
             raced' = IF BeingStored(d) THEN raced \cup {d} ELSE raced
      PROVE  PinInv'
  BY <1>2, PinnedBySweep
<1>3. ASSUME Waits, Takes, UNCHANGED <<pinned, raced>>, now' \in Nat, now' >= now
      PROVE  PinInv'
  <2>1. \A q \in Req : (pc'[q] = "map" /\ Digest(q)' \notin raced')
                          => held'[q].cid \in pinned'
    BY <1>3 DEF Waits, PinInv, Digest
  <2>2. ASSUME NEW d \in Digests, mapping'[d] # Absent, mapping'[d].created + MaxAge > now',
               mapping'[d].source \notin {"peer manifest", "peer blob"}, d \notin raced
        PROVE  mapping'[d].cid \in pinned
    <3>1. mapping'[d] = mapping[d]
      BY <1>3, <2>2 DEF Takes, DeleteMapping, TypeInv, StoreTypeOK
    <3>2. mapping[d] # Absent /\ mapping[d].created + MaxAge > now'
      BY <2>2, <3>1
    <3>3. mapping[d].created \in Nat /\ now \in Nat /\ MaxAge \in Nat
      BY <3>2, Found, StoreAssumption DEF TypeInv
    <3>4. Young(mapping[d])
      BY <1>3, <3>2, <3>3 DEF Young
    <3>5. QED
      BY <2>2, <3>1, <3>4 DEF PinInv, OwnContentPinned
  <2>3. QED
    BY <1>3, <2>1, <2>2 DEF PinInv, OwnContentPinned, Young
<1>4. CASE \/ (GCBegin \/ GCDelete \/ GCHangs) /\ UNCHANGED <<quietly, handlers>>
           \/ Network \/ Time \/ Crash \/ UNCHANGED vars
  <2>1. Waits /\ Takes
    BY <1>4, OthersWait, OthersTake DEF TypeInv, Collect
  <2>2. UNCHANGED <<pinned, raced>> /\ now' \in {now, now + 1}
    BY <1>4 DEF GCBegin, GCDelete, GCHangs, Network, NodeGC, PeerLeaves, UpstreamPush,
       Time, Tick, Crash, StoreCrash, vars, store, ipfsVars, quietly, history
  <2>3. now \in Nat
    BY DEF TypeInv, StoreTypeOK
  <2>4. QED
    BY <1>3, <2>1, <2>2, <2>3
<1>5. QED
  BY <1>1, <1>2, <1>4 DEF Next, Collect

(* What a push or a pull stored is pinned until it is old, unless the sweep    *)
(* raced with the storing: no failure of the node, the database or the process *)
(* takes the pin away.                                                         *)
THEOREM OwnContentStaysPinned == Spec => []OwnContentPinned
<1>1. Init => PinInv
  <2>1. Init => mapping = Empty /\ \A r \in Req : pc[r] = "new"
    BY DEF Init, StoreInit
  <2>2. QED
    BY <2>1 DEF PinInv, OwnContentPinned, Empty
<1>2. PinInv => OwnContentPinned
  BY DEF PinInv
<1>3. QED
  BY <1>1, <1>2, TruthInit, TruthStep, PinStep, TypeInvariant, PTL DEF Spec

-----------------------------------------------------------------------------
(* A cached tag outlives its upstream.                                         *)

(* What the hypotheses of CacheOutlivesUpstream exclude.                       *)
LEMMA KeptMeans ==
    Kept => /\ Truthful /\ PinContent /\ ~ GCEnabled /\ Miss = "fetch"
            /\ "delTag" \notin Ops /\ "delDigest" \notin Ops
            /\ "ipfs" \notin Faults /\ "db" \notin Faults /\ "header" \notin Faults
BY DEF Kept, Truthful, Miss

(* Nothing that is mapped goes away, and nothing that is pinned on the node.   *)
Keeps ==
    /\ gc'.pc = "idle"
    /\ \A c : Safe(c) => Safe(c)'
    /\ \A d \in Digests : mapping[d] # Absent => mapping'[d] # Absent

(* So it is for every step, under Kept.                                       *)
LEMMA StepKeeps ==
    ASSUME TypeInv, KeptInv, Kept, [Next]_vars PROVE Keeps
<1>1. /\ gc.pc = "idle" /\ ~ GCEnabled
      /\ mapping \in [Digests -> Mappings \cup {Absent}]
  BY KeptMeans DEF KeptInv, TypeInv, StoreTypeOK
<1>2. ASSUME NEW r \in Req, Arrives(r) \/ Step(r) PROVE Keeps
  <2>1. /\ gc' = gc /\ node \subseteq node' /\ pinned \subseteq pinned'
    BY <1>2, HandlerWrites DEF Writes
  <2>2. \A d \in Digests : mapping[d] # Absent => mapping'[d] # Absent
    <3> SUFFICES ASSUME NEW d \in Digests, mapping[d] # Absent PROVE mapping'[d] # Absent
      OBVIOUS
    <3>1. pc[r] \notin {"peermap", "delete"}
      BY DEF KeptInv, Keeping
    <3>2. CASE UNCHANGED mapping
      BY <3>2
    <3>3. CASE /\ pc[r] = "map"
               /\ PutMapping(Digest(r), Mapping(held[r].cid, now, SourceOf(req[r].op)))
      <4>1. held[r].cid \in CIDs /\ now \in 0..MaxTime
        BY <3>3, Going, Found DEF TypeInv, UnderWay, Knows, HasCID
      <4>2. SourceOf(req[r].op) \in Sources
        BY DEF SourceOf, Sources
      <4>3. Mapping(held[r].cid, now, SourceOf(req[r].op)) # Absent
        BY <4>1, <4>2, MappingType
      <4>4. QED
        BY <1>1, <3>3, <4>3 DEF PutMapping
    <3>4. QED
      BY <1>2, <3>1, <3>2, <3>3, HandlerWrites DEF Writes
  <2>3. QED
    BY <1>1, <2>1, <2>2 DEF Keeps, Safe
<1>3. CASE Collect
  BY <1>1, <1>3 DEF Collect, GCBegin, GCUnpin, GCDelete, GCHangs
<1>4. CASE Network
  <2>1. /\ UNCHANGED <<mapping, gc, pinned>>
        /\ \A c \in node : c \in pinned => c \in node'
    BY <1>4 DEF Network, NodeGC, PeerLeaves, UpstreamPush, store, buckets, ipfsVars
  <2>2. QED
    BY <1>1, <2>1 DEF Keeps, Safe
<1>5. CASE Time \/ Crash \/ UNCHANGED vars
  <2>1. UNCHANGED <<mapping, node, pinned>> /\ (gc' = gc \/ gc' = Idle)
    BY <1>5 DEF Time, Tick, Crash, StoreCrash, vars, store, buckets, ipfsVars
  <2>2. Idle.pc = "idle"
    BY DEF Idle, Sweep
  <2>3. QED
    BY <1>1, <2>1, <2>2 DEF Keeps, Safe
<1>6. QED
  BY <1>2, <1>3, <1>4, <1>5 DEF Next

(* What a handler has yet to do is still possible after the steps of others.   *)
LEMMA KeepsWaiting ==
    ASSUME TypeInv, Keeps, NEW r \in Req, Keeping(r),
           seen'[r] # {} => seen[r] # {},
           UNCHANGED <<req[r], plan[r], held[r], status[r]>>,
           pc'[r] = pc[r] \/ (pc[r] \notin {"new", "done"} /\ pc'[r] = "gone")
    PROVE  Keeping(r)'
<1>1. pc[r] \in {"tagput", "lookup"} => Digest(r) \in Digests
  BY Going DEF TypeInv, UnderWay, Knows, Located, Digest
<1>2. (pc[r] = "fetch" /\ Served(r)) => Digest(r) \in Digests
  <2>1. <<"tag">> # <<"tag", "digest", "tag">>
    OBVIOUS
  <2>2. QED
    BY <2>1, Going DEF TypeInv, UnderWay, Knows, Served, Digest
<1>3. Served(r) => Served(r)'
  BY <1>1, <1>2 DEF Keeps, Served, Digest
<1>4. QED
  BY <1>1, <1>3 DEF Keeping, Keeps, Digest

(* A GET that found its tag: the upstream answers, or the digest is read from  *)
(* the node.                                                                   *)
LEMMA ServedStep ==
    ASSUME TypeInv, TruthInv, KeptInv, Kept, NEW r \in Req, Step(r), Keeps,
           ~ TagFound(r), Served(r)
    PROVE  Served(r)'
<1>1. /\ HandlersInv /\ pc[r] \notin {"new", "tag"} /\ UnderWay(r) /\ Keeping(r)
      /\ req[r].op = "getTag" /\ req'[r] = req[r] /\ Sincere(r)
      /\ req[r].op \notin PutOps \cup BlobOps
  BY Going, Leaves, KeptMeans DEF TypeInv, Served, KeptInv, TruthInv, PutOps, BlobOps
<1>2. /\ "ipfs" \notin Faults /\ "db" \notin Faults
  BY KeptMeans
<1>3. pc'[r] \notin {"new", "tag", "lookup", "fetch", "done"} => Served(r)'
  BY <1>1 DEF Served
<1>4. ASSUME NEW b, Respond(r, 200, Digest(r), b) PROVE Served(r)'
  BY <1>1, <1>4, Lands DEF Served
<1>5. CASE pc[r] = "lookup"
  <2>1. Lookup(r)
    BY <1>5 DEF Step, Transact, CallOut, TagFound, TagMissing, TagDeleted, CatManifest, CatManifestFails,
       CatBlob, CatBlobFails, Query, PeerManifest, PeerBlob, PeerFails, PeerMap,
       FetchFails, FetchManifest, FetchBlob, AddContent, AddContentFails, AddBlob,
       AddBlobFails, MapContent, MapContentFails, TagContent, Publish, PublishBlob, Delete
  <2>2. pc'[r] = "cat"
    BY <1>1, <1>2, <1>5, <2>1, Lands DEF Lookup, Served
  <2>3. QED
    BY <1>3, <2>2
<1>6. CASE pc[r] = "cat"
  <2>1. CatManifest(r) \/ CatManifestFails(r)
    BY <1>1, <1>6 DEF Step, Transact, CallOut, TagFound, TagMissing, TagDeleted, Lookup,
       CatBlob, CatBlobFails, Query, PeerManifest, PeerBlob, PeerFails, PeerMap,
       FetchFails, FetchManifest, FetchBlob, AddContent, AddContentFails, AddBlob,
       AddBlobFails, MapContent, MapContentFails, TagContent, Publish, PublishBlob, Delete
  <2>2. Reachable(held[r].cid) /\ True(r)
    <3>1. held[r].cid \in node /\ Digest(r) \in Digests
          /\ held[r].cid = CIDOf(Digest(r).sha256)
      BY <1>1, <1>6, KeptMeans DEF Keeping, Safe, UnderWay, Knows, Located, Digest,
         Sincere, HasCID, Genuine
    <3>2. QED
      BY <3>1, Naming DEF Reachable, True, Holds
  <2>3. Respond(r, 200, Digest(r), Holds(r))
    BY <1>2, <2>1, <2>2 DEF CatManifest, CatManifestFails
  <2>4. QED
    BY <1>4, <2>3
<1>7. CASE pc[r] = "fetch"
  <2>1. FetchFails(r) \/ FetchManifest(r)
    BY <1>1, <1>7 DEF Step, Transact, CallOut, TagFound, TagMissing, TagDeleted, Lookup, CatManifest,
       CatManifestFails,
       CatBlob, CatBlobFails, Query, PeerManifest, PeerBlob, PeerFails, PeerMap,
       FetchBlob, AddContent, AddContentFails, AddBlob,
       AddBlobFails, MapContent, MapContentFails, TagContent, Publish, PublishBlob, Delete
  <2>2. CASE FetchFails(r)
    <3>1. plan[r] = <<"tag", "digest", "tag">>
      BY <1>1, <1>7 DEF Served
    <3>2. Len(plan[r]) = 3 /\ plan[r][2] = "digest"
      BY <3>1
    <3>3. Goto(r, "lookup") /\ UNCHANGED held
      BY <2>2, <3>2 DEF FetchFails, Fail, LabelOf
    <3>4. pc'[r] = "lookup" /\ held'[r] = held[r]
      BY <1>1, <3>3, Lands
    <3>5. Digest(r) \in Digests
      <4>1. <<"tag">> # <<"tag", "digest", "tag">>
        OBVIOUS
      <4>2. QED
        BY <1>1, <1>7, <3>1, <4>1 DEF UnderWay, Knows, Digest
    <3>6. mapping'[Digest(r)] # Absent
      BY <1>7, <3>5 DEF Served, Keeps
    <3>7. QED
      BY <1>1, <3>4, <3>6 DEF Served, Digest
  <2>3. CASE FetchManifest(r)
    <3>1. pc'[r] = "add"
      BY <1>1, <2>3, Lands DEF FetchManifest, Got
    <3>2. QED
      BY <1>3, <3>1
  <2>4. QED
    BY <2>1, <2>2, <2>3
<1>8. CASE pc[r] \in {"add", "map", "tagput", "publish"}
  <2>1. AddContent(r) \/ MapContent(r) \/ TagContent(r) \/ Publish(r)
    BY <1>1, <1>2, <1>8 DEF Step, Transact, CallOut, TagFound, TagMissing, TagDeleted, Lookup, CatManifest,
       CatManifestFails,
       CatBlob, CatBlobFails, Query, PeerManifest, PeerBlob, PeerFails, PeerMap,
       FetchFails, FetchManifest, FetchBlob, AddContentFails, AddBlob,
       AddBlobFails, MapContentFails, PublishBlob, Delete
  <2>2. CASE AddContent(r) \/ MapContent(r) \/ TagContent(r)
    <3>1. pc'[r] \in {"map", "tagput", "publish"}
      BY <1>1, <2>2, Lands DEF AddContent, MapContent, AfterMapping, TagContent
    <3>2. QED
      BY <1>3, <3>1
  <2>3. CASE Publish(r)
    BY <1>1, <1>4, <2>3 DEF Publish
  <2>4. QED
    BY <2>1, <2>2, <2>3
<1>9. QED
  <2>1. pc[r] \in {"lookup", "cat", "fetch", "add", "map", "tagput", "publish"}
    <3>1. pc[r] \in Labels /\ pc[r] \notin {"done", "gone"}
      BY <1>1, Leaves DEF HandlersInv, HandlersTypeOK
    <3>2. QED
      BY <1>1, <3>1 DEF Labels, Keeping
  <2>2. QED
    BY <1>5, <1>6, <1>7, <1>8, <2>1

(* A handler finds the content of a cached tag in the store.                   *)
LEMMA TagFoundServed ==
    ASSUME TypeInv, KeptInv, Keeps, NEW r \in Req, TagFound(r)
    PROVE  Served(r)' /\ pc'[r] \in {"fetch", "lookup"}
<1> DEFINE n == req[r].name
           p == Plan(n, IsTagStale(tag[n]))
<1>1. HandlersInv /\ StoreTypeOK /\ UnderWay(r)
  BY Going DEF TypeInv, TagFound
<1>2. tag[n] # Absent /\ n \in Name /\ tag[n].digest \in Digests
  BY <1>1, Found DEF TagFound, UnderWay, Knows
<1>3. /\ pc'[r] = LabelOf(Head(p)) /\ plan'[r] = p /\ held'[r].digest = tag[n].digest
      /\ req' = req /\ req[r].op = "getTag"
  BY <1>1, Lands, Forms DEF TagFound, HandlersInv, HandlersTypeOK
<1>4. mapping'[tag[n].digest] # Absent
  BY <1>2 DEF KeptInv, Keeps
<1>5. LabelOf(Head(p)) \in {"fetch", "lookup"}
  BY DEF LabelOf
<1>6. LabelOf(Head(p)) = "fetch" => p = <<"tag", "digest", "tag">>
  <2>1. /\ Head(<<"digest", "digest", "tag">>) = "digest"
        /\ Head(<<"digest", "digest">>) = "digest"
        /\ Head(<<"digest", "digest", "digest">>) = "digest"
    OBVIOUS
  <2>2. QED
    BY <2>1 DEF Plan, LabelOf
<1>7. QED
  BY <1>3, <1>4, <1>5, <1>6 DEF Served, Digest

(* A handler's step leaves it with what it needs to answer from the cache.     *)
LEMMA KeepingStep ==
    ASSUME TypeInv, TruthInv, KeptInv, Kept, NEW r \in Req, Arrives(r) \/ Step(r),
           Keeps
    PROVE  Keeping(r)'
<1>1. /\ HandlersInv /\ StoreTypeOK /\ Keeping(r) /\ (pc[r] # "new" => UnderWay(r))
      /\ seen \in [Req -> SUBSET Content]
  BY Going DEF TypeInv, KeptInv, WorldTypeOK
<1>2. /\ Miss = "fetch" /\ "db" \notin Faults /\ "delTag" \notin Ops
      /\ "delDigest" \notin Ops /\ PinContent
  BY KeptMeans
<1>3. CASE Arrives(r)
  <2>1. pc[r] = "new" /\ ~ TagFound(r) /\ ~ Step(r)
    BY <1>1, <1>3, Leaves DEF TagFound
  <2>2. seen'[r] = {}
    BY <1>1, <1>3, <2>1, Watching DEF Keeping, Served
  <2>3. ASSUME NEW op \in Ops, NEW n, NEW label \in {"tag", "lookup", "add"},
               NEW p, NEW h, Start(r, op, n, label, p, h)
        PROVE  Keeping(r)'
    <3>1. pc'[r] = label /\ req'[r].op = op
      BY <1>1, <2>3, Lands DEF Start, Request, HandlersInv, HandlersTypeOK
    <3>2. QED
      BY <1>2, <2>2, <3>1 DEF Keeping
  <2>4. PICK n \in Name :
          \/ \E op \in AllOps : ArriveByTag(r, n, op)
          \/ \E c \in Content :
              \/ ArriveGet(r, n, c) \/ ArriveDelete(r, n, c)
              \/ \E op \in AllOps : ArriveBlob(r, n, c, op) \/ ArrivePut(r, n, c, op)
    BY <1>3 DEF Arrives
  <2>5. ASSUME NEW op, ArriveByTag(r, n, op) PROVE Keeping(r)'
    BY <2>3, <2>5 DEF ArriveByTag, Start
  <2>6. ASSUME NEW c, ArriveGet(r, n, c) PROVE Keeping(r)'
    BY <2>3, <2>6 DEF ArriveGet, Start
  <2>7. ASSUME NEW c, ArriveDelete(r, n, c) PROVE Keeping(r)'
    BY <1>2, <2>7 DEF ArriveDelete, Start
  <2>8. ASSUME NEW c, NEW op, ArriveBlob(r, n, c, op) PROVE Keeping(r)'
    BY <2>3, <2>8 DEF ArriveBlob, Start
  <2>9. ASSUME NEW c, NEW op, ArrivePut(r, n, c, op) PROVE Keeping(r)'
    BY <2>3, <2>9 DEF ArrivePut, Start
  <2>10. QED
    BY <2>4, <2>5, <2>6, <2>7, <2>8, <2>9
<1>4. CASE Step(r)
  <2>1. req'[r] = req[r] /\ req[r].op \notin {"delTag", "delDigest"} /\ UnderWay(r)
    BY <1>1, <1>4, Leaves DEF Keeping
  <2>2. seen'[r] # {} => Served(r)'
    <3>1. CASE TagFound(r)
      BY <3>1, TagFoundServed
    <3>2. CASE ~ TagFound(r)
      BY <1>1, <1>4, <3>2, Watching, ServedStep DEF Keeping
    <3>3. QED
      BY <3>1, <3>2
  <2>3. ASSUME NEW label \in {"tag", "lookup", "fetch", "add", "done"}, pc'[r] = label
        PROVE  Keeping(r)'
    BY <2>1, <2>2, <2>3 DEF Keeping
  <2>4. ASSUME NEW label \in {"cat", "map", "publish"}, pc'[r] = label,
               held'[r].cid \in node' /\ held'[r].cid \in pinned'
        PROVE  Keeping(r)'
    BY <2>1, <2>2, <2>4 DEF Keeping, Safe
  <2>5. ASSUME NEW code, NEW d, NEW b, Respond(r, code, d, b) PROVE Keeping(r)'
    BY <1>1, <2>3, <2>5, Lands
  <2>6. CASE TagFound(r)
    BY <2>3, <2>6, TagFoundServed
  <2>7. CASE TagMissing(r) \/ TagDeleted(r)
    <3>1. pc'[r] \in {"fetch", "done"}
      BY <1>1, <2>1, <2>7, Lands DEF TagMissing, TagDeleted
    <3>2. QED
      BY <2>3, <3>1
  <2>8. CASE Lookup(r)
    <3> DEFINE m == mapping[Digest(r)]
    <3>1. CASE m # Absent /\ Goto(r, "cat")
               /\ Hold(r, Held(Digest(r), NoContent, m.cid, m.created))
      <4>1. Digest(r) \in Digests
        BY <2>1, <2>8 DEF Lookup, UnderWay, Knows, Located, Digest
      <4>2. Safe(m.cid)
        BY <3>1, <4>1 DEF KeptInv
      <4>3. pc'[r] = "cat" /\ held'[r].cid = m.cid
        BY <1>1, <3>1, Lands, Forms
      <4>4. QED
        BY <2>4, <4>2, <4>3 DEF Keeps, Safe
    <3>2. CASE Proceed(r, "fetch") \/ Respond(r, 200, Digest(r), NoContent)
      BY <1>1, <2>3, <3>2, Lands
    <3>3. QED
      BY <1>2, <2>8, <3>1, <3>2 DEF Lookup
  <2>9. CASE CatManifest(r) \/ CatManifestFails(r) \/ CatBlob(r) \/ CatBlobFails(r)
    <3>1. Proceed(r, "fetch") \/ \E code, d, b : Respond(r, code, d, b)
      BY <1>2, <2>9 DEF CatManifest, CatManifestFails, CatBlob, CatBlobFails, Refuse
    <3>2. QED
      BY <1>1, <2>3, <2>5, <3>1, Lands
  <2>10. ~ (\/ Query(r) \/ PeerManifest(r) \/ PeerBlob(r) \/ PeerFails(r)
            \/ PeerMap(r) \/ MapContentFails(r) \/ Delete(r))
    BY <1>1, <1>2 DEF Keeping, Query, PeerManifest, PeerBlob, PeerFails, PeerMap,
       MapContentFails, Delete
  <2>11. CASE FetchFails(r) \/ FetchManifest(r) \/ FetchBlob(r)
    <3>1. FetchFails(r) => pc'[r] \in {"fetch", "lookup", "done"}
      BY <1>1, Lands DEF FetchFails, Fail, LabelOf
    <3>2. FetchManifest(r) \/ FetchBlob(r) => pc'[r] = "add"
      BY <1>1, Lands DEF FetchManifest, FetchBlob, Got
    <3>3. QED
      BY <2>3, <2>11, <3>1, <3>2
  <2>12. CASE AddContent(r) \/ AddBlob(r)
    <3>1. CASE Goto(r, "map") /\ Added(r)
      <4>1. pc'[r] = "map" /\ held'[r].cid = CIDOf(held[r].body)
        BY <1>1, <3>1, Lands, Forms DEF Added
      <4>2. CIDOf(held[r].body) \in node' /\ CIDOf(held[r].body) \in pinned'
        BY <1>2, <2>12 DEF AddContent, AddBlob, Add
      <4>3. QED
        BY <2>4, <4>1, <4>2
    <3>2. QED
      BY <2>5, <2>12, <3>1 DEF AddContent, AddBlob, Refuse
  <2>13. CASE AddContentFails(r) \/ AddBlobFails(r) \/ Publish(r)
    BY <2>5, <2>13 DEF AddContentFails, AddBlobFails, Publish, Refuse
  <2>14. CASE MapContent(r) \/ TagContent(r) \/ PublishBlob(r)
    <3>1. Safe(held[r].cid)
      BY <1>1, <2>14 DEF Keeping, MapContent, TagContent, PublishBlob
    <3>2. ASSUME NEW label \in {"publish", "cat"}, Proceed(r, label) PROVE Keeping(r)'
      <4>1. pc'[r] = label /\ held'[r] = held[r]
        BY <1>1, <3>2, Lands
      <4>2. QED
        BY <2>4, <3>1, <4>1 DEF Keeps, Safe
    <3>3. CASE MapContent(r) /\ Proceed(r, "tagput")
      <4>1. pc'[r] = "tagput" /\ held'[r] = held[r]
        BY <1>1, <3>3, Lands
      <4>2. mapping'[Digest(r)] # Absent
        <5>1. Digest(r) \in Digests /\ held[r].cid \in CIDs /\ now \in 0..MaxTime
          BY <1>1, <2>1, <3>3, Found DEF MapContent, UnderWay, Knows, Located, HasCID, Digest
        <5>2. SourceOf(req[r].op) \in Sources
          BY DEF SourceOf, Sources
        <5>3. Mapping(held[r].cid, now, SourceOf(req[r].op)) # Absent
          BY <5>1, <5>2, MappingType
        <5>4. mapping'[Digest(r)] = Mapping(held[r].cid, now, SourceOf(req[r].op))
          BY <1>1, <3>3, <5>1 DEF MapContent, PutMapping, StoreTypeOK
        <5>5. QED
          BY <5>3, <5>4
      <4>3. QED
        BY <2>1, <2>2, <3>1, <4>1, <4>2 DEF Keeping, Keeps, Safe, Digest
    <3>4. QED
      BY <2>5, <2>14, <3>2, <3>3
         DEF MapContent, AfterMapping, TagContent, PublishBlob
  <2>15. QED
    BY <1>4, <2>6, <2>7, <2>8, <2>9, <2>10, <2>11, <2>12, <2>13, <2>14 DEF Step, Transact, CallOut
<1>5. QED
  BY <1>3, <1>4

(* Every step keeps the cache able to answer.                                  *)
LEMMA CacheStep == TypeInv /\ TruthInv /\ CacheInv /\ [Next]_vars => CacheInv'
<1> SUFFICES ASSUME TypeInv, TruthInv, CacheInv, [Next]_vars, Kept
             PROVE  KeptInv' /\ CacheOutlivesUpstream'
  BY DEF CacheInv, CacheOutlivesUpstream, Kept
<1>1. KeptInv /\ HandlersInv /\ StoreTypeOK
  BY DEF CacheInv, TypeInv
<1>2. Keeps
  BY <1>1, StepKeeps
<1>3. \A q \in Req : Keeping(q)'
  <2>1. ASSUME NEW r \in Req, Arrives(r) \/ Step(r), NEW q \in Req PROVE Keeping(q)'
    <3>1. CASE q = r
      BY <1>1, <1>2, <2>1, <3>1, KeepingStep
    <3>2. CASE q # r
      <4>1. Others(r) /\ Keeping(q)
        BY <1>1, <2>1, OneMoves DEF KeptInv
      <4>2. seen'[q] = seen[q]
        <5>1. CASE TagFound(r)
          BY <3>2, <5>1 DEF TagFound, TypeInv, WorldTypeOK
        <5>2. CASE ~ TagFound(r)
          BY <2>1, <5>2, Watching
        <5>3. QED
          BY <5>1, <5>2
      <4>3. QED
        BY <1>2, <3>2, <4>1, <4>2, KeepsWaiting DEF Others
    <3>3. QED
      BY <3>1, <3>2
  <2>2. ASSUME Collect \/ Network \/ Time \/ Crash \/ UNCHANGED vars, NEW q \in Req
        PROVE  Keeping(q)'
    <3>1. Waits /\ Keeping(q)
      BY <1>1, <2>2, OthersWait DEF KeptInv
    <3>2. seen'[q] # {} => seen[q] # {}
      <4>1. CASE seen' = seen
        BY <4>1
      <4>2. CASE \E n \in Name, c \in Content : UpstreamPush(n, c)
        BY <4>2 DEF UpstreamPush
      <4>3. QED
        BY <2>2, <4>1, <4>2 DEF Collect, Network, Time, Crash, vars, quietly, history
    <3>3. pc'[q] = pc[q] \/ (pc[q] \notin {"new", "done"} /\ pc'[q] = "gone")
      <4>1. CASE UNCHANGED pc
        BY <4>1
      <4>2. CASE Crash
        BY <4>2 DEF Crash
      <4>3. QED
        BY <2>2, <4>1, <4>2 DEF Collect, Network, Time, UpstreamPush, handlers, vars
    <3>4. QED
      BY <1>2, <3>1, <3>2, <3>3, KeepsWaiting DEF Waits
  <2>3. QED
    BY <2>1, <2>2 DEF Next
<1>4. \A d \in Digests : mapping'[d] # Absent =>
          mapping'[d].cid \in node' /\ mapping'[d].cid \in pinned'
  <2>1. ASSUME NEW r \in Req, Arrives(r) \/ Step(r), NEW d \in Digests,
               mapping'[d] # Absent
        PROVE  mapping'[d].cid \in node' /\ mapping'[d].cid \in pinned'
    <3>1. \A c, t, s : Mapping(c, t, s).cid = c
      BY DEF Mapping
    <3>2. pc[r] # "peermap" /\ (pc[r] = "map" => Safe(held[r].cid))
      BY <1>1 DEF KeptInv, Keeping
    <3>3. mapping[d] # Absent => Safe(mapping[d].cid)
      BY <1>1 DEF KeptInv
    <3>4. mapping'[d] = mapping[d] \/ (pc[r] = "map" /\ mapping'[d].cid = held[r].cid)
      BY <2>1, <3>1, <3>2, MappingMoves
    <3>5. QED
      BY <1>2, <2>1, <3>2, <3>3, <3>4 DEF Keeps, Safe
  <2>2. ASSUME Takes
        PROVE  \A d \in Digests : mapping'[d] # Absent =>
                 mapping'[d].cid \in node' /\ mapping'[d].cid \in pinned'
    <3>1. \A d \in Digests : mapping'[d] \in {mapping[d], Absent}
      BY <1>1, <2>2 DEF Takes, DeleteMapping, StoreTypeOK
    <3>2. QED
      BY <1>1, <1>2, <3>1 DEF KeptInv, Keeps, Safe
  <2>3. QED
    BY <2>1, <2>2, OthersTake DEF Next
<1>5. \A n \in Name : tag'[n] # Absent => mapping'[tag'[n].digest] # Absent
  <2>1. \A n \in Name : tag[n] # Absent =>
          tag[n].digest \in Digests /\ mapping[tag[n].digest] # Absent
    BY <1>1, Found DEF KeptInv
  <2>2. CASE tag' = tag
    BY <1>2, <2>1, <2>2 DEF Keeps
  <2>3. ASSUME NEW r \in Req, pc[r] = "tagput", PutTag(req[r].name, Digest(r))
        PROVE  \A n \in Name : tag'[n] # Absent => mapping'[tag'[n].digest] # Absent
    <3>1. Digest(r) \in Digests /\ mapping[Digest(r)] # Absent
      BY <1>1, <2>3, Going DEF KeptInv, Keeping, UnderWay, Knows, Located, Digest
    <3>2. \A n \in Name : tag'[n] = tag[n] \/ tag'[n].digest = Digest(r)
      BY <1>1, <2>3 DEF PutTag, TagRef, StoreTypeOK
    <3>3. QED
      BY <1>2, <2>1, <3>1, <3>2 DEF Keeps
  <2>4. QED
    BY <2>2, <2>3, HandlerWrites, OthersTake DEF Next, Writes, Takes
<1>6. KeptInv'
  BY <1>2, <1>3, <1>4, <1>5 DEF KeptInv, Keeps, Safe
<1>7. CacheOutlivesUpstream'
  BY <1>6 DEF KeptInv, Keeping, Served, CacheOutlivesUpstream
<1>8. QED
  BY <1>6, <1>7

(* Where nothing is deleted or collected and content is pinned, a GET of a     *)
(* cached tag is answered whatever the upstream does, across restarts.         *)
THEOREM CacheServes == Spec => []CacheOutlivesUpstream
<1>1. Init => CacheInv
  <2>1. Init => /\ mapping = Empty /\ gc.pc = "idle" /\ tag = [n \in Name |-> Absent]
                /\ \A r \in Req : pc[r] = "new" /\ seen[r] = {} /\ req[r].op = "none"
    BY DEF Init, StoreInit, Idle, Sweep, Request
  <2>2. QED
    BY <2>1 DEF CacheInv, CacheOutlivesUpstream, KeptInv, Keeping, Empty
<1>2. CacheInv => CacheOutlivesUpstream
  BY DEF CacheInv
<1>3. QED
  BY <1>1, <1>2, TruthInit, TruthStep, CacheStep, TypeInvariant, PTL DEF Spec
=============================================================================
