--------------------------- MODULE RegistryProofs ---------------------------
(* Proofs about module Registry, for any contents, names, requests and        *)
(* faults: the types with what each handler knows at its step, that mappings  *)
(* and served manifests are true, and that tags name stored digests.          *)
EXTENDS Registry, SequenceTheorems, TLAPS

(* Where a handler has the digest it works on, a CID, a body.                  *)
Located == {"lookup", "cat", "query", "peer", "peermap", "add", "map",
            "tagput", "publish", "delete"}
HasCID == {"cat", "peer", "peermap", "map", "tagput", "publish"}
Gets == {"lookup", "cat", "query", "peer", "peermap", "fetch"}
GetOps == {"getTag", "getDigest"} \cup BlobOps

(* What the variables of a handler that stands at a label hold, beyond their   *)
(* types: a GET of a tag that is not cached has no digest and one attempt.     *)
Knows(label, q, p, h) ==
    /\ q.op \in AllOps /\ q.name \in Name
    /\ label \in Located => h.digest \in Digests
    /\ label = "fetch" => h.digest \in Digests \/ p = <<"tag">>
    /\ label \in HasCID => h.cid \in CIDs
    /\ label = "add" => h.body \in Content
    /\ p # << >> => q.op \in {"getTag", "getDigest"}
    /\ label \in Gets => q.op \in GetOps
RequestsOK ==
    \A r \in Req : pc[r] # "new" => Knows(pc[r], req[r], plan[r], held[r])
HandlersInv == HandlersTypeOK /\ RequestsOK

(* What is left of a sweep is old, and the mapping whose pin has just been     *)
(* taken is still to be deleted.                                               *)
SweepOK ==
    /\ \A d \in gc.doomed : gc.snapshot[d] # Absent /\ Old(gc.snapshot[d])
    /\ gc.pc = "delete" => gc.digest \in gc.doomed

TypeInv == StoreTypeOK /\ SweepOK /\ HandlersInv /\ WorldTypeOK

(* VerifiedMappings, with what a handler has compared before it stores: a push  *)
(* the digest it computed itself, the others the digest they were asked for.   *)
Vouched(r) ==
    /\ pc[r] = "add" /\ req[r].op \in PutOps => DigestOf(held[r].body) = Digest(r)
    /\ pc[r] \in {"map", "tagput", "publish"}
          => TrueRecord(Digest(r), held[r].cid, SourceOf(req[r].op))
    /\ pc[r] = "peermap" /\ req[r].op \notin BlobOps
          => held[r].cid = CIDOf(Digest(r).sha256)
VouchInv == VerifiedMappings /\ \A r \in Req : Vouched(r)

(* ServedManifestsVerified: who stores without having asked an upstream is a   *)
(* push, or has a blob.                                                        *)
Compared(r) ==
    /\ (pc[r] = "done" /\ status[r] = 200 /\ req[r].op \in {"getTag", "getDigest"})
          => DigestOf(held[r].body) = Digest(r)
    /\ pc[r] \in {"add", "map", "tagput", "publish"}
          => req[r].op \in PutOps \cup BlobOps
ServeInv == \A r \in Req \ straight : Compared(r)

(* TagNamesStored: a tag is stored after the mapping of its digest.            *)
TagInv ==
    /\ TagNamesStored
    /\ "db" \notin Faults =>
         \A r \in Req : pc[r] = "tagput" => Digest(r) \in stored

-----------------------------------------------------------------------------
(* Digests, CIDs and records.                                                  *)

(* A digest and a CID are their content's, and nobody else's.                  *)
LEMMA Naming ==
    /\ \A c \in Content : DigestOf(c) \in Digests /\ CIDOf(c) \in CIDs
    /\ \A d \in Digests : d.sha256 \in Content /\ d = DigestOf(d.sha256)
    /\ \A c \in CIDs : c.cid \in Content /\ c = CIDOf(c.cid)
    /\ \A c : DigestOf(c).sha256 = c /\ CIDOf(c).cid = c
BY DEF DigestOf, CIDOf, Digests, CIDs

(* A handler's variables, put together and taken apart.                        *)
LEMMA HeldType ==
    ASSUME NEW d \in Digests \cup {NoDigest}, NEW b \in Content \cup {NoContent},
           NEW c \in CIDs \cup {NoCID}, NEW t \in 0..MaxTime
    PROVE  /\ Held(d, b, c, t) \in Locals
           /\ Held(d, b, c, t).digest = d /\ Held(d, b, c, t).body = b
           /\ Held(d, b, c, t).cid = c /\ Held(d, b, c, t).created = t
BY DEF Held, Locals

(* Each of a handler's variables has its type.                                *)
LEMMA LocalsFields ==
    ASSUME NEW h \in Locals
    PROVE  /\ h.digest \in Digests \cup {NoDigest}
           /\ h.body \in Content \cup {NoContent}
           /\ h.cid \in CIDs \cup {NoCID} /\ h.created \in 0..MaxTime
BY DEF Locals

(* The forms in which the handlers' variables are set.                         *)
LEMMA Forms ==
    /\ Held(NoDigest, NoContent, NoCID, 0) \in Locals
    /\ \A d \in Digests :
         /\ Held(d, NoContent, NoCID, 0) \in Locals
         /\ \A b \in Content : Held(d, b, NoCID, 0) \in Locals
         /\ \A c \in CIDs, t \in 0..MaxTime : Held(d, NoContent, c, t) \in Locals
         /\ \A b \in Content, c \in CIDs : Held(d, b, c, 0) \in Locals
    /\ \A d, b, c, t :
         /\ Held(d, b, c, t).digest = d /\ Held(d, b, c, t).body = b
         /\ Held(d, b, c, t).cid = c /\ Held(d, b, c, t).created = t
<1>1. 0 \in 0..MaxTime
  BY StoreAssumption
<1>2. QED
  BY <1>1 DEF Held, Locals

(* The clock starts within its bound, and there may be no attempt.             *)
LEMMA Zero == 0 \in 0..MaxTime /\ << >> \in Seq(Attempts)
BY StoreAssumption

(* What the store has under a digest and under a name.                         *)
LEMMA Found ==
    ASSUME StoreTypeOK
    PROVE  /\ \A d \in Digests : mapping[d] # Absent =>
                 /\ mapping[d] \in Mappings
                 /\ mapping[d].cid \in CIDs /\ mapping[d].created \in 0..MaxTime
           /\ \A n \in Name : tag[n] # Absent =>
                 tag[n].digest \in Digests /\ tag[n].updated \in 0..MaxTime
           /\ now \in 0..MaxTime
BY DEF StoreTypeOK, Mappings, TagRefs

(* Every source is one, and every mapping a handler makes.                     *)
LEMMA MappingType ==
    ASSUME NEW c \in CIDs, NEW t \in 0..MaxTime, NEW s \in Sources
    PROVE  /\ Mapping(c, t, s) \in Mappings /\ Mapping(c, t, s) # Absent
           /\ Mapping(c, t, s).cid = c /\ Mapping(c, t, s).created = t
           /\ Mapping(c, t, s).source = s
BY StoreAssumption DEF Mapping, Mappings

(* The shortest lists of attempts.                                             *)
LEMMA AttemptSeqs ==
    << >> \in Seq(Attempts) /\ <<"tag">> \in Seq(Attempts)
    /\ <<"digest">> \in Seq(Attempts)
BY EmptySeq DEF Attempts

(* The plans of getManifestByTag: never empty, and whatever fails, the next    *)
(* attempt is one of the two.                                                  *)
LEMMA PlanType ==
    ASSUME NEW n, NEW old \in BOOLEAN
    PROVE  /\ Plan(n, old) \in Seq(Attempts) /\ Plan(n, old) # << >>
           /\ Head(Plan(n, old)) \in Attempts
<1> DEFINE plans == {<<"tag", "digest", "tag">>, <<"digest", "digest", "tag">>,
                     <<"digest", "digest">>, <<"digest", "digest", "digest">>}
<1>1. Plan(n, old) \in plans
  BY DEF Plan
<1>2. \A p \in plans : p \in Seq(Attempts)
  <2>1. <<"tag", "digest", "tag">> \in Seq(Attempts)
    BY DEF Attempts
  <2>2. <<"digest", "digest", "tag">> \in Seq(Attempts)
    BY DEF Attempts
  <2>3. <<"digest", "digest">> \in Seq(Attempts)
    BY DEF Attempts
  <2>4. <<"digest", "digest", "digest">> \in Seq(Attempts)
    BY DEF Attempts
  <2>5. QED
    BY <2>1, <2>2, <2>3, <2>4
<1>3. \A p \in plans : p # << >>
  OBVIOUS
<1> HIDE DEF plans
<1>4. QED
  BY <1>1, <1>2, <1>3, HeadTailProperties

(* A list of attempts without its first one.                                  *)
LEMMA Shorter ==
    ASSUME NEW p \in Seq(Attempts), Len(p) > 1
    PROVE  /\ Tail(p) \in Seq(Attempts) /\ p[2] \in Attempts
           /\ p # <<"tag">> /\ p # << >>
BY HeadTailProperties

-----------------------------------------------------------------------------
(* The handlers.                                                               *)

(* One handler's variables become well typed ones that fit its new label.      *)
LEMMA Moves ==
    ASSUME HandlersInv, NEW r \in Req, NEW label \in Labels, NEW q \in Requests,
           NEW p \in Seq(Attempts), NEW h \in Locals, NEW s \in Codes,
           Knows(label, q, p, h),
           pc' = [pc EXCEPT ![r] = label], req' = [req EXCEPT ![r] = q],
           plan' = [plan EXCEPT ![r] = p], held' = [held EXCEPT ![r] = h],
           status' = [status EXCEPT ![r] = s]
    PROVE  HandlersInv'
<1>1. HandlersTypeOK'
  BY DEF HandlersInv, HandlersTypeOK
<1>2. RequestsOK'
  BY DEF HandlersInv, HandlersTypeOK, RequestsOK
<1>3. QED
  BY <1>1, <1>2 DEF HandlersInv

(* What is known of a handler that is under way.                               *)
UnderWay(r) ==
    /\ HandlersInv /\ r \in Req /\ pc[r] # "new"
    /\ req[r] \in Requests /\ plan[r] \in Seq(Attempts)
    /\ held[r] \in Locals /\ status[r] \in Codes
    /\ Knows(pc[r], req[r], plan[r], held[r])

(* A handler whose request has arrived is under way.                          *)
LEMMA Going ==
    ASSUME HandlersInv, NEW r \in Req, pc[r] # "new"
    PROVE  UnderWay(r)
BY DEF UnderWay, HandlersInv, HandlersTypeOK, RequestsOK

(* A handler that goes on as it is knows what its next label needs.           *)
LEMMA ProceedOK ==
    ASSUME NEW r, UnderWay(r), NEW label \in Labels,
           Knows(label, req[r], plan[r], held[r]), Proceed(r, label)
    PROVE  HandlersInv'
<1>1. /\ req' = [req EXCEPT ![r] = req[r]] /\ plan' = [plan EXCEPT ![r] = plan[r]]
      /\ held' = [held EXCEPT ![r] = held[r]]
      /\ status' = [status EXCEPT ![r] = status[r]]
      /\ pc' = [pc EXCEPT ![r] = label]
  BY DEF UnderWay, Proceed, Goto, HandlersInv, HandlersTypeOK
<1>2. QED
  BY <1>1, Moves DEF UnderWay

(* A handler that goes on with other variables.                               *)
LEMMA HoldOK ==
    ASSUME NEW r, UnderWay(r), NEW label \in Labels, NEW h \in Locals,
           Knows(label, req[r], plan[r], h),
           Goto(r, label), Hold(r, h), UNCHANGED <<req, plan, status>>
    PROVE  HandlersInv'
<1>1. /\ req' = [req EXCEPT ![r] = req[r]] /\ plan' = [plan EXCEPT ![r] = plan[r]]
      /\ held' = [held EXCEPT ![r] = h] /\ pc' = [pc EXCEPT ![r] = label]
      /\ status' = [status EXCEPT ![r] = status[r]]
  BY DEF UnderWay, Goto, Hold, HandlersInv, HandlersTypeOK
<1>2. QED
  BY <1>1, Moves DEF UnderWay

(* A handler that answers.                                                    *)
LEMMA RespondOK ==
    ASSUME NEW r, UnderWay(r), NEW code \in Codes,
           NEW d \in Digests \cup {NoDigest}, NEW b \in Content \cup {NoContent},
           Respond(r, code, d, b)
    PROVE  HandlersInv'
<1> DEFINE h == Held(d, b, NoCID, 0)
<1>1. h \in Locals
  BY HeldType, Zero
<1>2. Knows("done", req[r], << >>, h)
  BY DEF UnderWay, Knows, Located, HasCID, Gets, GetOps, BlobOps
<1>3. /\ req' = [req EXCEPT ![r] = req[r]] /\ plan' = [plan EXCEPT ![r] = << >>]
      /\ held' = [held EXCEPT ![r] = h] /\ pc' = [pc EXCEPT ![r] = "done"]
      /\ status' = [status EXCEPT ![r] = code]
  BY DEF UnderWay, Respond, Goto, Hold, HandlersInv, HandlersTypeOK
<1>4. QED
  BY <1>1, <1>2, <1>3, Zero, Moves DEF UnderWay, Labels

(* A request arrives.                                                          *)
LEMMA ArrivesOK ==
    ASSUME HandlersInv, NEW r \in Req, Arrives(r) PROVE HandlersInv'
<1>1. ASSUME NEW op \in AllOps, NEW n \in Name, NEW label \in Labels,
             NEW p \in Seq(Attempts), NEW h \in Locals,
             Knows(label, Request(op, n), p, h), Start(r, op, n, label, p, h)
      PROVE  HandlersInv'
  <2>1. Request(op, n) \in Requests
    BY DEF Request, Requests
  <2>2. status' = [status EXCEPT ![r] = status[r]] /\ status[r] \in Codes
    BY <1>1 DEF HandlersInv, HandlersTypeOK, Start
  <2>3. QED
    BY <1>1, <2>1, <2>2, Moves DEF Start, Goto, Hold
<1>2. /\ Nothing \in Locals
      /\ \A c \in Content :
           /\ Wanting(c) \in Locals /\ Wanting(c).digest \in Digests
           /\ Held(DigestOf(c), c, NoCID, 0) \in Locals
           /\ Held(DigestOf(c), c, NoCID, 0).digest \in Digests
           /\ Held(DigestOf(c), c, NoCID, 0).body \in Content
  BY Forms, Naming DEF Nothing, Wanting
<1>3. /\ Request("getTag", NoName).op = "getTag"
      /\ \A op, n : Request(op, n).op = op /\ Request(op, n).name = n
  BY DEF Request
<1>4. <<"digest">> \in Seq(Attempts) /\ << >> \in Seq(Attempts)
  BY AttemptSeqs
<1>5. PICK n \in Name :
        \/ \E op \in AllOps : ArriveByTag(r, n, op)
        \/ \E c \in Content :
            \/ ArriveGet(r, n, c) \/ ArriveDelete(r, n, c)
            \/ \E op \in AllOps : ArriveBlob(r, n, c, op) \/ ArrivePut(r, n, c, op)
  BY DEF Arrives
<1>6. ASSUME NEW op \in AllOps, ArriveByTag(r, n, op) PROVE HandlersInv'
  <2>1. Knows("tag", Request(op, n), << >>, Nothing)
    BY <1>3 DEF Knows, Located, HasCID, Gets, GetOps, BlobOps
  <2>2. QED
    BY <1>1, <1>2, <1>4, <1>6, <2>1 DEF ArriveByTag, Labels
<1>7. ASSUME NEW c \in Content, ArriveGet(r, n, c) PROVE HandlersInv'
  <2>1. Knows("lookup", Request("getDigest", n), <<"digest">>, Wanting(c))
    BY <1>2, <1>3 DEF Knows, Located, HasCID, Gets, GetOps, BlobOps, AllOps
  <2>2. QED
    BY <1>1, <1>2, <1>4, <1>7, <2>1 DEF ArriveGet, Labels, AllOps
<1>8. ASSUME NEW c \in Content, ArriveDelete(r, n, c) PROVE HandlersInv'
  <2>1. Knows("delete", Request("delDigest", n), << >>, Wanting(c))
    BY <1>2, <1>3 DEF Knows, Located, HasCID, Gets, GetOps, BlobOps, AllOps
  <2>2. QED
    BY <1>1, <1>2, <1>4, <1>8, <2>1 DEF ArriveDelete, Labels, AllOps
<1>9. ASSUME NEW c \in Content, NEW op \in AllOps, ArriveBlob(r, n, c, op)
      PROVE  HandlersInv'
  <2>1. Knows("lookup", Request(op, n), << >>, Wanting(c))
    BY <1>2, <1>3, <1>9 DEF ArriveBlob, Knows, Located, HasCID, Gets, GetOps, BlobOps
  <2>2. QED
    BY <1>1, <1>2, <1>4, <1>9, <2>1 DEF ArriveBlob, Labels
<1>10. ASSUME NEW c \in Content, NEW op \in AllOps, ArrivePut(r, n, c, op)
       PROVE  HandlersInv'
  <2>1. Knows("add", Request(op, n), << >>, Held(DigestOf(c), c, NoCID, 0))
    BY <1>2, <1>3 DEF Knows, Located, HasCID, Gets, GetOps, BlobOps
  <2>2. QED
    BY <1>1, <1>2, <1>4, <1>10, <2>1 DEF ArrivePut, Labels
<1>11. QED
  BY <1>5, <1>6, <1>7, <1>8, <1>9, <1>10

(* The steps of a GET that found its tag, and of one that did not.             *)
LEMMA TagStepsOK ==
    ASSUME StoreTypeOK, HandlersInv, NEW r \in Req,
           TagFound(r) \/ TagMissing(r) \/ TagDeleted(r)
    PROVE  HandlersInv'
<1>1. UnderWay(r)
  BY Going DEF TagFound, TagMissing, TagDeleted
<1> DEFINE t == tag[req[r].name]
<1>2. t # Absent =>
        /\ t.digest \in Digests
        /\ Held(t.digest, NoContent, NoCID, 0) \in Locals
        /\ Held(t.digest, NoContent, NoCID, 0).digest = t.digest
  BY <1>1, Found, Forms DEF UnderWay, Knows
<1>3. ASSUME TagFound(r) PROVE HandlersInv'
  <2> DEFINE p == Plan(req[r].name, IsTagStale(t))
             label == LabelOf(Head(p))
             h == Held(t.digest, NoContent, NoCID, 0)
  <2>1. p \in Seq(Attempts) /\ p # << >> /\ label \in {"fetch", "lookup"}
    BY PlanType DEF LabelOf, IsTagStale
  <2>2. req[r].op = "getTag" /\ h \in Locals /\ h.digest \in Digests
    BY <1>2, <1>3 DEF TagFound
  <2>3. /\ req' = [req EXCEPT ![r] = req[r]] /\ plan' = [plan EXCEPT ![r] = p]
        /\ held' = [held EXCEPT ![r] = h] /\ pc' = [pc EXCEPT ![r] = label]
        /\ status' = [status EXCEPT ![r] = status[r]]
    BY <1>1, <1>3 DEF TagFound, UnderWay, Goto, Hold, HandlersInv, HandlersTypeOK
  <2> HIDE DEF p, label, h
  <2>4. Knows(label, req[r], p, h)
    BY <1>1, <2>1, <2>2 DEF Knows, UnderWay, Located, HasCID, Gets, GetOps, BlobOps
  <2>5. label \in Labels /\ req[r] \in Requests /\ status[r] \in Codes
    BY <1>1, <2>1 DEF UnderWay, Labels
  <2>6. QED
    BY <2>1, <2>2, <2>3, <2>4, <2>5, Moves
<1>4. ASSUME TagMissing(r) PROVE HandlersInv'
  <2>1. CASE Refuse(r, 404)
    BY <1>1, <2>1, RespondOK DEF Refuse, Codes
  <2>2. CASE req[r].op = "getTag" /\ plan' = [plan EXCEPT ![r] = <<"tag">>]
             /\ Goto(r, "fetch") /\ UNCHANGED <<req, held, status>>
    <3> DEFINE p == <<"tag">>
    <3>1. p \in Seq(Attempts) /\ plan' = [plan EXCEPT ![r] = p]
      BY <2>2, AttemptSeqs
    <3>2. Knows("fetch", req[r], p, held[r])
      BY <1>1, <2>2 DEF Knows, UnderWay, Located, HasCID, Gets, GetOps, BlobOps
    <3>3. /\ req' = [req EXCEPT ![r] = req[r]]
          /\ held' = [held EXCEPT ![r] = held[r]]
          /\ status' = [status EXCEPT ![r] = status[r]]
      BY <1>1, <2>2 DEF UnderWay, HandlersInv, HandlersTypeOK
    <3>4. /\ "fetch" \in Labels /\ req[r] \in Requests /\ status[r] \in Codes
          /\ held[r] \in Locals /\ pc' = [pc EXCEPT ![r] = "fetch"]
      BY <1>1, <2>2 DEF UnderWay, Labels, Goto
    <3> HIDE DEF p
    <3>5. QED
      BY <3>1, <3>2, <3>3, <3>4, Moves
  <2>3. QED
    BY <1>4, <2>1, <2>2 DEF TagMissing
<1>5. ASSUME TagDeleted(r) PROVE HandlersInv'
  <2>1. Knows("delete", req[r], plan[r], Held(t.digest, NoContent, NoCID, 0))
    BY <1>1, <1>2, <1>5 DEF TagDeleted, Knows, UnderWay, Located, HasCID, Gets, GetOps, BlobOps
  <2>2. QED
    BY <1>1, <1>2, <1>5, <2>1, HoldOK DEF TagDeleted, Labels
<1>6. QED
  BY <1>3, <1>4, <1>5

(* getManifestByDigest and resolveBlob: the local store.                       *)
LEMMA LocalStepsOK ==
    ASSUME StoreTypeOK, HandlersInv, NEW r \in Req,
           \/ Lookup(r) \/ CatManifest(r) \/ CatManifestFails(r)
           \/ CatBlob(r) \/ CatBlobFails(r)
    PROVE  HandlersInv'
<1>1. /\ UnderWay(r) /\ pc[r] \in {"lookup", "cat"} /\ Digest(r) \in Digests
      /\ pc[r] = "cat" => Holds(r) \in Content
  <2>1. pc[r] \in {"lookup", "cat"}
    BY DEF Lookup, CatManifest, CatManifestFails, CatBlob, CatBlobFails
  <2>2. QED
    BY <2>1, Going, Naming DEF UnderWay, Knows, Located, HasCID, Gets, GetOps, BlobOps, Digest, Holds
<1>2. Miss \in Labels /\ Knows(Miss, req[r], plan[r], held[r])
  BY <1>1 DEF Miss, Labels, UnderWay, Knows, Located, HasCID, Gets, GetOps, BlobOps, Digest
<1>3. ASSUME Lookup(r) PROVE HandlersInv'
  <2> DEFINE m == mapping[Digest(r)]
             h == Held(Digest(r), NoContent, m.cid, m.created)
  <2>1. CASE Proceed(r, Miss)
    BY <1>1, <1>2, <2>1, ProceedOK
  <2>2. CASE m # Absent /\ Goto(r, "cat") /\ Hold(r, h) /\ UNCHANGED <<req, plan, status>>
    <3>1. h \in Locals /\ h.digest \in Digests /\ h.cid \in CIDs
      BY <1>1, <2>2, Found, Forms
    <3> HIDE DEF h
    <3>2. Knows("cat", req[r], plan[r], h) /\ "cat" \in Labels
      BY <1>1, <3>1 DEF UnderWay, Knows, Located, HasCID, Gets, Labels
    <3>3. QED
      BY <1>1, <2>2, <3>1, <3>2, HoldOK
  <2>3. CASE Respond(r, 200, Digest(r), NoContent)
    BY <1>1, <2>3, RespondOK DEF Codes
  <2>4. QED
    BY <1>3, <2>1, <2>2, <2>3 DEF Lookup
<1>4. ASSUME CatManifest(r) \/ CatManifestFails(r) PROVE HandlersInv'
  <2>1. CASE Proceed(r, Miss)
    BY <1>1, <1>2, <2>1, ProceedOK
  <2>2. CASE pc[r] = "cat" /\ Respond(r, 200, Digest(r), Holds(r))
    BY <1>1, <2>2, RespondOK DEF Codes
  <2>3. QED
    BY <1>4, <2>1, <2>2 DEF CatManifest, CatManifestFails
<1>5. ASSUME CatBlob(r) PROVE HandlersInv'
  BY <1>1, <1>5, RespondOK DEF CatBlob, Codes
<1>6. ASSUME CatBlobFails(r) PROVE HandlersInv'
  BY <1>1, <1>6, RespondOK DEF CatBlobFails, Refuse, Codes
<1>7. QED
  BY <1>3, <1>4, <1>5, <1>6

(* The CIDs peers announce are CIDs.                                           *)
LEMMA PeerAnswers == \A d : PeerCIDs(d) \subseteq CIDs
BY StoreAssumption, Naming DEF PeerCIDs

(* The federation.                                                             *)
LEMMA PeerStepsOK ==
    ASSUME StoreTypeOK, HandlersInv, NEW r \in Req,
           \/ Query(r) \/ PeerManifest(r) \/ PeerBlob(r) \/ PeerFails(r) \/ PeerMap(r)
    PROVE  HandlersInv'
<1>1. /\ UnderWay(r) /\ pc[r] \in {"query", "peer", "peermap"} /\ Digest(r) \in Digests
      /\ (pc[r] \in {"peer", "peermap"} => held[r].cid \in CIDs /\ Holds(r) \in Content)
  <2>1. pc[r] \in {"query", "peer", "peermap"}
    BY DEF Query, PeerManifest, PeerBlob, PeerFails, PeerMap
  <2>2. QED
    BY <2>1, Going, Naming DEF UnderWay, Knows, Located, HasCID, Gets, GetOps, BlobOps, Digest, Holds
<1>2. "fetch" \in Labels /\ Knows("fetch", req[r], plan[r], held[r])
  BY <1>1 DEF Labels, UnderWay, Knows, Located, HasCID, Gets, GetOps, BlobOps, Digest
<1>3. pc[r] \in {"peer", "peermap"} =>
        \A label \in {"peermap", "cat"} :
           label \in Labels /\ Knows(label, req[r], plan[r], held[r])
  BY <1>1 DEF Labels, UnderWay, Knows, Located, HasCID, Gets, GetOps, BlobOps, Digest
<1>4. CASE Proceed(r, "fetch")
  BY <1>1, <1>2, <1>4, ProceedOK
<1>5. ASSUME Query(r), ~ Proceed(r, "fetch") PROVE HandlersInv'
  <2>1. PICK cid \in PeerCIDs(Digest(r)), t \in 0..now :
          /\ Goto(r, "peer") /\ Hold(r, Held(Digest(r), NoContent, cid, t))
          /\ UNCHANGED <<req, plan, status>>
    BY <1>5 DEF Query
  <2> DEFINE h == Held(Digest(r), NoContent, cid, t)
  <2>2. cid \in CIDs /\ t \in 0..MaxTime
    BY Found, PeerAnswers, StoreAssumption
  <2>3. h \in Locals /\ h.digest \in Digests /\ h.cid \in CIDs
    BY <1>1, <2>2, Forms
  <2> HIDE DEF h
  <2>4. Knows("peer", req[r], plan[r], h) /\ "peer" \in Labels
    BY <1>1, <2>3 DEF UnderWay, Knows, Located, HasCID, Gets, Labels
  <2>5. QED
    BY <1>1, <2>1, <2>3, <2>4, HoldOK DEF h
<1>6. ASSUME PeerManifest(r) \/ PeerBlob(r) \/ PeerFails(r), ~ Proceed(r, "fetch")
      PROVE  HandlersInv'
  BY <1>1, <1>3, <1>6, ProceedOK DEF PeerManifest, PeerBlob, PeerFails
<1>7. ASSUME PeerMap(r) PROVE HandlersInv'
  <2>1. CASE Proceed(r, "cat")
    BY <1>1, <1>3, <1>7, <2>1, ProceedOK DEF PeerMap
  <2>2. CASE Respond(r, 200, Digest(r), NoContent)
    BY <1>1, <2>2, RespondOK DEF Codes
  <2>3. CASE Respond(r, 200, Digest(r), Holds(r))
    <3>1. Holds(r) \in Content
      BY <1>1, <1>7 DEF PeerMap
    <3>2. QED
      BY <1>1, <2>3, <3>1, RespondOK DEF Codes
  <2>4. QED
    BY <1>7, <2>1, <2>2, <2>3 DEF PeerMap
<1>8. QED
  BY <1>4, <1>5, <1>6, <1>7

(* The upstream registry.                                                      *)
LEMMA FetchStepsOK ==
    ASSUME StoreTypeOK, HandlersInv, WorldTypeOK, NEW r \in Req,
           FetchFails(r) \/ FetchManifest(r) \/ FetchBlob(r)
    PROVE  HandlersInv'
<1>1. UnderWay(r) /\ pc[r] = "fetch"
  BY Going DEF FetchFails, FetchManifest, FetchBlob
<1>2. ASSUME FetchFails(r) PROVE HandlersInv'
  <2>1. CASE Refuse(r, 404)
    BY <1>1, <2>1, RespondOK DEF Refuse, Codes
  <2>2. CASE /\ Len(plan[r]) > 1 /\ plan' = [plan EXCEPT ![r] = Tail(@)]
             /\ Goto(r, LabelOf(plan[r][2])) /\ UNCHANGED <<req, held, status>>
    <3> DEFINE p == Tail(plan[r])
               label == LabelOf(plan[r][2])
    <3>1. p \in Seq(Attempts) /\ label \in {"fetch", "lookup"} /\ plan[r] # <<"tag">>
          /\ plan[r] # << >>
      BY <1>1, <2>2, Shorter DEF UnderWay, LabelOf
    <3>2. /\ req' = [req EXCEPT ![r] = req[r]] /\ plan' = [plan EXCEPT ![r] = p]
          /\ held' = [held EXCEPT ![r] = held[r]] /\ pc' = [pc EXCEPT ![r] = label]
          /\ status' = [status EXCEPT ![r] = status[r]]
      BY <1>1, <2>2 DEF UnderWay, Goto, HandlersInv, HandlersTypeOK
    <3> HIDE DEF p, label
    <3>3. Knows(label, req[r], p, held[r])
      BY <1>1, <3>1 DEF UnderWay, Knows, Located, HasCID, Gets, GetOps, BlobOps
    <3>4. /\ label \in Labels /\ req[r] \in Requests /\ status[r] \in Codes
          /\ held[r] \in Locals
      BY <1>1, <3>1 DEF UnderWay, Labels
    <3>5. QED
      BY <3>1, <3>2, <3>3, <3>4, Moves
  <2>3. QED
    BY <1>2, <2>1, <2>2 DEF FetchFails, Fail
<1>3. ASSUME NEW d \in Digests, NEW c \in Content, Got(r, d, c) PROVE HandlersInv'
  <2> DEFINE h == Held(d, c, NoCID, 0)
  <2>1. h \in Locals /\ h.digest \in Digests /\ h.body \in Content
    BY Forms
  <2>2. Goto(r, "add") /\ Hold(r, h) /\ UNCHANGED <<req, plan, status>>
    BY <1>3 DEF Got
  <2> HIDE DEF h
  <2>3. Knows("add", req[r], plan[r], h) /\ "add" \in Labels
    BY <1>1, <2>1 DEF UnderWay, Knows, Labels, HasCID, Gets
  <2>4. QED
    BY <1>1, <2>1, <2>2, <2>3, HoldOK
<1>4. ASSUME FetchManifest(r) PROVE HandlersInv'
  <2>1. upstream[req[r].name] \in Content /\ Hosted \subseteq Content
    BY <1>1, RequestAssumption DEF UnderWay, Knows, WorldTypeOK
  <2>2. QED
    BY <1>3, <1>4, <2>1, Naming DEF FetchManifest
<1>5. ASSUME FetchBlob(r) PROVE HandlersInv'
  <2>1. Digest(r) \in Digests
    <3>1. req[r].op \notin {"getTag", "getDigest"}
      BY <1>5 DEF FetchBlob, BlobOps
    <3>2. plan[r] = << >>
      BY <1>1, <3>1 DEF UnderWay, Knows
    <3>3. << >> # <<"tag">>
      OBVIOUS
    <3>4. QED
      BY <1>1, <3>2, <3>3 DEF UnderWay, Knows, Digest
  <2>2. QED
    BY <1>3, <1>5, <2>1 DEF FetchBlob
<1>6. QED
  BY <1>2, <1>3, <1>4, <1>5

(* What was fetched or pushed is added and recorded; deletes.                  *)
LEMMA StoreStepsOK ==
    ASSUME StoreTypeOK, HandlersInv, NEW r \in Req,
           \/ AddContent(r) \/ AddContentFails(r) \/ AddBlob(r) \/ AddBlobFails(r)
           \/ MapContent(r) \/ MapContentFails(r) \/ TagContent(r)
           \/ Publish(r) \/ PublishBlob(r) \/ Delete(r)
    PROVE  HandlersInv'
<1>1. /\ UnderWay(r) /\ Digest(r) \in Digests /\ held[r].digest = Digest(r)
      /\ held[r].body \in Content \cup {NoContent}
      /\ pc[r] \in {"add", "map", "tagput", "publish", "delete"}
  <2>1. pc[r] \in {"add", "map", "tagput", "publish", "delete"}
    BY DEF AddContent, AddContentFails, AddBlob, AddBlobFails, MapContent,
       MapContentFails, TagContent, Publish, PublishBlob, Delete
  <2>2. QED
    BY <2>1, Going, LocalsFields DEF UnderWay, Knows, Located, Digest
<1>2. \A code \in Codes : Refuse(r, code) => HandlersInv'
  BY <1>1, RespondOK DEF Refuse
<1>3. \A code \in Codes : Respond(r, code, Digest(r), held[r].body) => HandlersInv'
  BY <1>1, RespondOK
<1>4. \A code \in Codes : Respond(r, code, Digest(r), NoContent) => HandlersInv'
  BY <1>1, RespondOK
<1>5. ASSUME pc[r] = "add", Goto(r, "map"), Added(r), UNCHANGED <<req, plan, status>>
      PROVE  HandlersInv'
  <2> DEFINE h == Held(Digest(r), held[r].body, CIDOf(held[r].body), 0)
  <2>1. held[r].body \in Content /\ CIDOf(held[r].body) \in CIDs
    BY <1>1, <1>5, Naming DEF UnderWay, Knows
  <2>2. h \in Locals /\ h.digest \in Digests /\ h.cid \in CIDs
    BY <1>1, <2>1, Forms
  <2>3. Hold(r, h)
    BY <1>5 DEF Added
  <2> HIDE DEF h
  <2>4. Knows("map", req[r], plan[r], h) /\ "map" \in Labels
    BY <1>1, <2>2 DEF UnderWay, Knows, Located, HasCID, Gets, Labels
  <2>5. QED
    BY <1>1, <1>5, <2>2, <2>3, <2>4, HoldOK
<1>6. pc[r] \in {"map", "tagput", "publish"} =>
        \A label \in {"tagput", "publish", "cat"} :
           (Proceed(r, label) /\ (label = "cat" => req[r].op \in BlobOps))
               => HandlersInv'
  <2> SUFFICES ASSUME pc[r] \in {"map", "tagput", "publish"},
                      NEW label \in {"tagput", "publish", "cat"}, Proceed(r, label),
                      label = "cat" => req[r].op \in BlobOps
               PROVE  HandlersInv'
    OBVIOUS
  <2>1. label \in Labels /\ Knows(label, req[r], plan[r], held[r])
    BY <1>1 DEF UnderWay, Knows, Located, HasCID, Gets, GetOps, BlobOps, Labels
  <2>2. QED
    BY <1>1, <2>1, ProceedOK
<1>7. AfterMapping(r) \in {"tagput", "publish"}
  BY DEF AfterMapping
<1>8. CASE AddContent(r) \/ AddBlob(r)
  BY <1>2, <1>5, <1>8 DEF AddContent, AddBlob, Codes
<1>9. CASE AddContentFails(r) \/ AddBlobFails(r)
  BY <1>2, <1>3, <1>9 DEF AddContentFails, AddBlobFails, Codes
<1>10. CASE MapContent(r) \/ MapContentFails(r)
  BY <1>2, <1>6, <1>7, <1>10 DEF MapContent, MapContentFails, Codes
<1>11. CASE TagContent(r)
  BY <1>6, <1>11 DEF TagContent
<1>12. CASE Publish(r)
  BY <1>3, <1>12 DEF Publish, Codes
<1>13. CASE PublishBlob(r)
  BY <1>4, <1>6, <1>13 DEF PublishBlob, Codes
<1>14. CASE Delete(r)
  BY <1>4, <1>14 DEF Delete, Codes
<1>15. QED
  BY <1>8, <1>9, <1>10, <1>11, <1>12, <1>13, <1>14

(* Everything else leaves the handlers alone, but for a crash, which ends them. *)
LEMMA OthersOK ==
    ASSUME HandlersInv, Collect \/ Network \/ Time \/ Crash \/ UNCHANGED vars
    PROVE  HandlersInv'
<1>1. CASE UNCHANGED handlers
  BY <1>1 DEF handlers, HandlersInv, HandlersTypeOK, RequestsOK
<1>2. CASE Crash
  <2>1. HandlersTypeOK'
    BY <1>2 DEF Crash, HandlersInv, HandlersTypeOK, Labels
  <2>2. RequestsOK'
    <3>1. \A r \in Req : /\ pc'[r] # "new" => pc[r] # "new"
                        /\ pc'[r] \in {pc[r], "gone"}
      BY <1>2 DEF Crash
    <3>2. QED
      BY <1>2, <3>1 DEF Crash, HandlersInv, RequestsOK, Knows, Located, HasCID, Gets, GetOps, BlobOps
  <2>3. QED
    BY <2>1, <2>2 DEF HandlersInv
<1>3. QED
  BY <1>1, <1>2 DEF Collect, Network, Time, UpstreamPush, vars, handlers

(* Every step leaves the handlers typed, and each with what it needs.          *)
LEMMA HandlersStep == TypeInv /\ [Next]_vars => HandlersInv'
<1> SUFFICES ASSUME TypeInv, [Next]_vars PROVE HandlersInv'
  OBVIOUS
<1>1. StoreTypeOK /\ HandlersInv /\ WorldTypeOK
  BY DEF TypeInv
<1>2. ASSUME NEW r \in Req, Step(r) PROVE HandlersInv'
  BY <1>1, <1>2, TagStepsOK, LocalStepsOK, PeerStepsOK, FetchStepsOK, StoreStepsOK
     DEF Step, Transact, CallOut
<1>3. QED
  BY <1>1, <1>2, ArrivesOK, OthersOK DEF Next

-----------------------------------------------------------------------------
(* The store.                                                                  *)

(* The parts of a typed store that a step may change keep their types.         *)
LEMMA PutsTyped ==
    ASSUME StoreTypeOK, UNCHANGED <<ipfsVars, now, gc>>,
           \/ UNCHANGED buckets
           \/ /\ UNCHANGED <<tag, repo>>
              /\ \E d \in Digests : DeleteMapping(d) \/ \E m \in Mappings : PutMapping(d, m)
           \/ \E n \in Name, d \in Digests : PutTag(n, d) /\ UNCHANGED <<mapping, repo>>
           \/ \E n \in Name, d \in Digests :
                 AddRepositoryManifest(n, d) /\ UNCHANGED <<mapping, tag>>
    PROVE  StoreTypeOK'
<1>1. /\ now' \in 0..MaxTime /\ node' \subseteq CIDs /\ pinned' \subseteq CIDs
      /\ remote' \subseteq CIDs /\ gc' = gc
  BY DEF StoreTypeOK, ipfsVars
<1>2. mapping' \in [Digests -> Mappings \cup {Absent}]
  BY DEF StoreTypeOK, buckets, DeleteMapping, PutMapping
<1>3. tag' \in [Name -> TagRefs \cup {Absent}]
  BY DEF StoreTypeOK, buckets, PutTag, TagRef, TagRefs
<1>4. repo' \in [Name -> SUBSET Digests]
  BY DEF StoreTypeOK, buckets, AddRepositoryManifest
<1>5. QED
  BY <1>1, <1>2, <1>3, <1>4 DEF StoreTypeOK

(* Whatever blocks and pins the node and the peers gain or lose are CIDs.     *)
LEMMA NodeTyped ==
    ASSUME StoreTypeOK, UNCHANGED <<buckets, now, gc>>,
           node' \subseteq CIDs, pinned' \subseteq CIDs, remote' \subseteq CIDs
    PROVE  StoreTypeOK'
BY DEF StoreTypeOK, buckets

(* The sweep's snapshot, as it is taken and as it is worked off.               *)
LEMMA SweepTyped ==
    ASSUME StoreTypeOK, UNCHANGED <<buckets, now>>, UNCHANGED <<node, remote>>,
           pinned' \subseteq CIDs,
           NEW pl \in {"idle", "scan", "delete", "stuck"},
           NEW s \in [Digests -> Mappings \cup {Absent}],
           NEW o \in SUBSET Digests, NEW d \in Digests \cup {NoDigest},
           gc' = Sweep(pl, s, o, d)
    PROVE  StoreTypeOK'
<1>1. gc' \in [pc : {"idle", "scan", "delete", "stuck"},
               snapshot : [Digests -> Mappings \cup {Absent}],
               doomed : SUBSET Digests, digest : Digests \cup {NoDigest}]
  BY DEF Sweep
<1>2. QED
  BY <1>1 DEF StoreTypeOK, buckets

(* No handler touches the clock or the collector, nor what it does not name.   *)
LEMMA HandlersStoreTyped ==
    ASSUME StoreTypeOK, HandlersInv, NEW r \in Req, Arrives(r) \/ Step(r)
    PROVE  StoreTypeOK' /\ UNCHANGED <<now, gc>>
<1> USE DEF store
<1>1. CASE Arrives(r)
  <2>1. UNCHANGED store
    BY <1>1 DEF Arrives, ArriveByTag, ArriveGet, ArriveBlob, ArrivePut,
       ArriveDelete, Start
  <2>2. QED
    BY <2>1, PutsTyped
<1>2. CASE UNCHANGED store
  BY <1>2, PutsTyped
<1>3. CASE CatManifest(r) \/ CatBlob(r) \/ PeerManifest(r)
  <2>1. held[r].cid \in CIDs
    BY <1>3, Going DEF CatManifest, CatBlob, PeerManifest, UnderWay, Knows, HasCID
  <2>2. /\ UNCHANGED <<buckets, now, gc, pinned, remote>>
        /\ node' = node \cup {held[r].cid}
    BY <1>3 DEF CatManifest, CatBlob, PeerManifest, Fetched
  <2>3. QED
    BY <2>1, <2>2, NodeTyped DEF StoreTypeOK
<1>4. CASE AddContent(r) \/ AddContentFails(r) \/ AddBlob(r) \/ AddBlobFails(r)
  <2>1. CIDOf(held[r].body) \in CIDs
    BY <1>4, Going, Naming
       DEF AddContent, AddContentFails, AddBlob, AddBlobFails, UnderWay, Knows
  <2>2. UNCHANGED <<buckets, now, gc>> /\ MaybeAdded(held[r].body)
    BY <1>4 DEF AddContent, AddContentFails, AddBlob, AddBlobFails, MaybeAdded
  <2>3. QED
    BY <2>1, <2>2, NodeTyped DEF StoreTypeOK, MaybeAdded, Add, ipfsVars
<1>5. CASE PeerMap(r) \/ MapContent(r)
  <2>1. /\ Digest(r) \in Digests /\ held[r].cid \in CIDs
        /\ held[r].created \in 0..MaxTime /\ now \in 0..MaxTime
    BY <1>5, Going, LocalsFields, Found
       DEF PeerMap, MapContent, UnderWay, Knows, HasCID, Located, Digest
  <2>2. SourceOf(req[r].op) \in Sources
    BY DEF SourceOf, Sources
  <2>3. \E m \in Mappings : PutMapping(Digest(r), m) \/ UNCHANGED mapping
    BY <1>5, <2>1, <2>2, MappingType DEF PeerMap, MapContent, StoreMapping, Sources
  <2>4. UNCHANGED <<tag, repo, ipfsVars, now, gc>>
    BY <1>5 DEF PeerMap, MapContent
  <2>5. QED
    BY <2>1, <2>3, <2>4, PutsTyped DEF buckets
<1>6. CASE TagContent(r) \/ Publish(r)
  <2>1. Digest(r) \in Digests /\ req[r].name \in Name
    BY <1>6, Going DEF TagContent, Publish, UnderWay, Knows, Located, Digest
  <2>2. QED
    BY <1>6, <2>1, PutsTyped DEF TagContent, Publish, buckets, quietly
<1>7. CASE Delete(r)
  <2>1. Digest(r) \in Digests
    BY <1>7, Going DEF Delete, UnderWay, Knows, Located, Digest
  <2>2. QED
    BY <1>7, <2>1, PutsTyped DEF Delete, buckets
<1>8. CASE \/ TagFound(r) \/ TagMissing(r) \/ TagDeleted(r) \/ Lookup(r)
           \/ CatManifestFails(r) \/ CatBlobFails(r) \/ Query(r) \/ PeerBlob(r)
           \/ PeerFails(r)
  BY <1>2, <1>8 DEF TagFound, TagMissing, TagDeleted, Lookup, CatManifestFails,
     CatBlobFails, Query, PeerBlob, PeerFails
<1>9. CASE \/ FetchFails(r) \/ FetchManifest(r) \/ FetchBlob(r)
           \/ MapContentFails(r) \/ PublishBlob(r)
  BY <1>2, <1>9 DEF FetchFails, FetchManifest, FetchBlob, Got, MapContentFails,
     PublishBlob
<1>10. QED
  BY <1>1, <1>3, <1>4, <1>5, <1>6, <1>7, <1>8, <1>9 DEF Step, Transact, CallOut

(* The sweep keeps to what it found old when it began.                         *)
LEMMA CollectTyped ==
    ASSUME StoreTypeOK, SweepOK, Collect PROVE StoreTypeOK' /\ SweepOK'
<1>1. Empty \in [Digests -> Mappings \cup {Absent}]
  BY DEF Empty
<1>2. /\ gc.snapshot \in [Digests -> Mappings \cup {Absent}]
      /\ gc.doomed \subseteq Digests /\ pinned \subseteq CIDs
      /\ \A d : gc.doomed \ {d} \in SUBSET Digests
  BY DEF StoreTypeOK
<1>3. \A a, b, c, d : /\ Sweep(a, b, c, d).pc = a /\ Sweep(a, b, c, d).snapshot = b
                      /\ Sweep(a, b, c, d).doomed = c /\ Sweep(a, b, c, d).digest = d
  BY DEF Sweep
<1>4. CASE GCBegin
  <2> DEFINE o == {d \in Digests : mapping[d] # Absent /\ Old(mapping[d])}
             s == [d \in Digests |-> IF d \in o THEN mapping[d] ELSE Absent]
  <2>1. /\ gc' = Sweep("scan", s, o, NoDigest)
        /\ UNCHANGED <<buckets, ipfsVars, now>>
    BY <1>4 DEF GCBegin
  <2>2. s \in [Digests -> Mappings \cup {Absent}] /\ o \in SUBSET Digests
    BY DEF StoreTypeOK
  <2>3. \A d \in o : s[d] # Absent /\ Old(s[d])
    OBVIOUS
  <2> HIDE DEF o, s
  <2>4. StoreTypeOK'
    BY <1>2, <2>1, <2>2, SweepTyped DEF ipfsVars
  <2>5. SweepOK'
    BY <1>3, <2>1, <2>3 DEF SweepOK, Old
  <2>6. QED
    BY <2>4, <2>5
<1>5. ASSUME NEW d \in Digests, GCUnpin(d) PROVE StoreTypeOK' /\ SweepOK'
  <2>1. /\ gc' = Sweep("delete", gc.snapshot, gc.doomed, d) /\ d \in gc.doomed
        /\ pinned' \subseteq CIDs /\ UNCHANGED <<buckets, node, remote, now>>
    BY <1>2, <1>5 DEF GCUnpin
  <2>2. StoreTypeOK'
    BY <1>2, <2>1, SweepTyped
  <2>3. SweepOK'
    BY <1>3, <2>1 DEF SweepOK, Old
  <2>4. QED
    BY <2>2, <2>3
<1>6. CASE GCDelete
  <2>1. gc.digest \in Digests /\ gc.digest \in gc.doomed
    BY <1>2, <1>6 DEF GCDelete, SweepOK
  <2>2. \/ gc' = Idle
        \/ gc' = Sweep("scan", gc.snapshot, gc.doomed \ {gc.digest}, NoDigest)
    BY <1>6 DEF GCDelete, AfterItem
  <2>3. mapping' \in [Digests -> Mappings \cup {Absent}]
    BY <1>6, <2>1 DEF GCDelete, DeleteMapping, StoreTypeOK
  <2>4. gc' \in [pc : {"idle", "scan", "delete", "stuck"},
                 snapshot : [Digests -> Mappings \cup {Absent}],
                 doomed : SUBSET Digests, digest : Digests \cup {NoDigest}]
    BY <1>1, <1>2, <2>2 DEF Sweep, Idle
  <2>5. StoreTypeOK'
    BY <1>6, <2>3, <2>4 DEF GCDelete, StoreTypeOK, ipfsVars
  <2>6. SweepOK'
    BY <1>3, <1>6, <2>2 DEF GCDelete, Idle, SweepOK, Old
  <2>7. QED
    BY <2>5, <2>6
<1>7. CASE GCHangs
  <2>1. /\ gc' = [gc EXCEPT !.pc = "stuck"] /\ gc \in [pc : {"idle", "scan", "delete", "stuck"},
                 snapshot : [Digests -> Mappings \cup {Absent}],
                 doomed : SUBSET Digests, digest : Digests \cup {NoDigest}]
        /\ UNCHANGED <<buckets, ipfsVars, now>>
    BY <1>7 DEF GCHangs, StoreTypeOK
  <2>2. QED
    BY <2>1 DEF StoreTypeOK, SweepOK, Old, buckets, ipfsVars
<1>8. QED
  BY <1>4, <1>5, <1>6, <1>7 DEF Collect

(* Every step leaves the store typed, and the sweep with what is old.          *)
LEMMA StoreStep == TypeInv /\ [Next]_vars => StoreTypeOK' /\ SweepOK'
<1> SUFFICES ASSUME TypeInv, [Next]_vars PROVE StoreTypeOK' /\ SweepOK'
  OBVIOUS
<1>1. StoreTypeOK /\ SweepOK /\ HandlersInv
  BY DEF TypeInv
<1>2. ASSUME NEW r \in Req, Arrives(r) \/ Step(r) PROVE StoreTypeOK' /\ SweepOK'
  BY <1>1, <1>2, HandlersStoreTyped DEF SweepOK, Old
<1>3. CASE Network
  <2>1. UNCHANGED <<now, gc>>
    BY <1>3 DEF Network, NodeGC, PeerLeaves, UpstreamPush, store
  <2>2. StoreTypeOK'
    <3>1. /\ UNCHANGED <<buckets, now, gc>>
          /\ node' \subseteq node /\ pinned' = pinned /\ remote' \subseteq remote
      BY <1>3 DEF Network, NodeGC, PeerLeaves, UpstreamPush, store, ipfsVars
    <3>2. QED
      BY <1>1, <3>1, NodeTyped DEF StoreTypeOK
  <2>3. QED
    BY <1>1, <2>1, <2>2 DEF SweepOK, Old
<1>4. CASE Time
  <2>1. StoreTypeOK'
    BY <1>1, <1>4, StoreAssumption DEF Time, Tick, StoreTypeOK, buckets, ipfsVars
  <2>2. \A d \in gc.doomed : Old(gc.snapshot[d]) => Old(gc.snapshot[d])'
    <3>1. \A d \in gc.doomed : gc.snapshot[d] # Absent =>
            gc.snapshot[d].created \in Nat
      BY <1>1 DEF StoreTypeOK, Mappings
    <3>2. now' = now + 1 /\ now \in Nat /\ gc' = gc /\ MaxAge \in Nat
      BY <1>1, <1>4, StoreAssumption DEF Time, Tick, StoreTypeOK
    <3>3. QED
      BY <1>1, <3>1, <3>2 DEF SweepOK, Old
  <2>3. SweepOK'
    BY <1>1, <1>4, <2>2 DEF Time, Tick, SweepOK
  <2>4. QED
    BY <2>1, <2>3
<1>5. CASE Crash
  <2>1. gc' = Idle /\ UNCHANGED <<buckets, ipfsVars, now>>
    BY <1>5 DEF Crash, StoreCrash
  <2>2. Idle = Sweep("idle", Empty, {}, NoDigest) /\ Idle.pc = "idle" /\ Idle.doomed = {}
        /\ Empty \in [Digests -> Mappings \cup {Absent}]
    BY DEF Idle, Sweep, Empty
  <2>3. StoreTypeOK'
    BY <1>1, <2>1, <2>2, SweepTyped DEF ipfsVars, StoreTypeOK
  <2>4. QED
    BY <2>1, <2>2, <2>3 DEF SweepOK
<1>6. CASE UNCHANGED vars
  BY <1>1, <1>6, PutsTyped DEF vars, store, SweepOK, Old
<1>7. QED
  BY <1>1, <1>2, <1>3, <1>4, <1>5, <1>6, CollectTyped DEF Next

-----------------------------------------------------------------------------
(* The upstream registries, the federation and the history.                    *)

(* They keep their types too.                                                 *)
LEMMA WorldStep == TypeInv /\ [Next]_vars => WorldTypeOK'
<1> SUFFICES ASSUME TypeInv, [Next]_vars PROVE WorldTypeOK'
  OBVIOUS
<1>1. StoreTypeOK /\ HandlersInv /\ WorldTypeOK
  BY DEF TypeInv
<1> USE DEF WorldTypeOK
<1>2. CASE UNCHANGED <<upstream, announced, history>>
  BY <1>1, <1>2 DEF history
<1>3. ASSUME NEW r \in Req, Arrives(r) \/ Step(r) PROVE WorldTypeOK'
  <2>1. CASE Arrives(r)
    BY <1>2, <2>1 DEF Arrives, ArriveByTag, ArriveGet, ArriveBlob, ArrivePut,
       ArriveDelete, Start, quietly
  <2>2. CASE TagFound(r)
    <3>1. upstream[req[r].name] \in Content
      BY <1>1, <2>2, Going DEF TagFound, UnderWay, Knows
    <3>2. QED
      BY <1>1, <2>2, <3>1 DEF TagFound
  <2>3. CASE PeerMap(r) \/ MapContent(r)
    <3>1. Digest(r) \in Digests
      BY <1>1, <2>3, Going DEF PeerMap, MapContent, UnderWay, Knows, Located, Digest
    <3>2. QED
      BY <1>1, <2>3, <3>1 DEF PeerMap, MapContent, StoreMapping
  <2>4. CASE FetchFails(r) \/ FetchManifest(r) \/ FetchBlob(r)
    BY <1>1, <2>4 DEF FetchFails, FetchManifest, FetchBlob, Got
  <2>5. CASE Publish(r) \/ PublishBlob(r)
    <3>1. /\ [digest |-> Digest(r), cid |-> held[r].cid, source |-> SourceOf(req[r].op)]
                \in [digest : Digests, cid : CIDs, source : Sources]
          /\ Announced(r)
      <4>1. Digest(r) \in Digests /\ held[r].cid \in CIDs
        BY <1>1, <2>5, Going
           DEF Publish, PublishBlob, UnderWay, Knows, Located, HasCID, Gets, GetOps, BlobOps, Digest
      <4>2. SourceOf(req[r].op) \in Sources
        BY DEF SourceOf, Sources
      <4>3. QED
        BY <2>5, <4>1, <4>2 DEF Publish, PublishBlob
    <3>2. QED
      BY <1>1, <2>5, <3>1 DEF Publish, PublishBlob, Announced, history
  <2>6. CASE \/ TagMissing(r) \/ TagDeleted(r) \/ Lookup(r) \/ CatManifest(r)
             \/ CatManifestFails(r) \/ CatBlob(r) \/ CatBlobFails(r) \/ Query(r)
             \/ PeerManifest(r) \/ PeerBlob(r) \/ PeerFails(r)
    BY <1>2, <2>6 DEF TagMissing, TagDeleted, Lookup, CatManifest, CatManifestFails,
       CatBlob, CatBlobFails, Query, PeerManifest, PeerBlob, PeerFails, quietly
  <2>7. CASE \/ AddContent(r) \/ AddContentFails(r) \/ AddBlob(r) \/ AddBlobFails(r)
             \/ MapContentFails(r) \/ TagContent(r) \/ Delete(r)
    BY <1>2, <2>7 DEF AddContent, AddContentFails, AddBlob, AddBlobFails,
       MapContentFails, TagContent, Delete, quietly
  <2>8. QED
    BY <1>3, <2>1, <2>2, <2>3, <2>4, <2>5, <2>6, <2>7 DEF Step, Transact, CallOut
<1>4. CASE Collect
  BY <1>1, <1>4 DEF Collect, quietly, history
<1>5. CASE Network
  <2>1. ASSUME NEW n \in Name, NEW c \in Content, UpstreamPush(n, c)
        PROVE  WorldTypeOK'
    BY <1>1, <2>1 DEF UpstreamPush
  <2>2. QED
    BY <1>2, <1>5, <2>1 DEF Network, quietly
<1>6. CASE Time \/ Crash \/ UNCHANGED vars
  BY <1>2, <1>6 DEF Time, Crash, quietly, vars
<1>7. QED
  BY <1>3, <1>4, <1>5, <1>6 DEF Next

-----------------------------------------------------------------------------
(* The initial state.                                                          *)
LEMMA InitTypeInv == Init => TypeInv
<1> SUFFICES ASSUME Init PROVE TypeInv
  OBVIOUS
<1>1. Empty \in [Digests -> Mappings \cup {Absent}]
  BY DEF Empty
<1>2. StoreTypeOK /\ SweepOK
  <2>1. gc = Idle /\ mapping = Empty /\ now = 0 /\ node = {} /\ pinned = {}
        /\ remote \subseteq CIDs
    BY Naming, StoreAssumption DEF Init, StoreInit
  <2>2. Idle \in [pc : {"idle", "scan", "delete", "stuck"},
                  snapshot : [Digests -> Mappings \cup {Absent}],
                  doomed : SUBSET Digests, digest : Digests \cup {NoDigest}]
        /\ Idle.doomed = {} /\ Idle.pc = "idle"
    BY <1>1 DEF Idle, Sweep
  <2>3. /\ tag \in [Name -> TagRefs \cup {Absent}]
        /\ repo \in [Name -> SUBSET Digests]
    BY DEF Init, StoreInit
  <2>4. QED
    BY <1>1, <2>1, <2>2, <2>3, Zero DEF StoreTypeOK, SweepOK
<1>3. HandlersInv
  <2>1. Request("none", NoName) \in Requests /\ Nothing \in Locals
    BY Forms DEF Request, Requests, Nothing
  <2>2. QED
    BY <2>1, Zero DEF Init, HandlersInv, HandlersTypeOK, RequestsOK, Labels, Codes
<1>4. WorldTypeOK
  BY DEF Init, WorldTypeOK
<1>5. QED
  BY <1>2, <1>3, <1>4 DEF TypeInv

(* Every step leaves everything typed.                                        *)
LEMMA StepTypeInv == TypeInv /\ [Next]_vars => TypeInv'
BY StoreStep, HandlersStep, WorldStep DEF TypeInv

(* So everything is typed in every state.                                     *)
LEMMA TypeInvariant == Spec => []TypeInv
BY InitTypeInv, StepTypeInv, PTL DEF Spec

(* Every variable of the registry has its type in every state, whatever fails. *)
THEOREM RegistryTypeCorrect == Spec => []TypeOK
<1>1. TypeInv => TypeOK
  BY DEF TypeInv, TypeOK, HandlersInv
<1>2. QED
  BY <1>1, TypeInvariant, PTL

-----------------------------------------------------------------------------
(* What the invariants below need of a step.                                   *)

(* A handler's step changes its own variables and nobody else's.               *)
Others(r) ==
    \A q \in Req \ {r} :
        /\ pc'[q] = pc[q] /\ req'[q] = req[q] /\ plan'[q] = plan[q]
        /\ held'[q] = held[q] /\ status'[q] = status[q]

(* So it is for every step of a handler.                                      *)
LEMMA OneMoves ==
    ASSUME HandlersInv, NEW r \in Req, Arrives(r) \/ Step(r) PROVE Others(r)
<1> USE DEF HandlersInv, HandlersTypeOK, Others
<1>1. CASE Arrives(r)
  BY <1>1 DEF Arrives, ArriveByTag, ArriveGet, ArriveBlob, ArrivePut,
     ArriveDelete, Start, Goto, Hold
<1>2. \A label, h, p, code :
        (/\ Goto(r, label)
         /\ Hold(r, h) \/ UNCHANGED held
         /\ plan' = [plan EXCEPT ![r] = p] \/ UNCHANGED plan
         /\ status' = [status EXCEPT ![r] = code] \/ UNCHANGED status
         /\ UNCHANGED req) => Others(r)
  BY DEF Goto, Hold
<1>3. /\ \A label : Proceed(r, label) => Others(r)
      /\ \A code, d, b : Respond(r, code, d, b) => Others(r)
      /\ \A code : Refuse(r, code) => Others(r)
  BY <1>2 DEF Proceed, Respond, Refuse
<1>4. CASE TagFound(r) \/ TagMissing(r) \/ TagDeleted(r)
  BY <1>2, <1>3, <1>4 DEF TagFound, TagMissing, TagDeleted
<1>5. CASE Lookup(r) \/ CatManifest(r) \/ CatManifestFails(r) \/ CatBlob(r) \/ CatBlobFails(r)
  BY <1>2, <1>3, <1>5 DEF Lookup, CatManifest, CatManifestFails, CatBlob, CatBlobFails
<1>6. CASE Query(r) \/ PeerManifest(r) \/ PeerBlob(r) \/ PeerFails(r) \/ PeerMap(r)
  BY <1>2, <1>3, <1>6 DEF Query, PeerManifest, PeerBlob, PeerFails, PeerMap
<1>7. CASE FetchFails(r) \/ FetchManifest(r) \/ FetchBlob(r)
  BY <1>2, <1>3, <1>7 DEF FetchFails, Fail, FetchManifest, FetchBlob, Got
<1>8. CASE AddContent(r) \/ AddContentFails(r) \/ AddBlob(r) \/ AddBlobFails(r)
  BY <1>2, <1>3, <1>8 DEF AddContent, AddContentFails, AddBlob, AddBlobFails, Added
<1>9. CASE \/ MapContent(r) \/ MapContentFails(r) \/ TagContent(r)
           \/ Publish(r) \/ PublishBlob(r) \/ Delete(r)
  BY <1>2, <1>3, <1>9 DEF MapContent, MapContentFails, TagContent, Publish,
     PublishBlob, Delete
<1>10. QED
  BY <1>1, <1>4, <1>5, <1>6, <1>7, <1>8, <1>9 DEF Step, Transact, CallOut

(* Where that leaves the handler.                                              *)
LEMMA Lands ==
    ASSUME HandlersInv, NEW r \in Req
    PROVE  /\ \A label : Goto(r, label) => pc'[r] = label
           /\ \A h : Hold(r, h) => held'[r] = h
           /\ \A label : Proceed(r, label) =>
                 /\ pc'[r] = label /\ req'[r] = req[r] /\ plan'[r] = plan[r]
                 /\ held'[r] = held[r] /\ status'[r] = status[r]
           /\ \A code, d, b : Respond(r, code, d, b) =>
                 /\ pc'[r] = "done" /\ req'[r] = req[r] /\ plan'[r] = << >>
                 /\ held'[r].digest = d /\ held'[r].body = b /\ status'[r] = code
           /\ \A code : Refuse(r, code) =>
                 pc'[r] = "done" /\ req'[r] = req[r] /\ status'[r] = code
<1> USE DEF HandlersInv, HandlersTypeOK
<1>1. /\ \A label : Goto(r, label) => pc'[r] = label
      /\ \A h : Hold(r, h) => held'[r] = h
  BY DEF Goto, Hold
<1>2. \A label : Proceed(r, label) =>
                 /\ pc'[r] = label /\ req'[r] = req[r] /\ plan'[r] = plan[r]
                 /\ held'[r] = held[r] /\ status'[r] = status[r]
  BY <1>1 DEF Proceed
<1>3. \A code, d, b : Respond(r, code, d, b) =>
                 /\ pc'[r] = "done" /\ req'[r] = req[r] /\ plan'[r] = << >>
                 /\ held'[r].digest = d /\ held'[r].body = b /\ status'[r] = code
  BY <1>1, Forms DEF Respond
<1>4. QED
  BY <1>1, <1>2, <1>3 DEF Refuse

(* A step that is no handler's leaves the handlers where they are, or ends     *)
(* them; none arrives or is answered by it.                                    *)
Waits ==
    /\ UNCHANGED <<req, plan, held, status>>
    /\ \A q \in Req : pc'[q] = pc[q] \/ pc'[q] = "gone"
    /\ \A q \in Req : pc[q] = "done" <=> pc'[q] = "done"

(* So it is for the collector, the network, time and a crash.                 *)
LEMMA OthersWait ==
    ASSUME HandlersInv, Collect \/ Network \/ Time \/ Crash \/ UNCHANGED vars
    PROVE  Waits
<1>1. CASE UNCHANGED handlers
  BY <1>1 DEF handlers, Waits
<1>2. CASE Crash
  BY <1>2 DEF Crash, Waits
<1>3. QED
  BY <1>1, <1>2 DEF Collect, Network, Time, UpstreamPush, vars, handlers

(* What a handler's step writes, and from where.                               *)
PeerSource(r) == IF req[r].op \in BlobOps THEN "peer blob" ELSE "peer manifest"
Writes(r) ==
    /\ \/ UNCHANGED <<mapping, stored>>
       \/ /\ pc[r] = "peermap" /\ stored' = stored \cup {Digest(r)}
          /\ PutMapping(Digest(r), Mapping(held[r].cid, held[r].created, PeerSource(r)))
       \/ /\ pc[r] = "map" /\ stored' = stored \cup {Digest(r)}
          /\ PutMapping(Digest(r), Mapping(held[r].cid, now, SourceOf(req[r].op)))
       \/ pc[r] = "delete" /\ DeleteMapping(Digest(r)) /\ UNCHANGED stored
    /\ UNCHANGED tag \/ (pc[r] = "tagput" /\ PutTag(req[r].name, Digest(r)))
    /\ UNCHANGED announced \/ (pc[r] = "publish" /\ Announced(r))
    /\ node \subseteq node' /\ pinned \subseteq pinned' /\ straight \subseteq straight'
    /\ UNCHANGED <<now, gc, upstream, raced>>

(* Every step of a handler writes just that.                                  *)
LEMMA HandlerWrites ==
    ASSUME NEW r \in Req, Arrives(r) \/ Step(r) PROVE Writes(r)
<1> USE DEF store, buckets, ipfsVars, quietly, history, Writes
<1>1. CASE Arrives(r)
  BY <1>1 DEF Arrives, ArriveByTag, ArriveGet, ArriveBlob, ArrivePut,
     ArriveDelete, Start
<1>2. CASE TagFound(r) \/ TagMissing(r) \/ TagDeleted(r)
  BY <1>2 DEF TagFound, TagMissing, TagDeleted
<1>3. CASE Lookup(r) \/ CatManifest(r) \/ CatManifestFails(r) \/ CatBlob(r) \/ CatBlobFails(r)
  BY <1>3 DEF Lookup, CatManifest, CatManifestFails, CatBlob, CatBlobFails, Fetched
<1>4. CASE Query(r) \/ PeerManifest(r) \/ PeerBlob(r) \/ PeerFails(r)
  BY <1>4 DEF Query, PeerManifest, PeerBlob, PeerFails, Fetched
<1>5. CASE PeerMap(r)
  BY <1>5 DEF PeerMap, StoreMapping, PeerSource
<1>6. CASE FetchFails(r) \/ FetchManifest(r) \/ FetchBlob(r)
  BY <1>6 DEF FetchFails, FetchManifest, FetchBlob, Got
<1>7. CASE AddContent(r) \/ AddContentFails(r) \/ AddBlob(r) \/ AddBlobFails(r)
  BY <1>7 DEF AddContent, AddContentFails, AddBlob, AddBlobFails, MaybeAdded, Add
<1>8. CASE MapContent(r) \/ MapContentFails(r) \/ TagContent(r)
  BY <1>8 DEF MapContent, MapContentFails, TagContent
<1>9. CASE Publish(r) \/ PublishBlob(r) \/ Delete(r)
  BY <1>9 DEF Publish, PublishBlob, Delete
<1>10. QED
  BY <1>1, <1>2, <1>3, <1>4, <1>5, <1>6, <1>7, <1>8, <1>9 DEF Step, Transact, CallOut

(* Whatever else happens takes mappings away, and writes nothing.              *)
Takes ==
    /\ mapping' = mapping \/ (gc.pc = "delete" /\ DeleteMapping(gc.digest))
    /\ UNCHANGED <<tag, announced, stored, straight, stale>>

(* So it is for all steps but the handlers'.                                  *)
LEMMA OthersTake ==
    ASSUME Collect \/ Network \/ Time \/ Crash \/ UNCHANGED vars PROVE Takes
<1> USE DEF store, buckets, quietly, history, Takes
<1>1. CASE Collect
  BY <1>1 DEF Collect, GCBegin, GCUnpin, GCDelete, GCHangs
<1>2. CASE Network
  BY <1>2 DEF Network, NodeGC, PeerLeaves, UpstreamPush
<1>3. CASE Time \/ Crash \/ UNCHANGED vars
  BY <1>3 DEF Time, Tick, Crash, StoreCrash, vars
<1>4. QED
  BY <1>1, <1>2, <1>3

-----------------------------------------------------------------------------
(* What is recorded is true.                                                   *)

(* A handler keeps only a CID whose content it has compared, where it compares. *)
LEMMA VouchedStep ==
    ASSUME TypeInv, NEW r \in Req, Vouched(r), Arrives(r) \/ Step(r)
    PROVE  Vouched(r)'
<1>1. HandlersInv /\ StoreTypeOK /\ (pc[r] # "new" => UnderWay(r))
  BY Going DEF TypeInv
<1>2. pc'[r] \notin {"add", "map", "tagput", "publish", "peermap"} => Vouched(r)'
  BY DEF Vouched
<1>3. CASE Arrives(r)
  <2>1. PICK n \in Name :
        \/ \E op \in AllOps : ArriveByTag(r, n, op)
        \/ \E c \in Content :
            \/ ArriveGet(r, n, c) \/ ArriveDelete(r, n, c)
            \/ \E op \in AllOps : ArriveBlob(r, n, c, op) \/ ArrivePut(r, n, c, op)
    BY <1>3 DEF Arrives
  <2>2. ASSUME NEW c \in Content, NEW op \in AllOps, ArrivePut(r, n, c, op)
        PROVE  Vouched(r)'
    <3>1. held'[r] = Held(DigestOf(c), c, NoCID, 0) /\ pc'[r] = "add"
      BY <1>1, <2>2, Lands DEF ArrivePut, Start
    <3>2. QED
      BY <3>1, Forms DEF Vouched, Digest
  <2>3. ASSUME NEW op \in AllOps, ArriveByTag(r, n, op) PROVE Vouched(r)'
    BY <1>1, <1>2, <2>3, Lands DEF ArriveByTag, Start
  <2>4. ASSUME NEW c \in Content, ArriveGet(r, n, c) \/ ArriveDelete(r, n, c)
        PROVE  Vouched(r)'
    BY <1>1, <1>2, <2>4, Lands DEF ArriveGet, ArriveDelete, Start
  <2>5. ASSUME NEW c \in Content, NEW op \in AllOps, ArriveBlob(r, n, c, op)
        PROVE  Vouched(r)'
    BY <1>1, <1>2, <2>5, Lands DEF ArriveBlob, Start
  <2>6. QED
    BY <2>1, <2>2, <2>3, <2>4, <2>5
<1>4. CASE \/ TagFound(r) \/ TagMissing(r) \/ TagDeleted(r) \/ Lookup(r)
           \/ CatManifest(r) \/ CatManifestFails(r) \/ CatBlob(r) \/ CatBlobFails(r)
  <2>1. pc'[r] \in {"fetch", "lookup", "delete", "cat", "query", "done"}
    BY <1>1, <1>4, Lands DEF TagFound, LabelOf, TagMissing, TagDeleted, Lookup, Miss,
       CatManifest, CatManifestFails, CatBlob, CatBlobFails
  <2>2. QED
    BY <1>2, <2>1
<1>5. CASE Query(r) \/ PeerFails(r) \/ PeerMap(r) \/ FetchFails(r)
  <2>1. pc'[r] \in {"fetch", "lookup", "peer", "cat", "done"}
    BY <1>1, <1>5, Lands DEF Query, PeerFails, PeerMap, FetchFails, Fail, LabelOf
  <2>2. QED
    BY <1>2, <2>1
<1>6. CASE PeerManifest(r)
  <2>1. CASE True(r) /\ Proceed(r, "peermap")
    <3>1. /\ held[r].cid \in CIDs /\ Digest(r) = DigestOf(held[r].cid.cid)
          /\ pc'[r] = "peermap" /\ held'[r] = held[r] /\ req'[r] = req[r]
      BY <1>1, <1>6, <2>1, Lands DEF PeerManifest, UnderWay, Knows, HasCID, True, Holds
    <3>2. QED
      BY <3>1, Naming DEF Vouched, Digest
  <2>2. CASE Proceed(r, "fetch")
    BY <1>1, <1>2, <2>2, Lands
  <2>3. QED
    BY <1>6, <2>1, <2>2 DEF PeerManifest
<1>7. CASE PeerBlob(r)
  <2>1. pc'[r] = "peermap" /\ req'[r] = req[r] /\ req[r].op \in BlobOps
    BY <1>1, <1>7, Lands DEF PeerBlob
  <2>2. QED
    BY <2>1 DEF Vouched
<1>8. CASE FetchManifest(r) \/ FetchBlob(r)
  <2>1. /\ pc'[r] = "add" /\ req'[r] = req[r]
    BY <1>1, <1>8, Lands DEF FetchManifest, FetchBlob, Got
  <2>2. req[r].op \notin PutOps
    BY <1>1, <1>8 DEF FetchManifest, FetchBlob, UnderWay, Knows, Gets, GetOps,
       BlobOps, PutOps
  <2>3. QED
    BY <2>1, <2>2 DEF Vouched
<1>9. CASE AddContent(r) \/ AddBlob(r)
  <2>1. CASE pc'[r] = "done"
    BY <1>2, <2>1
  <2>2. CASE Goto(r, "map") /\ Added(r) /\ UNCHANGED req
    <3>1. /\ Digest(r) \in Digests
          /\ req[r].op \in PutOps \cup BlobOps => Digest(r) = DigestOf(held[r].body)
      BY <1>1, <1>9, <2>2, Lands DEF AddContent, AddBlob, UnderWay, Knows, Located,
         Digest, Vouched, Refuse
    <3>2. /\ pc'[r] = "map" /\ req'[r] = req[r]
          /\ held'[r].digest = Digest(r) /\ held'[r].cid = CIDOf(held[r].body)
      BY <1>1, <2>2, Lands, Forms DEF Added
    <3>3. TrueRecord(Digest(r), CIDOf(held[r].body), SourceOf(req[r].op))
      BY <3>1, Naming DEF TrueRecord, SourceOf
    <3>4. QED
      BY <3>2, <3>3 DEF Vouched, Digest
  <2>3. QED
    BY <1>1, <1>9, <2>1, <2>2, Lands DEF AddContent, AddBlob
<1>10. CASE AddContentFails(r) \/ AddBlobFails(r) \/ Publish(r) \/ PublishBlob(r) \/ Delete(r)
  <2>1. pc'[r] \in {"cat", "done"}
    BY <1>1, <1>10, Lands DEF AddContentFails, AddBlobFails, Publish, PublishBlob, Delete
  <2>2. QED
    BY <1>2, <2>1
<1>11. CASE MapContent(r) \/ MapContentFails(r) \/ TagContent(r)
  <2>1. CASE pc'[r] = "done"
    BY <1>2, <2>1
  <2>2. ASSUME NEW label \in {"tagput", "publish"}, Proceed(r, label)
        PROVE  Vouched(r)'
    <3>1. /\ pc[r] \in {"map", "tagput"} /\ pc'[r] = label
          /\ held'[r] = held[r] /\ req'[r] = req[r]
      BY <1>1, <1>11, <2>2, Lands DEF MapContent, MapContentFails, TagContent
    <3>2. QED
      BY <3>1 DEF Vouched, Digest
  <2>3. QED
    BY <1>1, <1>11, <2>1, <2>2, Lands
       DEF MapContent, MapContentFails, TagContent, AfterMapping
<1>12. QED
  BY <1>3, <1>4, <1>5, <1>6, <1>7, <1>8, <1>9, <1>10, <1>11 DEF Step, Transact, CallOut

(* The step keeps what is recorded and announced true.                         *)
LEMMA VouchStep == TypeInv /\ VouchInv /\ [Next]_vars => VouchInv'
<1> SUFFICES ASSUME TypeInv, VouchInv, [Next]_vars PROVE VouchInv'
  OBVIOUS
<1>1. HandlersInv /\ StoreTypeOK
  BY DEF TypeInv
<1>2. ASSUME NEW r \in Req, Arrives(r) \/ Step(r) PROVE VouchInv'
  <2>1. Writes(r) /\ Others(r) /\ Vouched(r)'
    BY <1>1, <1>2, HandlerWrites, OneMoves, VouchedStep DEF VouchInv
  <2>2. \A q \in Req : Vouched(q)'
    BY <2>1 DEF VouchInv, Others, Vouched, Digest
  <2>3. \A d \in Digests : mapping'[d] # Absent =>
          TrueRecord(d, mapping'[d].cid, mapping'[d].source)
    <3>1. CASE mapping' = mapping
      BY <3>1 DEF VouchInv, VerifiedMappings
    <3>2. CASE pc[r] = "delete" /\ DeleteMapping(Digest(r))
      BY <1>1, <3>2 DEF VouchInv, VerifiedMappings, DeleteMapping, StoreTypeOK
    <3>3. ASSUME NEW c \in CIDs, NEW t \in 0..MaxTime, NEW s \in Sources,
                 Digest(r) \in Digests, TrueRecord(Digest(r), c, s),
                 PutMapping(Digest(r), Mapping(c, t, s))
          PROVE  \A d \in Digests : mapping'[d] # Absent =>
                     TrueRecord(d, mapping'[d].cid, mapping'[d].source)
      <4>1. \A d \in Digests :
              mapping'[d] = IF d = Digest(r) THEN Mapping(c, t, s) ELSE mapping[d]
        BY <1>1, <3>3 DEF PutMapping, StoreTypeOK
      <4>2. QED
        BY <3>3, <4>1, MappingType DEF VouchInv, VerifiedMappings
    <3>4. pc[r] \in {"peermap", "map"} =>
            /\ Digest(r) \in Digests /\ held[r].cid \in CIDs
            /\ held[r].created \in 0..MaxTime /\ now \in 0..MaxTime
      BY <1>1, Going, LocalsFields, Found DEF UnderWay, Knows, Located, HasCID, Digest
    <3>5. CASE pc[r] = "peermap"
               /\ PutMapping(Digest(r), Mapping(held[r].cid, held[r].created, PeerSource(r)))
      <4>1. PeerSource(r) \in Sources /\ TrueRecord(Digest(r), held[r].cid, PeerSource(r))
        BY <3>5 DEF PeerSource, Sources, TrueRecord, VouchInv, Vouched
      <4>2. QED
        BY <3>3, <3>4, <3>5, <4>1
    <3>6. CASE pc[r] = "map"
               /\ PutMapping(Digest(r), Mapping(held[r].cid, now, SourceOf(req[r].op)))
      <4>1. SourceOf(req[r].op) \in Sources
            /\ TrueRecord(Digest(r), held[r].cid, SourceOf(req[r].op))
        BY <3>6 DEF SourceOf, Sources, VouchInv, Vouched
      <4>2. QED
        BY <3>3, <3>4, <3>6, <4>1
    <3>7. QED
      BY <2>1, <3>1, <3>2, <3>5, <3>6 DEF Writes
  <2>4. \A a \in announced' : TrueRecord(a.digest, a.cid, a.source)
    <3>1. CASE announced' = announced
      BY <3>1 DEF VouchInv, VerifiedMappings
    <3>2. CASE pc[r] = "publish" /\ Announced(r)
      <4>1. TrueRecord(Digest(r), held[r].cid, SourceOf(req[r].op))
        BY <3>2 DEF VouchInv, Vouched
      <4>2. QED
        BY <3>2, <4>1 DEF Announced, VouchInv, VerifiedMappings
    <3>3. QED
      BY <2>1, <3>1, <3>2 DEF Writes
  <2>5. QED
    BY <2>2, <2>3, <2>4 DEF VouchInv, VerifiedMappings
<1>3. ASSUME Waits, Takes PROVE VouchInv'
  <2>1. \A r \in Req : Vouched(r)'
    BY <1>3 DEF Waits, VouchInv, Vouched, Digest
  <2>2. VerifiedMappings'
    BY <1>1, <1>3 DEF Takes, DeleteMapping, VouchInv, VerifiedMappings, StoreTypeOK
  <2>3. QED
    BY <2>1, <2>2 DEF VouchInv
<1>4. QED
  BY <1>1, <1>2, <1>3, OthersWait, OthersTake DEF Next

(* Whatever an upstream or a peer sends and whatever fails, a mapping or an    *)
(* announcement that came over a route on which the registry compares digests  *)
(* points at the content of its digest.                                        *)
THEOREM MappingsAreVerified == Spec => []VerifiedMappings
<1>1. Init => VouchInv
  <2>1. Init => /\ mapping = Empty /\ announced = {}
                /\ \A r \in Req : pc[r] = "new"
    BY DEF Init, StoreInit
  <2>2. QED
    BY <2>1 DEF VouchInv, VerifiedMappings, Vouched, Empty
<1>2. VouchInv => VerifiedMappings
  BY DEF VouchInv
<1>3. QED
  BY <1>1, <1>2, VouchStep, TypeInvariant, PTL DEF Spec

-----------------------------------------------------------------------------
(* What is served is what was asked for.                                       *)

(* A handler that has not asked an upstream serves what it has compared.       *)
LEMMA ComparedStep ==
    ASSUME TypeInv, VouchInv, NEW r \in Req, r \in straight \/ Compared(r),
           Arrives(r) \/ Step(r)
    PROVE  r \in straight' \/ Compared(r)'
<1>1. HandlersInv /\ StoreTypeOK /\ (pc[r] # "new" => UnderWay(r))
  BY Going DEF TypeInv
<1>2. CASE r \in straight
  BY <1>2, HandlerWrites DEF Writes
<1>3. CASE r \notin straight
  <2>1. Compared(r)
    BY <1>3
  <2>2. pc'[r] \notin {"done", "add", "map", "tagput", "publish"} => Compared(r)'
    BY DEF Compared
  <2>3. CASE Arrives(r)
    <3>1. PICK n \in Name :
            \/ \E op \in AllOps : ArriveByTag(r, n, op)
            \/ \E c \in Content :
                \/ ArriveGet(r, n, c) \/ ArriveDelete(r, n, c)
                \/ \E op \in AllOps : ArriveBlob(r, n, c, op) \/ ArrivePut(r, n, c, op)
      BY <2>3 DEF Arrives
    <3>2. ASSUME NEW c \in Content, NEW op \in AllOps, ArrivePut(r, n, c, op)
          PROVE  Compared(r)'
      <4>1. req'[r] = Request(op, n) /\ op \in PutOps /\ pc'[r] = "add"
        BY <1>1, <3>2, Lands DEF ArrivePut, Start, HandlersInv, HandlersTypeOK
      <4>2. QED
        BY <4>1 DEF Compared, Request
    <3>3. ASSUME NEW op \in AllOps, ArriveByTag(r, n, op) PROVE Compared(r)'
      BY <1>1, <2>2, <3>3, Lands DEF ArriveByTag, Start
    <3>4. ASSUME NEW c \in Content, ArriveGet(r, n, c) \/ ArriveDelete(r, n, c)
          PROVE  Compared(r)'
      BY <1>1, <2>2, <3>4, Lands DEF ArriveGet, ArriveDelete, Start
    <3>5. ASSUME NEW c \in Content, NEW op \in AllOps, ArriveBlob(r, n, c, op)
          PROVE  Compared(r)'
      BY <1>1, <2>2, <3>5, Lands DEF ArriveBlob, Start
    <3>6. QED
      BY <3>1, <3>2, <3>3, <3>4, <3>5
  <2>4. ASSUME NEW code, code # 200, Refuse(r, code) PROVE Compared(r)'
    BY <1>1, <2>4, Lands DEF Compared
  <2>5. ASSUME NEW b, Respond(r, 200, Digest(r), b), DigestOf(b) = Digest(r)
        PROVE  Compared(r)'
    BY <1>1, <2>5, Lands DEF Compared, Digest
  <2>6. ASSUME NEW code, NEW b, Respond(r, code, Digest(r), b),
               req[r].op \notin {"getTag", "getDigest"}
        PROVE  Compared(r)'
    BY <1>1, <2>6, Lands DEF Compared
  <2>7. CASE \/ TagFound(r) \/ TagMissing(r) \/ TagDeleted(r) \/ Query(r)
             \/ PeerManifest(r) \/ PeerBlob(r) \/ PeerFails(r) \/ FetchFails(r)
    <3>1. pc'[r] \in {"fetch", "lookup", "delete", "peer", "peermap"} \/ Refuse(r, 404)
      BY <1>1, <2>7, Lands DEF TagFound, LabelOf, TagMissing, TagDeleted, Query,
         PeerManifest, PeerBlob, PeerFails, FetchFails, Fail
    <3>2. QED
      BY <2>2, <2>4, <3>1
  <2>8. CASE Lookup(r)
    <3>1. pc'[r] \in {"cat", "query", "fetch"}
          \/ (req[r].op = "headBlob" /\ Respond(r, 200, Digest(r), NoContent))
      BY <1>1, <2>8, Lands DEF Lookup, Miss
    <3>2. QED
      BY <2>2, <2>6, <3>1
  <2>9. CASE CatManifest(r) \/ CatManifestFails(r) \/ CatBlob(r) \/ CatBlobFails(r)
    <3>1. \/ pc'[r] \in {"query", "fetch"} \/ Refuse(r, 500)
          \/ True(r) /\ Respond(r, 200, Digest(r), Holds(r))
          \/ req[r].op = "getBlob" /\ Respond(r, 200, Digest(r), Holds(r))
      BY <1>1, <2>9, Lands DEF CatManifest, CatManifestFails, CatBlob, CatBlobFails, Miss
    <3>2. QED
      BY <2>2, <2>4, <2>5, <2>6, <3>1 DEF True
  <2>10. CASE PeerMap(r)
    <3>1. CASE Proceed(r, "cat")
      BY <1>1, <2>2, <3>1, Lands
    <3>2. CASE req[r].op = "headBlob" /\ Respond(r, 200, Digest(r), NoContent)
      BY <2>6, <3>2
    <3>3. CASE req[r].op \notin BlobOps /\ Respond(r, 200, Digest(r), Holds(r))
      <4>1. Digest(r) \in Digests /\ held[r].cid = CIDOf(Digest(r).sha256)
        BY <1>1, <2>10, <3>3 DEF PeerMap, UnderWay, Knows, Located, Digest, VouchInv, Vouched
      <4>2. DigestOf(Holds(r)) = Digest(r)
        BY <4>1, Naming DEF Holds
      <4>3. QED
        BY <2>5, <3>3, <4>2
    <3>4. QED
      BY <2>10, <3>1, <3>2, <3>3 DEF PeerMap
  <2>11. CASE FetchManifest(r) \/ FetchBlob(r)
    BY <2>11 DEF FetchManifest, FetchBlob, Got
  <2>12. CASE \/ AddContent(r) \/ AddContentFails(r) \/ AddBlob(r) \/ AddBlobFails(r)
              \/ MapContent(r) \/ MapContentFails(r) \/ TagContent(r)
              \/ Publish(r) \/ PublishBlob(r)
    <3>1. req[r].op \in PutOps \cup BlobOps
      BY <2>1, <2>12 DEF Compared, AddContent, AddContentFails, AddBlob, AddBlobFails,
         MapContent, MapContentFails, TagContent, Publish, PublishBlob
    <3>2. req'[r] = req[r] /\ req[r].op \notin {"getTag", "getDigest"}
      <4>1. UNCHANGED req
        BY <2>12 DEF AddContent, AddContentFails, AddBlob, AddBlobFails,
           MapContent, MapContentFails, TagContent, Publish, PublishBlob, Proceed,
           Respond, Refuse
      <4>2. QED
        BY <3>1, <4>1 DEF PutOps, BlobOps
    <3>3. QED
      BY <3>1, <3>2 DEF Compared
  <2>13. CASE Delete(r)
    <3>1. pc'[r] = "done" /\ status'[r] = 202
      BY <1>1, <2>13, Lands DEF Delete
    <3>2. QED
      BY <3>1 DEF Compared
  <2>14. QED
    BY <2>3, <2>7, <2>8, <2>9, <2>10, <2>11, <2>12, <2>13 DEF Step, Transact, CallOut
<1>4. QED
  BY <1>2, <1>3

(* Every step keeps the answers true.                                          *)
LEMMA ServeStep == TypeInv /\ VouchInv /\ ServeInv /\ [Next]_vars => ServeInv'
<1> SUFFICES ASSUME TypeInv, VouchInv, ServeInv, [Next]_vars PROVE ServeInv'
  OBVIOUS
<1>1. HandlersInv
  BY DEF TypeInv
<1>2. ASSUME NEW r \in Req, Arrives(r) \/ Step(r) PROVE ServeInv'
  <2>1. r \in straight' \/ Compared(r)'
    BY <1>2, ComparedStep DEF ServeInv
  <2>2. straight \subseteq straight' /\ Others(r)
    BY <1>1, <1>2, HandlerWrites, OneMoves DEF Writes
  <2>3. \A q \in Req \ {r} : Compared(q) => Compared(q)'
    BY <2>2 DEF Others, Compared, Digest
  <2>4. QED
    BY <2>1, <2>2, <2>3 DEF ServeInv
<1>3. ASSUME Waits, Takes PROVE ServeInv'
  BY <1>3 DEF Waits, Takes, ServeInv, Compared, Digest
<1>4. QED
  BY <1>1, <1>2, <1>3, OthersWait, OthersTake DEF Next

(* A manifest that does not come straight from an upstream has the digest the  *)
(* client is told, whatever the mappings, the peers and the node say.          *)
THEOREM ServedIsVerified == Spec => []ServedManifestsVerified
<1>1. Init => VouchInv /\ ServeInv
  <2>1. Init => /\ mapping = Empty /\ announced = {}
                /\ \A r \in Req : pc[r] = "new"
    BY DEF Init, StoreInit
  <2>2. QED
    BY <2>1 DEF VouchInv, VerifiedMappings, Vouched, Empty, ServeInv, Compared
<1>2. ServeInv => ServedManifestsVerified
  BY DEF ServeInv, Compared, ServedManifestsVerified
<1>3. QED
  BY <1>1, <1>2, VouchStep, ServeStep, TypeInvariant, PTL DEF Spec

-----------------------------------------------------------------------------
(* Tags.                                                                       *)

(* A tag is written after the mapping of its digest.                           *)
LEMMA TagStep == TypeInv /\ TagInv /\ [Next]_vars => TagInv'
<1> SUFFICES ASSUME TypeInv, TagInv, [Next]_vars, "db" \notin Faults PROVE TagInv'
  BY DEF TagInv, TagNamesStored
<1>1. HandlersInv /\ StoreTypeOK
  BY DEF TypeInv
<1>2. ASSUME NEW r \in Req, Arrives(r) \/ Step(r) PROVE TagInv'
  <2>1. Writes(r) /\ Others(r)
    BY <1>1, <1>2, HandlerWrites, OneMoves
  <2>2. stored \subseteq stored'
    BY <2>1 DEF Writes
  <2>3. pc'[r] = "tagput" => held'[r] = held[r] /\ Digest(r) \in stored'
    <3>1. CASE MapContent(r)
      BY <1>1, <3>1, Lands DEF MapContent
    <3>2. CASE ~ MapContent(r)
      <4>1. pc'[r] # "tagput"
        <5>1. CASE Arrives(r)
          BY <1>1, <5>1, Lands DEF Arrives, ArriveByTag, ArriveGet, ArriveBlob,
             ArrivePut, ArriveDelete, Start
        <5>2. CASE TagFound(r) \/ TagMissing(r) \/ TagDeleted(r) \/ Lookup(r)
          <6>1. \A p : LabelOf(p) \in {"fetch", "lookup"}
            BY DEF LabelOf
          <6>2. TagFound(r) => pc'[r] \in {"fetch", "lookup"}
            BY <1>1, <6>1, Lands DEF TagFound
          <6>3. TagMissing(r) \/ TagDeleted(r) => pc'[r] \in {"fetch", "delete", "done"}
            BY <1>1, Lands DEF TagMissing, TagDeleted
          <6>4. Lookup(r) => pc'[r] \in {"cat", "query", "fetch", "done"}
            BY <1>1, Lands DEF Lookup, Miss
          <6>5. QED
            BY <5>2, <6>2, <6>3, <6>4
        <5>3. CASE CatManifest(r) \/ CatManifestFails(r) \/ CatBlob(r) \/ CatBlobFails(r)
          BY <1>1, <5>3, Lands DEF CatManifest, CatManifestFails, CatBlob, CatBlobFails, Miss
        <5>4. CASE Query(r) \/ PeerManifest(r) \/ PeerBlob(r) \/ PeerFails(r) \/ PeerMap(r)
          <6>1. Query(r) \/ PeerBlob(r) \/ PeerFails(r)
                   => pc'[r] \in {"fetch", "peer", "peermap"}
            BY <1>1, Lands DEF Query, PeerBlob, PeerFails
          <6>2. PeerManifest(r) => pc'[r] \in {"fetch", "peermap"}
            BY <1>1, Lands DEF PeerManifest
          <6>3. PeerMap(r) => pc'[r] \in {"cat", "done"}
            BY <1>1, Lands DEF PeerMap
          <6>4. QED
            BY <5>4, <6>1, <6>2, <6>3
        <5>5. CASE FetchFails(r) \/ FetchManifest(r) \/ FetchBlob(r)
          BY <1>1, <5>5, Lands DEF FetchFails, Fail, LabelOf, FetchManifest, FetchBlob, Got
        <5>6. CASE AddContent(r) \/ AddContentFails(r) \/ AddBlob(r) \/ AddBlobFails(r)
          BY <1>1, <5>6, Lands DEF AddContent, AddContentFails, AddBlob, AddBlobFails
        <5>7. CASE TagContent(r) \/ Publish(r) \/ PublishBlob(r) \/ Delete(r)
          BY <1>1, <5>7, Lands DEF TagContent, Publish, PublishBlob, Delete
        <5>8. ~ MapContentFails(r)
          BY DEF MapContentFails
        <5>9. QED
          BY <1>2, <3>2, <5>1, <5>2, <5>3, <5>4, <5>5, <5>6, <5>7, <5>8 DEF Step, Transact, CallOut
      <4>2. QED
        BY <4>1
    <3>3. QED
      BY <3>1, <3>2
  <2>4. \A n \in Name : tag'[n] # Absent => tag'[n].digest \in stored'
    <3>1. CASE tag' = tag
      BY <2>2, <3>1 DEF TagInv, TagNamesStored
    <3>2. CASE pc[r] = "tagput" /\ PutTag(req[r].name, Digest(r))
      <4>1. Digest(r) \in stored
        BY <3>2 DEF TagInv
      <4>2. \A n \in Name : tag'[n] = tag[n] \/ tag'[n].digest = Digest(r)
        BY <1>1, <3>2 DEF PutTag, TagRef, StoreTypeOK
      <4>3. QED
        BY <2>2, <4>1, <4>2 DEF TagInv, TagNamesStored
    <3>3. QED
      BY <2>1, <3>1, <3>2 DEF Writes
  <2>5. \A q \in Req : pc'[q] = "tagput" => Digest(q)' \in stored'
    BY <2>1, <2>2, <2>3 DEF TagInv, Others, Digest
  <2>6. QED
    BY <2>4, <2>5 DEF TagInv, TagNamesStored
<1>3. ASSUME Waits, Takes PROVE TagInv'
  BY <1>3 DEF Waits, Takes, TagInv, TagNamesStored, Digest
<1>4. QED
  BY <1>1, <1>2, <1>3, OthersWait, OthersTake DEF Next

(* A tag names a digest whose mapping was stored before it, through every      *)
(* interleaving and crash, as long as the database takes what it is given.     *)
THEOREM TagsNameStored == Spec => []TagNamesStored
<1>1. Init => TagInv
  BY DEF Init, StoreInit, TagInv, TagNamesStored
<1>2. TagInv => TagNamesStored
  BY DEF TagInv
<1>3. QED
  BY <1>1, <1>2, TagStep, TypeInvariant, PTL DEF Spec
=============================================================================
