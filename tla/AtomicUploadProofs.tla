------------------------- MODULE AtomicUploadProofs -------------------------
(* UploadSession implements AtomicUpload, for any number of requests, uploads *)
(* and blocks: every step of a handler, of the collector and of a crash is a  *)
(* step of the abstract upload or leaves it alone.                            *)
EXTENDS UploadSessionProofs

UploadInv == ExclusionInv /\ IntegrityInv /\ AckInv /\ AnsweredInv

-----------------------------------------------------------------------------
(* Requests are answered when their handlers return.                          *)

(* What is known of one request.                                              *)
Settled(r) ==
    /\ pc[r] \notin {"unlock", "drop", "done"} => loc[r].status = 0
    /\ pc[r] \in {"monoCopy", "monoAdd", "monoMap"}
          => loc[r].method = "MONO" /\ loc[r].body \in Bodies
    /\ pc[r] = "monoMap" => loc[r].cid = CIDOf(loc[r].body)

(* A handler's step sets its own status only when it returns.                 *)
LEMMA HandlerKeepsAnswered ==
    ASSUME TypeInv, AnsweredInv, NEW r \in Req, Lock(r) \/ Step(r)
    PROVE  AnsweredInv'
<1> USE DEF disk, locks, outside
<1>0. pc \in [Req -> Labels] /\ loc \in [Req -> Locals]
      BY DEF TypeInv, TypeOK
<1>1. Settled(r)
      BY DEF AnsweredInv, Settled
<1>2. \A q \in Req \ {r} : Settled(q)'
      BY StepKeeps DEF AnsweredInv, Settled, SameRequest
<1>3. Settled(r)' => AnsweredInv'
      BY <1>2 DEF AnsweredInv, Settled
<1>4. ASSUME pc[r] \notin {"unlock", "drop", "done"},
             pc'[r] \notin {"monoCopy", "monoAdd", "monoMap"},
             loc'[r].status = loc[r].status
      PROVE  AnsweredInv'
      BY <1>1, <1>3, <1>4 DEF Settled
<1>5. ASSUME pc'[r] \in {"unlock", "drop", "done"} PROVE AnsweredInv'
      BY <1>3, <1>5 DEF Settled
<1>6. CASE Lock(r) \/ Hash(r) \/ PutMapping(r)
      BY <1>0, <1>4, <1>6 DEF Lock, Hash, PutMapping, Goto
<1>7. CASE GetUpload(r)
  <2>1. bytes[loc[r].upload] \in Nat
        BY <1>7 DEF GetUpload, TypeInv, TypeOK
  <2>2. loc'[r].status = loc[r].status
        BY <1>0, <1>7, <2>1, SetFieldType DEF GetUpload
  <2>3. QED
        BY <1>0, <1>4, <1>7, <2>2 DEF GetUpload, Goto
<1>8. CASE OpenFile(r) \/ CopyDone(r)
  <2>1. PICK h \in {"none", "open"} : loc' = [loc EXCEPT ![r].handle = h]
        BY <1>8 DEF OpenFile, CopyDone
  <2>2. loc'[r].status = loc[r].status
        BY <1>0, <2>1, SetFieldType
  <2>3. QED
        BY <1>0, <1>4, <1>8, <2>2 DEF OpenFile, CopyDone, Goto
<1>9. CASE CopyBlock(r)
  <2>1. loc' = [loc EXCEPT ![r].body = Tail(@), ![r].copied = @ + 1]
        BY <1>9 DEF CopyBlock
  <2>2. loc'[r].status = loc[r].status
        BY <1>0, <2>1 DEF Locals
  <2>3. QED
        BY <1>4, <1>9, <2>2 DEF CopyBlock
<1>10. CASE DropFile(r)
  <2>1. loc' = Detached(loc[r].upload) \/ loc' = loc
        BY <1>10 DEF DropFile, RemoveFile
  <2>2. loc'[r].status = loc[r].status
        BY <1>0, <2>1, DetachedType
  <2>3. QED
        BY <1>0, <1>4, <1>10, <2>2 DEF DropFile, Goto
<1>11. CASE AddToIPFS(r)
  <2> DEFINE c == content[loc[r].upload]
  <2>1. c \in Seq(Block)
        BY <1>11 DEF AddToIPFS, TypeInv, TypeOK
  <2>2. CIDOf(c) \in CIDs
        BY <2>1 DEF CIDOf, CIDs
  <2>3. loc'[r].status = loc[r].status
        BY <1>0, <1>11, <2>2, SetFieldType DEF AddToIPFS
  <2>4. QED
        BY <1>0, <1>4, <1>11, <2>3 DEF AddToIPFS, Goto
<1>12. CASE \/ GetRefused(r) \/ WriteFails(r) \/ SaveSession(r)
            \/ HashFails(r) \/ DropSession(r) \/ AddFails(r)
            \/ PutMappingFails(r) \/ Unlock(r) \/ DropLock(r) \/ MonoMap(r)
      BY <1>0, <1>5, <1>12 DEF GetRefused, WriteFails, SaveSession, HashFails,
         DropSession, AddFails, PutMappingFails, Unlock, DropLock, MonoMap,
         Respond, Finish, Goto
<1>13. CASE MonoCopy(r)
  <2>1. CASE Finish(r, 500) \/ Finish(r, 400)
        BY <1>0, <1>5, <2>1 DEF Finish, Goto
  <2>2. CASE pc[r] = "monoCopy" /\ Goto(r, "monoAdd") /\ UNCHANGED loc
        BY <1>0, <1>1, <1>3, <2>2 DEF Settled, Goto
  <2>3. QED
        BY <1>13, <2>1, <2>2 DEF MonoCopy
<1>14. CASE MonoAdd(r)
  <2> DEFINE c == loc[r].body
  <2>1. CASE Finish(r, 500)
        BY <1>0, <1>5, <2>1 DEF Finish, Goto
  <2>2. CASE /\ pc[r] = "monoAdd" /\ Goto(r, "monoMap")
             /\ loc' = [loc EXCEPT ![r].cid = CIDOf(c)]
    <3>1. CIDOf(c) \in CIDs
          BY <1>0, LocalsFields DEF CIDOf, CIDs
    <3>2. /\ loc'[r].cid = CIDOf(c) /\ loc'[r].status = loc[r].status
          /\ loc'[r].method = loc[r].method /\ pc'[r] = "monoMap"
          BY <1>0, <2>2, <3>1, SetFieldType DEF Goto, SameRequest
    <3>3. loc'[r].body = c
          BY <1>0, <2>2 DEF Locals
    <3>4. QED
          BY <1>1, <1>3, <2>2, <3>2, <3>3 DEF Settled
  <2>3. QED
        BY <1>14, <2>1, <2>2 DEF MonoAdd
<1>15. QED
      BY <1>6, <1>7, <1>8, <1>9, <1>10, <1>11, <1>12, <1>13, <1>14 DEF Step

(* Every other step.                                                          *)
LEMMA StepKeepsAnswered == TypeInv /\ AnsweredInv /\ [Next]_vars => AnsweredInv'
<1> SUFFICES ASSUME TypeInv, AnsweredInv, [Next]_vars PROVE AnsweredInv'
    OBVIOUS
<1> USE DEF disk, locks, outside
<1>0. pc \in [Req -> Labels] /\ loc \in [Req -> Locals]
      BY DEF TypeInv, TypeOK
<1>1. ASSUME \A q \in Req : \/ /\ pc'[q] = pc[q] /\ SameRequest(loc'[q], loc[q])
                               /\ loc'[q].cid = loc[q].cid
                               /\ loc'[q].body = loc[q].body
                               /\ loc'[q].status = loc[q].status
                            \/ Settled(q)'
      PROVE  AnsweredInv'
      BY <1>1 DEF AnsweredInv, Settled, SameRequest
<1>2. ASSUME NEW r \in Req, Settled(r)',
             \A q \in Req \ {r} : pc'[q] = pc[q] /\ loc'[q] = loc[q]
      PROVE  AnsweredInv'
      BY <1>1, <1>2 DEF SameRequest
<1>3. ASSUME NEW r \in Req, NEW c \in Declared, Mount(r, c) PROVE AnsweredInv'
      BY <1>0, <1>2, <1>3 DEF Mount, Goto, Settled
<1>4. ASSUME NEW r \in Req, ArrivePatch(r) \/ ArrivePut(r) \/ MonoCreate(r)
      PROVE  AnsweredInv'
      BY <1>0, <1>2, <1>4 DEF ArrivePatch, ArrivePut, Arrive, MonoCreate,
                              Frame, Goto, Settled
<1>5. ASSUME NEW u \in Upload, CreateUpload(u) \/ Age(u) PROVE AnsweredInv'
      BY <1>1, <1>5 DEF CreateUpload, Age, SameRequest
<1>6. CASE GCStep
      BY <1>1, <1>6, OutsideKeeps
<1>7. CASE Crash
  <2>1. \A q \in Req : \/ pc'[q] = "dead" /\ loc'[q].status = 0
                       \/ pc'[q] = pc[q] /\ loc'[q] = loc[q]
        BY <1>0, <1>7 DEF Crash, Returned, Frame
  <2>2. QED
        BY <1>1, <2>1 DEF Settled, SameRequest
<1>8. CASE UNCHANGED vars
      BY <1>1, <1>8 DEF vars, SameRequest
<1>9. QED
      BY <1>3, <1>4, <1>5, <1>6, <1>7, <1>8, HandlerKeepsAnswered DEF Next, Quiet

(* What the refinement rests on.                                              *)
LEMMA UploadInvHolds == Spec => []UploadInv
<1>1. Init => IntegrityInv /\ AckInv /\ AnsweredInv
      BY DEF Init, IntegrityInv, Integrity, Vouched, AckInv, AnsweredInv, Frame
<1>2. ExclusionInv /\ IntegrityInv /\ [Next]_vars => IntegrityInv'
      BY StepKeepsIntegrity
<1>3. ExclusionInv => TypeInv
      BY DEF ExclusionInv
<1>4. TypeInv /\ AckInv /\ AnsweredInv /\ [Next]_vars => AckInv' /\ AnsweredInv'
      BY StepKeepsAck, StepKeepsAnswered
<1>5. QED
      BY <1>1, <1>2, <1>3, <1>4, Exclusion, PTL DEF Spec, UploadInv

-----------------------------------------------------------------------------
(* What is seen of the upload from outside.                                   *)

(* A step that moves no request but r moves what is seen of r only.           *)
Alone(r) ==
    \A q \in Req \ {r} :
        /\ pc'[q] = pc[q] /\ loc'[q].cid = loc[q].cid
        /\ loc'[q].status = loc[q].status /\ loc'[q].method = loc[q].method

(* What such a step changes of what is seen from outside.                      *)
LEMMA SeenOf ==
    ASSUME NEW r \in Req, Alone(r)
    PROVE  /\ Taken' = [Taken EXCEPT ![r] = TakenBy(r)']
           /\ \A q \in Req \ {r} : q \in Acked' <=> q \in Acked
<1>1. \A q \in Req \ {r} : TakenBy(q)' = TakenBy(q)
      BY DEF Alone, TakenBy
<1>2. Taken' = [q \in Req |-> TakenBy(q)']
      BY DEF Taken
<1>3. QED
      BY <1>1, <1>2 DEF Taken, Alone, Acked

(* What is seen of the others does not move, so neither does the whole if what *)
(* is seen of r does not.                                                     *)
LEMMA TakenKept ==
    ASSUME NEW r \in Req, Alone(r), TakenBy(r)' = TakenBy(r)
    PROVE  Taken' = Taken
<1>1. Taken' = [Taken EXCEPT ![r] = Taken[r]]
      BY SeenOf DEF Taken
<1>2. QED
      BY <1>1 DEF Taken

(* The same of the acknowledgement.                                           *)
LEMMA AckedKept ==
    ASSUME NEW r \in Req, Alone(r), r \in Acked' <=> r \in Acked
    PROVE  Acked' = Acked
BY SeenOf DEF Acked

(* A step of r that shows nothing.                                            *)
LEMMA Unseen ==
    ASSUME NEW r \in Req, Alone(r), UNCHANGED <<content, mappings, spoiled>>,
           TakenBy(r)' = TakenBy(r), r \in Acked' <=> r \in Acked
    PROVE  UNCHANGED A!vars
BY TakenKept, AckedKept DEF A!vars, Stored

(* A request that has not been answered, and is not being.                    *)
LEMMA NotAcked ==
    ASSUME AnsweredInv, NEW r \in Req, pc[r] \notin {"unlock", "drop", "done"}
    PROVE  r \notin Acked
BY DEF AnsweredInv, Acked

(* An error, or a 202, shows nothing unless the content had been taken.       *)
LEMMA Declined ==
    ASSUME UploadInv, NEW r \in Req, Alone(r),
           UNCHANGED <<content, mappings, spoiled>>,
           pc[r] \notin {"unlock", "drop", "done", "map", "cleanFile", "cleanSession"},
           pc'[r] \notin {"map", "cleanFile", "cleanSession"},
           loc'[r].status # 201
    PROVE  UNCHANGED A!vars
<1>1. r \notin Acked /\ r \notin Acked'
      BY NotAcked DEF UploadInv, Acked
<1>2. TakenBy(r)' = TakenBy(r)
      BY DEF TakenBy
<1>3. QED
      BY <1>1, <1>2, Unseen

(* Storing a mapping whose content is vouched for stores one blob, and         *)
(* replaces at most itself.                                                   *)
LEMMA StoresBlob ==
    ASSUME Integrity, NEW r \in Req, NEW c,
           loc[r].want = DigestOf(c), loc[r].cid = CIDOf(c),
           mappings' = WithMapping(NewMapping(r))
    PROVE  Stored' = Stored \cup {A!Blob(c)}
<1> DEFINE m == NewMapping(r)
           View(x) == [digest |-> x.digest.sha256, content |-> x.cid.cid]
<1>1. m.digest = DigestOf(c) /\ m.cid = CIDOf(c) /\ View(m) = A!Blob(c)
      BY DEF NewMapping, DigestOf, CIDOf, A!Blob
<1>2. \A x \in mappings : x.digest = m.digest => View(x) = A!Blob(c)
  <2> TAKE x \in mappings
  <2> HAVE x.digest = m.digest
  <2>1. PICK k \in ipfs : x.cid = CIDOf(k) /\ x.digest = DigestOf(k)
        BY DEF Integrity
  <2>2. DigestOf(k).sha256 = DigestOf(c).sha256
        BY <1>1, <2>1
  <2>3. k = c
        BY <2>2 DEF DigestOf
  <2>4. QED
        BY <2>1, <2>3 DEF CIDOf, DigestOf, A!Blob
<1>3. Stored = {View(x) : x \in mappings} /\ Stored' = {View(x) : x \in mappings'}
      BY DEF Stored
<1>4. mappings' = {x \in mappings : x.digest # m.digest} \cup {m}
      BY DEF WithMapping
<1> HIDE DEF View, m
<1>5. QED
      BY <1>1, <1>2, <1>3, <1>4

(* A mapped digest that is vouched for is a stored blob.                      *)
LEMMA MappedIsStored ==
    ASSUME Integrity, NEW c, \E m \in mappings : m.digest = DigestOf(c)
    PROVE  A!Blob(c) \in Stored
<1>1. PICK m \in mappings : m.digest = DigestOf(c)
      OBVIOUS
<1>2. PICK k \in ipfs : m.cid = CIDOf(k) /\ m.digest = DigestOf(k)
      BY DEF Integrity
<1>3. DigestOf(k).sha256 = DigestOf(c).sha256
      BY <1>1, <1>2
<1>4. k = c
      BY <1>3 DEF DigestOf
<1>5. m.digest.sha256 = c /\ m.cid.cid = c
      BY <1>2, <1>4 DEF DigestOf, CIDOf
<1>6. [digest |-> m.digest.sha256, content |-> m.cid.cid] \in Stored
      BY <1>1 DEF Stored
<1>7. QED
      BY <1>5, <1>6 DEF A!Blob

(* The file of an upload goes away.                                           *)
LEMMA RemovalDiscards ==
    ASSUME TypeInv, NEW u \in Upload, RemoveFile(u),
           UNCHANGED <<mappings, spoiled>>,
           Taken' = Taken
    PROVE  A!Discard(u)
<1>1. \A q \in Req : loc'[q].status = loc[q].status /\ loc'[q].method = loc[q].method
      BY DetachedType DEF RemoveFile, TypeInv, TypeOK, SameRequest
<1>2. Acked' = Acked
      BY <1>1 DEF Acked
<1>3. QED
      BY <1>2 DEF RemoveFile, A!Discard, Stored

-----------------------------------------------------------------------------
(* One lemma per action that shows.                                           *)

(* A handler's step is one of those.                                          *)
LEMMA HandlerIsAlone ==
    ASSUME TypeInv, NEW r \in Req, Lock(r) \/ Step(r)
    PROVE  Alone(r)
BY StepKeeps DEF Alone, SameRequest

(* A block that is copied to the file under its path grows the upload.        *)
LEMMA CopyGrows ==
    ASSUME UploadInv, NEW r \in Req, CopyBlock(r)
    PROVE  (\E u \in Upload : A!Grow(u)) \/ UNCHANGED A!vars
<1> DEFINE u == loc[r].upload
<1>0. TypeInv /\ loc \in [Req -> Locals]
      BY DEF UploadInv, ExclusionInv, TypeInv, TypeOK
<1>1. Alone(r)
      BY <1>0, HandlerIsAlone DEF Step
<1>2. loc' = [loc EXCEPT ![r].body = Tail(@), ![r].copied = @ + 1]
      /\ UNCHANGED <<pc, mappings, spoiled>> /\ pc[r] = "copy"
      BY DEF CopyBlock, history
<1>3. loc'[r].status # 201
  <2>1. loc[r].status = 0
        BY <1>2 DEF UploadInv, AnsweredInv
  <2>2. QED
        BY <1>0, <1>2, <2>1 DEF Locals
<1>4. CASE loc[r].handle = "open"
  <2>1. Head(loc[r].body) \in Block
        BY <1>0, LocalsFields DEF CopyBlock
  <2>2. u \in Upload
        BY <1>0, <1>2 DEF TypeInv, TypeOK, LocalsOK, RequestOK, HasUpload,
                          InCS, Working, WorkLabels
  <2>3. TakenBy(r)' = TakenBy(r)
        BY <1>2 DEF TakenBy
  <2>4. Taken' = Taken
        BY <1>1, <2>3, TakenKept
  <2>5. Acked' = Acked
    <3>1. r \notin Acked /\ r \notin Acked'
          BY <1>2, <1>3, NotAcked DEF Acked, UploadInv
    <3>2. QED
          BY <1>1, <3>1, AckedKept
  <2>6. content' = [content EXCEPT ![u] = Append(@, Head(loc[r].body))]
        BY <1>4 DEF CopyBlock
  <2>7. QED
        BY <1>2, <2>1, <2>2, <2>4, <2>5, <2>6 DEF A!Grow, Stored
<1>5. CASE loc[r].handle # "open"
  <2>1. UNCHANGED <<content, mappings, spoiled>>
        BY <1>2, <1>5 DEF CopyBlock
  <2>2. pc[r] = "copy" /\ pc'[r] = "copy"
        BY <1>2
  <2>3. UNCHANGED A!vars
        BY <1>1, <1>3, <2>1, <2>2, Declined
  <2>4. QED
        BY <2>3
<1>6. QED
      BY <1>4, <1>5

(* Removing the file discards it.                                             *)
LEMMA DropDiscards ==
    ASSUME UploadInv, NEW r \in Req, DropFile(r)
    PROVE  (\E u \in Upload : A!Discard(u)) \/ UNCHANGED A!vars
<1> DEFINE u == loc[r].upload
<1>0. TypeInv /\ loc \in [Req -> Locals] /\ pc \in [Req -> Labels]
      BY DEF UploadInv, ExclusionInv, TypeInv, TypeOK
<1>1. Alone(r) /\ UNCHANGED <<mappings, spoiled>>
      BY <1>0, HandlerIsAlone DEF Step, DropFile
<1>2. loc' = Detached(u) \/ loc' = loc
      BY DEF DropFile, RemoveFile
<1>3. /\ loc'[r].cid = loc[r].cid /\ loc'[r].status = loc[r].status
      /\ loc'[r].method = loc[r].method
      BY <1>0, <1>2, DetachedType DEF SameRequest
<1>4. TakenBy(r)' = TakenBy(r)
      BY <1>0, <1>3 DEF TakenBy, DropFile, Goto
<1>5. r \in Acked' <=> r \in Acked
      BY <1>3 DEF Acked
<1>6. CASE RemoveFile(u)
  <2>1. u \in Upload
        BY <1>0 DEF TypeInv, TypeOK, LocalsOK, RequestOK, HasUpload, InCS,
                    Working, WorkLabels, DropFile
  <2>2. Taken' = Taken
        BY <1>1, <1>4, TakenKept
  <2>3. QED
        BY <1>0, <1>1, <1>6, <2>1, <2>2, RemovalDiscards
<1>7. CASE UNCHANGED content
      BY <1>1, <1>4, <1>5, <1>7, Unseen
<1>8. QED
      BY <1>6, <1>7 DEF DropFile

(* The second read of the file takes the data.                                *)
LEMMA AddTakes ==
    ASSUME UploadInv, NEW r \in Req, AddToIPFS(r)
    PROVE  \E u \in Upload : A!Take(r, u)
<1> DEFINE u == loc[r].upload
<1>0. TypeInv /\ loc \in [Req -> Locals] /\ pc \in [Req -> Labels]
      /\ content \in [Upload -> Seq(Block)]
      BY DEF UploadInv, ExclusionInv, TypeInv, TypeOK
<1>1. Alone(r) /\ pc[r] = "add" /\ UNCHANGED <<content, mappings, spoiled>>
      BY <1>0, HandlerIsAlone DEF Step, AddToIPFS, disk, history
<1>2. u \in Upload /\ content[u] \in Seq(Block)
      BY <1>0, <1>1 DEF TypeInv, TypeOK, AddToIPFS
<1>3. CIDOf(content[u]) \in CIDs
      BY <1>2 DEF CIDOf, CIDs
<1>4. /\ loc'[r].cid = CIDOf(content[u]) /\ loc'[r].status = loc[r].status
      /\ pc'[r] = "map"
      BY <1>0, <1>3, SetFieldType DEF AddToIPFS, Goto
<1>5. Taken[r] = NoCID /\ TakenBy(r)' = content[u]
      BY <1>1, <1>4 DEF Taken, TakenBy, CIDOf
<1>6. r \notin Acked
      BY <1>1, NotAcked DEF UploadInv
<1>7. Acked' = Acked
  <2>1. r \notin Acked'
        BY <1>1, <1>4 DEF UploadInv, AnsweredInv, Acked
  <2>2. QED
        BY <1>1, <1>6, <2>1, AckedKept
<1>8. Taken' = [Taken EXCEPT ![r] = content[u]]
      BY <1>1, <1>5, SeenOf
<1>9. QED
      BY <1>1, <1>2, <1>5, <1>6, <1>7, <1>8 DEF A!Take, Stored

(* The mapping stores what was taken: the handler vouches for it.             *)
LEMMA MapStores ==
    ASSUME UploadInv, spoiled = {}, NEW r \in Req, PutMapping(r)
    PROVE  A!Store(r)
<1>0. TypeInv /\ loc \in [Req -> Locals] /\ pc \in [Req -> Labels]
      BY DEF UploadInv, ExclusionInv, TypeInv, TypeOK
<1>1. Alone(r) /\ UNCHANGED <<content, loc, spoiled>>
      BY <1>0, HandlerIsAlone DEF Step, PutMapping, history
<1>2. /\ pc[r] = "map" /\ pc'[r] = "cleanFile"
      /\ mappings' = WithMapping(NewMapping(r))
      BY <1>0 DEF PutMapping, Goto
<1>3. Integrity /\ Vouched(r)
      BY DEF UploadInv, IntegrityInv
<1>4. PICK c \in ipfs : loc[r].cid = CIDOf(c) /\ loc[r].want = DigestOf(c)
      BY <1>2, <1>3 DEF Vouched
<1>5. Taken[r] = c /\ c # NoCID
  <2>1. c \in Seq(Block)
        BY <1>0 DEF TypeInv, TypeOK
  <2>2. QED
        BY <1>2, <1>4, <2>1, SentinelAssumption DEF Taken, TakenBy, CIDOf
<1>6. Stored' = Stored \cup {A!Blob(c)}
      BY <1>2, <1>3, <1>4, StoresBlob
<1>7. Taken' = Taken
  <2>1. TakenBy(r)' = TakenBy(r)
        BY <1>1, <1>2 DEF TakenBy
  <2>2. QED
        BY <1>1, <2>1, TakenKept
<1>8. Acked' = Acked
      BY <1>1 DEF Acked
<1>9. QED
      BY <1>1, <1>5, <1>6, <1>7, <1>8 DEF A!Store

(* A mapping that cannot be stored fails the request.                         *)
LEMMA MapFailsFails ==
    ASSUME UploadInv, NEW r \in Req, PutMappingFails(r)
    PROVE  A!Fail
<1>0. TypeInv /\ loc \in [Req -> Locals] /\ pc \in [Req -> Labels]
      BY DEF UploadInv, ExclusionInv, TypeInv, TypeOK
<1>1. Alone(r) /\ UNCHANGED <<content, mappings, spoiled>>
      BY <1>0, HandlerIsAlone DEF Step, PutMappingFails, disk, history
<1>2. pc'[r] = "unlock" /\ loc'[r].status = 500
      BY <1>0 DEF PutMappingFails, Respond, Returned, Frame, Goto
<1>3. Taken' = [q \in Req |-> IF q \in {r} THEN NoCID ELSE Taken[q]]
  <2>1. TakenBy(r)' = NoCID
        BY <1>2 DEF TakenBy
  <2>2. QED
        BY <1>1, <2>1, SeenOf DEF Taken
<1>4. Acked' \subseteq Acked
  <2>1. r \notin Acked'
        BY <1>2 DEF Acked
  <2>2. QED
        BY <1>1, <2>1, SeenOf DEF Acked
<1>5. QED
      BY <1>1, <1>3, <1>4 DEF A!Fail, Stored

(* The last step before the 201: what was taken is stored by then.            *)
LEMMA CleanAcknowledges ==
    ASSUME UploadInv, spoiled = {}, NEW r \in Req, DropSession(r),
           pc[r] = "cleanSession"
    PROVE  A!Acknowledge(r)
<1>0. TypeInv /\ loc \in [Req -> Locals] /\ pc \in [Req -> Labels]
      BY DEF UploadInv, ExclusionInv, TypeInv, TypeOK
<1>1. Alone(r) /\ UNCHANGED <<content, mappings, spoiled>>
      BY <1>0, HandlerIsAlone DEF Step, DropSession, history
<1>2. /\ pc'[r] = "unlock" /\ loc'[r].status = 201
      /\ loc'[r].method = loc[r].method
      BY <1>0 DEF DropSession, Respond, Returned, Frame, Goto
<1>3. Integrity /\ Vouched(r) /\ \E m \in mappings : m.digest = loc[r].want
      BY DEF UploadInv, IntegrityInv, AckInv
<1>4. PICK c \in ipfs : loc[r].cid = CIDOf(c) /\ loc[r].want = DigestOf(c)
      BY <1>3 DEF Vouched
<1>5. Taken[r] = c /\ c # NoCID
  <2>1. c \in Seq(Block)
        BY <1>0 DEF TypeInv, TypeOK
  <2>2. QED
        BY <1>4, <2>1, SentinelAssumption DEF Taken, TakenBy, CIDOf
<1>6. A!Blob(c) \in Stored
      BY <1>3, <1>4, MappedIsStored
<1>7. Taken' = [Taken EXCEPT ![r] = NoCID]
  <2>1. TakenBy(r)' = NoCID
        BY <1>2 DEF TakenBy
  <2>2. QED
        BY <1>1, <2>1, SeenOf
<1>8. Acked' = Acked \cup {r}
  <2>1. loc[r].method = "PUT"
        BY <1>0 DEF TypeInv, LocalsOK, RequestOK
  <2>2. r \in Acked'
        BY <1>2, <2>1 DEF Acked
  <2>3. QED
        BY <1>1, <2>2, SeenOf DEF Acked
<1>9. QED
      BY <1>1, <1>5, <1>6, <1>7, <1>8 DEF A!Acknowledge, Stored

(* The mapping of a monolithic upload stores its whole body, or fails.        *)
LEMMA MonoPuts ==
    ASSUME UploadInv, spoiled = {}, NEW r \in Req, MonoMap(r)
    PROVE  A!PutWhole(r) \/ UNCHANGED A!vars
<1> DEFINE c == loc[r].body
<1>0. TypeInv /\ loc \in [Req -> Locals] /\ pc \in [Req -> Labels]
      BY DEF UploadInv, ExclusionInv, TypeInv, TypeOK
<1>1. Alone(r) /\ UNCHANGED <<content, spoiled>> /\ pc[r] = "monoMap"
      BY <1>0, HandlerIsAlone DEF Step, MonoMap, history
<1>2. r \notin Acked
      BY <1>1, NotAcked DEF UploadInv
<1>3. CASE UNCHANGED mappings /\ Finish(r, 500)
  <2>1. pc'[r] = "done" /\ loc'[r].status # 201
        BY <1>0, <1>3 DEF Finish, Returned, Frame, Goto
  <2>2. QED
        BY <1>1, <1>3, <2>1, Declined
<1>4. CASE mappings' = WithMapping(NewMapping(r)) /\ Finish(r, 201)
  <2>1. /\ pc'[r] = "done" /\ loc'[r].status = 201
        /\ loc'[r].method = loc[r].method
        BY <1>0, <1>4 DEF Finish, Returned, Frame, Goto
  <2>2. c \in Bodies /\ loc[r].method = "MONO" /\ loc[r].cid = CIDOf(c)
        BY <1>1 DEF UploadInv, AnsweredInv
  <2>3. loc[r].want = DigestOf(c)
    <3>1. PICK k \in ipfs : loc[r].cid = CIDOf(k) /\ loc[r].want = DigestOf(k)
          BY <1>1 DEF UploadInv, IntegrityInv, Vouched
    <3>2. CIDOf(k).cid = CIDOf(c).cid
          BY <2>2, <3>1
    <3>3. k = c
          BY <3>2 DEF CIDOf
    <3>4. QED
          BY <3>1, <3>3
  <2>4. Stored' = Stored \cup {A!Blob(c)}
    <3>1. Integrity
          BY DEF UploadInv, IntegrityInv
    <3>2. PICK k : k = c
          OBVIOUS
    <3>3. Stored' = Stored \cup {A!Blob(k)}
          BY <1>4, <2>2, <2>3, <3>1, <3>2, StoresBlob
    <3>4. QED
          BY <3>2, <3>3
  <2>5. Taken' = Taken
    <3>1. TakenBy(r)' = TakenBy(r)
          BY <1>1, <2>1 DEF TakenBy
    <3>2. QED
          BY <1>1, <3>1, TakenKept
  <2>6. Acked' = Acked \cup {r}
    <3>1. r \in Acked'
          BY <2>1, <2>2 DEF Acked
    <3>2. QED
          BY <1>1, <3>1, SeenOf DEF Acked
  <2>7. QED
        BY <1>1, <1>2, <2>2, <2>4, <2>5, <2>6 DEF A!PutWhole
<1>5. QED
      BY <1>3, <1>4 DEF MonoMap

(* An unlock shows when it lets go of an open upload.                         *)
LEMMA UnlockLetsGo ==
    ASSUME UploadInv, spoiled = {}, NEW r \in Req, Unlock(r)
    PROVE  A!LetGo \/ UNCHANGED A!vars
<1>0. TypeInv /\ pc \in [Req -> Labels]
      BY DEF UploadInv, ExclusionInv, TypeInv, TypeOK
<1>1. Alone(r) /\ UNCHANGED <<content, mappings, loc>>
      BY <1>0, HandlerIsAlone DEF Step, Unlock, disk
<1>2. TakenBy(r)' = TakenBy(r)
      BY <1>0 DEF Unlock, Goto, TakenBy
<1>3. Taken' = Taken /\ Acked' = Acked /\ Stored' = Stored
      BY <1>1, <1>2, TakenKept DEF Acked, Stored
<1>4. (spoiled' # {}) = TRUE \/ spoiled' = spoiled
      OBVIOUS
<1>5. QED
      BY <1>1, <1>3, <1>4 DEF A!LetGo, A!vars

(* The steps of a handler that show nothing.                                  *)
LEMMA SilentStep ==
    ASSUME UploadInv, NEW r \in Req,
           \/ Lock(r) \/ GetUpload(r) \/ GetRefused(r) \/ OpenFile(r)
           \/ CopyDone(r) \/ WriteFails(r) \/ SaveSession(r) \/ Hash(r)
           \/ HashFails(r) \/ AddFails(r) \/ DropLock(r)
           \/ (DropSession(r) /\ pc[r] = "rejectSession")
           \/ MonoCopy(r) \/ MonoAdd(r)
    PROVE  UNCHANGED A!vars
<1> USE DEF disk, locks, history
<1>0. TypeInv /\ loc \in [Req -> Locals] /\ pc \in [Req -> Labels]
      /\ AnsweredInv /\ AnsweredInv'
  <2>1. TypeInv /\ AnsweredInv
        BY DEF UploadInv, ExclusionInv
  <2>2. AnsweredInv'
        BY <2>1, HandlerKeepsAnswered DEF Step
  <2>3. QED
        BY <2>1, <2>2 DEF TypeInv, TypeOK
<1>1. Alone(r)
      BY <1>0, HandlerIsAlone DEF Step
<1>2. UNCHANGED <<content, mappings, spoiled>>
      BY DEF Lock, GetUpload, GetRefused, OpenFile, CopyDone, WriteFails,
         SaveSession, Hash, HashFails, AddFails, DropLock, DropSession,
         MonoCopy, MonoAdd
<1>3. CASE DropLock(r)
  <2>1. UNCHANGED loc /\ pc[r] = "drop" /\ pc'[r] = "done"
        BY <1>0, <1>3 DEF DropLock, Goto
  <2>2. TakenBy(r)' = TakenBy(r) /\ (r \in Acked' <=> r \in Acked)
        BY <2>1 DEF TakenBy, Acked
  <2>3. QED
        BY <1>1, <1>2, <2>2, Unseen
<1> DEFINE Before == pc[r] \notin {"unlock", "drop", "done", "map", "cleanFile",
                                   "cleanSession"}
           After == pc'[r] \notin {"map", "cleanFile", "cleanSession"}
<1>4. Before /\ After /\ loc'[r].status # 201 => UNCHANGED A!vars
      BY <1>1, <1>2, Declined
<1>5. ASSUME pc'[r] \notin {"unlock", "drop", "done"} PROVE loc'[r].status # 201
      BY <1>0, <1>5 DEF AnsweredInv
<1>6. CASE Lock(r) \/ GetUpload(r) \/ OpenFile(r) \/ CopyDone(r) \/ Hash(r)
      BY <1>0, <1>4, <1>5, <1>6 DEF Lock, GetUpload, OpenFile, CopyDone, Hash, Goto
<1>7. ASSUME NEW code \in {400, 404, 500, 202}, Respond(r, code) \/ Finish(r, code)
      PROVE  After /\ loc'[r].status # 201
      BY <1>0, <1>7 DEF Respond, Finish, Returned, Frame, Goto
<1>8. CASE \/ GetRefused(r) \/ WriteFails(r) \/ SaveSession(r) \/ HashFails(r)
           \/ AddFails(r) \/ (DropSession(r) /\ pc[r] = "rejectSession")
  <2>1. \E code \in {400, 404, 500, 202} : Respond(r, code)
        BY <1>8 DEF GetRefused, WriteFails, SaveSession, HashFails, AddFails,
                    DropSession
  <2>2. Before
        BY <1>8 DEF GetRefused, WriteFails, SaveSession, HashFails, AddFails
  <2>3. QED
        BY <1>4, <1>7, <2>1, <2>2
<1>9. CASE MonoCopy(r) \/ MonoAdd(r)
  <2>1. Before
        BY <1>9 DEF MonoCopy, MonoAdd
  <2>2. CASE \E code \in {400, 500} : Finish(r, code)
        BY <1>4, <1>7, <2>1, <2>2
  <2>3. CASE Goto(r, "monoAdd") \/ Goto(r, "monoMap")
        BY <1>0, <1>4, <1>5, <2>1, <2>3 DEF Goto
  <2>4. QED
        BY <1>9, <2>2, <2>3 DEF MonoCopy, MonoAdd
<1>10. QED
      BY <1>3, <1>6, <1>8, <1>9

(* So every step of a handler is one of an upload's, until an upload is let go *)
(* of.                                                                        *)
LEMMA HandlerImplements ==
    ASSUME UploadInv, spoiled = {}, NEW r \in Req, Lock(r) \/ Step(r)
    PROVE  [A!Next]_(A!vars)
<1>1. DropSession(r) => pc[r] \in {"rejectSession", "cleanSession"}
      BY DEF DropSession
<1>2. CASE CopyBlock(r)
      BY <1>2, CopyGrows DEF A!Next
<1>3. CASE DropFile(r)
      BY <1>3, DropDiscards DEF A!Next
<1>4. CASE AddToIPFS(r)
      BY <1>4, AddTakes DEF A!Next
<1>5. CASE PutMapping(r)
      BY <1>5, MapStores DEF A!Next
<1>6. CASE PutMappingFails(r)
      BY <1>6, MapFailsFails DEF A!Next
<1>7. CASE DropSession(r) /\ pc[r] = "cleanSession"
      BY <1>7, CleanAcknowledges DEF A!Next
<1>8. CASE MonoMap(r)
      BY <1>8, MonoPuts DEF A!Next
<1>9. CASE Unlock(r)
      BY <1>9, UnlockLetsGo DEF A!Next
<1>10. QED
      BY <1>1, <1>2, <1>3, <1>4, <1>5, <1>6, <1>7, <1>8, <1>9, SilentStep DEF Step

(* The initial state.                                                         *)
LEMMA InitImplements == Init => A!Init
<1> SUFFICES ASSUME Init PROVE A!Init
    OBVIOUS
<1>1. \A r \in Req : pc[r] = "new" /\ loc[r].status = 0
      BY DEF Init, Frame
<1>2. Taken = [r \in Req |-> NoCID] /\ Acked = {}
      BY <1>1 DEF Taken, TakenBy, Acked
<1>3. Stored = {}
      BY DEF Init, Stored
<1>4. QED
      BY <1>2, <1>3 DEF Init, A!Init

(* What was let go of stays so.                                               *)
LEMMA SpoiledStays == [Next]_vars => spoiled \subseteq spoiled'
<1> SUFFICES ASSUME [Next]_vars PROVE spoiled \subseteq spoiled'
    OBVIOUS
<1> USE DEF history
<1>1. ASSUME NEW r \in Req, Lock(r) \/ Step(r) PROVE spoiled \subseteq spoiled'
      BY <1>1 DEF Step, Lock, GetUpload, GetRefused, OpenFile, CopyBlock,
         CopyDone, WriteFails, SaveSession, Hash, HashFails, DropFile,
         DropSession, AddToIPFS, AddFails, PutMapping, PutMappingFails,
         Unlock, DropLock, MonoCopy, MonoAdd, MonoMap
<1>2. ASSUME NEW r \in Req, \/ ArrivePatch(r) \/ ArrivePut(r) \/ MonoCreate(r)
                            \/ \E c \in Declared : Mount(r, c)
      PROVE  spoiled \subseteq spoiled'
      BY <1>2 DEF ArrivePatch, ArrivePut, Arrive, MonoCreate, Mount
<1>3. CASE GCStep
      BY <1>3 DEF GCStep, GCList, GCDeleteUpload, GCRemoveTempFile
<1>4. ASSUME NEW u \in Upload, CreateUpload(u) \/ Age(u)
      PROVE  spoiled \subseteq spoiled'
      BY <1>4 DEF CreateUpload, Age
<1>5. CASE Crash \/ UNCHANGED vars
      BY <1>5 DEF Crash, vars
<1>6. QED
      BY <1>1, <1>2, <1>3, <1>4, <1>5 DEF Next, Quiet

(* Every step.                                                                *)
LEMMA StepImplements == UploadInv /\ [Next]_vars => [A!Next]_(A!vars)
<1> SUFFICES ASSUME UploadInv, [Next]_vars PROVE [A!Next]_(A!vars)
    OBVIOUS
<1> USE DEF disk, locks, outside, history
<1>0. TypeInv /\ AnsweredInv /\ pc \in [Req -> Labels] /\ loc \in [Req -> Locals]
      BY DEF UploadInv, ExclusionInv, TypeInv, TypeOK
<1>1. CASE spoiled # {}
  <2>1. spoiled \subseteq spoiled'
        BY SpoiledStays
  <2>2. QED
        BY <1>1, <2>1 DEF A!Next
<1>2. ASSUME NEW r \in Req, spoiled = {}, Lock(r) \/ Step(r) PROVE [A!Next]_(A!vars)
      BY <1>2, HandlerImplements
<1>3. ASSUME NEW r \in Req, pc[r] = "new", UNCHANGED <<content, mappings, spoiled>>,
             pc'[r] \in {"lock", "done", "monoCopy"},
             loc'[r].status # 201 \/ loc'[r].method = "MOUNT",
             \A q \in Req \ {r} : pc'[q] = pc[q] /\ loc'[q] = loc[q]
      PROVE  UNCHANGED A!vars
  <2>1. Alone(r)
        BY <1>3 DEF Alone
  <2>2. TakenBy(r)' = TakenBy(r)
        BY <1>3 DEF TakenBy
  <2>3. r \notin Acked /\ r \notin Acked'
        BY <1>0, <1>3, NotAcked DEF Acked
  <2>4. QED
        BY <1>3, <2>1, <2>2, <2>3, Unseen
<1>4. ASSUME NEW r \in Req, NEW c \in Declared, Mount(r, c) PROVE UNCHANGED A!vars
      BY <1>0, <1>3, <1>4 DEF Mount, Goto, Frame
<1>5. ASSUME NEW r \in Req, ArrivePatch(r) \/ ArrivePut(r) \/ MonoCreate(r)
      PROVE  UNCHANGED A!vars
      BY <1>0, <1>3, <1>5 DEF ArrivePatch, ArrivePut, Arrive, MonoCreate,
                              Frame, Goto
<1>6. ASSUME UNCHANGED <<content, mappings, spoiled, pc, loc>>
      PROVE  UNCHANGED A!vars
      BY <1>6 DEF A!vars, Taken, TakenBy, Stored, Acked
<1>7. CASE GCStep
  <2>1. CASE UNCHANGED loc /\ UNCHANGED content
        BY <1>6, <1>7, <2>1 DEF GCStep, GCList, GCDeleteUpload, GCRemoveTempFile
  <2>2. CASE GCRemoveTempFile /\ RemoveFile(gc.at)
    <3>1. gc.at \in Upload /\ UNCHANGED <<mappings, spoiled>>
          BY <1>0, <2>2 DEF GCRemoveTempFile, TypeInv, LocalsOK
    <3>2. \A q \in Req : TakenBy(q)' = TakenBy(q)
          BY <1>0, <1>7, OutsideKeeps DEF TakenBy
    <3>3. Taken' = Taken
          BY <3>2 DEF Taken
    <3>4. QED
          BY <1>0, <2>2, <3>1, <3>3, RemovalDiscards DEF A!Next
  <2>3. QED
        BY <1>7, <2>1, <2>2 DEF GCStep, GCList, GCDeleteUpload, GCRemoveTempFile
<1>8. CASE Crash
  <2> DEFINE S == {q \in Req : pc[q] \notin {"new", "done"}}
  <2>1. \A q \in Req : \/ q \in S /\ pc'[q] = "dead" /\ loc'[q].status = 0
                       \/ q \notin S /\ pc'[q] = pc[q] /\ loc'[q] = loc[q]
        BY <1>0, <1>8 DEF Crash, Returned, Frame
  <2>2. \A q \in Req : TakenBy(q)' = IF q \in S THEN NoCID ELSE TakenBy(q)
        BY <2>1 DEF TakenBy
  <2>3. Taken' = [q \in Req |-> IF q \in S THEN NoCID ELSE Taken[q]]
        BY <2>2 DEF Taken
  <2>4. Acked' \subseteq Acked
        BY <2>1 DEF Acked
  <2>5. UNCHANGED <<content, mappings, spoiled>> /\ S \in SUBSET Req
        BY <1>8 DEF Crash
  <2> HIDE DEF S
  <2>6. QED
        BY <2>3, <2>4, <2>5 DEF A!Next, A!Fail, Stored
<1>9. ASSUME NEW u \in Upload, CreateUpload(u) \/ Age(u) PROVE UNCHANGED A!vars
      BY <1>6, <1>9 DEF CreateUpload, Age
<1>10. CASE UNCHANGED vars
      BY <1>6, <1>10 DEF vars
<1>11. QED
      BY <1>1, <1>2, <1>4, <1>5, <1>7, <1>8, <1>9, <1>10 DEF Next, Quiet

(* Chunked and monolithic uploads, mounts, the collector, failing files, calls *)
(* and transactions, crashes and restarts: whatever they do to one another,    *)
(* a client that sees digests, blobs and 201s sees an atomic upload, until a   *)
(* PUT lets go of an upload that stays open.                                  *)
THEOREM UploadsAreAtomic == Spec => ImplementsAtomicUpload
BY InitImplements, UploadInvHolds, StepImplements, PTL
   DEF Spec, ImplementsAtomicUpload, A!Spec
=============================================================================
