------------------------ MODULE UploadSessionProofs ------------------------
(* Proofs, for any number of requests, uploads and blocks, of what            *)
(* UploadSession's runs check on small instances.                             *)
EXTENDS UploadSession, TLAPS

-----------------------------------------------------------------------------
(* The local variables of one handler, as records.                            *)

(* Each variable of a typed record has its type.                               *)
LEMMA LocalsFields ==
    ASSUME NEW l \in Locals
    PROVE  /\ l.method \in {"none", "PATCH", "PUT", "MONO", "MOUNT"}
           /\ l.upload \in Upload \cup {NoUpload}
           /\ l.mutex \in Req \cup {NoReq}
           /\ l.body \in Seq(Block)
           /\ l.seen \in Nat /\ l.copied \in Nat
           /\ l.want \in Digests \cup {NoDigest} /\ l.cid \in CIDs \cup {NoCID}
BY DEF Locals

(* Setting one variable to a value of its type keeps the record typed, and     *)
(* keeps what identifies the request.                                          *)
SameRequest(k, l) == /\ k.method = l.method /\ k.upload = l.upload
                     /\ k.mutex = l.mutex /\ k.want = l.want

LEMMA SetFieldType ==
    ASSUME NEW l \in Locals
    PROVE  /\ \A h \in {"none", "open", "lost"} :
                 /\ [l EXCEPT !.handle = h] \in Locals
                 /\ SameRequest([l EXCEPT !.handle = h], l)
                 /\ [l EXCEPT !.handle = h].cid = l.cid
                 /\ [l EXCEPT !.handle = h].status = l.status
           /\ \A n \in Nat : /\ [l EXCEPT !.seen = n] \in Locals
                            /\ SameRequest([l EXCEPT !.seen = n], l)
                            /\ [l EXCEPT !.seen = n].status = l.status
           /\ \A c \in CIDs : /\ [l EXCEPT !.cid = c] \in Locals
                             /\ SameRequest([l EXCEPT !.cid = c], l)
                             /\ [l EXCEPT !.cid = c].cid = c
                             /\ [l EXCEPT !.cid = c].status = l.status
<1>1. ASSUME NEW h \in {"none", "open", "lost"}
      PROVE  /\ [l EXCEPT !.handle = h] \in Locals
             /\ SameRequest([l EXCEPT !.handle = h], l)
             /\ [l EXCEPT !.handle = h].cid = l.cid
             /\ [l EXCEPT !.handle = h].status = l.status
      BY DEF Locals, SameRequest
<1>2. ASSUME NEW n \in Nat
      PROVE  /\ [l EXCEPT !.seen = n] \in Locals
             /\ SameRequest([l EXCEPT !.seen = n], l)
             /\ [l EXCEPT !.seen = n].status = l.status
      BY DEF Locals, SameRequest
<1>3. ASSUME NEW c \in CIDs
      PROVE  /\ [l EXCEPT !.cid = c] \in Locals
             /\ SameRequest([l EXCEPT !.cid = c], l)
             /\ [l EXCEPT !.cid = c].cid = c
             /\ [l EXCEPT !.cid = c].status = l.status
      BY DEF Locals, SameRequest
<1>4. QED
      BY <1>1, <1>2, <1>3

(* A handler that returns leaves a typed record.                               *)
LEMMA ReturnedType ==
    ASSUME loc \in [Req -> Locals], NEW r \in Req,
           NEW code \in {0, 201, 202, 400, 404, 500}
    PROVE  /\ Returned(r, code) \in Locals
           /\ SameRequest(Returned(r, code), loc[r])
           /\ Returned(r, code).status = code
BY DEF Locals, Returned, Frame, SameRequest

(* Removing a file changes nothing but handles.                                *)
LEMMA DetachedType ==
    ASSUME loc \in [Req -> Locals], NEW u
    PROVE  /\ Detached(u) \in [Req -> Locals]
           /\ \A r \in Req :
                /\ SameRequest(Detached(u)[r], loc[r])
                /\ Detached(u)[r].cid = loc[r].cid
                /\ Detached(u)[r].body = loc[r].body
                /\ Detached(u)[r].seen = loc[r].seen
                /\ Detached(u)[r].copied = loc[r].copied
                /\ Detached(u)[r].status = loc[r].status
<1>1. Detached(u) \in [Req -> Locals]
      BY SetFieldType DEF Detached
<1>2. QED
      BY <1>1 DEF Detached, Locals, SameRequest

-----------------------------------------------------------------------------
(* Types.                                                                      *)

(* The initial state has the types, and satisfies what is known at each step.  *)
LEMMA InitTypeInv == Init => TypeInv
<1> SUFFICES ASSUME Init PROVE TypeInv
    OBVIOUS
<1>1. Frame("none", NoUpload, NoReq, << >>, NoDigest, 0) \in Locals
      BY DEF Frame, Locals
<1>2. TypeOK
      BY <1>1 DEF Init, TypeOK, Labels
<1>3. LocalsOK
      BY DEF Init, LocalsOK, RequestOK, HasUpload, InCS, Working, WorkLabels
<1>4. QED
      BY <1>2, <1>3 DEF TypeInv

(* Every step leaves every variable in its type.                               *)
LEMMA StepTypeOK == TypeInv /\ [Next]_vars => TypeOK'
<1> SUFFICES ASSUME TypeInv, [Next]_vars PROVE TypeOK'
    OBVIOUS
<1> USE DEF TypeInv, disk, locks, outside, history
<1>0. loc \in [Req -> Locals] /\ pc \in [Req -> Labels]
      BY DEF TypeOK
<1>1. ASSUME NEW u \in Upload, CreateUpload(u) PROVE TypeOK'
      BY <1>1 DEF TypeOK, CreateUpload
<1>2. ASSUME NEW r \in Req, NEW c \in Declared, Mount(r, c) PROVE TypeOK'
  <2>1. DigestOf(c) \in Digests
        BY DeclaredAssumption DEF DigestOf, Digests
  <2>2. loc' \in [Req -> Locals]
    <3>1. Frame("MOUNT", NoUpload, NoReq, << >>, DigestOf(c), 201) \in Locals
          BY <2>1 DEF Frame, Locals
    <3>2. QED
          BY <1>0, <1>2, <3>1 DEF Mount
  <2>3. QED
        BY <1>2, <2>2 DEF TypeOK, Mount, Goto, Labels
<1>3. ASSUME NEW r \in Req, NEW u \in Upload, NEW b \in Bodies,
             NEW d \in Digests \cup {NoDigest},
             NEW m \in {"PATCH", "PUT"}, Arrive(r, u, m, b, d)
      PROVE  TypeOK'
  <2>1. lockMap' \in [Upload -> Req \cup {NoReq}]
        BY <1>3 DEF TypeOK, Arrive
  <2>2. loc' \in [Req -> Locals]
    <3>1. lockMap'[u] \in Req \cup {NoReq} /\ b \in Seq(Block)
          BY <2>1, BodiesAssumption
    <3>2. Frame(m, u, lockMap'[u], b, d, 0) \in Locals
          BY <3>1 DEF Frame, Locals
    <3>3. QED
          BY <1>0, <1>3, <3>2 DEF Arrive
  <2>3. QED
        BY <1>3, <2>1, <2>2 DEF TypeOK, Arrive, Goto, Labels
<1>4. ASSUME NEW r \in Req, Lock(r) PROVE TypeOK'
      BY <1>0, <1>4 DEF TypeOK, LocalsOK, RequestOK, HasUpload, Lock, Goto, Labels
<1>5. ASSUME NEW r \in Req, GetUpload(r) PROVE TypeOK'
  <2>1. loc[r].upload \in Upload
        BY <1>5 DEF TypeOK, GetUpload
  <2>2. loc' \in [Req -> Locals]
    <3>1. loc' = [loc EXCEPT ![r].seen = bytes[loc[r].upload]]
          BY <1>5 DEF GetUpload
    <3>2. bytes[loc[r].upload] \in Nat
          BY <2>1 DEF TypeOK
    <3>3. QED
          BY <1>0, <3>1, <3>2, SetFieldType
  <2>3. QED
        BY <1>5, <2>2 DEF TypeOK, GetUpload, Goto, Labels
<1>6. ASSUME NEW r \in Req, NEW code \in {201, 202, 400, 404, 500},
             Respond(r, code)
      PROVE  loc' \in [Req -> Locals] /\ pc' \in [Req -> Labels]
      BY <1>0, <1>6, ReturnedType DEF Respond, Goto, Labels
<1>7. ASSUME NEW r \in Req, GetRefused(r) PROVE TypeOK'
      BY <1>6, <1>7 DEF TypeOK, GetRefused
<1>8. ASSUME NEW r \in Req, OpenFile(r) PROVE TypeOK'
  <2>1. loc' \in [Req -> Locals]
    <3>1. loc' = [loc EXCEPT ![r].handle = "open"]
          BY <1>8 DEF OpenFile
    <3>2. QED
          BY <1>0, <3>1, SetFieldType
  <2>2. loc[r].upload \in Upload
        BY <1>8 DEF TypeOK, LocalsOK, RequestOK, OpenFile, HasUpload, InCS, Working,
                    WorkLabels
  <2>3. QED
        BY <1>8, <2>1, <2>2 DEF TypeOK, OpenFile, Goto, Labels
<1>9. ASSUME NEW r \in Req, CopyBlock(r) PROVE TypeOK'
  <2>1. loc' \in [Req -> Locals]
    <3>1. /\ loc' = [loc EXCEPT ![r].body = Tail(@), ![r].copied = @ + 1]
          /\ loc[r].body # << >>
          BY <1>9 DEF CopyBlock
    <3>2. QED
          BY <1>0, <3>1 DEF Locals
  <2>2. Head(loc[r].body) \in Block /\ loc[r].upload \in Upload
    <3>1. loc[r].body \in Seq(Block) /\ loc[r].body # << >>
          BY <1>0, <1>9, LocalsFields DEF CopyBlock
    <3>2. loc[r].upload \in Upload
          BY <1>9 DEF TypeOK, LocalsOK, RequestOK, CopyBlock, HasUpload, InCS, Working,
                      WorkLabels
    <3>3. QED
          BY <3>1, <3>2
  <2>3. content' \in [Upload -> Seq(Block)]
        BY <1>9, <2>2 DEF TypeOK, CopyBlock
  <2>4. QED
        BY <1>9, <2>1, <2>3 DEF TypeOK, CopyBlock
<1>10. ASSUME NEW r \in Req, CopyDone(r) PROVE TypeOK'
  <2>1. loc' \in [Req -> Locals]
    <3>1. loc' = [loc EXCEPT ![r].handle = "none"]
          BY <1>10 DEF CopyDone
    <3>2. QED
          BY <1>0, <3>1, SetFieldType
  <2>2. QED
        BY <1>10, <2>1 DEF TypeOK, CopyDone, Goto, Labels
<1>11. ASSUME NEW r \in Req, WriteFails(r) PROVE TypeOK'
      BY <1>6, <1>11 DEF TypeOK, WriteFails
<1>12. ASSUME NEW r \in Req, SaveSession(r) PROVE TypeOK'
  <2>1. loc[r].upload \in Upload
        BY <1>12 DEF TypeOK, LocalsOK, RequestOK, SaveSession, HasUpload, InCS, Working,
                     WorkLabels
  <2>2. loc[r].seen + loc[r].copied \in Nat
        BY <1>0, LocalsFields
  <2>3. sessions' \subseteq Upload /\ bytes' \in [Upload -> Nat]
        BY <1>12, <2>1, <2>2 DEF TypeOK, SaveSession
  <2>4. loc' \in [Req -> Locals] /\ pc' \in [Req -> Labels]
        BY <1>6, <1>12 DEF SaveSession
  <2>5. UNCHANGED <<aged, issued, files, content, mappings, monoFiles, lockMap,
                    held, ipfs, announced, gc, spoiled, removed>>
        BY <1>12 DEF SaveSession
  <2>6. QED
        BY <2>3, <2>4, <2>5 DEF TypeOK
<1>13. ASSUME NEW r \in Req, Hash(r) PROVE TypeOK'
      BY <1>13 DEF TypeOK, Hash, Goto, Labels
<1>14. ASSUME NEW r \in Req, HashFails(r) PROVE TypeOK'
      BY <1>6, <1>14 DEF TypeOK, HashFails
<1>15. ASSUME NEW u, RemoveFile(u), u \in Upload
       PROVE  /\ loc' \in [Req -> Locals] /\ content' \in [Upload -> Seq(Block)]
              /\ files' \subseteq Upload /\ removed' \subseteq Upload
      BY <1>0, <1>15, DetachedType DEF TypeOK, RemoveFile
<1>16. ASSUME NEW r \in Req, DropFile(r) PROVE TypeOK'
  <2>1. loc[r].upload \in Upload
        BY <1>16 DEF TypeOK, LocalsOK, RequestOK, DropFile, HasUpload, InCS, Working,
                     WorkLabels
  <2>2. QED
        BY <1>15, <1>16, <2>1 DEF TypeOK, DropFile, Goto, Labels
<1>17. ASSUME NEW r \in Req,
              loc[r].want \in Digests, loc[r].cid \in CIDs
       PROVE  /\ NewMapping(r) \in [digest : Digests, cid : CIDs]
              /\ WithMapping(NewMapping(r)) \subseteq [digest : Digests, cid : CIDs]
      BY <1>17 DEF TypeOK, NewMapping, WithMapping
<1>18. ASSUME NEW r \in Req, DropSession(r) PROVE TypeOK'
  <2>1. pc[r] = "cleanSession" =>
            NewMapping(r) \in [digest : Digests, cid : CIDs]
        BY <1>17 DEF LocalsOK, RequestOK
  <2>2. QED
        BY <1>6, <1>18, <2>1 DEF TypeOK, DropSession, Announce
<1>19. ASSUME NEW r \in Req, AddToIPFS(r) PROVE TypeOK'
  <2>1. loc[r].upload \in Upload
        BY <1>19 DEF TypeOK, AddToIPFS
  <2>2. content[loc[r].upload] \in Seq(Block)
        BY <2>1 DEF TypeOK
  <2>3. CIDOf(content[loc[r].upload]) \in CIDs
        BY <2>2 DEF CIDOf, CIDs
  <2>4. loc' \in [Req -> Locals]
    <3>1. loc' = [loc EXCEPT ![r].cid = CIDOf(content[loc[r].upload])]
          BY <1>19 DEF AddToIPFS
    <3>2. QED
          BY <1>0, <2>3, <3>1, SetFieldType
  <2>5. QED
        BY <1>19, <2>2, <2>4 DEF TypeOK, AddToIPFS, Goto, Labels
<1>20. ASSUME NEW r \in Req, AddFails(r) PROVE TypeOK'
      BY <1>6, <1>20 DEF TypeOK, AddFails
<1>21. ASSUME NEW r \in Req, PutMapping(r) PROVE TypeOK'
      BY <1>17, <1>21 DEF TypeOK, LocalsOK, RequestOK, PutMapping, Goto, Labels
<1>22. ASSUME NEW r \in Req, PutMappingFails(r) PROVE TypeOK'
      BY <1>6, <1>22 DEF TypeOK, PutMappingFails
<1>23. ASSUME NEW r \in Req, Unlock(r) PROVE TypeOK'
  <2>1. loc[r].upload \in Upload
        BY <1>23 DEF TypeOK, LocalsOK, RequestOK, Unlock, HasUpload, InCS
  <2>2. QED
        BY <1>23, <2>1 DEF TypeOK, Unlock, Goto, Labels
<1>24. ASSUME NEW r \in Req, DropLock(r) PROVE TypeOK'
      BY <1>24 DEF TypeOK, DropLock, Goto, Labels
<1>25. ASSUME NEW r \in Req, NEW code \in {201, 400, 500}, Finish(r, code)
       PROVE  /\ loc' \in [Req -> Locals] /\ pc' \in [Req -> Labels]
              /\ monoFiles' \subseteq Req
      BY <1>0, <1>25, ReturnedType DEF TypeOK, Finish, Goto, Labels
<1>26. ASSUME NEW r \in Req, MonoCreate(r) PROVE TypeOK'
  <2>1. \A c \in Declared : DigestOf(c) \in Digests
        BY DeclaredAssumption DEF DigestOf, Digests
  <2>2. loc' \in [Req -> Locals]
    <3>1. ASSUME NEW b \in Bodies, NEW c \in Declared
          PROVE  Frame("MONO", NoUpload, NoReq, b, DigestOf(c), 0) \in Locals
          BY <2>1, BodiesAssumption DEF Frame, Locals
    <3>2. QED
          BY <1>0, <1>26, <3>1 DEF MonoCreate
  <2>3. QED
        BY <1>26, <2>2 DEF TypeOK, MonoCreate, Goto, Labels
<1>27. ASSUME NEW r \in Req, MonoCopy(r) PROVE TypeOK'
  <2>1. CASE Finish(r, 500) \/ Finish(r, 400)
        BY <1>25, <1>27, <2>1 DEF TypeOK, MonoCopy
  <2>2. CASE Goto(r, "monoAdd") /\ UNCHANGED <<loc, monoFiles>>
        BY <1>27, <2>2 DEF TypeOK, MonoCopy, Goto, Labels
  <2>3. QED
        BY <1>27, <2>1, <2>2 DEF MonoCopy
<1>28. ASSUME NEW r \in Req, MonoAdd(r) PROVE TypeOK'
  <2>1. loc[r].body \in Seq(Block)
        BY <1>0, LocalsFields
  <2>2. CIDOf(loc[r].body) \in CIDs
        BY <2>1 DEF CIDOf, CIDs
  <2>3. CASE Goto(r, "monoMap") /\ ipfs' = ipfs \cup {loc[r].body}
             /\ loc' = [loc EXCEPT ![r].cid = CIDOf(loc[r].body)]
             /\ UNCHANGED monoFiles
    <3>1. loc' \in [Req -> Locals]
      <4>1. loc' = [loc EXCEPT ![r].cid = CIDOf(loc[r].body)]
            BY <2>3
      <4>2. QED
            BY <1>0, <2>2, <4>1, SetFieldType
    <3>2. QED
          BY <1>28, <2>1, <2>3, <3>1 DEF TypeOK, MonoAdd, Goto, Labels
  <2>4. CASE Finish(r, 500) /\ ipfs' \in {ipfs, ipfs \cup {loc[r].body}}
        BY <1>25, <1>28, <2>1, <2>4 DEF TypeOK, MonoAdd
  <2>5. QED
        BY <1>28, <2>3, <2>4 DEF MonoAdd
<1>29. ASSUME NEW r \in Req, MonoMap(r) PROVE TypeOK'
      BY <1>17, <1>25, <1>29 DEF TypeOK, LocalsOK, RequestOK, MonoMap, Announce
<1>30. ASSUME NEW u \in Upload, Age(u) PROVE TypeOK'
      BY <1>30 DEF TypeOK, Age
<1>31. CASE GCList
      BY <1>31 DEF TypeOK, GCList
<1>32. ASSUME NEW u \in Upload, GCDeleteUpload(u) PROVE TypeOK'
      BY <1>32 DEF TypeOK, GCDeleteUpload
<1>33. CASE GCRemoveTempFile
      BY <1>15, <1>33 DEF TypeOK, LocalsOK, RequestOK, GCRemoveTempFile
<1>34. CASE Crash
  <2>1. loc' \in [Req -> Locals]
        BY <1>0, <1>34, ReturnedType DEF Crash
  <2>2. QED
        BY <1>34, <2>1 DEF TypeOK, Crash, Labels
<1>35. CASE UNCHANGED vars
      BY <1>35 DEF TypeOK, vars
<1>36. \A r \in Req : ArrivePatch(r) \/ ArrivePut(r) => TypeOK'
  <2>1. \A c \in Declared : DigestOf(c) \in Digests
        BY DeclaredAssumption DEF DigestOf, Digests
  <2>2. QED
        BY <1>3, <2>1 DEF ArrivePatch, ArrivePut
<1>37. QED
      BY <1>1, <1>2, <1>4, <1>5, <1>7, <1>8, <1>9, <1>10, <1>11, <1>12, <1>13,
         <1>14, <1>16, <1>18, <1>19, <1>20, <1>21, <1>22, <1>23, <1>24, <1>26,
         <1>27, <1>28, <1>29, <1>30, <1>31, <1>32, <1>33, <1>34, <1>35, <1>36
      DEF Next, Step, GCStep, Quiet

-----------------------------------------------------------------------------
(* What every step of a handler leaves alone.                                  *)

(* Once a request has arrived, its handler never changes which upload, mutex,  *)
(* method and digest it is about, and moves no other request.                  *)
LEMMA StepKeeps ==
    ASSUME TypeInv, NEW r \in Req, Lock(r) \/ Step(r)
    PROVE  /\ \A q \in Req : SameRequest(loc'[q], loc[q])
           /\ \A q \in Req \ {r} : /\ pc'[q] = pc[q]
                                  /\ loc'[q].cid = loc[q].cid
                                  /\ loc'[q].body = loc[q].body
                                  /\ loc'[q].status = loc[q].status
<1> DEFINE Kept == /\ \A q \in Req : SameRequest(loc'[q], loc[q])
                   /\ \A q \in Req \ {r} : /\ pc'[q] = pc[q]
                                          /\ loc'[q].cid = loc[q].cid
                                          /\ loc'[q].body = loc[q].body
                                          /\ loc'[q].status = loc[q].status
<1>0. loc \in [Req -> Locals] /\ pc \in [Req -> Labels]
      BY DEF TypeInv, TypeOK
<1>1. \A l \in Locals : SameRequest(l, l)
      BY DEF SameRequest
<1>2. (\A q \in Req \ {r} : pc'[q] = pc[q] /\ loc'[q] = loc[q])
        /\ SameRequest(loc'[r], loc[r]) => Kept
      BY <1>0, <1>1
<1>3. ASSUME NEW code \in {201, 202, 400, 404, 500},
             Respond(r, code) \/ Finish(r, code)
      PROVE  Kept
      BY <1>0, <1>2, <1>3, ReturnedType DEF Respond, Finish, Goto
<1>4. ASSUME NEW label, Goto(r, label), UNCHANGED loc PROVE Kept
      BY <1>0, <1>1, <1>2, <1>4 DEF Goto
<1>5. CASE GetUpload(r)
  <2>1. bytes[loc[r].upload] \in Nat
        BY <1>5 DEF TypeInv, TypeOK, GetUpload
  <2>2. QED
        BY <1>0, <1>2, <1>5, <2>1, SetFieldType DEF GetUpload, Goto
<1>6. CASE OpenFile(r) \/ CopyDone(r)
  <2>1. PICK h \in {"none", "open"}, label \in Labels :
            /\ loc' = [loc EXCEPT ![r].handle = h]
            /\ pc' = [pc EXCEPT ![r] = label]
        BY <1>6 DEF OpenFile, CopyDone, Goto, Labels
  <2>2. SameRequest(loc'[r], loc[r])
        BY <1>0, <2>1, SetFieldType
  <2>3. QED
        BY <1>0, <1>2, <2>1, <2>2
<1>7. CASE CopyBlock(r)
  <2>1. loc' = [loc EXCEPT ![r].body = Tail(@), ![r].copied = @ + 1]
        /\ pc' = pc
        BY <1>7 DEF CopyBlock
  <2>2. SameRequest(loc'[r], loc[r])
        BY <1>0, <2>1 DEF SameRequest, Locals
  <2>3. QED
        BY <1>0, <1>2, <2>1, <2>2
<1>8. CASE DropFile(r)
  <2>1. loc' = Detached(loc[r].upload) \/ loc' = loc
        BY <1>8 DEF DropFile, RemoveFile
  <2>2. \A q \in Req \ {r} : pc'[q] = pc[q]
        BY <1>0, <1>8 DEF DropFile, Goto
  <2>3. QED
        BY <1>0, <1>1, <2>1, <2>2, DetachedType
<1>9. CASE AddToIPFS(r)
  <2>1. content[loc[r].upload] \in Seq(Block)
        BY <1>9 DEF TypeInv, TypeOK, AddToIPFS
  <2>2. CIDOf(content[loc[r].upload]) \in CIDs
        BY <2>1 DEF CIDOf, CIDs
  <2>3. QED
        BY <1>0, <1>2, <1>9, <2>2, SetFieldType DEF AddToIPFS, Goto
<1>10. CASE MonoAdd(r)
  <2>1. CIDOf(loc[r].body) \in CIDs
        BY <1>0, LocalsFields DEF CIDOf, CIDs
  <2>2. QED
    <3>1. CASE Finish(r, 500)
          BY <1>3, <3>1
    <3>2. CASE Goto(r, "monoMap")
               /\ loc' = [loc EXCEPT ![r].cid = CIDOf(loc[r].body)]
          BY <1>0, <1>2, <2>1, <3>2, SetFieldType DEF Goto
    <3>3. QED
          BY <1>10, <3>1, <3>2 DEF MonoAdd
<1>11. CASE Lock(r) \/ Hash(r) \/ PutMapping(r) \/ Unlock(r) \/ DropLock(r)
      BY <1>4, <1>11 DEF Lock, Hash, PutMapping, Unlock, DropLock
<1>12. CASE \/ GetRefused(r) \/ WriteFails(r) \/ SaveSession(r)
            \/ HashFails(r) \/ DropSession(r) \/ AddFails(r)
            \/ PutMappingFails(r)
      BY <1>3, <1>12 DEF GetRefused, WriteFails, SaveSession, HashFails,
                         DropSession, AddFails, PutMappingFails
<1>13. CASE MonoCopy(r) \/ MonoMap(r)
      BY <1>3, <1>4, <1>13 DEF MonoCopy, MonoMap
<1>14. QED
      BY <1>5, <1>6, <1>7, <1>8, <1>9, <1>10, <1>11, <1>12, <1>13 DEF Step

(* A crash and the collector leave every request about what it was about.      *)
LEMMA OutsideKeeps ==
    ASSUME TypeInv, Crash \/ GCStep
    PROVE  /\ \A q \in Req : SameRequest(loc'[q], loc[q])
           /\ GCStep => \A q \in Req : /\ pc'[q] = pc[q]
                                       /\ loc'[q].cid = loc[q].cid
                                       /\ loc'[q].body = loc[q].body
                                       /\ loc'[q].status = loc[q].status
<1>0. loc \in [Req -> Locals]
      BY DEF TypeInv, TypeOK
<1>1. \A l \in Locals : SameRequest(l, l)
      BY DEF SameRequest
<1>2. CASE GCStep
  <2>1. UNCHANGED pc /\ (loc' = loc \/ loc' = Detached(gc.at))
        BY <1>2 DEF GCStep, GCList, GCDeleteUpload, GCRemoveTempFile, RemoveFile
  <2>2. QED
        BY <1>0, <1>1, <2>1, DetachedType
<1>3. CASE Crash
  <2>1. \A q \in Req : loc'[q] = loc[q] \/ loc'[q] = Returned(q, 0)
        BY <1>3 DEF Crash
  <2>2. \A q \in Req : SameRequest(loc'[q], loc[q])
        BY <1>0, <1>1, <2>1, ReturnedType
  <2>3. QED
        BY <1>2, <2>2
<1>4. QED
      BY <1>2, <1>3

(* A step that takes or releases no mutex stays inside or outside the critical *)
(* section, starts to work only on an open upload, and stores no session but   *)
(* that of an upload it works on.                                              *)
Inner(r) ==
    /\ UNCHANGED <<lockMap, held, spoiled, issued>>
    /\ \/ InCS(r) /\ InCS(r)'
       \/ ~HasUpload(r) /\ ~HasUpload(r)'
    /\ Working(r)' => Working(r) \/ loc[r].upload \in sessions
    /\ \A u \in sessions' \ sessions : Working(r) /\ u = loc[r].upload

(* Every step of a handler moves a mutex or is such a step.                   *)
LEMMA StepShape ==
    ASSUME TypeInv, NEW r \in Req, Lock(r) \/ Step(r)
    PROVE  Lock(r) \/ Unlock(r) \/ DropLock(r) \/ Inner(r)
<1> USE DEF Inner, HasUpload, InCS, Working, WorkLabels, disk, locks, history
<1>0. pc \in [Req -> Labels]
      BY DEF TypeInv, TypeOK
<1>1. CASE \/ GetUpload(r) \/ GetRefused(r) \/ OpenFile(r) \/ CopyBlock(r)
           \/ CopyDone(r) \/ WriteFails(r) \/ HashFails(r) \/ AddFails(r)
           \/ AddToIPFS(r) \/ PutMapping(r) \/ PutMappingFails(r)
      BY <1>0, <1>1 DEF GetUpload, GetRefused, OpenFile, CopyBlock, CopyDone,
            WriteFails, HashFails, AddFails, AddToIPFS, PutMapping,
            PutMappingFails, Respond, Goto
<1>2. CASE SaveSession(r)
      BY <1>0, <1>2 DEF SaveSession, Respond, Goto
<1>3. CASE Hash(r)
      BY <1>0, <1>3 DEF Hash, Goto
<1>4. CASE DropFile(r)
      BY <1>0, <1>4 DEF DropFile, Goto
<1>5. CASE DropSession(r)
      BY <1>0, <1>5 DEF DropSession, Respond, Goto
<1>6. CASE MonoCopy(r) \/ MonoAdd(r) \/ MonoMap(r)
      BY <1>0, <1>6 DEF MonoCopy, MonoAdd, MonoMap, Finish, Goto
<1>7. QED
      BY <1>1, <1>2, <1>3, <1>4, <1>5, <1>6 DEF Step

(* What is known at each step stays known.                                     *)
LEMMA StepLocalsOK == TypeInv /\ [Next]_vars => LocalsOK'
<1> SUFFICES ASSUME TypeInv, [Next]_vars PROVE LocalsOK'
    OBVIOUS
<1> USE DEF disk, locks, outside, history
<1>0. loc \in [Req -> Locals] /\ pc \in [Req -> Labels] /\ LocalsOK
      BY DEF TypeInv, TypeOK
<1>1. /\ \A r \in Req : RequestOK(r)
      /\ gc.pc = "file" => gc.at \in Upload
      /\ sessions \subseteq issued
      BY <1>0 DEF LocalsOK
<1>2. ASSUME UNCHANGED <<gc, sessions, issued>>, \A r \in Req : RequestOK(r)'
      PROVE  LocalsOK'
      BY <1>1, <1>2 DEF LocalsOK
<1>3. ASSUME NEW r \in Req, Lock(r) \/ Step(r) PROVE LocalsOK'
  <2>1. UNCHANGED <<gc, issued>> /\ sessions' \subseteq issued
    <3>1. UNCHANGED gc /\ UNCHANGED issued
          BY <1>3 DEF Step, Lock, GetUpload, GetRefused, OpenFile, CopyBlock,
               CopyDone, WriteFails, SaveSession, Hash, HashFails, DropFile,
               DropSession, AddToIPFS, AddFails, PutMapping, PutMappingFails,
               Unlock, DropLock, MonoCopy, MonoAdd, MonoMap
    <3>2. CASE Inner(r)
      <4>1. Working(r) => loc[r].upload \in issued
            BY <1>1 DEF RequestOK, HasUpload, InCS
      <4>2. QED
            BY <1>1, <3>1, <3>2, <4>1 DEF Inner
    <3>3. CASE Lock(r) \/ Unlock(r) \/ DropLock(r)
          BY <1>1, <3>1, <3>3 DEF Lock, Unlock, DropLock
    <3>4. QED
          BY <1>3, <3>1, <3>2, <3>3, StepShape
  <2>2. \A q \in Req \ {r} : RequestOK(q)'
        BY <1>1, <1>3, <2>1, StepKeeps
           DEF RequestOK, SameRequest, HasUpload, InCS, Working, WorkLabels
  <2>3. HasUpload(r)' => HasUpload(r)
    <3>1. CASE Inner(r)
          BY <3>1 DEF Inner, HasUpload
    <3>2. CASE Lock(r) \/ Unlock(r) \/ DropLock(r)
          BY <1>0, <3>2 DEF Lock, Unlock, DropLock, Goto, HasUpload, InCS,
                            Working, WorkLabels
    <3>3. QED
          BY <1>3, <3>1, <3>2, StepShape
  <2>4. SameRequest(loc'[r], loc[r])
        BY <1>3, StepKeeps
  <2>5. HasUpload(r)' => /\ loc'[r].upload \in issued'
                         /\ loc'[r].mutex \in Req
                         /\ loc'[r].method \in {"PATCH", "PUT"}
        BY <1>1, <2>1, <2>3, <2>4 DEF RequestOK, SameRequest
  <2>6. RequestOK(r)'
    <3> DEFINE Harmless == pc'[r] \notin {"hash", "rejectFile", "rejectSession",
                 "add", "map", "cleanFile", "cleanSession", "monoAdd", "monoMap"}
    <3>1. Harmless => RequestOK(r)'
          BY <2>5 DEF RequestOK
    <3>2. ASSUME NEW code \in Nat, Respond(r, code) \/ Finish(r, code)
          PROVE  Harmless
          BY <1>0, <3>2 DEF Respond, Finish, Goto
    <3>3. CASE GetUpload(r) \/ CopyDone(r)
      <4>1. pc'[r] \in {"hash", "open", "save"}
            /\ (pc'[r] = "hash" => loc[r].method = "PUT")
            BY <1>0, <1>1, <3>3 DEF RequestOK, HasUpload, InCS, Working,
               WorkLabels, GetUpload, CopyDone, Goto
      <4>2. QED
            BY <2>4, <2>5, <4>1 DEF RequestOK, SameRequest
    <3>4. CASE Hash(r)
      <4>1. content[loc[r].upload] \in Seq(Block)
            BY <1>1, <3>4 DEF Hash, TypeInv, TypeOK, RequestOK, HasUpload,
                              InCS, Working, WorkLabels
      <4>2. Matches(r) => loc[r].want \in Digests
            BY <4>1 DEF Matches, DigestOf, Digests
      <4>3. /\ (pc'[r] = "add" /\ Matches(r)) \/ pc'[r] = "rejectFile"
            /\ loc[r].method = "PUT"
            BY <1>0, <1>1, <3>4 DEF RequestOK, Hash, Goto
      <4>4. QED
            BY <2>4, <2>5, <4>2, <4>3 DEF RequestOK, SameRequest
    <3>5. CASE DropFile(r)
      <4>1. \/ pc'[r] = "rejectSession" /\ pc[r] = "rejectFile"
            \/ pc'[r] = "cleanSession" /\ pc[r] = "cleanFile"
            BY <1>0, <3>5 DEF DropFile, Goto
      <4>2. loc'[r].cid = loc[r].cid
            BY <1>0, <3>5, DetachedType DEF DropFile, RemoveFile
      <4>3. QED
            BY <1>1, <2>4, <2>5, <4>1, <4>2 DEF RequestOK, SameRequest
    <3>6. CASE AddToIPFS(r)
      <4>1. CIDOf(content[loc[r].upload]) \in CIDs
            BY <3>6 DEF AddToIPFS, TypeInv, TypeOK, CIDOf, CIDs
      <4>2. pc[r] = "add" /\ pc'[r] = "map"
            BY <1>0, <3>6 DEF AddToIPFS, Goto
      <4>3. loc'[r].cid \in CIDs
            BY <1>0, <3>6, <4>1, SetFieldType DEF AddToIPFS
      <4>4. QED
            BY <1>1, <2>4, <2>5, <4>2, <4>3 DEF RequestOK, SameRequest
    <3>7. CASE PutMapping(r)
      <4>1. pc[r] = "map" /\ pc'[r] = "cleanFile" /\ loc' = loc
            BY <1>0, <3>7 DEF PutMapping, Goto
      <4>2. QED
            BY <1>1, <2>5, <4>1 DEF RequestOK
    <3>8. CASE MonoCopy(r)
      <4>1. CASE Finish(r, 500) \/ Finish(r, 400)
            BY <3>1, <3>2, <4>1
      <4>2. CASE DigestOf(loc[r].body) = loc[r].want /\ Goto(r, "monoAdd")
        <5>1. loc[r].want \in Digests /\ pc'[r] = "monoAdd"
              BY <1>0, <4>2, LocalsFields DEF DigestOf, Digests, Goto
        <5>2. QED
              BY <2>4, <2>5, <5>1 DEF RequestOK, SameRequest
      <4>3. QED
            BY <3>8, <4>1, <4>2 DEF MonoCopy
    <3>9. CASE MonoAdd(r)
      <4>1. CASE Finish(r, 500)
            BY <3>1, <3>2, <4>1
      <4>2. CASE Goto(r, "monoMap")
                 /\ loc' = [loc EXCEPT ![r].cid = CIDOf(loc[r].body)]
        <5>1. CIDOf(loc[r].body) \in CIDs
              BY <1>0, LocalsFields DEF CIDOf, CIDs
        <5>2. loc'[r].cid \in CIDs /\ pc[r] = "monoAdd" /\ pc'[r] = "monoMap"
              BY <1>0, <3>9, <4>2, <5>1, SetFieldType DEF MonoAdd, Goto
        <5>3. QED
              BY <1>1, <2>4, <2>5, <5>2 DEF RequestOK, SameRequest
      <4>3. QED
            BY <3>9, <4>1, <4>2 DEF MonoAdd
    <3>10. CASE \/ Lock(r) \/ OpenFile(r) \/ CopyBlock(r) \/ Unlock(r)
                \/ DropLock(r)
      <4>1. Harmless
            BY <1>0, <3>10 DEF Lock, OpenFile, CopyBlock, Unlock, DropLock, Goto
      <4>2. QED
            BY <3>1, <4>1
    <3>11. CASE \/ GetRefused(r) \/ WriteFails(r) \/ SaveSession(r)
                \/ HashFails(r) \/ DropSession(r) \/ AddFails(r)
                \/ PutMappingFails(r) \/ MonoMap(r)
      <4>1. \E code \in Nat : Respond(r, code) \/ Finish(r, code)
            BY <3>11 DEF GetRefused, WriteFails, SaveSession, HashFails,
                         DropSession, AddFails, PutMappingFails, MonoMap
      <4>2. QED
            BY <3>1, <3>2, <4>1
    <3>12. QED
          BY <1>3, <3>3, <3>4, <3>5, <3>6, <3>7, <3>8, <3>9, <3>10, <3>11 DEF Step
  <2>7. QED
        BY <1>1, <2>1, <2>2, <2>6 DEF LocalsOK
<1>4. ASSUME NEW r \in Req, NEW label \in {"done", "monoCopy"},
             Goto(r, label), UNCHANGED <<gc, sessions, issued>>,
             \A q \in Req \ {r} : loc'[q] = loc[q]
      PROVE  LocalsOK'
  <2>1. ~HasUpload(r)' /\ pc'[r] = label
        BY <1>0, <1>4 DEF Goto, HasUpload, InCS, Working, WorkLabels
  <2>2. RequestOK(r)'
        BY <2>1 DEF RequestOK
  <2>3. \A q \in Req \ {r} : pc'[q] = pc[q]
        BY <1>0, <1>4 DEF Goto
  <2>4. \A q \in Req \ {r} : RequestOK(q)'
        BY <1>1, <1>4, <2>3 DEF RequestOK, HasUpload, InCS, Working
  <2>5. QED
        BY <1>2, <1>4, <2>2, <2>4
<1>5. ASSUME NEW r \in Req, NEW c \in Declared, Mount(r, c) PROVE LocalsOK'
      BY <1>0, <1>4, <1>5 DEF Mount
<1>6. ASSUME NEW r \in Req, MonoCreate(r) PROVE LocalsOK'
      BY <1>0, <1>4, <1>6 DEF MonoCreate
<1>7. ASSUME NEW r \in Req, NEW u \in Upload, NEW b, NEW d,
             NEW m \in {"PATCH", "PUT"}, Arrive(r, u, m, b, d)
      PROVE  LocalsOK'
  <2>1. lockMap'[u] \in Req
        BY <1>7 DEF Arrive, TypeInv, TypeOK
  <2>2. /\ pc' = [pc EXCEPT ![r] = "lock"]
        /\ loc'[r] = Frame(m, u, lockMap'[u], b, d, 0)
        /\ \A q \in Req \ {r} : loc'[q] = loc[q]
        BY <1>0, <1>7 DEF Arrive, Goto
  <2>3. RequestOK(r)'
        BY <1>0, <1>7, <2>1, <2>2 DEF Arrive, Frame, RequestOK
  <2>4. \A q \in Req \ {r} : RequestOK(q)'
        BY <1>0, <1>1, <1>7, <2>2 DEF Arrive, RequestOK, HasUpload, InCS, Working
  <2>5. QED
        BY <1>2, <1>7, <2>3, <2>4 DEF Arrive
<1>8. ASSUME NEW r \in Req, ArrivePatch(r) \/ ArrivePut(r) PROVE LocalsOK'
      BY <1>7, <1>8 DEF ArrivePatch, ArrivePut
<1>9. ASSUME NEW u \in Upload, CreateUpload(u) \/ Age(u) PROVE LocalsOK'
      BY <1>1, <1>9 DEF CreateUpload, Age, LocalsOK, RequestOK, HasUpload,
                        InCS, Working
<1>10. CASE GCStep
  <2>1. /\ sessions' \subseteq sessions /\ issued' = issued
        /\ gc'.pc = "file" => gc'.at \in Upload
        BY <1>10 DEF GCStep, GCList, GCDeleteUpload, GCRemoveTempFile,
                     TypeInv, TypeOK
  <2>2. \A r \in Req : RequestOK(r)'
        BY <1>1, <1>10, <2>1, OutsideKeeps
           DEF SameRequest, RequestOK, HasUpload, InCS, Working
  <2>3. QED
        BY <1>1, <2>1, <2>2 DEF LocalsOK
<1>11. CASE Crash
      BY <1>1, <1>11 DEF Crash, LocalsOK, RequestOK, HasUpload, InCS, Working,
                         WorkLabels
<1>12. CASE UNCHANGED vars
      BY <1>1, <1>12 DEF vars, LocalsOK, RequestOK, HasUpload, InCS, Working
<1>13. QED
      BY <1>3, <1>5, <1>6, <1>8, <1>9, <1>10, <1>11, <1>12 DEF Next, Quiet

(* Type correctness: for any requests, uploads, bodies and faults.             *)
THEOREM TypeCorrect == Spec => []TypeOK
<1>1. Init => TypeInv
      BY InitTypeInv
<1>2. TypeInv /\ [Next]_vars => TypeInv'
      BY StepTypeOK, StepLocalsOK DEF TypeInv
<1>3. TypeInv => TypeOK
      BY DEF TypeInv
<1>4. QED
      BY <1>1, <1>2, <1>3, PTL DEF Spec

-----------------------------------------------------------------------------
(* Exclusion.                                                                  *)

(* The steps of a handler keep the critical sections apart, and keep every     *)
(* handler of an open upload on the mutex of its map entry.                    *)
LEMMA HandlerKeepsExclusion ==
    ASSUME ExclusionInv, NEW r \in Req, Lock(r) \/ Step(r)
    PROVE  MutexInv' /\ EntryInv'
<1> USE DEF disk, locks, history
<1>0. pc \in [Req -> Labels] /\ TypeInv /\ MutexInv /\ EntryInv
      BY DEF ExclusionInv, TypeInv, TypeOK
<1>1. /\ \A q \in Req : loc'[q].mutex = loc[q].mutex /\ loc'[q].upload = loc[q].upload
      /\ \A q \in Req \ {r} : pc'[q] = pc[q]
      BY <1>0, StepKeeps DEF SameRequest
<1>2. \A q \in Req \ {r} : /\ Working(q)' <=> Working(q)
                           /\ InCS(q)' <=> InCS(q)
                           /\ HasUpload(q)' <=> HasUpload(q)
      BY <1>1 DEF HasUpload, InCS, Working
<1>3. /\ HasUpload(r) => loc[r].upload \in Upload /\ loc[r].mutex \in Req
      /\ Working(r) => HasUpload(r)
      BY <1>0 DEF TypeInv, TypeOK, LocalsOK, RequestOK, HasUpload, InCS
<1>4. CASE Lock(r)
  <2>1. /\ loc[r].mutex \notin held /\ held' = held \cup {loc[r].mutex}
        /\ pc[r] = "lock" /\ pc'[r] = "get"
        /\ UNCHANGED <<sessions, lockMap, spoiled>>
        BY <1>0, <1>4 DEF Lock, Goto
  <2>2. ~Working(r) /\ ~Working(r)' /\ InCS(r)' /\ HasUpload(r) /\ ~InCS(r)
        BY <2>1 DEF HasUpload, InCS, Working, WorkLabels
  <2>3. MutexInv'
        BY <1>0, <1>1, <1>2, <2>1, <2>2 DEF MutexInv
  <2>4. \A u : Alive(u)' <=> Alive(u)
        BY <1>1, <1>2, <2>1, <2>2 DEF Alive
  <2>5. EntryInv'
        BY <1>0, <1>1, <1>2, <2>1, <2>2, <2>4 DEF EntryInv
  <2>6. QED
        BY <2>3, <2>5
<1>5. CASE Unlock(r)
  <2> DEFINE u == loc[r].upload
  <2>1. /\ pc[r] = "unlock" /\ pc'[r] \in {"drop", "done"}
        /\ held' = held \ {loc[r].mutex}
        /\ spoiled \subseteq spoiled'
        /\ pc'[r] = "drop" /\ u \in sessions => u \in spoiled'
        /\ UNCHANGED <<sessions, lockMap>>
        BY <1>0, <1>5 DEF Unlock, Goto
  <2>2. ~Working(r) /\ ~Working(r)' /\ InCS(r) /\ ~InCS(r)' /\ HasUpload(r)
        BY <2>1 DEF HasUpload, InCS, Working, WorkLabels
  <2>3. MutexInv'
        BY <1>0, <1>1, <1>2, <2>1, <2>2 DEF MutexInv
  <2>4. \A v : Alive(v)' <=> Alive(v)
        BY <1>1, <1>2, <2>1, <2>2 DEF Alive
  <2>5. pc'[r] = "drop" /\ u \notin spoiled' => ~Alive(u)
    <3> SUFFICES ASSUME pc'[r] = "drop", u \notin spoiled', Alive(u) PROVE FALSE
        OBVIOUS
    <3>1. PICK q \in Req : Working(q) /\ loc[q].upload = u
          BY <2>1 DEF Alive
    <3>2. loc[q].mutex = lockMap[u] /\ loc[r].mutex = lockMap[u] /\ InCS(q)
          BY <1>0, <2>1, <2>2, <3>1 DEF EntryInv, HasUpload, InCS
    <3>3. q = r
          BY <1>0, <2>2, <3>2 DEF MutexInv
    <3>4. QED
          BY <2>2, <3>1, <3>3
  <2>6. EntryInv'
        BY <1>0, <1>1, <1>2, <2>1, <2>2, <2>4, <2>5 DEF EntryInv
  <2>7. QED
        BY <2>3, <2>6
<1>6. CASE DropLock(r)
  <2> DEFINE u == loc[r].upload
  <2>1. /\ pc[r] = "drop" /\ pc'[r] = "done"
        /\ lockMap' = [lockMap EXCEPT ![u] = NoReq]
        /\ UNCHANGED <<sessions, held, spoiled>>
        BY <1>0, <1>6 DEF DropLock, Goto
  <2>2. ~Working(r) /\ ~Working(r)' /\ HasUpload(r) /\ ~HasUpload(r)'
        /\ ~InCS(r) /\ ~InCS(r)'
        BY <2>1 DEF HasUpload, InCS, Working, WorkLabels
  <2>3. MutexInv'
        BY <1>0, <1>1, <1>2, <2>1, <2>2 DEF MutexInv
  <2>4. \A v : Alive(v)' <=> Alive(v)
        BY <1>1, <1>2, <2>1, <2>2 DEF Alive
  <2>5. Alive(u) => u \in spoiled
        BY <1>0, <2>1, <2>2 DEF EntryInv
  <2>6. \A v : v # u => lockMap'[v] = lockMap[v]
        BY <1>0, <2>1 DEF TypeInv, TypeOK
  <2>7. EntryInv'
        BY <1>0, <1>1, <1>2, <2>1, <2>2, <2>4, <2>5, <2>6 DEF EntryInv
  <2>8. QED
        BY <2>3, <2>7
<1>7. CASE Inner(r)
  <2>1. /\ UNCHANGED <<lockMap, held, spoiled>>
        /\ InCS(r)' <=> InCS(r)
        /\ HasUpload(r)' => HasUpload(r)
        /\ HasUpload(r)' /\ HasUpload(r) => pc'[r] # "drop"
        BY <1>7 DEF Inner, HasUpload, InCS, Working, WorkLabels
  <2>2. MutexInv'
        BY <1>0, <1>1, <1>2, <2>1 DEF MutexInv
  <2>3. \A v : Alive(v)' => Alive(v)
        BY <1>1, <1>2, <1>7 DEF Inner, Alive
  <2>4. EntryInv'
        BY <1>0, <1>1, <1>2, <2>1, <2>3 DEF EntryInv
  <2>5. QED
        BY <2>2, <2>4
<1>8. QED
      BY <1>0, <1>4, <1>5, <1>6, <1>7, StepShape

(* So does every other step.                                                   *)
LEMMA StepKeepsExclusion ==
    ExclusionInv /\ [Next]_vars => MutexInv' /\ EntryInv'
<1> SUFFICES ASSUME ExclusionInv, [Next]_vars PROVE MutexInv' /\ EntryInv'
    OBVIOUS
<1> USE DEF disk, locks, history
<1>0. pc \in [Req -> Labels] /\ loc \in [Req -> Locals] /\ TypeInv
      /\ MutexInv /\ EntryInv
      BY DEF ExclusionInv, TypeInv, TypeOK
<1>1. ASSUME NEW r \in Req, pc[r] = "new",
             pc'[r] \in {"done", "monoCopy"},
             \A q \in Req \ {r} : pc'[q] = pc[q] /\ loc'[q] = loc[q],
             UNCHANGED <<sessions, lockMap, held, spoiled>>
      PROVE  MutexInv' /\ EntryInv'
  <2>1. ~Working(r) /\ ~Working(r)' /\ ~HasUpload(r) /\ ~HasUpload(r)'
        /\ ~InCS(r) /\ ~InCS(r)'
        BY <1>1 DEF HasUpload, InCS, Working, WorkLabels
  <2>2. \A q \in Req \ {r} : /\ Working(q)' <=> Working(q)
                             /\ InCS(q)' <=> InCS(q)
                             /\ HasUpload(q)' <=> HasUpload(q)
        BY <1>1 DEF HasUpload, InCS, Working
  <2>3. MutexInv'
        BY <1>0, <1>1, <2>1, <2>2 DEF MutexInv
  <2>4. \A v : Alive(v)' <=> Alive(v)
        BY <1>1, <2>1, <2>2 DEF Alive
  <2>5. EntryInv'
        BY <1>0, <1>1, <2>1, <2>2, <2>4 DEF EntryInv
  <2>6. QED
        BY <2>3, <2>5
<1>2. ASSUME NEW r \in Req, NEW c \in Declared, Mount(r, c)
      PROVE  MutexInv' /\ EntryInv'
      BY <1>0, <1>1, <1>2 DEF Mount, Goto
<1>3. ASSUME NEW r \in Req, MonoCreate(r) PROVE MutexInv' /\ EntryInv'
      BY <1>0, <1>1, <1>3 DEF MonoCreate, Goto
<1>4. ASSUME NEW r \in Req, NEW u \in Upload, NEW b, NEW d,
             NEW m \in {"PATCH", "PUT"}, Arrive(r, u, m, b, d)
      PROVE  MutexInv' /\ EntryInv'
  <2>1. /\ pc[r] = "new" /\ pc'[r] = "lock"
        /\ loc'[r].upload = u /\ loc'[r].mutex = lockMap'[u]
        /\ \A q \in Req \ {r} : pc'[q] = pc[q] /\ loc'[q] = loc[q]
        /\ UNCHANGED <<sessions, held, spoiled>>
        BY <1>0, <1>4 DEF Arrive, Goto, Frame
  <2>2. /\ lockMap[u] # NoReq => lockMap' = lockMap
        /\ \A v \in Upload \ {u} : lockMap'[v] = lockMap[v]
        BY <1>0, <1>4 DEF Arrive, TypeInv, TypeOK
  <2>3. ~Working(r) /\ ~Working(r)' /\ ~HasUpload(r) /\ ~InCS(r) /\ ~InCS(r)'
        BY <2>1 DEF HasUpload, InCS, Working, WorkLabels
  <2>4. \A q \in Req \ {r} : /\ Working(q)' <=> Working(q)
                             /\ InCS(q)' <=> InCS(q)
                             /\ HasUpload(q)' <=> HasUpload(q)
        BY <2>1 DEF HasUpload, InCS, Working
  <2>5. MutexInv'
        BY <1>0, <2>1, <2>3, <2>4 DEF MutexInv
  <2>6. \A v : Alive(v)' <=> Alive(v)
        BY <2>1, <2>3, <2>4 DEF Alive
  <2>7. ASSUME NEW q \in Req \ {r}, HasUpload(q), loc[q].upload \notin spoiled,
               Alive(loc[q].upload)
        PROVE  loc[q].mutex = lockMap'[loc[q].upload] /\ pc[q] # "drop"
    <3>1. loc[q].mutex = lockMap[loc[q].upload] /\ pc[q] # "drop"
          BY <1>0, <2>7 DEF EntryInv
    <3>2. loc[q].mutex \in Req /\ loc[q].upload \in Upload
          BY <1>0, <2>7 DEF TypeInv, TypeOK, LocalsOK, RequestOK
    <3>3. lockMap[loc[q].upload] # NoReq
          BY <3>1, <3>2, SentinelAssumption
    <3>4. QED
          BY <2>2, <3>1, <3>2, <3>3
  <2>8. EntryInv'
        BY <2>1, <2>3, <2>4, <2>6, <2>7 DEF EntryInv
  <2>9. QED
        BY <2>5, <2>8
<1>5. ASSUME NEW r \in Req, ArrivePatch(r) \/ ArrivePut(r)
      PROVE  MutexInv' /\ EntryInv'
      BY <1>4, <1>5 DEF ArrivePatch, ArrivePut
<1>6. ASSUME NEW u \in Upload, CreateUpload(u) PROVE MutexInv' /\ EntryInv'
  <2>1. UNCHANGED <<pc, loc, lockMap, held, spoiled>>
        BY <1>6 DEF CreateUpload
  <2>2. \A r \in Req : /\ Working(r)' <=> Working(r)
                       /\ InCS(r)' <=> InCS(r)
                       /\ HasUpload(r)' <=> HasUpload(r)
        BY <2>1 DEF HasUpload, InCS, Working
  <2>3. \A r \in Req : HasUpload(r) => loc[r].upload # u
        BY <1>0, <1>6 DEF CreateUpload, TypeInv, LocalsOK, RequestOK
  <2>4. \A v : Alive(v)' => Alive(v) \/ v = u
        BY <1>6, <2>1, <2>2 DEF CreateUpload, Alive
  <2>5. QED
        BY <1>0, <2>1, <2>2, <2>3, <2>4 DEF MutexInv, EntryInv
<1>7. CASE GCStep
  <2>1. UNCHANGED <<lockMap, held, spoiled>> /\ sessions' \subseteq sessions
        BY <1>7 DEF GCStep, GCList, GCDeleteUpload, GCRemoveTempFile
  <2>2. \A q \in Req : /\ pc'[q] = pc[q] /\ loc'[q].upload = loc[q].upload
                       /\ loc'[q].mutex = loc[q].mutex
        BY <1>0, <1>7, OutsideKeeps DEF SameRequest
  <2>3. \A r \in Req : /\ Working(r)' <=> Working(r)
                       /\ InCS(r)' <=> InCS(r)
                       /\ HasUpload(r)' <=> HasUpload(r)
        BY <2>2 DEF HasUpload, InCS, Working
  <2>4. \A v : Alive(v)' => Alive(v)
        BY <2>1, <2>2, <2>3 DEF Alive
  <2>5. QED
        BY <1>0, <2>1, <2>2, <2>3, <2>4 DEF MutexInv, EntryInv
<1>8. CASE Crash
  <2>1. \A r \in Req : ~HasUpload(r)' /\ ~InCS(r)'
        BY <1>0, <1>8 DEF Crash, HasUpload, InCS, Working, WorkLabels
  <2>2. QED
        BY <2>1 DEF MutexInv, EntryInv
<1>9. ASSUME UNCHANGED <<pc, loc, locks, sessions, spoiled>>
      PROVE  MutexInv' /\ EntryInv'
      BY <1>0, <1>9 DEF MutexInv, EntryInv, Alive, HasUpload, InCS, Working
<1>10. ASSUME NEW u \in Upload, Age(u) PROVE MutexInv' /\ EntryInv'
      BY <1>9, <1>10 DEF Age
<1>11. CASE UNCHANGED vars
      BY <1>9, <1>11 DEF vars
<1>12. QED
      BY <1>2, <1>3, <1>5, <1>6, <1>7, <1>8, <1>10, <1>11,
         HandlerKeepsExclusion DEF Next, Quiet

(* The invariant gives exclusion.                                              *)
LEMMA Exclusive == ExclusionInv => ExclusiveWriter
<1> SUFFICES ASSUME ExclusionInv, NEW r \in Req, NEW q \in Req,
                    Working(r), Working(q), loc[r].upload = loc[q].upload,
                    loc[r].upload \notin spoiled
             PROVE  r = q
    BY DEF ExclusiveWriter
<1>1. HasUpload(r) /\ HasUpload(q) /\ InCS(r) /\ InCS(q)
      BY DEF HasUpload, InCS
<1>2. Alive(loc[r].upload)
      BY DEF Alive
<1>3. loc[r].mutex = loc[q].mutex
      BY <1>1, <1>2 DEF ExclusionInv, EntryInv
<1>4. QED
      BY <1>1, <1>3 DEF ExclusionInv, MutexInv

(* The invariant holds in every reachable state.                               *)
LEMMA Exclusion == Spec => []ExclusionInv
<1>1. Init => ExclusionInv
  <2>1. Init => MutexInv /\ EntryInv
        BY DEF Init, MutexInv, EntryInv, HasUpload, InCS, Working, WorkLabels
  <2>2. QED
        BY <2>1, InitTypeInv DEF ExclusionInv
<1>2. ExclusionInv /\ [Next]_vars => ExclusionInv'
      BY StepTypeOK, StepLocalsOK, StepKeepsExclusion DEF ExclusionInv, TypeInv
<1>3. QED
      BY <1>1, <1>2, PTL DEF Spec

(* Whatever requests arrive in whatever order, with collector, faults and      *)
(* crashes: two handlers work on one upload only after a PUT has let go of it  *)
(* while its session was still there.                                          *)
THEOREM UploadExclusion == Spec => []ExclusiveWriter
BY Exclusive, Exclusion, PTL

-----------------------------------------------------------------------------
(* Integrity.                                                                  *)

(* A handler about to send a file to the node keeps that file to itself.       *)
LEMMA FileKept ==
    ASSUME ExclusionInv, spoiled = {}, NEW r \in Req, Lock(r) \/ Step(r),
           NEW q \in Req \ {r}, pc[q] = "add", loc[q].upload \in files'
    PROVE  loc[q].upload \in files /\ content'[loc[q].upload] = content[loc[q].upload]
<1> DEFINE u == loc[q].upload
<1> USE DEF disk
<1>1. TypeInv /\ Working(q) /\ content \in [Upload -> Seq(Block)]
      BY DEF ExclusionInv, TypeInv, TypeOK, Working, WorkLabels
<1>2. Working(r) => loc[r].upload # u
      BY <1>1, Exclusive DEF ExclusiveWriter
<1>3. u \in Upload
      BY <1>1 DEF TypeInv, TypeOK, LocalsOK, RequestOK, HasUpload, InCS
<1>4. CASE OpenFile(r) \/ CopyBlock(r) \/ DropFile(r)
  <2>1. loc[r].upload # u
        BY <1>2, <1>4 DEF OpenFile, CopyBlock, DropFile, Working, WorkLabels
  <2>2. QED
        BY <1>1, <1>3, <1>4, <2>1 DEF OpenFile, CopyBlock, DropFile, RemoveFile
<1>5. CASE ~(OpenFile(r) \/ CopyBlock(r) \/ DropFile(r))
      BY <1>5 DEF Step, Lock, GetUpload, GetRefused, CopyDone, WriteFails,
         SaveSession, Hash, HashFails, DropSession, AddToIPFS, AddFails,
         PutMapping, PutMappingFails, Unlock, DropLock, MonoCopy, MonoAdd, MonoMap
<1>6. QED
      BY <1>4, <1>5

(* Where a handler must be vouched for.                                        *)
Vouching == {"add", "map", "cleanFile", "cleanSession", "monoAdd", "monoMap"}

(* A handler's step leaves every request vouched for, and every mapping true.  *)
LEMMA HandlerKeepsIntegrity ==
    ASSUME ExclusionInv, IntegrityInv, NEW r \in Req, Lock(r) \/ Step(r)
    PROVE  IntegrityInv'
<1> SUFFICES ASSUME spoiled' = {} PROVE Integrity' /\ \A q \in Req : Vouched(q)'
    BY DEF IntegrityInv
<1> USE DEF disk, locks, outside, history
<1>0. TypeInv /\ pc \in [Req -> Labels] /\ loc \in [Req -> Locals]
      BY DEF ExclusionInv, TypeInv, TypeOK
<1>1. spoiled = {} /\ ipfs \subseteq ipfs'
      BY DEF Step, Lock, GetUpload, GetRefused, OpenFile, CopyBlock,
         CopyDone, WriteFails, SaveSession, Hash, HashFails, DropFile,
         DropSession, AddToIPFS, AddFails, PutMapping, PutMappingFails,
         Unlock, DropLock, MonoCopy, MonoAdd, MonoMap
<1>2. Integrity /\ \A q \in Req : Vouched(q)
      BY <1>1 DEF IntegrityInv
<1>3. ASSUME NEW q \in Req \ {r} PROVE Vouched(q)'
  <2>1. /\ pc'[q] = pc[q] /\ loc'[q].want = loc[q].want
        /\ loc'[q].upload = loc[q].upload
        /\ loc'[q].body = loc[q].body /\ loc'[q].cid = loc[q].cid
        BY <1>0, StepKeeps DEF SameRequest
  <2>2. pc[q] = "add" /\ loc[q].upload \in files'
           => DigestOf(content'[loc[q].upload]) = loc[q].want
        BY <1>1, <1>2, FileKept DEF Vouched, Matches
  <2>3. QED
        BY <1>1, <1>2, <2>1, <2>2 DEF Vouched, Matches
<1>4. loc'[r].want = loc[r].want
      BY <1>0, StepKeeps DEF SameRequest
<1> DEFINE Harmless == pc'[r] \notin Vouching
<1>5. Harmless => Vouched(r)'
      BY DEF Vouched, Vouching
<1>6. ASSUME NEW code \in Nat, Respond(r, code) \/ Finish(r, code) PROVE Harmless
      BY <1>0, <1>6 DEF Respond, Finish, Goto, Vouching
<1>7. UNCHANGED <<mappings, announced>> => Integrity'
      BY <1>1, <1>2 DEF Integrity
<1>8. CASE Hash(r)
  <2>1. UNCHANGED <<loc, files, content, mappings, announced>>
        BY <1>8 DEF Hash
  <2>2. (pc'[r] = "add" /\ Matches(r)) \/ pc'[r] = "rejectFile"
        BY <1>0, <1>8 DEF Hash, Goto
  <2>3. QED
        BY <1>3, <1>7, <2>1, <2>2 DEF Vouched, Matches
<1>9. CASE AddToIPFS(r)
  <2> DEFINE c == content[loc[r].upload]
  <2>1. c \in Seq(Block) /\ c \in ipfs' /\ UNCHANGED <<mappings, announced>>
    <3>1. c \in ipfs' /\ UNCHANGED <<mappings, announced>> /\ loc[r].upload \in files
          BY <1>9 DEF AddToIPFS
    <3>2. c \in Seq(Block)
          BY <1>0, <3>1 DEF TypeInv, TypeOK
    <3>3. QED
          BY <3>1, <3>2
  <2>2. loc[r].want = DigestOf(c) /\ pc'[r] = "map"
        BY <1>0, <1>2, <1>9 DEF AddToIPFS, Vouched, Matches, Goto
  <2>3. CIDOf(c) \in CIDs
        BY <2>1 DEF CIDOf, CIDs
  <2>4. loc'[r].cid = CIDOf(c)
        BY <1>0, <1>9, <2>3, SetFieldType DEF AddToIPFS
  <2>5. QED
        BY <1>3, <1>4, <1>7, <2>1, <2>2, <2>4 DEF Vouched
<1>10. ASSUME mappings' \subseteq mappings \cup {NewMapping(r)},
              announced' \subseteq announced \cup {NewMapping(r)},
              pc[r] \in {"map", "cleanSession", "monoMap"}
       PROVE  Integrity'
  <2>1. PICK c \in ipfs : loc[r].cid = CIDOf(c) /\ loc[r].want = DigestOf(c)
        BY <1>2, <1>10 DEF Vouched
  <2>2. QED
        BY <1>1, <1>2, <1>10, <2>1 DEF Integrity, NewMapping
<1>11. CASE PutMapping(r)
  <2>1. /\ pc[r] = "map" /\ pc'[r] = "cleanFile" /\ UNCHANGED <<loc, announced>>
        /\ mappings' \subseteq mappings \cup {NewMapping(r)}
        BY <1>0, <1>11 DEF PutMapping, WithMapping, Goto
  <2>2. Vouched(r)'
        BY <1>1, <1>2, <2>1 DEF Vouched
  <2>3. QED
        BY <1>3, <1>10, <2>1, <2>2
<1>12. CASE MonoMap(r)
  <2>1. Harmless
        BY <1>6, <1>12 DEF MonoMap
  <2>2. /\ pc[r] = "monoMap"
        /\ mappings' \subseteq mappings \cup {NewMapping(r)}
        /\ announced' \subseteq announced \cup {NewMapping(r)}
        BY <1>12 DEF MonoMap, WithMapping, Announce
  <2>3. QED
        BY <1>3, <1>5, <1>10, <2>1, <2>2
<1>13. CASE MonoCopy(r)
  <2>1. UNCHANGED <<mappings, announced>>
        BY <1>13 DEF MonoCopy
  <2>2. CASE Finish(r, 500) \/ Finish(r, 400)
        BY <1>3, <1>5, <1>6, <1>7, <2>1, <2>2
  <2>3. CASE DigestOf(loc[r].body) = loc[r].want /\ Goto(r, "monoAdd")
             /\ UNCHANGED loc
        BY <1>0, <1>3, <1>7, <2>1, <2>3 DEF Vouched, Goto
  <2>4. QED
        BY <1>13, <2>2, <2>3 DEF MonoCopy
<1>14. CASE MonoAdd(r)
  <2> DEFINE c == loc[r].body
  <2>1. UNCHANGED <<mappings, announced>> /\ pc[r] = "monoAdd"
        BY <1>14 DEF MonoAdd
  <2>2. CASE Finish(r, 500)
        BY <1>3, <1>5, <1>6, <1>7, <2>1, <2>2
  <2>3. CASE /\ Goto(r, "monoMap") /\ ipfs' = ipfs \cup {c}
             /\ loc' = [loc EXCEPT ![r].cid = CIDOf(c)]
    <3>1. CIDOf(c) \in CIDs
          BY <1>0, LocalsFields DEF CIDOf, CIDs
    <3>2. loc'[r].cid = CIDOf(c) /\ pc'[r] = "monoMap" /\ c \in ipfs'
          BY <1>0, <2>3, <3>1, SetFieldType DEF Goto
    <3>3. DigestOf(c) = loc[r].want
          BY <1>2, <2>1 DEF Vouched
    <3>4. QED
          BY <1>3, <1>4, <1>7, <2>1, <3>2, <3>3 DEF Vouched
  <2>4. QED
        BY <1>14, <2>2, <2>3 DEF MonoAdd
<1>15. CASE \/ Lock(r) \/ GetUpload(r) \/ OpenFile(r) \/ CopyBlock(r)
            \/ CopyDone(r) \/ Unlock(r) \/ DropLock(r)
  <2>1. Harmless /\ UNCHANGED <<mappings, announced>>
        BY <1>0, <1>15 DEF Lock, GetUpload, OpenFile, CopyBlock, CopyDone,
                           Unlock, DropLock, Goto, Vouching
  <2>2. QED
        BY <1>3, <1>5, <1>7, <2>1
<1>16. CASE \/ GetRefused(r) \/ WriteFails(r) \/ SaveSession(r)
            \/ HashFails(r) \/ AddFails(r) \/ PutMappingFails(r)
  <2>1. UNCHANGED <<mappings, announced>> /\ \E code \in Nat : Respond(r, code)
        BY <1>16 DEF GetRefused, WriteFails, SaveSession, HashFails,
                     AddFails, PutMappingFails
  <2>2. QED
        BY <1>3, <1>5, <1>6, <1>7, <2>1
<1>17. CASE DropFile(r)
  <2>1. /\ UNCHANGED <<mappings, announced>>
        /\ \/ pc'[r] = "rejectSession"
           \/ pc[r] = "cleanFile" /\ pc'[r] = "cleanSession"
        BY <1>0, <1>17 DEF DropFile, Goto
  <2>2. loc' = Detached(loc[r].upload) \/ loc' = loc
        BY <1>17 DEF DropFile, RemoveFile
  <2>3. loc'[r].cid = loc[r].cid
        BY <1>0, <2>2, DetachedType
  <2>4. Vouched(r)'
        BY <1>1, <1>2, <1>4, <2>1, <2>3 DEF Vouched
  <2>5. QED
        BY <1>3, <1>7, <2>1, <2>4
<1>18. CASE DropSession(r)
  <2>1. Harmless
        BY <1>6, <1>18 DEF DropSession
  <2>2. CASE pc[r] = "cleanSession"
    <3>1. mappings' = mappings /\ announced' \subseteq announced \cup {NewMapping(r)}
          BY <1>18, <2>2 DEF DropSession, Announce
    <3>2. QED
          BY <1>3, <1>5, <1>10, <2>1, <2>2, <3>1
  <2>3. CASE pc[r] = "rejectSession"
        BY <1>3, <1>5, <1>7, <1>18, <2>1, <2>3 DEF DropSession
  <2>4. QED
        BY <1>18, <2>2, <2>3 DEF DropSession
<1>19. QED
      BY <1>8, <1>9, <1>11, <1>12, <1>13, <1>14, <1>15, <1>16, <1>17, <1>18
      DEF Step

(* So does every other step.                                                   *)
LEMMA StepKeepsIntegrity ==
    ExclusionInv /\ IntegrityInv /\ [Next]_vars => IntegrityInv'
<1> SUFFICES ASSUME ExclusionInv, IntegrityInv, [Next]_vars, spoiled' = {}
             PROVE  Integrity' /\ \A q \in Req : Vouched(q)'
    BY DEF IntegrityInv
<1> USE DEF disk, locks, outside, history
<1>0. TypeInv /\ pc \in [Req -> Labels] /\ loc \in [Req -> Locals]
      BY DEF ExclusionInv, TypeInv, TypeOK
<1>1. ASSUME UNCHANGED <<mappings, announced, ipfs, spoiled>>, files' \subseteq files,
             \A u \in files' : content'[u] = content[u],
             \A q \in Req :
                 \/ pc'[q] \notin Vouching
                 \/ /\ pc'[q] = pc[q] /\ SameRequest(loc'[q], loc[q])
                    /\ loc'[q].cid = loc[q].cid /\ loc'[q].body = loc[q].body
      PROVE  Integrity' /\ \A q \in Req : Vouched(q)'
  <2>1. Integrity /\ \A q \in Req : Vouched(q)
        BY <1>1 DEF IntegrityInv
  <2>2. Integrity'
        BY <1>1, <2>1 DEF Integrity
  <2>3. ASSUME NEW q \in Req PROVE Vouched(q)'
        BY <1>1, <2>1 DEF Vouched, Vouching, Matches, SameRequest
  <2>4. QED
        BY <2>2, <2>3
<1> DEFINE Done == Integrity' /\ \A q \in Req : Vouched(q)'
<1>2. ASSUME NEW r \in Req, pc'[r] \in {"done", "monoCopy", "lock"},
             \A q \in Req \ {r} : pc'[q] = pc[q] /\ loc'[q] = loc[q],
             UNCHANGED <<mappings, announced, ipfs, spoiled, files, content>>
      PROVE  Done
      BY <1>1, <1>2 DEF SameRequest, Vouching
<1>3. ASSUME NEW r \in Req, NEW c \in Declared, Mount(r, c) PROVE Done
      BY <1>0, <1>2, <1>3 DEF Mount, Goto
<1>4. ASSUME NEW r \in Req, MonoCreate(r) PROVE Done
      BY <1>0, <1>2, <1>4 DEF MonoCreate, Goto
<1>5. ASSUME NEW r \in Req, ArrivePatch(r) \/ ArrivePut(r) PROVE Done
      BY <1>0, <1>2, <1>5 DEF ArrivePatch, ArrivePut, Arrive, Goto
<1>6. ASSUME NEW u \in Upload, CreateUpload(u) \/ Age(u) PROVE Done
      BY <1>1, <1>6 DEF CreateUpload, Age, SameRequest
<1>7. CASE GCStep
  <2>1. /\ UNCHANGED <<mappings, announced, ipfs, spoiled>>
        /\ files' \subseteq files /\ \A u \in files' : content'[u] = content[u]
    <3>1. CASE UNCHANGED <<mappings, announced, ipfs, spoiled, files, content>>
          BY <3>1
    <3>2. CASE RemoveFile(gc.at) /\ UNCHANGED <<mappings, announced, ipfs, spoiled>>
      <4>1. files \subseteq Upload /\ content \in [Upload -> Seq(Block)]
            BY <1>0 DEF TypeInv, TypeOK
      <4>2. QED
            BY <3>2, <4>1 DEF RemoveFile
    <3>3. QED
          BY <1>7, <3>1, <3>2 DEF GCStep, GCList, GCDeleteUpload,
                                  GCRemoveTempFile
  <2>2. QED
        BY <1>0, <1>1, <1>7, <2>1, OutsideKeeps
<1>8. CASE Crash
  <2>1. \A q \in Req : pc'[q] \notin Vouching
        BY <1>0, <1>8 DEF Crash, Vouching
  <2>2. QED
        BY <1>1, <1>8, <2>1 DEF Crash
<1>9. CASE UNCHANGED vars
      BY <1>1, <1>9 DEF vars, SameRequest
<1>10. QED
      BY <1>3, <1>4, <1>5, <1>6, <1>7, <1>8, <1>9, HandlerKeepsIntegrity
      DEF Next, Quiet, IntegrityInv

(* While no PUT has let go of an open upload, every mapping a push stores      *)
(* points at content with the mapping's digest.                                *)
THEOREM PushesAreTrue == Spec => []PushIntegrity
<1>1. Init => IntegrityInv
      BY DEF Init, IntegrityInv, Integrity, Vouched
<1>2. ExclusionInv /\ IntegrityInv /\ [Next]_vars => IntegrityInv'
      BY StepKeepsIntegrity
<1>3. IntegrityInv => PushIntegrity
      BY DEF IntegrityInv, PushIntegrity
<1>4. QED
      BY <1>1, <1>2, <1>3, Exclusion, PTL DEF Spec

-----------------------------------------------------------------------------
(* Durability of what was acknowledged.                                        *)

MappedIn(d, M) == \E m \in M : m.digest = d
NodeHas(cid, N) == \E c \in N : cid = CIDOf(c)

(* A step that only adds to the node, keeps every digest mapped, and settles   *)
(* no 201 for a digest that is not, keeps the invariant.                       *)
LEMMA AckFrame ==
    ASSUME AckInv, ipfs \subseteq ipfs',
           \A d : MappedIn(d, mappings) => MappedIn(d, mappings'),
           \A m \in mappings' \ mappings : NodeHas(m.cid, ipfs'),
           \A q \in Req :
               /\ loc'[q].want = loc[q].want \/ MappedIn(loc'[q].want, mappings')
               /\ pc'[q] \in {"map", "monoMap"} =>
                     \/ NodeHas(loc'[q].cid, ipfs')
                     \/ pc[q] \in {"map", "monoMap"} /\ loc'[q].cid = loc[q].cid
               /\ pc'[q] \in {"cleanFile", "cleanSession"} \/ loc'[q].status = 201 =>
                     \/ MappedIn(loc'[q].want, mappings')
                     \/ pc[q] \in {"cleanFile", "cleanSession"}
                     \/ loc[q].status = 201
    PROVE  AckInv'
BY DEF AckInv, NodeHas, InNode, MappedIn

(* Handlers.                                                                   *)
LEMMA HandlerKeepsAck ==
    ASSUME TypeInv, AckInv, NEW r \in Req, Lock(r) \/ Step(r)
    PROVE  AckInv'
<1> USE DEF disk, locks, outside
<1>0. pc \in [Req -> Labels] /\ loc \in [Req -> Locals]
      BY DEF TypeInv, TypeOK
<1>1. ipfs \subseteq ipfs'
      BY DEF Step, Lock, GetUpload, GetRefused, OpenFile, CopyBlock,
         CopyDone, WriteFails, SaveSession, Hash, HashFails, DropFile,
         DropSession, AddToIPFS, AddFails, PutMapping, PutMappingFails,
         Unlock, DropLock, MonoCopy, MonoAdd, MonoMap
<1>2. \A q \in Req : loc'[q].want = loc[q].want
      BY StepKeeps DEF SameRequest
<1>3. \A q \in Req \ {r} : /\ pc'[q] = pc[q] /\ loc'[q].cid = loc[q].cid
                           /\ loc'[q].status = loc[q].status
      BY StepKeeps
<1>4. CASE PutMapping(r) \/ (MonoMap(r) /\ mappings' # mappings)
  <2>1. mappings' = WithMapping(NewMapping(r)) /\ pc[r] \in {"map", "monoMap"}
        /\ pc'[r] \in {"cleanFile", "done"}
        BY <1>0, <1>4 DEF PutMapping, MonoMap, Finish, Goto
  <2>2. NodeHas(loc[r].cid, ipfs) /\ NodeHas(loc[r].cid, ipfs')
        BY <1>1, <2>1 DEF AckInv, NodeHas, InNode
  <2>3. \A d : MappedIn(d, mappings) => MappedIn(d, mappings')
        BY <2>1 DEF MappedIn, WithMapping
  <2>4. MappedIn(loc[r].want, mappings')
    <3>1. NewMapping(r) \in mappings' /\ NewMapping(r).digest = loc[r].want
          BY <2>1 DEF WithMapping, NewMapping
    <3>2. QED
          BY <3>1 DEF MappedIn
  <2>5. \A m \in mappings' \ mappings : NodeHas(m.cid, ipfs')
        BY <2>1, <2>2 DEF WithMapping, NewMapping, NodeHas, InNode
  <2>6. QED
        BY <1>1, <1>2, <1>3, <2>1, <2>3, <2>4, <2>5, AckFrame
<1>5. ASSUME UNCHANGED mappings,
             pc'[r] \in {"map", "monoMap"} => NodeHas(loc'[r].cid, ipfs'),
             pc'[r] \in {"cleanFile", "cleanSession"} \/ loc'[r].status = 201
                 => pc[r] \in {"cleanFile", "cleanSession"} \/ loc[r].status = 201
      PROVE  AckInv'
  <2>1. \A d : MappedIn(d, mappings) => MappedIn(d, mappings')
        BY <1>5 DEF MappedIn
  <2>2. QED
        BY <1>1, <1>2, <1>3, <1>5, <2>1, AckFrame
<1>6. ASSUME UNCHANGED mappings, NEW code \in Nat,
             Respond(r, code) \/ Finish(r, code),
             code # 201 \/ pc[r] = "cleanSession"
      PROVE  AckInv'
  <2>1. loc'[r].status = code /\ pc'[r] \in {"unlock", "done"}
        BY <1>0, <1>6 DEF Respond, Finish, Returned, Frame, Goto
  <2>2. QED
        BY <1>5, <1>6, <2>1
<1>7. CASE \/ GetRefused(r) \/ WriteFails(r) \/ SaveSession(r)
           \/ HashFails(r) \/ AddFails(r) \/ PutMappingFails(r)
      BY <1>6, <1>7 DEF GetRefused, WriteFails, SaveSession, HashFails,
                        AddFails, PutMappingFails
<1>8. CASE DropSession(r)
      BY <1>6, <1>8 DEF DropSession
<1>9. CASE MonoMap(r) /\ mappings' = mappings
  <2>1. CASE Finish(r, 500)
        BY <1>6, <1>9, <2>1
  <2>2. CASE mappings' = WithMapping(NewMapping(r)) /\ Finish(r, 201)
    <3>1. MappedIn(loc[r].want, mappings)
      <4>1. NewMapping(r) \in mappings /\ NewMapping(r).digest = loc[r].want
            BY <1>9, <2>2 DEF WithMapping, NewMapping
      <4>2. QED
            BY <4>1 DEF MappedIn
    <3>2. pc'[r] = "done"
          BY <1>0, <2>2 DEF Finish, Goto
    <3>3. /\ MappedIn(loc'[r].want, mappings')
          /\ \A d : MappedIn(d, mappings) => MappedIn(d, mappings')
          BY <1>2, <1>9, <3>1 DEF MappedIn
    <3>4. QED
          BY <1>1, <1>2, <1>3, <1>9, <3>2, <3>3, AckFrame
  <2>3. QED
        BY <1>9, <2>1, <2>2 DEF MonoMap
<1>10. CASE MonoCopy(r)
  <2>1. CASE Finish(r, 500) \/ Finish(r, 400)
        BY <1>6, <1>10, <2>1 DEF MonoCopy
  <2>2. CASE Goto(r, "monoAdd") /\ UNCHANGED loc
        BY <1>0, <1>5, <1>10, <2>2 DEF MonoCopy, Goto
  <2>3. QED
        BY <1>10, <2>1, <2>2 DEF MonoCopy
<1>11. CASE MonoAdd(r)
  <2> DEFINE c == loc[r].body
  <2>1. CASE Finish(r, 500)
        BY <1>6, <1>11, <2>1 DEF MonoAdd
  <2>2. CASE /\ Goto(r, "monoMap") /\ ipfs' = ipfs \cup {c}
             /\ loc' = [loc EXCEPT ![r].cid = CIDOf(c)]
    <3>1. CIDOf(c) \in CIDs
          BY <1>0, LocalsFields DEF CIDOf, CIDs
    <3>2. /\ loc'[r].cid = CIDOf(c) /\ loc'[r].status = loc[r].status
          /\ pc'[r] = "monoMap"
          BY <1>0, <2>2, <3>1, SetFieldType DEF Goto
    <3>3. NodeHas(loc'[r].cid, ipfs')
          BY <2>2, <3>2 DEF NodeHas, InNode
    <3>4. QED
          BY <1>5, <1>11, <3>2, <3>3 DEF MonoAdd
  <2>3. QED
        BY <1>11, <2>1, <2>2 DEF MonoAdd
<1>12. CASE AddToIPFS(r)
  <2> DEFINE c == content[loc[r].upload]
  <2>1. loc[r].upload \in files /\ c \in ipfs' /\ UNCHANGED mappings
        BY <1>12 DEF AddToIPFS
  <2>2. c \in Seq(Block)
        BY <2>1 DEF TypeInv, TypeOK
  <2>3. CIDOf(c) \in CIDs
        BY <2>2 DEF CIDOf, CIDs
  <2>4. /\ loc'[r].cid = CIDOf(c) /\ loc'[r].status = loc[r].status
        /\ pc'[r] = "map"
        BY <1>0, <1>12, <2>3, SetFieldType DEF AddToIPFS, Goto
  <2>5. NodeHas(loc'[r].cid, ipfs')
        BY <2>1, <2>4 DEF NodeHas, InNode
  <2>6. QED
        BY <1>5, <2>1, <2>4, <2>5
<1>13. CASE Lock(r) \/ Hash(r) \/ Unlock(r) \/ DropLock(r)
  <2>1. UNCHANGED <<loc, mappings>> /\ pc'[r] \notin {"map", "monoMap",
                                             "cleanFile", "cleanSession"}
        BY <1>0, <1>13 DEF Lock, Hash, Unlock, DropLock, Goto
  <2>2. QED
        BY <1>5, <2>1
<1>14. CASE GetUpload(r)
  <2>1. bytes[loc[r].upload] \in Nat
        BY <1>14 DEF GetUpload, TypeInv, TypeOK
  <2>2. loc'[r].status = loc[r].status
        BY <1>0, <1>14, <2>1, SetFieldType DEF GetUpload
  <2>3. UNCHANGED mappings /\ pc'[r] \in {"hash", "open"}
        BY <1>0, <1>14 DEF GetUpload, Goto
  <2>4. QED
        BY <1>5, <2>2, <2>3
<1>15. CASE OpenFile(r) \/ CopyDone(r)
  <2>1. PICK h \in {"none", "open"} : loc' = [loc EXCEPT ![r].handle = h]
        BY <1>15 DEF OpenFile, CopyDone
  <2>2. loc'[r].status = loc[r].status
        BY <1>0, <2>1, SetFieldType
  <2>3. UNCHANGED mappings /\ pc'[r] \in {"copy", "save", "hash"}
        BY <1>0, <1>15 DEF OpenFile, CopyDone, Goto
  <2>4. QED
        BY <1>5, <2>2, <2>3
<1>16. CASE CopyBlock(r)
  <2>1. loc' = [loc EXCEPT ![r].body = Tail(@), ![r].copied = @ + 1]
        BY <1>16 DEF CopyBlock
  <2>2. loc'[r].status = loc[r].status
        BY <1>0, <2>1 DEF Locals
  <2>3. UNCHANGED mappings /\ pc'[r] = "copy"
        BY <1>16 DEF CopyBlock
  <2>4. QED
        BY <1>5, <2>2, <2>3
<1>17. CASE DropFile(r)
  <2>1. loc' = Detached(loc[r].upload) \/ loc' = loc
        BY <1>17 DEF DropFile, RemoveFile
  <2>2. loc'[r].status = loc[r].status
        BY <1>0, <2>1, DetachedType
  <2>3. /\ UNCHANGED mappings /\ pc'[r] \in {"rejectSession", "cleanSession"}
        /\ pc'[r] = "cleanSession" => pc[r] = "cleanFile"
        BY <1>0, <1>17 DEF DropFile, Goto
  <2>4. QED
        BY <1>5, <2>2, <2>3
<1>18. QED
      BY <1>4, <1>7, <1>8, <1>9, <1>10, <1>11, <1>12, <1>13, <1>14, <1>15,
         <1>16, <1>17 DEF Step

(* Every other step.                                                           *)
LEMMA StepKeepsAck == TypeInv /\ AckInv /\ [Next]_vars => AckInv'
<1> SUFFICES ASSUME TypeInv, AckInv, [Next]_vars PROVE AckInv'
    OBVIOUS
<1> USE DEF disk, locks, outside
<1>0. pc \in [Req -> Labels] /\ loc \in [Req -> Locals]
      BY DEF TypeInv, TypeOK
<1>1. ASSUME UNCHANGED <<mappings, ipfs>>,
             \A q \in Req :
               /\ pc'[q] \in {"map", "monoMap"} =>
                     pc[q] = pc'[q] /\ loc'[q].cid = loc[q].cid
               /\ pc'[q] \in {"cleanFile", "cleanSession"} =>
                     pc[q] = pc'[q] /\ loc'[q].want = loc[q].want
               /\ loc'[q].status = 201 => \/ MappedIn(loc'[q].want, mappings)
                                         \/ /\ loc[q].status = 201
                                            /\ loc'[q].want = loc[q].want
      PROVE  AckInv'
      BY <1>1 DEF AckInv, NodeHas, InNode, MappedIn
<1>2. ASSUME NEW r \in Req, NEW c \in Declared, Mount(r, c) PROVE AckInv'
  <2>1. /\ pc'[r] = "done" /\ loc'[r].want = DigestOf(c) /\ MappedIn(DigestOf(c), mappings)
        /\ \A q \in Req \ {r} : pc'[q] = pc[q] /\ loc'[q] = loc[q]
        /\ UNCHANGED <<mappings, ipfs>>
        BY <1>0, <1>2 DEF Mount, Goto, Frame, MappedIn
  <2>2. QED
        BY <1>1, <2>1
<1>3. ASSUME NEW r \in Req, ArrivePatch(r) \/ ArrivePut(r) \/ MonoCreate(r)
      PROVE  AckInv'
  <2>1. /\ pc'[r] \in {"lock", "monoCopy"} /\ loc'[r].status = 0
        /\ \A q \in Req \ {r} : pc'[q] = pc[q] /\ loc'[q] = loc[q]
        /\ UNCHANGED <<mappings, ipfs>>
        BY <1>0, <1>3 DEF ArrivePatch, ArrivePut, Arrive, MonoCreate, Goto, Frame
  <2>2. QED
        BY <1>1, <2>1
<1>4. ASSUME NEW u \in Upload, CreateUpload(u) \/ Age(u) PROVE AckInv'
      BY <1>1, <1>4 DEF CreateUpload, Age
<1>5. CASE GCStep
  <2>1. UNCHANGED <<mappings, ipfs>>
        BY <1>5 DEF GCStep, GCList, GCDeleteUpload, GCRemoveTempFile
  <2>2. QED
        BY <1>1, <1>5, <2>1, OutsideKeeps DEF SameRequest
<1>6. CASE Crash
  <2>1. /\ UNCHANGED <<mappings, ipfs>>
        /\ \A q \in Req : \/ pc'[q] = "dead" /\ loc'[q].status = 0
                          \/ pc'[q] = pc[q] /\ loc'[q] = loc[q]
        BY <1>0, <1>6 DEF Crash, Returned, Frame
  <2>2. QED
        BY <1>1, <2>1
<1>7. CASE UNCHANGED vars
      BY <1>1, <1>7 DEF vars
<1>8. QED
      BY <1>2, <1>3, <1>4, <1>5, <1>6, <1>7, HandlerKeepsAck DEF Next, Quiet

(* A push answered 201 stays mapped to a CID the node has, through every       *)
(* fault, crash and concurrent upload.                                         *)
THEOREM AcknowledgedPushesAreStored == Spec => []AckedIsStored
<1>1. Init => AckInv
      BY DEF Init, AckInv, Frame
<1>2. TypeInv /\ AckInv /\ [Next]_vars => AckInv'
      BY StepKeepsAck
<1>3. AckInv => AckedIsStored
      BY DEF AckInv, AckedIsStored
<1>4. ExclusionInv => TypeInv
      BY DEF ExclusionInv
<1>5. QED
      BY <1>1, <1>2, <1>3, <1>4, Exclusion, PTL DEF Spec

-----------------------------------------------------------------------------
(* Closed uploads.                                                             *)

MonoLabels == {"monoCopy", "monoAdd", "monoMap"}

(* Why a closed upload stays closed: once a PUT is done with an upload whose   *)
(* session it left behind deleted, nobody works on that upload any more; only  *)
(* who works on it could store its session again, and its UUID is not handed   *)
(* out a second time. A handler that waits for the mutex finds no session.     *)
Closed(r) ==
    /\ pc[r] = "done" /\ loc[r].method = "PUT" /\ loc[r].upload \notin spoiled
          => loc[r].upload \in issued /\ ~Alive(loc[r].upload)
    /\ pc[r] \in MonoLabels => loc[r].method # "PUT"

ClosedInv == \A r \in Req : Closed(r)

(* The steps of a handler.                                                     *)
LEMMA HandlerKeepsClosed ==
    ASSUME ExclusionInv, ClosedInv, NEW r \in Req, Lock(r) \/ Step(r)
    PROVE  ClosedInv'
<1> USE DEF disk, locks, history
<1>0. pc \in [Req -> Labels] /\ loc \in [Req -> Locals] /\ TypeInv /\ EntryInv
      BY DEF ExclusionInv, TypeInv, TypeOK
<1>1. /\ \A q \in Req : /\ loc'[q].upload = loc[q].upload
                        /\ loc'[q].method = loc[q].method
      /\ \A q \in Req \ {r} : pc'[q] = pc[q]
      BY <1>0, StepKeeps DEF SameRequest
<1>2. \A q \in Req \ {r} : Working(q)' <=> Working(q)
      BY <1>1 DEF Working
<1>3. /\ spoiled \subseteq spoiled' /\ UNCHANGED issued
      /\ \A u : Alive(u)' => Alive(u)
  <2>1. CASE Lock(r) \/ Unlock(r) \/ DropLock(r)
    <3>1. UNCHANGED <<sessions, issued>> /\ spoiled \subseteq spoiled'
          BY <2>1 DEF Lock, Unlock, DropLock
    <3>2. ~Working(r)'
          BY <1>0, <2>1 DEF Lock, Unlock, DropLock, Goto, Working, WorkLabels
    <3>3. QED
          BY <1>1, <1>2, <3>1, <3>2 DEF Alive
  <2>2. CASE Inner(r)
        BY <1>1, <1>2, <2>2 DEF Inner, Alive
  <2>3. QED
        BY <1>0, <2>1, <2>2, StepShape
<1>4. ASSUME NEW q \in Req, pc[q] = "done" \/ pc'[q] # "done",
             pc[q] \in MonoLabels \/ pc'[q] \notin MonoLabels
      PROVE  Closed(q)'
      BY <1>1, <1>3, <1>4 DEF ClosedInv, Closed, MonoLabels
<1>5. \A q \in Req \ {r} : Closed(q)'
      BY <1>1, <1>4
<1>6. CASE DropLock(r)
  <2>1. pc[r] = "drop" /\ pc'[r] = "done"
        BY <1>0, <1>6 DEF DropLock, Goto
  <2>2. HasUpload(r)
        BY <2>1 DEF HasUpload
  <2>3. loc[r].upload \in issued
        BY <1>0, <2>2 DEF TypeInv, LocalsOK, RequestOK
  <2>4. loc[r].upload \notin spoiled => ~Alive(loc[r].upload)
        BY <1>0, <2>1, <2>2 DEF EntryInv
  <2>5. Closed(r)'
        BY <1>1, <1>3, <2>1, <2>3, <2>4 DEF Closed, MonoLabels
  <2>6. QED
        BY <1>5, <2>5 DEF ClosedInv
<1>7. CASE Unlock(r)
  <2>1. pc'[r] = IF loc[r].method = "PUT" THEN "drop" ELSE "done"
        BY <1>0, <1>7 DEF Unlock, Goto
  <2>2. Closed(r)'
        BY <1>1, <2>1 DEF Closed, MonoLabels
  <2>3. QED
        BY <1>5, <2>2 DEF ClosedInv
<1>8. CASE MonoCopy(r) \/ MonoAdd(r) \/ MonoMap(r)
  <2>1. pc[r] \in MonoLabels
        BY <1>8 DEF MonoCopy, MonoAdd, MonoMap, MonoLabels
  <2>2. loc'[r].method # "PUT"
        BY <1>1, <2>1 DEF ClosedInv, Closed
  <2>3. Closed(r)'
        BY <2>2 DEF Closed
  <2>4. QED
        BY <1>5, <2>3 DEF ClosedInv
<1>9. CASE \/ Lock(r) \/ GetUpload(r) \/ GetRefused(r) \/ OpenFile(r)
           \/ CopyBlock(r) \/ CopyDone(r) \/ WriteFails(r) \/ SaveSession(r)
           \/ Hash(r) \/ HashFails(r)
  <2>1. pc'[r] # "done" /\ pc'[r] \notin MonoLabels
        BY <1>0, <1>9 DEF Lock, GetUpload, GetRefused, OpenFile, CopyBlock,
           CopyDone, WriteFails, SaveSession, Hash, HashFails, Respond, Goto,
           MonoLabels
  <2>2. QED
        BY <1>4, <1>5, <2>1 DEF ClosedInv
<1>10. CASE \/ DropFile(r) \/ DropSession(r) \/ AddToIPFS(r) \/ AddFails(r)
            \/ PutMapping(r) \/ PutMappingFails(r)
  <2>1. pc'[r] # "done" /\ pc'[r] \notin MonoLabels
        BY <1>0, <1>10 DEF DropFile, DropSession, AddToIPFS, AddFails,
           PutMapping, PutMappingFails, Respond, Goto, MonoLabels
  <2>2. QED
        BY <1>4, <1>5, <2>1 DEF ClosedInv
<1>11. QED
      BY <1>6, <1>7, <1>8, <1>9, <1>10 DEF Step

(* Every other step.                                                           *)
LEMMA StepKeepsClosed == ExclusionInv /\ ClosedInv /\ [Next]_vars => ClosedInv'
<1> SUFFICES ASSUME ExclusionInv, ClosedInv, [Next]_vars PROVE ClosedInv'
    OBVIOUS
<1> USE DEF disk, locks, history
<1>0. pc \in [Req -> Labels] /\ loc \in [Req -> Locals] /\ TypeInv
      BY DEF ExclusionInv, TypeInv, TypeOK
<1>1. ASSUME issued \subseteq issued', UNCHANGED spoiled,
             \A u \in issued : Alive(u)' => Alive(u),
             \A q \in Req : \/ pc'[q] = pc[q] /\ SameRequest(loc'[q], loc[q])
                            \/ pc'[q] = "dead"
                            \/ Closed(q)'
      PROVE  ClosedInv'
  <2> SUFFICES ASSUME NEW q \in Req PROVE Closed(q)'
      BY DEF ClosedInv
  <2>1. CASE pc'[q] = pc[q] /\ SameRequest(loc'[q], loc[q])
        BY <1>1, <2>1 DEF ClosedInv, Closed, SameRequest
  <2>2. CASE pc'[q] = "dead"
        BY <2>2 DEF Closed, MonoLabels
  <2>3. QED
        BY <1>1, <2>1, <2>2
<1>2. ASSUME NEW r \in Req, pc[r] = "new", pc'[r] \notin WorkLabels, Closed(r)',
             \A q \in Req \ {r} : pc'[q] = pc[q] /\ loc'[q] = loc[q],
             UNCHANGED <<issued, spoiled, sessions>>
      PROVE  ClosedInv'
  <2>1. \A u : Alive(u)' => Alive(u)
        BY <1>2 DEF Alive, Working
  <2>2. QED
        BY <1>1, <1>2, <2>1 DEF SameRequest
<1>3. ASSUME NEW r \in Req, NEW c \in Declared, Mount(r, c) PROVE ClosedInv'
  <2>1. pc'[r] = "done" /\ loc'[r].method = "MOUNT"
        BY <1>0, <1>3 DEF Mount, Goto, Frame
  <2>2. Closed(r)'
        BY <2>1 DEF Closed, MonoLabels
  <2>3. QED
        BY <1>0, <1>2, <1>3, <2>1, <2>2 DEF Mount, Goto, WorkLabels
<1>4. ASSUME NEW r \in Req, ArrivePatch(r) \/ ArrivePut(r) PROVE ClosedInv'
  <2>1. pc'[r] = "lock"
        BY <1>0, <1>4 DEF ArrivePatch, ArrivePut, Arrive, Goto
  <2>2. Closed(r)'
        BY <2>1 DEF Closed, MonoLabels
  <2>3. QED
        BY <1>0, <1>2, <1>4, <2>1, <2>2
        DEF ArrivePatch, ArrivePut, Arrive, Goto, WorkLabels
<1>5. ASSUME NEW r \in Req, MonoCreate(r) PROVE ClosedInv'
  <2>1. pc'[r] = "monoCopy" /\ loc'[r].method = "MONO"
        BY <1>0, <1>5 DEF MonoCreate, Goto, Frame
  <2>2. Closed(r)'
        BY <2>1 DEF Closed
  <2>3. QED
        BY <1>0, <1>2, <1>5, <2>1, <2>2 DEF MonoCreate, Goto, WorkLabels
<1>6. ASSUME NEW u \in Upload, CreateUpload(u) \/ Age(u) PROVE ClosedInv'
  <2>1. /\ UNCHANGED <<pc, loc, spoiled>> /\ issued \subseteq issued'
        /\ \A v \in issued : v \in sessions' => v \in sessions
        BY <1>6 DEF CreateUpload, Age
  <2>2. \A v \in issued : Alive(v)' => Alive(v)
        BY <2>1 DEF Alive, Working
  <2>3. QED
        BY <1>1, <2>1, <2>2 DEF SameRequest
<1>7. CASE GCStep
  <2>1. UNCHANGED <<issued, spoiled>> /\ sessions' \subseteq sessions
        BY <1>7 DEF GCStep, GCList, GCDeleteUpload, GCRemoveTempFile
  <2>2. \A q \in Req : pc'[q] = pc[q] /\ SameRequest(loc'[q], loc[q])
        BY <1>0, <1>7, OutsideKeeps
  <2>3. \A u : Alive(u)' => Alive(u)
        BY <2>1, <2>2 DEF Alive, Working, SameRequest
  <2>4. QED
        BY <1>1, <2>1, <2>2, <2>3
<1>8. CASE Crash
  <2>1. UNCHANGED <<issued, spoiled, sessions>>
        BY <1>8 DEF Crash
  <2>2. \A q \in Req : pc'[q] = "dead" \/ (pc'[q] = pc[q] /\ ~Working(q)')
        BY <1>0, <1>8 DEF Crash, Working, WorkLabels
  <2>3. \A q \in Req : SameRequest(loc'[q], loc[q])
        BY <1>0, <1>8, OutsideKeeps
  <2>4. \A u : Alive(u)' => Alive(u)
        BY <2>1, <2>2 DEF Alive, Working, WorkLabels
  <2>5. QED
        BY <1>1, <2>1, <2>2, <2>3, <2>4
<1>9. CASE UNCHANGED vars
      BY <1>9 DEF vars, ClosedInv, Closed, Alive, Working
<1>10. QED
      BY <1>3, <1>4, <1>5, <1>6, <1>7, <1>8, <1>9, HandlerKeepsClosed
      DEF Next, Quiet

(* An upload a PUT closed with 201 never has a session again, unless that PUT  *)
(* itself could not delete it; whatever chunks waited for its mutex.           *)
THEOREM ClosedUploadsStayClosed == Spec => []ClosedStaysClosed
<1>1. Init => ClosedInv
      BY DEF Init, ClosedInv, Closed, MonoLabels
<1>2. ExclusionInv /\ ClosedInv /\ [Next]_vars => ClosedInv'
      BY StepKeepsClosed
<1>3. ClosedInv => ClosedStaysClosed
      BY DEF ClosedInv, Closed, ClosedStaysClosed, Alive
<1>4. QED
      BY <1>1, <1>2, <1>3, Exclusion, PTL DEF Spec

-----------------------------------------------------------------------------
(* The range PATCH answers.                                                    *)

(* Why BytesWritten never exceeds the file: what a handler read there, with    *)
(* the blocks it has copied since, is in the file it has open, which only      *)
(* grows until somebody removes it; who else writes to it meanwhile does not   *)
(* matter.                                                                     *)
Backed(r) ==
    /\ pc[r] \in {"lock", "get"} => loc[r].copied = 0
    /\ pc[r] \in {"open", "copy", "save"} /\ loc[r].upload \notin removed
          => loc[r].seen + loc[r].copied <= Len(content[loc[r].upload])
    /\ pc[r] = "copy" /\ loc[r].upload \notin removed
          => loc[r].handle = "open"

RangeInv ==
    /\ \A u \in Upload \ removed : bytes[u] <= Len(content[u])
    /\ \A r \in Req : Backed(r)

(* Files that are not removed do not shrink.                                   *)
Growing == /\ removed \subseteq removed'
           /\ \A u \in Upload \ removed' : Len(content[u]) <= Len(content'[u])

(* What a handler counts on is where it was.                                   *)
Unmoved(q) ==
    /\ pc'[q] = pc[q] /\ loc'[q].upload = loc[q].upload
    /\ loc'[q].seen = loc[q].seen /\ loc'[q].copied = loc[q].copied
    /\ loc[q].upload \notin removed' => loc'[q].handle = loc[q].handle

(* As long as files only grow, a handler that has not moved is still backed.   *)
LEMMA StillBacked ==
    ASSUME TypeInv, TypeOK', RangeInv, Growing, NEW q \in Req, Unmoved(q)
    PROVE  Backed(q)'
<1>1. loc[q] \in Locals /\ Backed(q)
      BY DEF TypeInv, TypeOK, RangeInv
<1>2. loc[q].seen + loc[q].copied \in Nat
      BY <1>1, LocalsFields
<1>3. ASSUME pc[q] \in {"open", "copy", "save"}, loc[q].upload \notin removed'
      PROVE  loc[q].seen + loc[q].copied <= Len(content'[loc[q].upload])
  <2>1. loc[q].upload \in Upload
        BY <1>3 DEF TypeInv, TypeOK, LocalsOK, RequestOK, HasUpload, InCS, Working,
                    WorkLabels
  <2>2. Len(content[loc[q].upload]) \in Nat /\ Len(content'[loc[q].upload]) \in Nat
        BY <2>1 DEF TypeInv, TypeOK
  <2>3. Len(content[loc[q].upload]) <= Len(content'[loc[q].upload])
        BY <1>3, <2>1 DEF Growing
  <2>4. loc[q].seen + loc[q].copied <= Len(content[loc[q].upload])
        BY <1>1, <1>3 DEF Backed, Growing
  <2>5. QED
        BY <1>2, <2>2, <2>3, <2>4
<1>4. QED
      BY <1>1, <1>3 DEF Backed, Unmoved, Growing

(* So a step that stores no session only has to care for who moves.            *)
LEMMA RangeFrame ==
    ASSUME TypeInv, TypeOK', RangeInv, Growing, UNCHANGED bytes,
           \A q \in Req : Unmoved(q) \/ Backed(q)'
    PROVE  RangeInv'
<1>1. \A q \in Req : Backed(q)'
      BY StillBacked
<1>2. ASSUME NEW u \in Upload \ removed' PROVE bytes'[u] <= Len(content'[u])
  <2>1. /\ bytes[u] \in Nat /\ Len(content[u]) \in Nat /\ Len(content'[u]) \in Nat
        BY DEF TypeInv, TypeOK
  <2>2. bytes[u] <= Len(content[u]) /\ Len(content[u]) <= Len(content'[u])
        BY DEF RangeInv, Growing
  <2>3. QED
        BY <2>1, <2>2
<1>3. QED
      BY <1>1, <1>2 DEF RangeInv

(* Removing a file: only its own upload is affected.                           *)
LEMMA RemovalUnmoved ==
    ASSUME TypeInv, NEW u \in Upload,
           RemoveFile(u) \/ UNCHANGED <<content, removed, loc>>
    PROVE  Growing /\ \A q \in Req : pc'[q] = pc[q] => Unmoved(q)
<1>0. loc \in [Req -> Locals] /\ content \in [Upload -> Seq(Block)]
      BY DEF TypeInv, TypeOK
<1>1. \A v \in Upload : Len(content[v]) \in Nat
      BY <1>0
<1>2. CASE RemoveFile(u)
  <2>1. removed' = removed \cup {u} /\ loc' = Detached(u)
        /\ \A v \in Upload \ {u} : content'[v] = content[v]
        BY <1>0, <1>2 DEF RemoveFile
  <2>2. Growing
        BY <1>1, <2>1 DEF Growing
  <2>3. \A q \in Req : loc[q].upload # u => loc'[q] = loc[q]
        BY <1>0, <2>1 DEF Detached
  <2>4. QED
        BY <1>0, <2>1, <2>2, <2>3, DetachedType DEF Unmoved, SameRequest
<1>3. CASE UNCHANGED <<content, removed, loc>>
      BY <1>1, <1>3 DEF Growing, Unmoved
<1>4. QED
      BY <1>2, <1>3

(* The steps of a handler.                                                     *)
LEMMA HandlerKeepsRange ==
    ASSUME TypeInv, TypeOK', RangeInv, NEW r \in Req, Lock(r) \/ Step(r)
    PROVE  RangeInv'
<1> USE DEF disk, locks, history
<1>0. /\ pc \in [Req -> Labels] /\ loc \in [Req -> Locals]
      /\ content \in [Upload -> Seq(Block)] /\ loc[r] \in Locals
      /\ \A u \in Upload : Len(content[u]) \in Nat /\ bytes[u] \in Nat
      /\ pc[r] \in WorkLabels \cup {"get"} => loc[r].upload \in Upload
      BY DEF TypeInv, TypeOK, LocalsOK, RequestOK, HasUpload, InCS, Working
<1>1. ASSUME UNCHANGED <<bytes, content, removed>>, Backed(r)',
             \A q \in Req \ {r} : pc'[q] = pc[q] /\ loc'[q] = loc[q]
      PROVE  RangeInv'
  <2>1. Growing
        BY <1>0, <1>1 DEF Growing
  <2>2. QED
        BY <1>1, <2>1, RangeFrame DEF Unmoved
<1>2. CASE Lock(r)
  <2>1. /\ pc[r] = "lock" /\ pc'[r] = "get" /\ loc' = loc
        /\ \A q \in Req \ {r} : pc'[q] = pc[q]
        /\ UNCHANGED <<bytes, content, removed>>
        BY <1>0, <1>2 DEF Lock, Goto
  <2>2. Backed(r)'
        BY <2>1 DEF RangeInv, Backed
  <2>3. QED
        BY <1>1, <2>1, <2>2
<1>3. CASE GetUpload(r)
  <2> DEFINE u == loc[r].upload
  <2>1. pc[r] = "get" /\ u \in Upload /\ bytes[u] \in Nat
        BY <1>0, <1>3 DEF GetUpload
  <2>2. /\ loc' = [loc EXCEPT ![r].seen = bytes[u]]
        /\ UNCHANGED <<bytes, content, removed>> /\ pc'[r] \in {"hash", "open"}
        /\ \A q \in Req \ {r} : pc'[q] = pc[q]
        BY <1>0, <1>3 DEF GetUpload, Goto
  <2>3. loc'[r].seen = bytes[u] /\ loc'[r].upload = u /\ loc'[r].copied = 0
        BY <1>0, <2>1, <2>2 DEF RangeInv, Backed, Locals
  <2>4. u \notin removed => bytes[u] <= Len(content[u])
        BY <2>1 DEF RangeInv
  <2>5. Backed(r)'
        BY <2>1, <2>2, <2>3, <2>4 DEF Backed
  <2>6. QED
        BY <1>0, <1>1, <2>2, <2>5
<1>4. CASE OpenFile(r)
  <2>1. /\ pc[r] = "open" /\ pc'[r] = "copy"
        /\ loc' = [loc EXCEPT ![r].handle = "open"]
        /\ \A q \in Req \ {r} : pc'[q] = pc[q] /\ loc'[q] = loc[q]
        /\ UNCHANGED <<bytes, content, removed>>
        BY <1>0, <1>4 DEF OpenFile, Goto
  <2>2. /\ loc'[r].seen = loc[r].seen /\ loc'[r].copied = loc[r].copied
        /\ loc'[r].upload = loc[r].upload /\ loc'[r].handle = "open"
        BY <1>0, <2>1 DEF Locals
  <2>3. Backed(r)'
        BY <2>1, <2>2 DEF RangeInv, Backed
  <2>4. QED
        BY <1>1, <2>1, <2>3
<1>5. CASE CopyBlock(r)
  <2> DEFINE u == loc[r].upload
             b == Head(loc[r].body)
  <2>1. /\ pc[r] = "copy" /\ pc' = pc /\ UNCHANGED <<bytes, removed>>
        /\ loc' = [loc EXCEPT ![r].body = Tail(@), ![r].copied = @ + 1]
        /\ content' = IF loc[r].handle = "open"
                      THEN [content EXCEPT ![u] = Append(@, b)] ELSE content
        BY <1>5 DEF CopyBlock
  <2>2. u \in Upload
        BY <1>0, <2>1 DEF WorkLabels
  <2>3. b \in Block
        BY <1>0, <1>5, LocalsFields DEF CopyBlock
  <2>4. Len(Append(content[u], b)) = Len(content[u]) + 1
        BY <1>0, <2>2, <2>3
  <2>5. /\ \A v \in Upload \ {u} : content'[v] = content[v]
        /\ loc[r].handle = "open" => content'[u] = Append(content[u], b)
        /\ loc[r].handle # "open" => content'[u] = content[u]
        BY <1>0, <2>1, <2>2
  <2>6. Growing
        BY <1>0, <2>1, <2>4, <2>5 DEF Growing
  <2>7. /\ loc'[r].seen = loc[r].seen /\ loc'[r].copied = loc[r].copied + 1
        /\ loc'[r].upload = u /\ loc'[r].handle = loc[r].handle
        /\ \A q \in Req \ {r} : loc'[q] = loc[q]
        BY <1>0, <2>1 DEF Locals
  <2>8. Backed(r)'
    <3>1. CASE u \in removed
          BY <2>1, <2>7, <3>1 DEF Backed
    <3>2. CASE u \notin removed
      <4>1. /\ loc[r].handle = "open"
            /\ loc[r].seen + loc[r].copied <= Len(content[u])
            BY <2>1, <3>2 DEF RangeInv, Backed
      <4>2. Len(content'[u]) = Len(content[u]) + 1
            BY <2>4, <2>5, <4>1
      <4>3. loc[r].seen \in Nat /\ loc[r].copied \in Nat /\ Len(content[u]) \in Nat
            BY <1>0, <2>2, LocalsFields
      <4>4. loc'[r].seen + loc'[r].copied <= Len(content'[u])
            BY <2>7, <4>1, <4>2, <4>3
      <4>5. QED
            BY <2>1, <2>7, <4>1, <4>4 DEF Backed
    <3>3. QED
          BY <3>1, <3>2
  <2>9. QED
        BY <2>1, <2>6, <2>7, <2>8, RangeFrame DEF Unmoved
<1>6. CASE CopyDone(r)
  <2>1. /\ pc[r] = "copy" /\ pc'[r] \in {"save", "hash"}
        /\ loc' = [loc EXCEPT ![r].handle = "none"]
        /\ \A q \in Req \ {r} : pc'[q] = pc[q] /\ loc'[q] = loc[q]
        /\ UNCHANGED <<bytes, content, removed>>
        BY <1>0, <1>6 DEF CopyDone, Goto
  <2>2. /\ loc'[r].seen = loc[r].seen /\ loc'[r].copied = loc[r].copied
        /\ loc'[r].upload = loc[r].upload
        BY <1>0, <2>1 DEF Locals
  <2>3. Backed(r)'
        BY <2>1, <2>2 DEF RangeInv, Backed
  <2>4. QED
        BY <1>1, <2>1, <2>3
<1>7. CASE SaveSession(r)
  <2> DEFINE u == loc[r].upload
             n == loc[r].seen + loc[r].copied
  <2>1. /\ pc[r] = "save" /\ pc'[r] = "unlock" /\ UNCHANGED <<content, removed>>
        /\ \A q \in Req \ {r} : pc'[q] = pc[q] /\ loc'[q] = loc[q]
        /\ bytes' = bytes \/ bytes' = [bytes EXCEPT ![u] = n]
        BY <1>0, <1>7 DEF SaveSession, Respond, Goto
  <2>2. Backed(r)'
        BY <2>1 DEF Backed
  <2>3. Growing
        BY <1>0, <2>1 DEF Growing
  <2>4. \A q \in Req : Backed(q)'
        BY <2>1, <2>2, <2>3, StillBacked DEF Unmoved
  <2>5. u \notin removed => n <= Len(content[u])
        BY <2>1 DEF RangeInv, Backed
  <2>6. \A v \in Upload \ removed' : bytes'[v] <= Len(content'[v])
        BY <2>1, <2>5 DEF RangeInv, TypeInv, TypeOK
  <2>7. QED
        BY <2>4, <2>6 DEF RangeInv
<1>8. CASE DropFile(r)
  <2>1. /\ pc[r] \in WorkLabels /\ pc'[r] \in {"rejectSession", "cleanSession"}
        /\ \A q \in Req \ {r} : pc'[q] = pc[q]
        /\ RemoveFile(loc[r].upload) \/ UNCHANGED <<content, removed, loc>>
        /\ UNCHANGED bytes
        BY <1>0, <1>8 DEF DropFile, Goto, WorkLabels
  <2>2. Growing /\ \A q \in Req \ {r} : Unmoved(q)
        BY <1>0, <2>1, RemovalUnmoved
  <2>3. Backed(r)'
        BY <2>1 DEF Backed
  <2>4. QED
        BY <2>1, <2>2, <2>3, RangeFrame
<1> DEFINE Away == {"hash", "add", "map", "cleanFile", "rejectFile", "unlock",
                    "drop", "done", "monoAdd", "monoMap"}
<1>9. ASSUME UNCHANGED <<bytes, content, removed>>, pc'[r] \in Away,
             \A q \in Req \ {r} : pc'[q] = pc[q] /\ loc'[q] = loc[q]
      PROVE  RangeInv'
  <2>1. Backed(r)'
        BY <1>9 DEF Backed
  <2>2. QED
        BY <1>1, <1>9, <2>1
<1>10. CASE \/ GetRefused(r) \/ WriteFails(r) \/ Hash(r) \/ HashFails(r)
            \/ DropSession(r) \/ AddToIPFS(r) \/ AddFails(r)
       BY <1>0, <1>9, <1>10 DEF GetRefused, WriteFails, Hash, HashFails,
          DropSession, AddToIPFS, AddFails, Respond, Goto
<1>11. CASE PutMapping(r) \/ PutMappingFails(r) \/ Unlock(r) \/ DropLock(r)
       BY <1>0, <1>9, <1>11 DEF PutMapping, PutMappingFails, Unlock, DropLock,
          Respond, Goto
<1>12. CASE MonoCopy(r) \/ MonoAdd(r) \/ MonoMap(r)
       BY <1>0, <1>9, <1>12 DEF MonoCopy, MonoAdd, MonoMap, Finish, Goto
<1>13. QED
       BY <1>2, <1>3, <1>4, <1>5, <1>6, <1>7, <1>8, <1>10, <1>11, <1>12
       DEF Step

(* Every other step.                                                           *)
LEMMA StepKeepsRange ==
    TypeInv /\ TypeOK' /\ RangeInv /\ [Next]_vars => RangeInv'
<1> SUFFICES ASSUME TypeInv, TypeOK', RangeInv, [Next]_vars PROVE RangeInv'
    OBVIOUS
<1> USE DEF disk, locks, history
<1>0. /\ pc \in [Req -> Labels] /\ loc \in [Req -> Locals]
      /\ \A u \in Upload : Len(content[u]) \in Nat
      BY DEF TypeInv, TypeOK
<1>1. ASSUME UNCHANGED <<bytes, content, removed>>,
             \A q \in Req : (pc'[q] = pc[q] /\ loc'[q] = loc[q]) \/ Backed(q)'
      PROVE  RangeInv'
  <2>1. Growing
        BY <1>0, <1>1 DEF Growing
  <2>2. QED
        BY <1>1, <2>1, RangeFrame DEF Unmoved
<1>2. ASSUME NEW r \in Req, NEW c \in Declared, Mount(r, c) PROVE RangeInv'
  <2>1. pc'[r] = "done" /\ \A q \in Req \ {r} : pc'[q] = pc[q] /\ loc'[q] = loc[q]
        BY <1>0, <1>2 DEF Mount, Goto
  <2>2. Backed(r)'
        BY <2>1 DEF Backed
  <2>3. QED
        BY <1>1, <1>2, <2>1, <2>2 DEF Mount
<1>3. ASSUME NEW r \in Req, ArrivePatch(r) \/ ArrivePut(r) PROVE RangeInv'
  <2>1. /\ pc'[r] = "lock" /\ loc'[r].copied = 0
        /\ \A q \in Req \ {r} : pc'[q] = pc[q] /\ loc'[q] = loc[q]
        /\ UNCHANGED <<bytes, content, removed>>
        BY <1>0, <1>3 DEF ArrivePatch, ArrivePut, Arrive, Goto, Frame
  <2>2. Backed(r)'
        BY <2>1 DEF Backed
  <2>3. QED
        BY <1>1, <2>1, <2>2
<1>4. ASSUME NEW r \in Req, MonoCreate(r) PROVE RangeInv'
  <2>1. /\ pc'[r] = "monoCopy"
        /\ \A q \in Req \ {r} : pc'[q] = pc[q] /\ loc'[q] = loc[q]
        BY <1>0, <1>4 DEF MonoCreate, Goto
  <2>2. Backed(r)'
        BY <2>1 DEF Backed
  <2>3. QED
        BY <1>1, <1>4, <2>1, <2>2 DEF MonoCreate
<1>5. ASSUME NEW u \in Upload, CreateUpload(u) \/ Age(u) PROVE RangeInv'
      BY <1>1, <1>5 DEF CreateUpload, Age
<1>6. CASE GCList \/ \E u \in Upload : GCDeleteUpload(u)
      BY <1>1, <1>6 DEF GCList, GCDeleteUpload
<1>7. CASE GCRemoveTempFile
  <2>1. gc.at \in Upload
        BY <1>7 DEF GCRemoveTempFile, TypeInv, LocalsOK
  <2>2. /\ UNCHANGED <<bytes, pc>>
        /\ RemoveFile(gc.at) \/ UNCHANGED <<content, removed, loc>>
        BY <1>7 DEF GCRemoveTempFile
  <2>3. Growing /\ \A q \in Req : Unmoved(q)
        BY <2>1, <2>2, RemovalUnmoved
  <2>4. QED
        BY <2>2, <2>3, RangeFrame
<1>8. CASE Crash
  <2>1. \A q \in Req : pc'[q] = "dead" \/ (pc'[q] = pc[q] /\ loc'[q] = loc[q])
        BY <1>0, <1>8 DEF Crash
  <2>2. \A q \in Req : pc'[q] = "dead" => Backed(q)'
        BY DEF Backed
  <2>3. UNCHANGED <<bytes, content, removed>>
        BY <1>8 DEF Crash
  <2>4. QED
        BY <1>1, <2>1, <2>2, <2>3
<1>9. CASE UNCHANGED vars
      BY <1>1, <1>9 DEF vars
<1>10. QED
      BY <1>2, <1>3, <1>4, <1>5, <1>6, <1>7, <1>8, <1>9, HandlerKeepsRange
      DEF Next, Quiet, GCStep

(* The offset PATCH answers never lies beyond the file: for any number of      *)
(* concurrent chunks, with failed writes, lost session updates and crashes.    *)
THEOREM RangesLieWithinFiles == Spec => []RangeWithinFile
<1>1. Init => RangeInv
      BY DEF Init, RangeInv, Backed
<1>2. TypeInv /\ TypeOK' /\ RangeInv /\ [Next]_vars => RangeInv'
      BY StepKeepsRange
<1>3. TypeInv /\ RangeInv => RangeWithinFile
      BY DEF TypeInv, TypeOK, RangeInv, RangeWithinFile
<1>4. ExclusionInv => TypeInv /\ TypeOK
      BY DEF ExclusionInv, TypeInv
<1>5. QED
      BY <1>1, <1>2, <1>3, <1>4, Exclusion, PTL DEF Spec

-----------------------------------------------------------------------------
(* Temp files.                                                                 *)

(* Who answers for a temp file: the upload's session, which a PUT or the       *)
(* collector will remove with it; the collector that has just deleted that     *)
(* session; a handler on its way to store the session or to remove the file;   *)
(* or a request that failed.                                                   *)
Owner(r, u) ==
    /\ loc[r].upload = u
    /\ \/ pc[r] \in WorkLabels \ {"rejectSession", "cleanSession"}
       \/ pc[r] \in {"unlock", "drop", "done"} /\ loc[r].status = 500

Owned(u) == \/ u \in sessions
            \/ gc.pc = "file" /\ gc.at = u
            \/ \E r \in Req : Owner(r, u)

(* A PUT about to delete the session has removed the file, and nobody makes it *)
(* anew: it is alone with the upload.                                          *)
Dropped(r) ==
    pc[r] \in {"rejectSession", "cleanSession"} => loc[r].upload \notin files

FilesInv == /\ \A u \in files : Owned(u)
            /\ \A r \in Req : Dropped(r)

MonoInv == \A r \in monoFiles : pc[r] \in MonoLabels

OrphanInv == (spoiled = {} => FilesInv) /\ MonoInv

(* The steps of a handler that neither make nor remove a file nor delete a     *)
(* session, and stay responsible or hand the file to its session.              *)
LEMMA FilesFrame ==
    ASSUME TypeInv, FilesInv, NEW r \in Req, Lock(r) \/ Step(r),
           files' \subseteq files, sessions \subseteq sessions', UNCHANGED gc,
           \A u \in files' : Owner(r, u) => Owner(r, u)' \/ u \in sessions',
           Dropped(r)'
    PROVE  FilesInv'
<1>1. \A q \in Req \ {r} : /\ pc'[q] = pc[q] /\ loc'[q].status = loc[q].status
                           /\ loc'[q].upload = loc[q].upload
      BY StepKeeps DEF SameRequest
<1>2. \A q \in Req \ {r} : Dropped(q)'
      BY <1>1 DEF FilesInv, Dropped
<1>3. \A q \in Req \ {r} : \A u : Owner(q, u) => Owner(q, u)'
      BY <1>1 DEF Owner
<1>4. \A u \in files' : Owned(u)'
      BY <1>3 DEF FilesInv, Owned
<1>5. QED
      BY <1>2, <1>4 DEF FilesInv

(* Making the file.                                                            *)
LEMMA OpenKeepsFiles ==
    ASSUME ExclusionInv, FilesInv, spoiled = {}, NEW r \in Req, OpenFile(r)
    PROVE  FilesInv'
<1> USE DEF disk, locks, history
<1> DEFINE u == loc[r].upload
<1>0. pc \in [Req -> Labels] /\ loc \in [Req -> Locals] /\ TypeInv
      BY DEF ExclusionInv, TypeInv, TypeOK
<1>1. /\ pc[r] = "open" /\ pc'[r] = "copy" /\ files' = files \cup {u}
      /\ UNCHANGED <<sessions, gc>>
      BY <1>0 DEF OpenFile, Goto
<1>2. /\ \A q \in Req \ {r} : pc'[q] = pc[q] /\ loc'[q].status = loc[q].status
      /\ \A q \in Req : loc'[q].upload = loc[q].upload
      BY <1>0, StepKeeps DEF Step, SameRequest
<1>3. \A v : v = u => Owner(r, v)'
      BY <1>1, <1>2 DEF Owner, WorkLabels
<1>4. \A q \in Req \ {r} : \A v : Owner(q, v) => Owner(q, v)'
      BY <1>2 DEF Owner
<1>5. \A v : Owner(r, v) => v = u
      BY DEF Owner
<1>6. ASSUME NEW v \in files' PROVE Owned(v)'
  <2>1. CASE v = u
        BY <1>3, <2>1 DEF Owned
  <2>2. CASE v # u
    <3>1. Owned(v) /\ ~Owner(r, v)
          BY <1>1, <1>5, <2>2 DEF FilesInv
    <3>2. QED
          BY <1>1, <1>4, <3>1 DEF Owned
  <2>3. QED
        BY <2>1, <2>2
<1>7. ASSUME NEW q \in Req, pc'[q] \in {"rejectSession", "cleanSession"}
      PROVE  loc'[q].upload \notin files'
  <2>1. q # r /\ pc[q] \in {"rejectSession", "cleanSession"}
        BY <1>1, <1>2, <1>7
  <2>2. Working(q) /\ Working(r)
        BY <1>1, <2>1 DEF Working, WorkLabels
  <2>3. loc[q].upload # u
        BY <2>1, <2>2, Exclusive DEF ExclusiveWriter
  <2>4. QED
        BY <1>1, <1>2, <2>1, <2>3 DEF FilesInv, Dropped
<1>8. \A q \in Req : Dropped(q)'
      BY <1>7 DEF Dropped
<1>9. QED
      BY <1>6, <1>8 DEF FilesInv

(* A PUT that removes the file, then the session.                              *)
LEMMA DropKeepsFiles ==
    ASSUME TypeInv, FilesInv, "file" \notin Faults, NEW r \in Req,
           DropFile(r) \/ DropSession(r)
    PROVE  FilesInv'
<1> USE DEF disk, locks, history
<1> DEFINE u == loc[r].upload
<1>0. pc \in [Req -> Labels] /\ loc \in [Req -> Locals]
      BY DEF TypeInv, TypeOK
<1>1. /\ \A q \in Req \ {r} : pc'[q] = pc[q] /\ loc'[q].status = loc[q].status
      /\ \A q \in Req : loc'[q].upload = loc[q].upload
      BY StepKeeps DEF Step, SameRequest
<1>2. \A q \in Req \ {r} : \A v : Owner(q, v) => Owner(q, v)'
      BY <1>1 DEF Owner
<1>3. \A v : Owner(r, v) => v = u
      BY DEF Owner
<1>4. CASE DropFile(r)
  <2>1. files' = files \ {u} /\ UNCHANGED <<sessions, gc>>
        BY <1>4 DEF DropFile, RemoveFile
  <2>2. \A v \in files' : Owned(v)'
        BY <1>2, <1>3, <2>1 DEF FilesInv, Owned
  <2>3. \A q \in Req : Dropped(q)'
        BY <1>1, <2>1 DEF FilesInv, Dropped
  <2>4. QED
        BY <2>2, <2>3 DEF FilesInv
<1>5. CASE DropSession(r)
  <2>1. /\ pc[r] \in {"rejectSession", "cleanSession"} /\ pc'[r] = "unlock"
        /\ sessions \subseteq sessions' \cup {u} /\ UNCHANGED <<files, gc>>
        BY <1>0, <1>5 DEF DropSession, Respond, Goto
  <2>2. u \notin files
        BY <2>1 DEF FilesInv, Dropped
  <2>3. \A v \in files' : Owned(v)'
        BY <1>2, <1>3, <2>1, <2>2 DEF FilesInv, Owned
  <2>4. \A q \in Req : Dropped(q)'
        BY <1>1, <2>1 DEF FilesInv, Dropped
  <2>5. QED
        BY <2>3, <2>4 DEF FilesInv
<1>6. QED
      BY <1>4, <1>5

(* All the steps of a handler.                                                 *)
LEMMA HandlerKeepsFiles ==
    ASSUME ExclusionInv, FilesInv, spoiled = {}, Faults \cap {"file", "db"} = {},
           NEW r \in Req, Lock(r) \/ Step(r)
    PROVE  FilesInv'
<1> USE DEF disk, locks, history
<1>0. pc \in [Req -> Labels] /\ loc \in [Req -> Locals] /\ TypeInv
      BY DEF ExclusionInv, TypeInv, TypeOK
<1>1. loc'[r].upload = loc[r].upload
      BY <1>0, StepKeeps DEF SameRequest
<1> DEFINE Quitting == {"unlock", "drop", "done"}
           Kept == UNCHANGED <<files, sessions, gc>>
<1>2. ASSUME Kept, pc[r] \notin WorkLabels \cup Quitting,
             pc'[r] \notin {"rejectSession", "cleanSession"}
      PROVE  FilesInv'
  <2>1. Dropped(r)' /\ \A u : ~Owner(r, u)
        BY <1>2 DEF Dropped, Owner
  <2>2. QED
        BY <1>0, <1>2, <2>1, FilesFrame
<1>3. ASSUME Kept, pc'[r] \in WorkLabels \ {"rejectSession", "cleanSession"}
      PROVE  FilesInv'
  <2>1. Dropped(r)' /\ \A u : Owner(r, u) => Owner(r, u)'
        BY <1>1, <1>3 DEF Dropped, Owner
  <2>2. QED
        BY <1>0, <1>3, <2>1, FilesFrame
<1>4. ASSUME Kept, Respond(r, 500) PROVE FilesInv'
  <2>1. pc'[r] = "unlock" /\ loc'[r].status = 500
        BY <1>0, <1>4 DEF Respond, Returned, Frame, Goto
  <2>2. Dropped(r)' /\ \A u : Owner(r, u) => Owner(r, u)'
        BY <1>1, <2>1 DEF Dropped, Owner
  <2>3. QED
        BY <1>0, <1>4, <2>2, FilesFrame
<1>5. CASE Lock(r) \/ GetRefused(r)
  <2>1. /\ Kept /\ pc[r] \in {"lock", "get"} /\ pc'[r] \in {"get", "unlock"}
        BY <1>0, <1>5 DEF Lock, GetRefused, Respond, Goto
  <2>2. QED
        BY <1>2, <2>1 DEF WorkLabels
<1>6. CASE MonoCopy(r) \/ MonoAdd(r) \/ MonoMap(r)
  <2>1. /\ Kept /\ pc[r] \in MonoLabels /\ pc'[r] \in MonoLabels \cup {"done"}
        BY <1>0, <1>6 DEF MonoCopy, MonoAdd, MonoMap, Finish, Goto, MonoLabels
  <2>2. QED
        BY <1>2, <2>1 DEF WorkLabels, MonoLabels
<1>7. CASE \/ GetUpload(r) \/ CopyBlock(r) \/ CopyDone(r) \/ Hash(r)
           \/ AddToIPFS(r) \/ PutMapping(r)
  <2>1. Kept
        BY <1>7 DEF GetUpload, CopyBlock, CopyDone, Hash, AddToIPFS, PutMapping
  <2>2. pc'[r] \in {"hash", "open", "copy", "save", "add", "rejectFile", "map",
                    "cleanFile"}
        BY <1>0, <1>7 DEF GetUpload, CopyBlock, CopyDone, Hash, AddToIPFS,
                          PutMapping, Goto
  <2>3. QED
        BY <1>3, <2>1, <2>2 DEF WorkLabels
<1>8. CASE WriteFails(r) \/ HashFails(r) \/ AddFails(r) \/ PutMappingFails(r)
      BY <1>4, <1>8 DEF WriteFails, HashFails, AddFails, PutMappingFails
<1>9. CASE SaveSession(r)
  <2>1. /\ sessions' = sessions \cup {loc[r].upload} /\ UNCHANGED <<files, gc>>
        /\ pc'[r] = "unlock"
        BY <1>0, <1>9 DEF SaveSession, Respond, Goto
  <2>2. Dropped(r)' /\ \A u : Owner(r, u) => u \in sessions'
        BY <2>1 DEF Dropped, Owner
  <2>3. QED
        BY <1>0, <2>1, <2>2, FilesFrame
<1>10. CASE Unlock(r) \/ DropLock(r)
  <2>1. /\ Kept /\ UNCHANGED loc /\ pc[r] \in Quitting /\ pc'[r] \in Quitting
        BY <1>0, <1>10 DEF Unlock, DropLock, Goto
  <2>2. Dropped(r)' /\ \A u : Owner(r, u) => Owner(r, u)'
        BY <2>1 DEF Dropped, Owner, WorkLabels
  <2>3. QED
        BY <1>0, <2>1, <2>2, FilesFrame
<1>11. CASE OpenFile(r)
       BY <1>11, OpenKeepsFiles
<1>12. CASE DropFile(r) \/ DropSession(r)
       BY <1>0, <1>12, DropKeepsFiles
<1>13. QED
       BY <1>5, <1>6, <1>7, <1>8, <1>9, <1>10, <1>11, <1>12 DEF Step

(* The temp file of a monolithic upload goes when its handler returns.         *)
LEMMA StepKeepsMono ==
    "crash" \notin Faults /\ TypeInv /\ MonoInv /\ [Next]_vars => MonoInv'
<1> SUFFICES ASSUME "crash" \notin Faults, TypeInv, MonoInv, [Next]_vars
             PROVE  MonoInv'
    OBVIOUS
<1> USE DEF disk, locks, history
<1>0. pc \in [Req -> Labels] /\ monoFiles \subseteq Req
      BY DEF TypeInv, TypeOK
<1>1. ASSUME NEW r \in Req, monoFiles' \ {r} \subseteq monoFiles,
             \A q \in Req \ {r} : pc'[q] = pc[q],
             r \in monoFiles' => pc'[r] \in MonoLabels
      PROVE  MonoInv'
      BY <1>0, <1>1 DEF MonoInv
<1>2. ASSUME UNCHANGED <<pc, monoFiles>> PROVE MonoInv'
      BY <1>2 DEF MonoInv
<1>3. ASSUME NEW r \in Req, MonoCreate(r) \/ MonoCopy(r) \/ MonoAdd(r) \/ MonoMap(r)
      PROVE  MonoInv'
  <2>1. /\ \A q \in Req \ {r} : pc'[q] = pc[q]
        /\ \/ monoFiles' = monoFiles \ {r}
           \/ /\ monoFiles' \in {monoFiles, monoFiles \cup {r}}
              /\ pc'[r] \in MonoLabels
        BY <1>0, <1>3 DEF MonoCreate, MonoCopy, MonoAdd, MonoMap, Finish, Goto,
                          MonoLabels
  <2>2. QED
        BY <1>1, <2>1
<1>4. ASSUME NEW r \in Req, pc[r] \notin MonoLabels, UNCHANGED monoFiles,
             \A q \in Req \ {r} : pc'[q] = pc[q]
      PROVE  MonoInv'
      BY <1>1, <1>4 DEF MonoInv
<1>5. ASSUME NEW r \in Req,
             \/ ArrivePatch(r) \/ ArrivePut(r) \/ Lock(r) \/ GetUpload(r)
             \/ GetRefused(r) \/ OpenFile(r) \/ CopyBlock(r) \/ CopyDone(r)
             \/ WriteFails(r) \/ SaveSession(r) \/ Hash(r) \/ HashFails(r)
      PROVE  MonoInv'
      BY <1>0, <1>4, <1>5 DEF ArrivePatch, ArrivePut, Arrive, Lock, GetUpload,
         GetRefused, OpenFile, CopyBlock, CopyDone, WriteFails, SaveSession,
         Hash, HashFails, Respond, Goto, MonoLabels
<1>6. ASSUME NEW r \in Req,
             \/ DropFile(r) \/ DropSession(r) \/ AddToIPFS(r) \/ AddFails(r)
             \/ PutMapping(r) \/ PutMappingFails(r) \/ Unlock(r) \/ DropLock(r)
             \/ \E c \in Declared : Mount(r, c)
      PROVE  MonoInv'
      BY <1>0, <1>4, <1>6 DEF DropFile, DropSession, AddToIPFS, AddFails,
         PutMapping, PutMappingFails, Unlock, DropLock, Mount, Respond, Goto,
         MonoLabels
<1>7. CASE GCStep \/ \E u \in Upload : CreateUpload(u) \/ Age(u)
      BY <1>2, <1>7 DEF GCStep, GCList, GCDeleteUpload, GCRemoveTempFile,
                        CreateUpload, Age
<1>8. CASE UNCHANGED vars
      BY <1>2, <1>8 DEF vars
<1>9. QED
      BY <1>3, <1>5, <1>6, <1>7, <1>8 DEF Next, Step, Quiet, Crash

(* What has been spoiled stays so.                                             *)
LEMMA StepKeepsSpoiled == [Next]_vars => spoiled \subseteq spoiled'
<1> USE DEF disk, locks, history
<1>1. \A r \in Req : Lock(r) \/ Step(r) => spoiled \subseteq spoiled'
      BY DEF Step, Lock, GetUpload, GetRefused, OpenFile, CopyBlock,
         CopyDone, WriteFails, SaveSession, Hash, HashFails, DropFile,
         DropSession, AddToIPFS, AddFails, PutMapping, PutMappingFails,
         Unlock, DropLock, MonoCopy, MonoAdd, MonoMap
<1>2. QED
      BY <1>1 DEF Next, vars, CreateUpload, Age, ArrivePatch, ArrivePut, Arrive,
         MonoCreate, Mount, GCStep, GCList, GCDeleteUpload, GCRemoveTempFile,
         Crash, Quiet

(* Steps of others than a handler.                                             *)
LEMMA OthersKeepFiles ==
    ASSUME TypeInv, FilesInv, Faults \cap {"file", "db", "crash"} = {},
           [Next]_vars, ~\E r \in Req : Lock(r) \/ Step(r)
    PROVE  FilesInv'
<1> USE DEF disk, locks, history
<1>0. pc \in [Req -> Labels] /\ loc \in [Req -> Locals]
      BY DEF TypeInv, TypeOK
<1>1. ASSUME files' \subseteq files,
             \A u \in files' : u \in sessions \/ (gc.pc = "file" /\ gc.at = u)
                  => u \in sessions' \/ (gc'.pc = "file" /\ gc'.at = u),
             \A q \in Req : \/ pc[q] = "new" /\ pc'[q] \notin WorkLabels
                            \/ /\ pc'[q] = pc[q] /\ SameRequest(loc'[q], loc[q])
                               /\ loc'[q].status = loc[q].status
      PROVE  FilesInv'
  <2>1. \A q \in Req : Dropped(q)'
        BY <1>1 DEF FilesInv, Dropped, SameRequest, WorkLabels
  <2>2. \A q \in Req : \A u : Owner(q, u) => Owner(q, u)'
        BY <1>1 DEF Owner, SameRequest, WorkLabels
  <2>3. \A u \in files' : Owned(u)'
        BY <1>1, <2>2 DEF FilesInv, Owned
  <2>4. QED
        BY <2>1, <2>3 DEF FilesInv
<1>2. ASSUME NEW r \in Req,
             \/ ArrivePatch(r) \/ ArrivePut(r) \/ MonoCreate(r)
             \/ \E c \in Declared : Mount(r, c)
      PROVE  FilesInv'
  <2>1. /\ pc[r] = "new" /\ pc'[r] \in {"lock", "monoCopy", "done"}
        /\ \A q \in Req \ {r} : pc'[q] = pc[q] /\ loc'[q] = loc[q]
        /\ UNCHANGED <<files, sessions, gc>>
        BY <1>0, <1>2 DEF ArrivePatch, ArrivePut, Arrive, MonoCreate, Mount, Goto
  <2>2. QED
        BY <1>1, <2>1 DEF SameRequest, WorkLabels
<1>3. CASE \E u \in Upload : CreateUpload(u) \/ Age(u)
      BY <1>1, <1>3 DEF CreateUpload, Age, SameRequest
<1>4. CASE GCStep
  <2>1. \A q \in Req : /\ pc'[q] = pc[q] /\ SameRequest(loc'[q], loc[q])
                       /\ loc'[q].status = loc[q].status
        BY <1>4, OutsideKeeps
  <2>2. CASE GCList
        BY <1>1, <2>1, <2>2 DEF GCList
  <2>3. ASSUME NEW u \in Upload, GCDeleteUpload(u) PROVE FilesInv'
    <3>1. /\ gc.pc = "session" /\ gc'.pc = "file" /\ gc'.at = u
          /\ sessions \subseteq sessions' \cup {u} /\ UNCHANGED files
          BY <2>3 DEF GCDeleteUpload
    <3>2. QED
          BY <1>1, <2>1, <3>1
  <2>4. CASE GCRemoveTempFile
    <3>1. files' = files \ {gc.at} /\ UNCHANGED sessions
          BY <2>4 DEF GCRemoveTempFile, RemoveFile
    <3>2. QED
          BY <1>1, <2>1, <3>1
  <2>5. QED
        BY <1>4, <2>2, <2>3, <2>4 DEF GCStep
<1>5. CASE UNCHANGED vars
      BY <1>1, <1>5 DEF vars, SameRequest
<1>6. QED
      BY <1>2, <1>3, <1>4, <1>5 DEF Next, Quiet, Crash

(* Where system calls on the file and the store's writes succeed and the       *)
(* process does not crash (copies and the node may fail), a server at rest has *)
(* no temp file without a session but those failed requests left behind.       *)
THEOREM OrphansComeFromFailures ==
    ASSUME Faults \cap {"file", "db", "crash"} = {}
    PROVE  Spec => []NoOrphanTempFile
<1>1. Init => OrphanInv
      BY DEF Init, OrphanInv, FilesInv, Dropped, MonoInv
<1>2. ExclusionInv /\ OrphanInv /\ [Next]_vars => OrphanInv'
  <2> SUFFICES ASSUME ExclusionInv, OrphanInv, [Next]_vars PROVE OrphanInv'
      OBVIOUS
  <2>1. TypeInv /\ MonoInv'
        BY StepKeepsMono DEF ExclusionInv, OrphanInv
  <2>2. spoiled \subseteq spoiled'
        BY StepKeepsSpoiled
  <2>3. ASSUME spoiled' = {} PROVE FilesInv'
    <3>1. spoiled = {} /\ FilesInv
          BY <2>2, <2>3 DEF OrphanInv
    <3>2. QED
          BY <2>1, <3>1, HandlerKeepsFiles, OthersKeepFiles
  <2>4. QED
        BY <2>1, <2>3 DEF OrphanInv
<1>3. TypeInv /\ OrphanInv => NoOrphanTempFile
  <2> SUFFICES ASSUME TypeInv, OrphanInv, spoiled = {}, gc.pc = "idle",
                      \A r \in Req : Answered(r)
               PROVE  /\ \A u \in files \ sessions :
                           \E r \in Req : loc[r].upload = u /\ loc[r].status = 500
                      /\ monoFiles = {}
      BY DEF NoOrphanTempFile
  <2>1. monoFiles = {}
        BY DEF TypeInv, TypeOK, OrphanInv, MonoInv, MonoLabels, Answered
  <2>2. \A r \in Req : \A u : Owner(r, u) => loc[r].upload = u /\ loc[r].status = 500
        BY DEF Owner, Answered, WorkLabels
  <2>3. QED
        BY <2>1, <2>2 DEF OrphanInv, FilesInv, Owned
<1>4. ExclusionInv => TypeInv
      BY DEF ExclusionInv
<1>5. QED
      BY <1>1, <1>2, <1>3, <1>4, Exclusion, PTL DEF Spec
=============================================================================
