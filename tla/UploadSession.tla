--------------------------- MODULE UploadSession ---------------------------
(* The chunked and the monolithic blob upload of the registry                 *)
(* (internal/registry/handler.go), with the part of the store it writes       *)
(* (internal/storage/store.go), the temp files it appends to, and the garbage *)
(* collector's sweep over stale sessions (internal/gc/gc.go).                 *)
(*                                                                            *)
(* One action is one step a handler takes on shared state: a call on the      *)
(* per-upload mutex, one bolt transaction, one system call on the temp file,  *)
(* one call to the IPFS node. Handlers of different requests interleave       *)
(* between any two of those.                                                  *)
EXTENDS Naturals, Sequences, FiniteSets

CONSTANTS
    Req,        \* HTTP requests; each is served once, by one goroutine
    Upload,     \* upload UUIDs
    Block,      \* what one write call appends to a temp file
    Bodies,     \* request bodies clients send
    Declared,   \* contents whose digest a client declares
    Faults,     \* the faults that may happen, a subset of FaultKinds
    GCEnabled,  \* config gc.enabled
    Announces,  \* what shouldAnnounce says of a pushed mapping
    NoReq, NoUpload, NoDigest, NoCID

FaultKinds == {"file", "copy", "ipfs", "db", "crash"}

ASSUME BodiesAssumption == Bodies \subseteq Seq(Block)
ASSUME DeclaredAssumption == Declared \subseteq Seq(Block)
ASSUME FaultsAssumption == Faults \subseteq FaultKinds
ASSUME SwitchAssumption == GCEnabled \in BOOLEAN /\ Announces \in BOOLEAN
ASSUME SentinelAssumption ==
    NoReq \notin Req /\ NoUpload \notin Upload /\ NoCID \notin Seq(Block)

(* A sha256 digest and a CID each determine the content they were computed     *)
(* from (no collisions), and neither is the content.                           *)
DigestOf(c) == [sha256 |-> c]
Digests == [sha256 : Seq(Block)]
CIDOf(c) == [cid |-> c]
CIDs == [cid : Seq(Block)]

VARIABLES
    sessions,   \* keys of the bolt bucket "uploads"
    bytes,      \* BytesWritten stored in each session
    aged,       \* sessions whose StartedAt lies more than 24 hours back
    issued,     \* UUIDs handed out by POST
    files,      \* temp files that exist under their path
    content,    \* what those files hold
    lockMap,    \* Handler.uploadMu: the mutex stored for an upload, named by
                \* the request whose LoadOrStore created it
    held,       \* mutexes that are locked
    mappings,   \* the bolt bucket "mappings"
    ipfs,       \* contents the IPFS node holds
    announced,  \* mappings given to the federation
    monoFiles,  \* temp files of monolithic uploads, named by their request
    pc,         \* where each request's handler stands
    loc,        \* the local variables of each request's handler
    gc,         \* the collector: [pc, doomed, at]
    spoiled,    \* history: uploads a PUT let go of while the session remained
    removed     \* history: uploads whose temp file has been removed

disk == <<sessions, bytes, aged, issued, files, content, mappings, monoFiles>>
locks == <<lockMap, held>>
outside == <<ipfs, announced>>
history == <<spoiled, removed>>
vars == <<disk, locks, outside, pc, loc, gc, history>>

-----------------------------------------------------------------------------
Frame(method, upload, mutex, body, want, status) ==
    [method |-> method, upload |-> upload, mutex |-> mutex, body |-> body,
     want |-> want, status |-> status,
     seen |-> 0, copied |-> 0, cid |-> NoCID, handle |-> "none"]

Init ==
    /\ sessions = {} /\ bytes = [u \in Upload |-> 0]
    /\ aged = {} /\ issued = {}
    /\ files = {} /\ content = [u \in Upload |-> << >>]
    /\ lockMap = [u \in Upload |-> NoReq] /\ held = {}
    /\ mappings = {} /\ ipfs = {} /\ announced = {} /\ monoFiles = {}
    /\ pc = [r \in Req |-> "new"]
    /\ loc = [r \in Req |->
                Frame("none", NoUpload, NoReq, << >>, NoDigest, 0)]
    /\ gc = [pc |-> "idle", doomed |-> {}, at |-> NoUpload]
    /\ spoiled = {} /\ removed = {}

Goto(r, label) == pc' = [pc EXCEPT ![r] = label]

(* The handler returns: its response is settled, its file is closed, and only  *)
(* the deferred calls and the history need what is left of its variables.      *)
Returned(r, code) ==
    Frame(loc[r].method, loc[r].upload, loc[r].mutex, << >>, loc[r].want, code)

Respond(r, code) ==
    /\ Goto(r, "unlock")
    /\ loc' = [loc EXCEPT ![r] = Returned(r, code)]

(* storage.PutMapping: the value under the digest's key is replaced.           *)
WithMapping(m) == {x \in mappings : x.digest # m.digest} \cup {m}

(* Removing a path leaves every open descriptor on the old file: what is       *)
(* written through it afterwards is no longer found under the path.            *)
Detached(u) ==
    [r \in Req |-> IF loc[r].upload = u /\ loc[r].handle = "open"
                   THEN [loc[r] EXCEPT !.handle = "lost"] ELSE loc[r]]

RemoveFile(u) ==
    /\ loc' = Detached(u)
    /\ files' = files \ {u}
    /\ content' = [content EXCEPT ![u] = << >>]
    /\ removed' = removed \cup {u}

-----------------------------------------------------------------------------
(* POST /v2/{name}/blobs/uploads/ *)

CreateUpload(u) ==
    /\ u \notin issued
    /\ issued' = issued \cup {u}
    /\ sessions' = sessions \cup {u}
    /\ UNCHANGED <<bytes, aged, files, content, mappings, monoFiles, locks,
                   outside, pc, loc, gc, history>>

(* ?mount=...&from=... of a digest the store has: nothing is written.          *)
Mount(r, c) ==
    /\ pc[r] = "new"
    /\ \E m \in mappings : m.digest = DigestOf(c)
    /\ Goto(r, "done")
    /\ loc' = [loc EXCEPT ![r] =
                  Frame("MOUNT", NoUpload, NoReq, << >>, DigestOf(c), 201)]
    /\ UNCHANGED <<disk, locks, outside, gc, history>>

-----------------------------------------------------------------------------
(* getUploadLock and mu.Lock(), the first steps of PATCH and PUT.              *)

(* Mutant: Store instead of LoadOrStore.                                       *)
ArriveStore(r, u, method, body, want) ==
    /\ pc[r] = "new"
    /\ u \in issued
    /\ lockMap' = [lockMap EXCEPT ![u] = r]
    /\ loc' = [loc EXCEPT ![r] = Frame(method, u, r, body, want, 0)]
    /\ Goto(r, "lock")
    /\ UNCHANGED <<disk, held, outside, gc, history>>

Arrive(r, u, method, body, want) ==
    /\ pc[r] = "new"
    /\ u \in issued
    /\ lockMap' = [lockMap EXCEPT ![u] = IF @ = NoReq THEN r ELSE @]
    /\ loc' = [loc EXCEPT ![r] = Frame(method, u, lockMap'[u], body, want, 0)]
    /\ Goto(r, "lock")
    /\ UNCHANGED <<disk, held, outside, gc, history>>

ArrivePatch(r) == \E u \in Upload, b \in Bodies :
    Arrive(r, u, "PATCH", b, NoDigest)

ArrivePut(r) == \E u \in Upload, b \in Bodies :
    \E d \in {DigestOf(c) : c \in Declared} \cup {NoDigest} :
        Arrive(r, u, "PUT", b, d)

Lock(r) ==
    /\ pc[r] = "lock"
    /\ loc[r].mutex \notin held
    /\ held' = held \cup {loc[r].mutex}
    /\ Goto(r, "get")
    /\ UNCHANGED <<disk, lockMap, outside, loc, gc, history>>

MissingDigest(r) == loc[r].method = "PUT" /\ loc[r].want = NoDigest

(* Mutant: an upload that is not found is started anew.                        *)
GetOrNewUpload(r) ==
    /\ pc[r] = "get"
    /\ ~MissingDigest(r)
    /\ loc' = [loc EXCEPT ![r].seen = bytes[loc[r].upload]]
    /\ Goto(r, IF loc[r].method = "PUT" /\ loc[r].body = << >>
               THEN "hash" ELSE "open")
    /\ UNCHANGED <<disk, locks, outside, gc, history>>

GetUpload(r) ==
    LET u == loc[r].upload IN
    /\ pc[r] = "get"
    /\ ~MissingDigest(r)
    /\ u \in sessions
    /\ loc' = [loc EXCEPT ![r].seen = bytes[u]]
    /\ Goto(r, IF loc[r].method = "PUT" /\ loc[r].body = << >>
               THEN "hash" ELSE "open")
    /\ UNCHANGED <<disk, locks, outside, gc, history>>

GetRefused(r) ==
    /\ pc[r] = "get"
    /\ MissingDigest(r) \/ loc[r].upload \notin sessions \/ "db" \in Faults
    /\ Respond(r, IF MissingDigest(r) THEN 400 ELSE 404)
    /\ UNCHANGED <<disk, locks, outside, gc, history>>

-----------------------------------------------------------------------------
(* Appending the body to the temp file: PATCH, and PUT with a last chunk.      *)

(* Mutant: O_TRUNC for O_APPEND.                                               *)
OpenTruncates(r) ==
    LET u == loc[r].upload IN
    /\ pc[r] = "open"
    /\ files' = files \cup {u}
    /\ content' = [content EXCEPT ![u] = << >>]
    /\ loc' = [loc EXCEPT ![r].handle = "open"]
    /\ Goto(r, "copy")
    /\ UNCHANGED <<sessions, bytes, aged, issued, mappings, monoFiles, locks,
                   outside, gc, history>>

OpenFile(r) ==
    LET u == loc[r].upload IN
    /\ pc[r] = "open"
    /\ files' = files \cup {u}
    /\ loc' = [loc EXCEPT ![r].handle = "open"]
    /\ Goto(r, "copy")
    /\ UNCHANGED <<sessions, bytes, aged, issued, content, mappings,
                   monoFiles, locks, outside, gc, history>>

CopyBlock(r) ==
    LET u == loc[r].upload IN
    /\ pc[r] = "copy"
    /\ loc[r].body # << >>
    /\ content' = IF loc[r].handle = "open"
                  THEN [content EXCEPT ![u] = Append(@, Head(loc[r].body))]
                  ELSE content
    /\ loc' = [loc EXCEPT ![r].body = Tail(@), ![r].copied = @ + 1]
    /\ UNCHANGED <<sessions, bytes, aged, issued, files, mappings, monoFiles,
                   locks, outside, pc, gc, history>>

CopyDone(r) ==
    /\ pc[r] = "copy"
    /\ loc[r].body = << >>
    /\ loc' = [loc EXCEPT ![r].handle = "none"]
    /\ Goto(r, IF loc[r].method = "PATCH" THEN "save" ELSE "hash")
    /\ UNCHANGED <<disk, locks, outside, gc, history>>

(* OpenFile fails, or io.Copy stops after some blocks: a 500 that leaves those *)
(* blocks in the file and the session as it was.                               *)
WriteFails(r) ==
    /\ \/ pc[r] = "open" /\ "file" \in Faults
       \/ pc[r] = "copy" /\ "copy" \in Faults /\ loc[r].body # << >>
    /\ Respond(r, 500)
    /\ UNCHANGED <<disk, locks, outside, gc, history>>

(* Mutant: stores the offset of the last block where its successor belongs.    *)
SaveLastOffset(r) ==
    LET u == loc[r].upload IN
    /\ pc[r] = "save"
    /\ sessions' = sessions \cup {u}
    /\ bytes' = [bytes EXCEPT ![u] = loc[r].seen + loc[r].copied - 1]
    /\ Respond(r, 202)
    /\ UNCHANGED <<aged, issued, files, content, mappings, monoFiles,
                   locks, outside, gc, history>>

(* PutUpload of the session read at GetUpload: it stores the key anew even     *)
(* when the session has been deleted since. Its failure is only logged.        *)
SaveSession(r) ==
    LET u == loc[r].upload IN
    /\ pc[r] = "save"
    /\ \/ /\ sessions' = sessions \cup {u}
          /\ bytes' = [bytes EXCEPT ![u] = loc[r].seen + loc[r].copied]
       \/ /\ "db" \in Faults
          /\ UNCHANGED <<sessions, bytes>>
    /\ Respond(r, 202)
    /\ UNCHANGED <<aged, issued, files, content, mappings, monoFiles,
                   locks, outside, gc, history>>

-----------------------------------------------------------------------------
(* Closing an upload: PUT from the hash of the temp file on.                   *)

Matches(r) == DigestOf(content[loc[r].upload]) = loc[r].want

(* Mutant: the computed digest is not compared.                                *)
HashUnchecked(r) ==
    /\ pc[r] = "hash"
    /\ loc[r].upload \in files
    /\ Goto(r, "add")
    /\ UNCHANGED <<disk, locks, outside, loc, gc, history>>

Hash(r) ==
    /\ pc[r] = "hash"
    /\ loc[r].upload \in files
    /\ Goto(r, IF Matches(r) THEN "add" ELSE "rejectFile")
    /\ UNCHANGED <<disk, locks, outside, loc, gc, history>>

(* Mutant: an early return between Lock and the deferred Unlock.               *)
HashFailsLocked(r) ==
    /\ pc[r] = "hash"
    /\ loc[r].upload \notin files
    /\ Goto(r, "done")
    /\ UNCHANGED <<disk, locks, outside, loc, gc, history>>

(* Nothing was ever written (or the file cannot be read): 500, session kept.   *)
HashFails(r) ==
    /\ pc[r] = "hash"
    /\ loc[r].upload \notin files \/ "file" \in Faults
    /\ Respond(r, 500)
    /\ UNCHANGED <<disk, locks, outside, gc, history>>

(* Mutant: the temp file is left behind on a mismatch.                         *)
RejectKeepsFile(r) ==
    /\ pc[r] = "rejectFile"
    /\ Goto(r, "rejectSession")
    /\ UNCHANGED <<disk, locks, outside, loc, gc, history>>

(* os.Remove of the temp file, then DeleteUpload, on a mismatch ("reject") and *)
(* after the mapping is stored ("clean"). Errors of both are ignored.          *)
DropFile(r) ==
    LET u == loc[r].upload IN
    /\ pc[r] \in {"rejectFile", "cleanFile"}
    /\ \/ RemoveFile(u)
       \/ "file" \in Faults /\ UNCHANGED <<files, content, removed, loc>>
    /\ Goto(r, IF pc[r] = "rejectFile" THEN "rejectSession" ELSE "cleanSession")
    /\ UNCHANGED <<sessions, bytes, aged, issued, mappings, monoFiles, locks,
                   outside, gc, spoiled>>

NewMapping(r) == [digest |-> loc[r].want, cid |-> loc[r].cid]

Announce(m) == announced' = IF Announces THEN announced \cup {m} ELSE announced

DropSession(r) ==
    /\ pc[r] \in {"rejectSession", "cleanSession"}
    /\ \/ sessions' = sessions \ {loc[r].upload}
       \/ "db" \in Faults /\ UNCHANGED sessions
    /\ IF pc[r] = "cleanSession"
       THEN Announce(NewMapping(r)) /\ Respond(r, 201)
       ELSE Respond(r, 400) /\ UNCHANGED announced
    /\ UNCHANGED <<bytes, aged, issued, files, content, mappings, monoFiles,
                   locks, ipfs, gc, history>>

(* The file is opened again for the IPFS node: whatever it holds by then is    *)
(* what the CID stands for.                                                    *)
AddToIPFS(r) ==
    LET u == loc[r].upload IN
    /\ pc[r] = "add"
    /\ u \in files
    /\ ipfs' = ipfs \cup {content[u]}
    /\ loc' = [loc EXCEPT ![r].cid = CIDOf(content[u])]
    /\ Goto(r, "map")
    /\ UNCHANGED <<disk, locks, announced, gc, history>>

(* A failed Add (no answer, or no file to send): the node may have taken the   *)
(* content all the same.                                                       *)
AddFails(r) ==
    LET u == loc[r].upload IN
    /\ pc[r] = "add"
    /\ u \notin files \/ "ipfs" \in Faults
    /\ ipfs' \in {ipfs} \cup IF u \in files THEN {ipfs \cup {content[u]}} ELSE {}
    /\ Respond(r, 500)
    /\ UNCHANGED <<disk, locks, announced, gc, history>>

PutMapping(r) ==
    /\ pc[r] = "map"
    /\ mappings' = WithMapping(NewMapping(r))
    /\ Goto(r, "cleanFile")
    /\ UNCHANGED <<sessions, bytes, aged, issued, files, content, monoFiles,
                   locks, outside, loc, gc, history>>

(* Mutant: a mapping that could not be stored is only logged.                  *)
PutMappingLogged(r) ==
    /\ pc[r] = "map"
    /\ "db" \in Faults
    /\ Goto(r, "cleanFile")
    /\ UNCHANGED <<disk, locks, outside, loc, gc, history>>

PutMappingFails(r) ==
    /\ pc[r] = "map"
    /\ "db" \in Faults
    /\ Respond(r, 500)
    /\ UNCHANGED <<disk, locks, outside, gc, history>>

-----------------------------------------------------------------------------
(* The deferred calls: mu.Unlock(), and for PUT the removal of the map's entry *)
(* (whichever mutex it holds by then) as a second step.                        *)

Unlock(r) ==
    LET u == loc[r].upload
        put == loc[r].method = "PUT" IN
    /\ pc[r] = "unlock"
    /\ held' = held \ {loc[r].mutex}
    /\ Goto(r, IF put THEN "drop" ELSE "done")
    /\ spoiled' = IF put /\ u \in sessions THEN spoiled \cup {u} ELSE spoiled
    /\ UNCHANGED <<disk, lockMap, outside, loc, gc, removed>>

DropLock(r) ==
    /\ pc[r] = "drop"
    /\ lockMap' = [lockMap EXCEPT ![loc[r].upload] = NoReq]
    /\ Goto(r, "done")
    /\ UNCHANGED <<disk, held, outside, loc, gc, history>>

-----------------------------------------------------------------------------
(* handleMonolithicUpload: one request, a temp file and a hash of its own. The *)
(* deferred os.Remove runs on every return; a failed os.Create looks like a   *)
(* failed copy.                                                                *)

Finish(r, code) ==
    /\ Goto(r, "done")
    /\ loc' = [loc EXCEPT ![r] = Returned(r, code)]
    /\ monoFiles' = monoFiles \ {r}

MonoCreate(r) ==
    /\ pc[r] = "new"
    /\ monoFiles' = monoFiles \cup {r}
    /\ \E b \in Bodies, c \in Declared :
          loc' = [loc EXCEPT ![r] =
                     Frame("MONO", NoUpload, NoReq, b, DigestOf(c), 0)]
    /\ Goto(r, "monoCopy")
    /\ UNCHANGED <<sessions, bytes, aged, issued, files, content, mappings,
                   locks, outside, gc, history>>

MonoCopy(r) ==
    /\ pc[r] = "monoCopy"
    /\ \/ /\ "copy" \in Faults
          /\ Finish(r, 500)
       \/ /\ DigestOf(loc[r].body) # loc[r].want
          /\ Finish(r, 400)
       \/ /\ DigestOf(loc[r].body) = loc[r].want
          /\ Goto(r, "monoAdd")
          /\ UNCHANGED <<loc, monoFiles>>
    /\ UNCHANGED <<sessions, bytes, aged, issued, files, content, mappings,
                   locks, outside, gc, history>>

MonoAdd(r) ==
    /\ pc[r] = "monoAdd"
    /\ \/ /\ ipfs' = ipfs \cup {loc[r].body}
          /\ loc' = [loc EXCEPT ![r].cid = CIDOf(loc[r].body)]
          /\ Goto(r, "monoMap")
          /\ UNCHANGED monoFiles
       \/ /\ "ipfs" \in Faults
          /\ ipfs' \in {ipfs, ipfs \cup {loc[r].body}}
          /\ Finish(r, 500)
    /\ UNCHANGED <<sessions, bytes, aged, issued, files, content, mappings,
                   locks, announced, gc, history>>

MonoMap(r) ==
    /\ pc[r] = "monoMap"
    /\ \/ /\ mappings' = WithMapping(NewMapping(r))
          /\ Announce(NewMapping(r))
          /\ Finish(r, 201)
       \/ /\ "db" \in Faults
          /\ Finish(r, 500)
          /\ UNCHANGED <<mappings, announced>>
    /\ UNCHANGED <<sessions, bytes, aged, issued, files, content, locks, ipfs,
                   gc, history>>

-----------------------------------------------------------------------------
(* The collector's sweep over stale sessions. It takes no upload mutex, and    *)
(* ignores what DeleteUpload and RemoveTempFile return.                        *)

Age(u) ==
    /\ GCEnabled
    /\ u \in sessions \ aged
    /\ aged' = aged \cup {u}
    /\ UNCHANGED <<sessions, bytes, issued, files, content, mappings,
                   monoFiles, locks, outside, pc, loc, gc, history>>

GCList ==
    /\ GCEnabled
    /\ gc.pc = "idle"
    /\ sessions \cap aged # {}
    /\ gc' = [pc |-> "session", doomed |-> sessions \cap aged, at |-> NoUpload]
    /\ UNCHANGED <<disk, locks, outside, pc, loc, history>>

(* Mutant: only sessions that wrote something are deleted.                     *)
GCDeleteWritten(u) ==
    /\ gc.pc = "session"
    /\ u \in gc.doomed
    /\ sessions' = IF u \in files THEN sessions \ {u} ELSE sessions
    /\ gc' = [pc |-> "file", doomed |-> gc.doomed \ {u}, at |-> u]
    /\ UNCHANGED <<bytes, aged, issued, files, content, mappings, monoFiles,
                   locks, outside, pc, loc, history>>

GCDeleteUpload(u) ==
    /\ gc.pc = "session"
    /\ u \in gc.doomed
    /\ \/ sessions' = sessions \ {u}
       \/ "db" \in Faults /\ UNCHANGED sessions
    /\ gc' = [pc |-> "file", doomed |-> gc.doomed \ {u}, at |-> u]
    /\ UNCHANGED <<bytes, aged, issued, files, content, mappings, monoFiles,
                   locks, outside, pc, loc, history>>

GCRemoveTempFile ==
    /\ gc.pc = "file"
    /\ \/ RemoveFile(gc.at)
       \/ "file" \in Faults /\ UNCHANGED <<files, content, removed, loc>>
    /\ gc' = [pc |-> IF gc.doomed = {} THEN "idle" ELSE "session",
              doomed |-> gc.doomed, at |-> NoUpload]
    /\ UNCHANGED <<sessions, bytes, aged, issued, mappings, monoFiles, locks,
                   outside, pc, spoiled>>

-----------------------------------------------------------------------------
(* The process dies and is started again: the bolt file, the temp directory    *)
(* and the IPFS node keep what they hold; handlers, mutexes and the collector  *)
(* are gone. Nothing in main() cleans the temp directory.                      *)
Crash ==
    /\ "crash" \in Faults
    /\ pc' = [r \in Req |-> IF pc[r] \in {"new", "done"} THEN pc[r] ELSE "dead"]
    /\ loc' = [r \in Req |-> IF pc[r] \in {"new", "done"} THEN loc[r]
                             ELSE Returned(r, 0)]
    /\ lockMap' = [u \in Upload |-> NoReq]
    /\ held' = {}
    /\ gc' = [pc |-> "idle", doomed |-> {}, at |-> NoUpload]
    /\ UNCHANGED <<disk, outside, history>>

Answered(r) == pc[r] \in {"done", "dead"}

(* Every request of the instance has been served: the instance stops here, the *)
(* server would wait for more.                                                 *)
Quiet ==
    /\ \A r \in Req : Answered(r)
    /\ UNCHANGED vars

Step(r) ==
    \/ GetUpload(r) \/ GetRefused(r)
    \/ OpenFile(r) \/ CopyBlock(r) \/ CopyDone(r) \/ WriteFails(r)
    \/ SaveSession(r)
    \/ Hash(r) \/ HashFails(r) \/ DropFile(r) \/ DropSession(r)
    \/ AddToIPFS(r) \/ AddFails(r) \/ PutMapping(r) \/ PutMappingFails(r)
    \/ Unlock(r) \/ DropLock(r)
    \/ MonoCopy(r) \/ MonoAdd(r) \/ MonoMap(r)

GCStep ==
    \/ GCList \/ GCRemoveTempFile
    \/ \E u \in Upload : GCDeleteUpload(u)

Next ==
    \/ \E u \in Upload : CreateUpload(u) \/ Age(u)
    \/ \E r \in Req :
          \/ ArrivePatch(r) \/ ArrivePut(r) \/ MonoCreate(r)
          \/ \E c \in Declared : Mount(r, c)
          \/ Lock(r) \/ Step(r)
    \/ GCStep
    \/ Crash
    \/ Quiet

Spec == Init /\ [][Next]_vars

(* A goroutine that can run does; sync.Mutex hands itself to a waiter after    *)
(* one millisecond (starvation mode), so a waiter that finds it free again and *)
(* again gets it; the collector's ticker keeps firing. This is the system in   *)
(* which the sweep over mappings, which comes before GCList and is not in this *)
(* module, never waits for itself (Lifecycle's Hung, ContentStore's GCHangs).  *)
Fairness ==
    /\ \A r \in Req : WF_vars(Step(r)) /\ SF_vars(Lock(r))
    /\ WF_vars(GCStep)

FairSpec == Spec /\ Fairness

-----------------------------------------------------------------------------
Labels == {"new", "lock", "get", "open", "copy", "save", "hash", "rejectFile",
           "rejectSession", "add", "map", "cleanFile", "cleanSession",
           "unlock", "drop", "monoCopy", "monoAdd", "monoMap", "done", "dead"}

(* Where a handler has read a session and works on it.                         *)
WorkLabels == {"open", "copy", "save", "hash", "rejectFile", "rejectSession",
               "add", "map", "cleanFile", "cleanSession"}
Working(r) == pc[r] \in WorkLabels
InCS(r) == Working(r) \/ pc[r] \in {"get", "unlock"}

Locals == [method : {"none", "PATCH", "PUT", "MONO", "MOUNT"},
           upload : Upload \cup {NoUpload}, mutex : Req \cup {NoReq},
           body : Seq(Block), seen : Nat, copied : Nat,
           want : Digests \cup {NoDigest}, cid : CIDs \cup {NoCID},
           handle : {"none", "open", "lost"},
           status : {0, 201, 202, 400, 404, 500}]

(* Every variable holds a value of its type.                                   *)
TypeOK ==
    /\ sessions \subseteq Upload /\ aged \subseteq Upload
    /\ issued \subseteq Upload /\ files \subseteq Upload
    /\ bytes \in [Upload -> Nat]
    /\ content \in [Upload -> Seq(Block)]
    /\ lockMap \in [Upload -> Req \cup {NoReq}] /\ held \subseteq Req
    /\ mappings \subseteq [digest : Digests, cid : CIDs]
    /\ announced \subseteq [digest : Digests, cid : CIDs]
    /\ ipfs \subseteq Seq(Block)
    /\ monoFiles \subseteq Req
    /\ pc \in [Req -> Labels]
    /\ loc \in [Req -> Locals]
    /\ gc \in [pc : {"idle", "session", "file"}, doomed : SUBSET Upload,
              at : Upload \cup {NoUpload}]
    /\ spoiled \subseteq Upload /\ removed \subseteq Upload

(* What a handler's variables hold at each of its steps, beyond their types.   *)
HasUpload(r) == InCS(r) \/ pc[r] \in {"lock", "drop"}

RequestOK(r) ==
    /\ HasUpload(r) => /\ loc[r].upload \in issued
                      /\ loc[r].mutex \in Req
                      /\ loc[r].method \in {"PATCH", "PUT"}
    /\ pc[r] \in {"hash", "rejectFile", "rejectSession", "add", "map",
                  "cleanFile", "cleanSession"} => loc[r].method = "PUT"
    /\ pc[r] \in {"add", "map", "cleanFile", "cleanSession", "monoAdd",
                  "monoMap"} => loc[r].want \in Digests
    /\ pc[r] \in {"map", "cleanFile", "cleanSession", "monoMap"}
          => loc[r].cid \in CIDs

LocalsOK ==
    /\ \A r \in Req : RequestOK(r)
    /\ gc.pc = "file" => gc.at \in Upload
    /\ sessions \subseteq issued

TypeInv == TypeOK /\ LocalsOK

(* Until a PUT lets go of an upload whose session is still there, no two       *)
(* handlers work on that upload at once: the mutex in uploadMu does what       *)
(* "Lock this upload to prevent concurrent chunk writes" says.                 *)
ExclusiveWriter ==
    \A r, q \in Req :
        /\ Working(r) /\ Working(q)
        /\ loc[r].upload = loc[q].upload
        /\ loc[r].upload \notin spoiled
        => r = q

(* Why: a handler inside its critical section owns a mutex nobody else owns,   *)
(* and while an upload is open (and no PUT let go of it) every handler of that *)
(* upload uses the one mutex its map entry holds.                              *)
MutexInv ==
    \A r \in Req : InCS(r) =>
        /\ loc[r].mutex \in held
        /\ \A q \in Req : InCS(q) /\ loc[q].mutex = loc[r].mutex => q = r

Alive(u) == u \in sessions \/ \E r \in Req : Working(r) /\ loc[r].upload = u

EntryInv ==
    \A r \in Req : LET u == loc[r].upload IN
        HasUpload(r) /\ u \notin spoiled /\ Alive(u)
            => loc[r].mutex = lockMap[u] /\ pc[r] # "drop"

ExclusionInv == TypeInv /\ MutexInv /\ EntryInv

(* As long as that has not happened, what a stored or announced mapping's CID  *)
(* stands for has the mapping's digest, although PUT hashes the temp file and  *)
(* sends it to IPFS in two separate reads.                                     *)
Integrity == \A m \in mappings \cup announced : \E c \in ipfs :
                m.cid = CIDOf(c) /\ m.digest = DigestOf(c)
PushIntegrity == spoiled = {} => Integrity

(* Why: a handler that has matched the digest is alone with the file, so what  *)
(* it sends to the node is what it hashed.                                     *)
Vouched(r) ==
    /\ pc[r] = "add" /\ loc[r].upload \in files => Matches(r)
    /\ pc[r] = "monoAdd" => DigestOf(loc[r].body) = loc[r].want
    /\ pc[r] \in {"map", "cleanFile", "cleanSession", "monoMap"} =>
          \E c \in ipfs : loc[r].cid = CIDOf(c) /\ loc[r].want = DigestOf(c)

IntegrityInv == spoiled = {} => Integrity /\ \A r \in Req : Vouched(r)

(* BytesWritten, from which PATCH computes the Range it answers, never counts  *)
(* a block the temp file does not hold, through failed chunks, lost session    *)
(* updates, crashes and concurrent chunks; unless the file was removed.        *)
RangeWithinFile ==
    \A u \in sessions \ removed : bytes[u] <= Len(content[u])

InNode(cid) == \E c \in ipfs : cid = CIDOf(c)

AckInv ==
    /\ \A m \in mappings : InNode(m.cid)
    /\ \A r \in Req :
        /\ pc[r] \in {"map", "monoMap"} => InNode(loc[r].cid)
        /\ pc[r] \in {"cleanFile", "cleanSession"} \/ loc[r].status = 201
              => \E m \in mappings : m.digest = loc[r].want

(* A push answered 201 can be pulled, also after a crash: its digest is mapped *)
(* to a CID the node has, until a DELETE or the sweep over mappings takes the  *)
(* mapping (both are in Registry and ContentStore, not here).                  *)
AckedIsStored ==
    \A r \in Req : loc[r].status = 201 =>
        \E m \in mappings : m.digest = loc[r].want /\ InNode(m.cid)

(* A request is answered only when its handler returns, and a monolithic one    *)
(* still has the body it came with.                                            *)
AnsweredInv ==
    \A r \in Req :
        /\ pc[r] \notin {"unlock", "drop", "done"} => loc[r].status = 0
        /\ pc[r] \in {"monoCopy", "monoAdd", "monoMap"}
              => loc[r].method = "MONO" /\ loc[r].body \in Bodies
        /\ pc[r] = "monoMap" => loc[r].cid = CIDOf(loc[r].body)

(* Seen from outside, a PUT takes the data when it sends it to IPFS and stores  *)
(* it with the mapping.                                                        *)
TakenBy(r) == IF pc[r] \in {"map", "cleanFile", "cleanSession"}
              THEN loc[r].cid.cid ELSE NoCID
Taken == [r \in Req |-> TakenBy(r)]
Stored == {[digest |-> m.digest.sha256, content |-> m.cid.cid] : m \in mappings}
Acked == {r \in Req : loc[r].status = 201 /\ loc[r].method # "MOUNT"}

A == INSTANCE AtomicUpload WITH
        None <- NoCID, data <- content, taken <- Taken, stored <- Stored,
        acked <- Acked, broken <- spoiled # {}

(* All the steps of the chunked and the monolithic upload, with the collector  *)
(* of sessions, faults and crashes between them, amount to what AtomicUpload   *)
(* promises.                                                                   *)
ImplementsAtomicUpload == A!Spec

(* An upload closed with 201 stays closed: a chunk that waited for the mutex   *)
(* finds no session, and none brings it back.                                  *)
ClosedStaysClosed ==
    \A r \in Req :
        /\ pc[r] = "done" /\ loc[r].method = "PUT" /\ loc[r].status = 201
        /\ loc[r].upload \notin spoiled
        => loc[r].upload \notin sessions

(* When every request has been served and the collector rests, a temp file     *)
(* belongs to a session (which PUT or the collector will remove with it), as   *)
(* long as no PUT let go of an upload that stayed open and none of its requests *)
(* failed: one that fails after the collector took its session leaves the file. *)
NoOrphanTempFile ==
    (spoiled = {} /\ gc.pc = "idle" /\ \A r \in Req : Answered(r))
        => /\ \A u \in files \ sessions :
                \E r \in Req : loc[r].upload = u /\ loc[r].status = 500
           /\ monoFiles = {}

(* Every request that reached the handler is answered.                         *)
EveryRequestAnswered ==
    \A r \in Req : pc[r] \in {"lock", "monoCopy"} ~> Answered(r)

(* A session older than a day goes away, even if a chunk that was under way    *)
(* when the collector deleted it stores it again.                              *)
StaleSessionCollected ==
    \A u \in Upload : (u \in sessions /\ u \in aged) ~> (u \notin sessions)
=============================================================================
