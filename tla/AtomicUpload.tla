---------------------------- MODULE AtomicUpload ----------------------------
(* What the upload endpoints promise a client: the data of an upload grows    *)
(* block by block, a request that closes it takes all of it at one moment,    *)
(* stores it under its own digest, and is acknowledged only then; a request   *)
(* may fail at any point, and the data of an upload may be discarded. What is *)
(* stored stays as far as the uploads go: deleting and collecting blobs are   *)
(* other endpoints' business. Module UploadSession                            *)
(* (internal/registry/handler.go) implements it, in two reads of a file,      *)
(* three systems and a dozen steps, until a PUT lets go of an upload that is  *)
(* still open.                                                                *)
EXTENDS Sequences

CONSTANTS Req, Upload, Block,
          Bodies,   \* what one request can hold
          None      \* a request has taken nothing

VARIABLES
    data,       \* of each upload
    taken,      \* the content each closing request has taken, or None
    stored,     \* blobs: [digest, content]
    acked,      \* requests that are answered 201
    broken      \* a PUT has let go of an open upload: no promise any more

vars == <<data, taken, stored, acked, broken>>

(* Content under its own digest.                                               *)
Blob(c) == [digest |-> c, content |-> c]

Init ==
    /\ data = [u \in Upload |-> << >>]
    /\ taken = [r \in Req |-> None]
    /\ stored = {} /\ acked = {} /\ broken = FALSE

Grow(u) ==
    /\ \E b \in Block : data' = [data EXCEPT ![u] = Append(@, b)]
    /\ UNCHANGED <<taken, stored, acked, broken>>

Discard(u) ==
    /\ data' = [data EXCEPT ![u] = << >>]
    /\ UNCHANGED <<taken, stored, acked, broken>>

Take(r, u) ==
    /\ taken[r] = None /\ r \notin acked
    /\ taken' = [taken EXCEPT ![r] = data[u]]
    /\ UNCHANGED <<data, stored, acked, broken>>

Store(r) ==
    /\ taken[r] # None
    /\ stored' = stored \cup {Blob(taken[r])}
    /\ UNCHANGED <<data, taken, acked, broken>>

Acknowledge(r) ==
    /\ taken[r] # None /\ Blob(taken[r]) \in stored
    /\ acked' = acked \cup {r}
    /\ taken' = [taken EXCEPT ![r] = None]
    /\ UNCHANGED <<data, stored, broken>>

(* A blob in one request.                                                      *)
PutWhole(r) ==
    /\ r \notin acked
    /\ \E c \in Bodies : stored' = stored \cup {Blob(c)}
    /\ acked' = acked \cup {r}
    /\ UNCHANGED <<data, taken, broken>>

(* Requests fail, or die with the process, their answers not sent yet. What is *)
(* stored stays.                                                               *)
Fail ==
    /\ \E S \in SUBSET Req :
          taken' = [r \in Req |-> IF r \in S THEN None ELSE taken[r]]
    /\ acked' \subseteq acked
    /\ UNCHANGED <<data, stored, broken>>

LetGo ==
    /\ broken' = TRUE
    /\ UNCHANGED <<data, taken, stored, acked>>

Next ==
    \/ broken /\ broken'
    \/ \E u \in Upload : Grow(u) \/ Discard(u) \/ (\E r \in Req : Take(r, u))
    \/ \E r \in Req : Store(r) \/ Acknowledge(r) \/ PutWhole(r)
    \/ Fail \/ LetGo

Spec == Init /\ [][Next]_vars
=============================================================================
