----------------------------- MODULE Lifecycle -----------------------------
(* The life of the process (cmd/registry/main.go) around the one thing all of *)
(* it shares, the bolt database (internal/storage/store.go): handlers that    *)
(* make store calls, the collector that deletes mappings from inside          *)
(* ForEachMapping (internal/gc/gc.go), and main, which drains the server,     *)
(* stops the collector and closes the store. The locks of bbolt are modelled  *)
(* as the calls in src/ meet them: rwlock admits one write transaction,       *)
(* mmaplock is read-held by every read transaction and write-held to map a    *)
(* grown file, and Close takes both. metalock is left out: whoever waits      *)
(* while holding it waits for a writer of mmaplock, which waits for read      *)
(* transactions that release mmaplock before they ask for metalock.           *)
EXTENDS Naturals, Sequences

CONSTANTS
    Handler,    \* goroutines of the server; each serves request after request
    GC, Main,   \* the collector's goroutine and main's
    Digest,     \* mappings in the database
    Programs,   \* the store calls a request makes, in order
    MayGrow,    \* a write transaction may find the file full
    Faults,     \* a subset of {"ipfs", "crash"}
    Nobody, NoDigest

Actor == Handler \cup {GC, Main}
Calls == {"view", "update"}

ASSUME ActorAssumption ==
    /\ GC \notin Handler /\ Main \notin Handler /\ GC # Main
    /\ Nobody \notin Actor /\ NoDigest \notin Digest
ASSUME SwitchAssumption ==
    /\ Programs \subseteq Seq(Calls)
    /\ MayGrow \in BOOLEAN /\ Faults \subseteq {"ipfs", "crash"}

VARIABLES
    main,       \* where main stands
    cancelled,  \* Collector.cancel has been called
    opened,     \* DB.opened
    readers,    \* who holds mmaplock for reading: open read transactions
    writer,     \* who holds rwlock
    want,       \* what each goroutine waits for inside bbolt
    todo,       \* store calls that a request (or the sweep of stale uploads)
                \* has still to make
    busy,       \* handlers that serve a request
    sweep,      \* the collector: [pc, left, at]
    old,        \* mappings older than max_age
    pinned,     \* those the IPFS node has pinned
    late,       \* history: Shutdown gave up after 30 s
    refused,    \* history: handlers that got ErrDatabaseNotOpen
    leaked      \* history: mappings this process deleted but did not unpin

database == <<opened, readers, writer, want>>
collector == <<sweep, old, pinned, leaked>>
requests == <<todo, busy, refused>>
process == <<main, cancelled, late>>
vars == <<database, collector, requests, process>>

Iterates == {"scan", "unpin", "delete"} (* inside ForEachMapping *)
Sweep(pc, left, at) == [pc |-> pc, left |-> left, at |-> at]
NoCalls == [a \in Actor |-> << >>]
NoWants == [a \in Actor |-> "none"]

-----------------------------------------------------------------------------
(* main *)

Init ==
    /\ main = "down" /\ cancelled = FALSE /\ late = FALSE
    /\ opened = FALSE /\ readers = {} /\ writer = Nobody /\ want = NoWants
    /\ todo = NoCalls /\ busy = {} /\ refused = {}
    /\ sweep = Sweep("off", {}, NoDigest)
    /\ old = Digest /\ pinned = Digest /\ leaked = {}

(* NewStore, NewHandler, collector.Start, ListenAndServe.                      *)
Start ==
    /\ main = "down"
    /\ main' = "serving" /\ cancelled' = FALSE /\ late' = FALSE
    /\ opened' = TRUE
    /\ sweep' = Sweep("idle", {}, NoDigest)
    /\ leaked' = {}
    /\ UNCHANGED <<readers, writer, want, requests, old, pinned>>

(* The process is gone, and with it all that is not in the database or on the  *)
(* node; bolt's file lock with it.                                             *)
Gone ==
    /\ main' = "down" /\ cancelled' = FALSE /\ late' = FALSE
    /\ opened' = FALSE /\ readers' = {} /\ writer' = Nobody /\ want' = NoWants
    /\ todo' = NoCalls /\ busy' = {} /\ refused' = {}
    /\ sweep' = Sweep("off", {}, NoDigest)
    /\ leaked' = {}
    /\ UNCHANGED <<old, pinned>>

Crash ==
    /\ "crash" \in Faults
    /\ main # "down"
    /\ Gone

(* SIGINT or SIGTERM: server.Shutdown takes no more requests.                  *)
Signal ==
    /\ main = "serving"
    /\ main' = "draining"
    /\ UNCHANGED <<database, collector, requests, cancelled, late>>

(* Mutant: Shutdown is not waited for.                                         *)
DrainedAtOnce ==
    /\ main = "draining"
    /\ main' = "stopping"
    /\ UNCHANGED <<database, collector, requests, cancelled, late>>

(* Shutdown returns when all requests are answered.                            *)
Drained ==
    /\ main = "draining"
    /\ busy = {}
    /\ main' = "stopping"
    /\ UNCHANGED <<database, collector, requests, cancelled, late>>

(* It gives up after 30 seconds, with handlers still at work.                  *)
Deadline ==
    /\ main = "draining"
    /\ busy # {}
    /\ main' = "stopping"
    /\ late' = TRUE
    /\ UNCHANGED <<database, collector, requests, cancelled>>

(* Mutant: Stop waits for the sweep's goroutine, before it cancels.            *)
StopWaitsFirst ==
    /\ main = "stopping"
    /\ sweep.pc = "off"
    /\ main' = "closing"
    /\ cancelled' = TRUE
    /\ want' = [want EXCEPT ![Main] = "close"]
    /\ UNCHANGED <<opened, readers, writer, collector, requests, late>>

(* The deferred calls: collector.Stop only cancels; federation.Stop waits for  *)
(* goroutines that make no store calls; store.Close is next.                   *)
StopCollector ==
    /\ main = "stopping"
    /\ main' = "closing"
    /\ cancelled' = TRUE
    /\ want' = [want EXCEPT ![Main] = "close"]
    /\ UNCHANGED <<opened, readers, writer, collector, requests, late>>

(* DB.Close: rwlock, then mmaplock, then everything is released.               *)
CloseWaits ==
    /\ want[Main] = "close"
    /\ writer = Nobody
    /\ writer' = Main
    /\ want' = [want EXCEPT ![Main] = "closing"]
    /\ UNCHANGED <<opened, readers, collector, requests, process>>

Close ==
    /\ want[Main] = "closing"
    /\ readers = {}
    /\ opened' = FALSE
    /\ writer' = Nobody
    /\ want' = [want EXCEPT ![Main] = "none"]
    /\ main' = "closed"
    /\ UNCHANGED <<readers, collector, requests, cancelled, late>>

(* main returns.                                                               *)
Exit == main = "closed" /\ Gone

-----------------------------------------------------------------------------
(* Store calls, by handlers and by the collector outside its sweep *)

Arrive(h, program) ==
    /\ main = "serving"
    /\ h \notin busy
    /\ busy' = busy \cup {h}
    /\ todo' = [todo EXCEPT ![h] = program]
    /\ refused' = refused \ {h}
    /\ UNCHANGED <<database, collector, process>>

Answer(h) ==
    /\ h \in busy
    /\ todo[h] = << >>
    /\ busy' = busy \ {h}
    /\ UNCHANGED <<database, collector, todo, refused, process>>

Idle(a) == want[a] = "none" /\ a \notin readers /\ writer # a

(* db.View or db.Update is called.                                             *)
Call(a) ==
    /\ todo[a] # << >>
    /\ Idle(a)
    /\ want' = [want EXCEPT ![a] = IF Head(todo[a]) = "view" THEN "read" ELSE "write"]
    /\ UNCHANGED <<opened, readers, writer, collector, requests, process>>

(* A waiting writer of mmaplock (sync.RWMutex) keeps new readers out.          *)
MapWanted == \E a \in Actor : want[a] \in {"grow", "closing"}

BeginRead(a) ==
    /\ want[a] = "read"
    /\ ~ MapWanted
    /\ opened
    /\ readers' = readers \cup {a}
    /\ want' = [want EXCEPT ![a] = "none"]
    /\ sweep' = IF a = GC /\ sweep.pc = "open" THEN Sweep("scan", old, NoDigest)
                ELSE sweep
    /\ UNCHANGED <<opened, writer, old, pinned, leaked, requests, process>>

(* ErrDatabaseNotOpen: the handler answers with an error, the sweep is over,   *)
(* stale uploads are left alone.                                               *)
Refused(a) ==
    /\ \/ want[a] = "read" /\ ~ MapWanted
       \/ want[a] = "write" /\ writer = Nobody
    /\ ~ opened
    /\ want' = [want EXCEPT ![a] = "none"]
    /\ todo' = [todo EXCEPT ![a] = << >>]
    /\ refused' = refused \cup ({a} \cap Handler)
    /\ sweep' = IF a = GC THEN Sweep("idle", {}, NoDigest) ELSE sweep
    /\ UNCHANGED <<opened, readers, writer, old, pinned, leaked, busy, process>>

EndRead(a) ==
    /\ a \in readers
    /\ todo[a] # << >>
    /\ readers' = readers \ {a}
    /\ todo' = [todo EXCEPT ![a] = Tail(@)]
    /\ UNCHANGED <<opened, writer, want, collector, busy, refused, process>>

BeginWrite(a) ==
    /\ want[a] = "write"
    /\ writer = Nobody
    /\ opened
    /\ writer' = a
    /\ want' = [want EXCEPT ![a] = "none"]
    /\ UNCHANGED <<opened, readers, collector, requests, process>>

Writing(a) == writer = a /\ want[a] = "none"

(* The file is full: pages that were freed while a read transaction is open    *)
(* cannot be used again, so the deletes of a long sweep make it grow.          *)
MustGrow(a) ==
    /\ MayGrow
    /\ Writing(a)
    /\ want' = [want EXCEPT ![a] = "grow"]
    /\ UNCHANGED <<opened, readers, writer, collector, requests, process>>

(* The grown file is mapped and the transaction commits.                       *)
Written(a) ==
    \/ Writing(a)
    \/ want[a] = "grow" /\ readers = {}

(* Mutant: a transaction that is begun by hand and not ended on an error.      *)
CommitUnlessError(a) ==
    /\ Written(a)
    /\ todo[a] # << >>
    /\ writer' \in {Nobody, writer}
    /\ want' = [want EXCEPT ![a] = "none"]
    /\ todo' = [todo EXCEPT ![a] = Tail(@)]
    /\ UNCHANGED <<opened, readers, collector, busy, refused, process>>

Commit(a) ==
    /\ Written(a)
    /\ todo[a] # << >>
    /\ writer' = Nobody
    /\ want' = [want EXCEPT ![a] = "none"]
    /\ todo' = [todo EXCEPT ![a] = Tail(@)]
    /\ UNCHANGED <<opened, readers, collector, busy, refused, process>>

-----------------------------------------------------------------------------
(* The collector *)

(* run: the first sweep at start, then one per tick. When the context is done  *)
(* as well, select takes either branch.                                        *)
SweepBegins ==
    /\ sweep.pc = "idle"
    /\ sweep' = Sweep("open", {}, NoDigest)
    /\ want' = [want EXCEPT ![GC] = "read"]
    /\ UNCHANGED <<opened, readers, writer, old, pinned, leaked, requests, process>>

RunReturns ==
    /\ sweep.pc = "idle"
    /\ cancelled
    /\ sweep' = Sweep("off", {}, NoDigest)
    /\ UNCHANGED <<database, old, pinned, leaked, requests, process>>

(* Mutant: the context is not looked at between mappings.                      *)
TakeCancelled(d) ==
    /\ sweep.pc = "scan"
    /\ d \in sweep.left
    /\ sweep' = Sweep("unpin", sweep.left, d)
    /\ UNCHANGED <<database, old, pinned, leaked, requests, process>>

(* The callback of ForEachMapping, for a mapping that is old.                  *)
Take(d) ==
    /\ sweep.pc = "scan"
    /\ ~ cancelled
    /\ d \in sweep.left
    /\ sweep' = Sweep("unpin", sweep.left, d)
    /\ UNCHANGED <<database, old, pinned, leaked, requests, process>>

(* Mutant: mappings are deleted outside ForEachMapping's read transaction, so   *)
(* that the sweep cannot wait for itself.                                      *)
UnpinThenUpdate ==
    /\ sweep.pc = "unpin"
    /\ \/ pinned' = pinned \ {sweep.at}
       \/ (cancelled \/ "ipfs" \in Faults) /\ UNCHANGED pinned
    /\ sweep' = Sweep("delete", sweep.left, sweep.at)
    /\ want' = [want EXCEPT ![GC] = "write"]
    /\ readers' = readers \ {GC}
    /\ UNCHANGED <<opened, writer, old, leaked, requests, process>>

(* Unpin fails when its context is cancelled or the node does not answer. The  *)
(* mapping is deleted all the same.                                            *)
Unpin ==
    /\ sweep.pc = "unpin"
    /\ \/ pinned' = pinned \ {sweep.at}
       \/ (cancelled \/ "ipfs" \in Faults) /\ UNCHANGED pinned
    /\ sweep' = Sweep("delete", sweep.left, sweep.at)
    /\ want' = [want EXCEPT ![GC] = "write"]
    /\ UNCHANGED <<opened, readers, writer, old, leaked, requests, process>>

(* DeleteMapping, inside the read transaction of ForEachMapping.               *)
Deleted ==
    /\ sweep.pc = "delete"
    /\ Written(GC)
    /\ writer' = Nobody
    /\ want' = [want EXCEPT ![GC] = "none"]
    /\ old' = old \ {sweep.at}
    /\ leaked' = leaked \cup ({sweep.at} \cap pinned)
    /\ sweep' = Sweep("scan", sweep.left \ {sweep.at}, NoDigest)
    /\ UNCHANGED <<opened, readers, pinned, requests, process>>

(* Mutant: the iteration is left with its read transaction open.               *)
SweepStoppedOpen ==
    /\ sweep.pc = "scan"
    /\ cancelled /\ sweep.left # {}
    /\ sweep' = Sweep("idle", {}, NoDigest)
    /\ UNCHANGED <<database, old, pinned, leaked, requests, process>>

(* ForEachMapping ends: stopped by the context, which ends the sweep, or after *)
(* the last mapping; then come the stale uploads.                              *)
SweepStopped ==
    /\ sweep.pc = "scan"
    /\ cancelled /\ sweep.left # {}
    /\ readers' = readers \ {GC}
    /\ sweep' = Sweep("idle", {}, NoDigest)
    /\ UNCHANGED <<opened, writer, want, old, pinned, leaked, requests, process>>

SweepEnds ==
    /\ sweep.pc = "scan"
    /\ sweep.left = {}
    /\ readers' = readers \ {GC}
    /\ sweep' = Sweep("uploads", {}, NoDigest)
    /\ \E stale \in {<<"view">>, <<"view", "update">>} :
          todo' = [todo EXCEPT ![GC] = stale]
    /\ UNCHANGED <<opened, writer, want, old, pinned, leaked, busy, refused, process>>

UploadsDone ==
    /\ sweep.pc = "uploads"
    /\ todo[GC] = << >>
    /\ sweep' = Sweep("idle", {}, NoDigest)
    /\ UNCHANGED <<database, old, pinned, leaked, requests, process>>

-----------------------------------------------------------------------------
Client == Handler \cup {GC}

Granted(a) == BeginRead(a) \/ BeginWrite(a) \/ Refused(a)
Proceeds(a) == Call(a) \/ EndRead(a) \/ Commit(a)
Collects ==
    \/ (\E d \in Digest : Take(d)) \/ Unpin \/ Deleted
    \/ SweepStopped \/ SweepEnds \/ UploadsDone
ShutsDown == Drained \/ Deadline \/ StopCollector \/ Close \/ Exit

Next ==
    \/ Start \/ Crash \/ Signal \/ ShutsDown \/ CloseWaits
    \/ \E h \in Handler : Answer(h) \/ (\E p \in Programs : Arrive(h, p))
    \/ \E a \in Client : Granted(a) \/ Proceeds(a) \/ MustGrow(a)
    \/ SweepBegins \/ RunReturns \/ Collects

Spec == Init /\ [][Next]_vars

(* Goroutines are scheduled, requests to the node time out, and sync.Mutex and *)
(* sync.RWMutex serve whoever waits. Nothing makes signals, requests, ticks,   *)
(* crashes or growth happen.                                                   *)
FairSpec ==
    /\ Spec
    /\ WF_vars(ShutsDown) /\ SF_vars(CloseWaits)
    /\ \A h \in Handler : WF_vars(Answer(h))
    /\ \A a \in Client : SF_vars(Granted(a)) /\ WF_vars(Proceeds(a))
    /\ WF_vars(Collects)

-----------------------------------------------------------------------------
(* Every variable holds a value of its type, and every open transaction        *)
(* belongs to a call or to the sweep.                                          *)
TypeOK ==
    /\ main \in {"down", "serving", "draining", "stopping", "closing", "closed"}
    /\ cancelled \in BOOLEAN /\ late \in BOOLEAN /\ opened \in BOOLEAN
    /\ readers \subseteq Client /\ writer \in Actor \cup {Nobody}
    /\ want \in [Actor -> {"none", "read", "write", "grow", "close", "closing"}]
    /\ todo \in [Actor -> Seq(Calls)]
    /\ busy \subseteq Handler /\ refused \subseteq Handler
    /\ sweep \in [pc : {"off", "idle", "open", "scan", "unpin", "delete", "uploads"},
                  left : SUBSET Digest, at : Digest \cup {NoDigest}]
    /\ old \subseteq Digest /\ pinned \subseteq Digest /\ leaked \subseteq Digest
    /\ GC \in readers => todo[GC] # << >> \/ sweep.pc \in Iterates
    /\ \A h \in Handler : h \in readers \/ writer = h => todo[h] # << >>

(* Only a handler that is still at work when Shutdown gives up can find the    *)
(* database closed.                                                            *)
DrainedBeforeClose == refused # {} => late

(* With a node that answers, stopping the process in the middle of a sweep     *)
(* leaves at most one pin behind that no mapping leads to.                     *)
StopLeaksOne ==
    /\ leaked # {} => cancelled \/ "ipfs" \in Faults
    /\ "ipfs" \notin Faults => \A d, e \in leaked : d = e

(* A mapping whose pin the sweep has given up is deleted before the sweep does  *)
(* anything else, also when the signal, Shutdown's deadline, Stop (which only  *)
(* cancels) and Close fall between the two: nothing but a crash leaves a       *)
(* mapping whose content is free for the node to collect. (A delete that bolt  *)
(* fails is Registry's.)                                                       *)
UnpinnedIsDeleted ==
    [][(sweep.pc = "delete" /\ sweep' # sweep)
          => \/ sweep.at \notin old'
             \/ main' = "down" /\ main # "closed"]_vars

(* The collector waits for itself: its write transaction needs what its own    *)
(* read transaction holds, or a lock whose holder does.                        *)
Hung ==
    /\ sweep.pc = "delete"
    /\ GC \in readers
    /\ \/ want[GC] = "grow"
       \/ /\ want[GC] = "write" /\ writer # Nobody
          /\ want[writer] \in {"grow", "closing"}

(* Nothing but that can block a store call: it ends, or is refused, whatever   *)
(* transactions, growth and shutdown are under way.                            *)
EveryCallEnds ==
    \A a \in Client : want[a] # "none" ~> want[a] = "none" \/ Hung

(* Nor can anything else keep the process from ending after a signal.          *)
StopsUnlessHung == main = "draining" ~> main = "down" \/ Hung

(* "Graceful shutdown" (main.go:196): a signal ends the process.               *)
ShutdownEnds == main = "draining" ~> main = "down"
=============================================================================
