-------------------------- MODULE LifecycleProofs --------------------------
(* Proofs about module Lifecycle: for any number of handlers and mappings,    *)
(* any programs of store calls and any faults.                                *)
EXTENDS Lifecycle, SequenceTheorems, TLAPS

(* The store is closed under nobody's transaction.                             *)
ClosedIsQuiet == ~ opened => readers = {} /\ writer = Nobody

(* How far main is, and what that says of the database and of the requests.   *)
Stages ==
    /\ main \in {"serving", "draining", "stopping", "closing"} => opened
    /\ main = "closed" => ~ opened
    /\ main = "down" => ~ opened /\ sweep.pc = "off" /\ ~ late /\ refused = {}
    /\ want[Main] # "none" => main = "closing"
    /\ main \notin {"serving", "draining"} /\ ~ late => busy = {}

(* A handler outside a request makes no store call; in a call, it waits for    *)
(* its transaction or has it, and has one at most.                             *)
Serving ==
    \A h \in Handler :
        /\ todo[h] # << >> => h \in busy
        /\ want[h] # "none" => todo[h] # << >>
        /\ h \in readers => want[h] = "none" /\ writer # h
        /\ writer = h => want[h] \in {"none", "grow"}

(* The same of the collector, whose sweep may have two, and holds its read     *)
(* transaction from the first mapping to the last.                             *)
Sweeping ==
    /\ sweep.pc \in Iterates => GC \in readers
    /\ todo[GC] # << >> => sweep.pc = "uploads"
    /\ want[GC] # "none" => sweep.pc \in {"open", "delete"} \/ todo[GC] # << >>
    /\ want[GC] = "read" => sweep.pc = "open" \/ todo[GC] # << >>
    /\ want[GC] \in {"write", "grow"} => sweep.pc = "delete" \/ todo[GC] # << >>
    /\ writer = GC => sweep.pc = "delete" \/ todo[GC] # << >>
    /\ writer = GC => want[GC] \in {"none", "grow"}
    /\ GC \in readers /\ sweep.pc = "uploads" => want[GC] = "none" /\ writer # GC

(* No more than the one mapping is lost whose turn it was at the cancel.       *)
Pins ==
    "ipfs" \notin Faults =>
        /\ sweep.pc \in {"unpin", "delete"} => leaked = {}
        /\ sweep.pc = "delete" /\ sweep.at \in pinned => cancelled

LifeInv ==
    /\ TypeOK /\ ClosedIsQuiet /\ DrainedBeforeClose /\ StopLeaksOne
    /\ Stages /\ Serving /\ Sweeping /\ Pins

-----------------------------------------------------------------------------
(* Nobody waits, and nobody has calls to make, of the right types.            *)
LEMMA Empty ==
    /\ NoWants \in [Actor -> {"none"}] /\ NoCalls \in [Actor -> {<< >>}]
    /\ << >> \in Seq(Calls) /\ GC \in Actor /\ Main \in Actor
    /\ Handler \subseteq Actor /\ Nobody \notin Actor
    /\ \A a \in Actor : NoWants[a] = "none" /\ NoCalls[a] = << >>
BY ActorAssumption DEF NoWants, NoCalls, Actor

(* The calls the sweep of stale uploads makes are sequences of calls.         *)
LEMMA Pairs == <<"view">> \in Seq(Calls) /\ <<"view", "update">> \in Seq(Calls)
BY DEF Calls

(* So is what is left after one.                                              *)
LEMMA Tails ==
    ASSUME NEW s \in Seq(Calls), s # << >>
    PROVE Tail(s) \in Seq(Calls)
BY HeadTailProperties

(* A process that is gone, and one that has not been started.                  *)
LEMMA GoneStep == TypeOK /\ Gone => LifeInv'
<1> SUFFICES ASSUME TypeOK, Gone PROVE LifeInv'
  OBVIOUS
<1>1. TypeOK'
  <2>1. want' = NoWants /\ todo' = NoCalls
    BY DEF Gone
  <2>2. want' \in [Actor -> {"none", "read", "write", "grow", "close", "closing"}]
    BY <2>1, Empty
  <2>3. todo' \in [Actor -> Seq(Calls)]
    BY <2>1, Empty
  <2>4. /\ main' = "down" /\ cancelled' = FALSE /\ late' = FALSE
        /\ opened' = FALSE /\ readers' = {} /\ writer' = Nobody
        /\ busy' = {} /\ refused' = {} /\ leaked' = {}
    BY DEF Gone
  <2>5. /\ sweep' \in [pc : {"off", "idle", "open", "scan", "unpin", "delete", "uploads"},
                      left : SUBSET Digest, at : Digest \cup {NoDigest}]
        /\ old' \subseteq Digest /\ pinned' \subseteq Digest
    BY DEF TypeOK, Gone, Sweep
  <2>6. \A h \in Handler : h \notin readers' /\ writer' # h
    BY <2>4, Empty
  <2>7. QED
    BY <2>2, <2>3, <2>4, <2>5, <2>6 DEF TypeOK
<1>2. (ClosedIsQuiet /\ DrainedBeforeClose /\ StopLeaksOne)'
  BY DEF Gone, ClosedIsQuiet, DrainedBeforeClose, StopLeaksOne
<1>3. (Stages /\ Serving /\ Sweeping /\ Pins)'
  BY Empty DEF Gone, Stages, Serving, Sweeping, Pins, Sweep, Iterates
<1>4. QED
  BY <1>1, <1>2, <1>3 DEF LifeInv

(* The initial state.                                                         *)
LEMMA LifeInit == Init => LifeInv
<1> SUFFICES ASSUME Init PROVE LifeInv
  OBVIOUS
<1>1. TypeOK
  <2>1. want = NoWants /\ todo = NoCalls
    BY DEF Init
  <2>2. want \in [Actor -> {"none", "read", "write", "grow", "close", "closing"}]
    BY <2>1, Empty
  <2>3. todo \in [Actor -> Seq(Calls)]
    BY <2>1, Empty
  <2>4. /\ main = "down" /\ cancelled = FALSE /\ late = FALSE
        /\ opened = FALSE /\ readers = {} /\ writer = Nobody
        /\ busy = {} /\ refused = {} /\ leaked = {}
    BY DEF Init
  <2>5. /\ sweep \in [pc : {"off", "idle", "open", "scan", "unpin", "delete", "uploads"},
                      left : SUBSET Digest, at : Digest \cup {NoDigest}]
        /\ old \subseteq Digest /\ pinned \subseteq Digest
    BY DEF Init, Sweep
  <2>6. \A h \in Handler : h \notin readers /\ writer # h
    BY <2>4, Empty
  <2>7. QED
    BY <2>2, <2>3, <2>4, <2>5, <2>6 DEF TypeOK
<1>2. ClosedIsQuiet /\ DrainedBeforeClose /\ StopLeaksOne
  BY DEF Init, ClosedIsQuiet, DrainedBeforeClose, StopLeaksOne
<1>3. Stages /\ Serving /\ Sweeping /\ Pins
  BY Empty DEF Init, Stages, Serving, Sweeping, Pins, Sweep, Iterates
<1>4. QED
  BY <1>1, <1>2, <1>3 DEF LifeInv

-----------------------------------------------------------------------------
(* One lemma for each step, one step for each part of the invariant.         *)
LEMMA StartStep == ASSUME LifeInv, Start PROVE LifeInv'
<1> USE ActorAssumption DEF LifeInv
<1>1. TypeOK'
  <2>1. want' \in [Actor -> {"none", "read", "write", "grow", "close", "closing"}]
    BY DEF TypeOK, Start, requests
  <2>2. todo' \in [Actor -> Seq(Calls)]
    BY DEF TypeOK, Start, requests
  <2>3. GC \in readers' => todo'[GC] # << >> \/ sweep'.pc \in Iterates
    BY DEF TypeOK, ClosedIsQuiet, Sweeping, Stages, Start, requests,
       Iterates, Sweep, Actor, Client
  <2>4. \A h \in Handler : h \in readers' \/ writer' = h => todo'[h] # << >>
    BY DEF TypeOK, ClosedIsQuiet, Serving, Stages, Start, requests, Actor, Client
  <2>5. QED
    BY <2>1, <2>2, <2>3, <2>4 DEF TypeOK, Start, requests, Sweep, Actor, Client
<1>2. ClosedIsQuiet'
    BY DEF ClosedIsQuiet, Stages, Start, requests, Sweep
<1>3. DrainedBeforeClose'
    BY DEF DrainedBeforeClose, TypeOK, Stages, Serving, Start, requests,
     Sweep
<1>4. StopLeaksOne'
    BY DEF StopLeaksOne, TypeOK, Pins, Start, requests, Sweep
<1>5. Stages'
    BY DEF TypeOK, Stages, Serving, Sweeping, Start, requests, Sweep, Actor
<1>6. Serving'
    BY DEF TypeOK, Serving, Start, requests, Sweep, Actor
<1>7. Sweeping'
    BY DEF TypeOK, ClosedIsQuiet, Stages, Sweeping, Start, requests, Sweep,
     Actor, Iterates
<1>8. Pins'
    BY DEF TypeOK, StopLeaksOne, Pins, Start, requests, Sweep
<1>9. QED
  BY <1>1, <1>2, <1>3, <1>4, <1>5, <1>6, <1>7, <1>8

(* A signal, when requests are under way, keeps them.                         *)
LEMMA SignalStep == ASSUME LifeInv, Signal PROVE LifeInv'
<1> USE ActorAssumption DEF LifeInv
<1>1. TypeOK'
    BY DEF TypeOK, Signal, database, collector, requests
<1>2. ClosedIsQuiet'
    BY DEF ClosedIsQuiet, Stages, Signal, database, collector, requests
<1>3. DrainedBeforeClose'
    BY DEF DrainedBeforeClose, TypeOK, Stages, Serving, Signal, database,
     collector, requests
<1>4. StopLeaksOne'
    BY DEF StopLeaksOne, TypeOK, Pins, Signal, database, collector, requests
<1>5. Stages'
    BY DEF TypeOK, Stages, Serving, Sweeping, Signal, database, collector,
     requests, Actor
<1>6. Serving'
    BY DEF TypeOK, Serving, Signal, database, collector, requests, Actor
<1>7. Sweeping'
    BY DEF TypeOK, ClosedIsQuiet, Stages, Sweeping, Signal, database,
     collector, requests, Actor
<1>8. Pins'
    BY DEF TypeOK, StopLeaksOne, Pins, Signal, database, collector, requests
<1>9. QED
  BY <1>1, <1>2, <1>3, <1>4, <1>5, <1>6, <1>7, <1>8

(* Shutdown returns: no request is left, so none can find the store closed.   *)
LEMMA DrainedStep == ASSUME LifeInv, Drained PROVE LifeInv'
<1> USE ActorAssumption DEF LifeInv
<1>1. TypeOK'
    BY DEF TypeOK, Drained, database, collector, requests
<1>2. ClosedIsQuiet'
    BY DEF ClosedIsQuiet, Stages, Drained, database, collector, requests
<1>3. DrainedBeforeClose'
    BY DEF DrainedBeforeClose, TypeOK, Stages, Serving, Drained, database,
     collector, requests
<1>4. StopLeaksOne'
    BY DEF StopLeaksOne, TypeOK, Pins, Drained, database, collector,
     requests
<1>5. Stages'
    BY DEF TypeOK, Stages, Serving, Sweeping, Drained, database, collector,
     requests, Actor
<1>6. Serving'
    BY DEF TypeOK, Serving, Drained, database, collector, requests, Actor
<1>7. Sweeping'
    BY DEF TypeOK, ClosedIsQuiet, Stages, Sweeping, Drained, database,
     collector, requests, Actor
<1>8. Pins'
    BY DEF TypeOK, StopLeaksOne, Pins, Drained, database, collector,
     requests
<1>9. QED
  BY <1>1, <1>2, <1>3, <1>4, <1>5, <1>6, <1>7, <1>8

(* Shutdown gives up: from here on handlers may.                              *)
LEMMA DeadlineStep == ASSUME LifeInv, Deadline PROVE LifeInv'
<1> USE ActorAssumption DEF LifeInv
<1>1. TypeOK'
    BY DEF TypeOK, Deadline, database, collector, requests
<1>2. ClosedIsQuiet'
    BY DEF ClosedIsQuiet, Stages, Deadline, database, collector, requests
<1>3. DrainedBeforeClose'
    BY DEF DrainedBeforeClose, TypeOK, Stages, Serving, Deadline, database,
     collector, requests
<1>4. StopLeaksOne'
    BY DEF StopLeaksOne, TypeOK, Pins, Deadline, database, collector,
     requests
<1>5. Stages'
    BY DEF TypeOK, Stages, Serving, Sweeping, Deadline, database, collector,
     requests, Actor
<1>6. Serving'
    BY DEF TypeOK, Serving, Deadline, database, collector, requests, Actor
<1>7. Sweeping'
    BY DEF TypeOK, ClosedIsQuiet, Stages, Sweeping, Deadline, database,
     collector, requests, Actor
<1>8. Pins'
    BY DEF TypeOK, StopLeaksOne, Pins, Deadline, database, collector,
     requests
<1>9. QED
  BY <1>1, <1>2, <1>3, <1>4, <1>5, <1>6, <1>7, <1>8

(* Stop and the call of Close touch no transaction.                           *)
LEMMA StopCollectorStep == ASSUME LifeInv, StopCollector PROVE LifeInv'
<1> USE ActorAssumption DEF LifeInv
<1>1. TypeOK'
    BY DEF TypeOK, StopCollector, collector, requests, Actor, Client
<1>2. ClosedIsQuiet'
    BY DEF ClosedIsQuiet, Stages, StopCollector, collector, requests
<1>3. DrainedBeforeClose'
    BY DEF DrainedBeforeClose, TypeOK, Stages, Serving, StopCollector,
     collector, requests
<1>4. StopLeaksOne'
    BY DEF StopLeaksOne, TypeOK, Pins, StopCollector, collector, requests
<1>5. Stages'
    BY DEF TypeOK, Stages, Serving, Sweeping, StopCollector, collector,
     requests, Actor
<1>6. Serving'
    BY DEF TypeOK, Serving, StopCollector, collector, requests, Actor
<1>7. Sweeping'
    BY DEF TypeOK, ClosedIsQuiet, Stages, Sweeping, StopCollector,
     collector, requests, Actor
<1>8. Pins'
    BY DEF TypeOK, StopLeaksOne, Pins, StopCollector, collector, requests
<1>9. QED
  BY <1>1, <1>2, <1>3, <1>4, <1>5, <1>6, <1>7, <1>8

(* Close has the write lock; read transactions go on.                         *)
LEMMA CloseWaitsStep == ASSUME LifeInv, CloseWaits PROVE LifeInv'
<1> USE ActorAssumption DEF LifeInv
<1>1. TypeOK'
    BY DEF TypeOK, CloseWaits, collector, requests, process, Actor, Client
<1>2. ClosedIsQuiet'
    BY DEF ClosedIsQuiet, Stages, CloseWaits, collector, requests, process
<1>3. DrainedBeforeClose'
    BY DEF DrainedBeforeClose, TypeOK, Stages, Serving, CloseWaits,
     collector, requests, process
<1>4. StopLeaksOne'
    BY DEF StopLeaksOne, TypeOK, Pins, CloseWaits, collector, requests,
     process
<1>5. Stages'
    BY DEF TypeOK, Stages, Serving, Sweeping, CloseWaits, collector,
     requests, process, Actor
<1>6. Serving'
    BY DEF TypeOK, Serving, CloseWaits, collector, requests, process, Actor
<1>7. Sweeping'
    BY DEF TypeOK, ClosedIsQuiet, Stages, Sweeping, CloseWaits, collector,
     requests, process, Actor
<1>8. Pins'
    BY DEF TypeOK, StopLeaksOne, Pins, CloseWaits, collector, requests,
     process
<1>9. QED
  BY <1>1, <1>2, <1>3, <1>4, <1>5, <1>6, <1>7, <1>8

(* Close has both locks, so nobody has a transaction.                         *)
LEMMA CloseStep == ASSUME LifeInv, Close PROVE LifeInv'
<1> USE ActorAssumption DEF LifeInv
<1>1. TypeOK'
    BY DEF TypeOK, Close, collector, requests, Actor, Client
<1>2. ClosedIsQuiet'
    BY DEF ClosedIsQuiet, Stages, Close, collector, requests
<1>3. DrainedBeforeClose'
    BY DEF DrainedBeforeClose, TypeOK, Stages, Serving, Close, collector,
     requests
<1>4. StopLeaksOne'
    BY DEF StopLeaksOne, TypeOK, Pins, Close, collector, requests
<1>5. Stages'
    BY DEF TypeOK, Stages, Serving, Sweeping, Close, collector, requests,
     Actor
<1>6. Serving'
    BY DEF TypeOK, Serving, Close, collector, requests, Actor
<1>7. Sweeping'
    BY DEF TypeOK, ClosedIsQuiet, Stages, Sweeping, Close, collector,
     requests, Actor
<1>8. Pins'
    BY DEF TypeOK, StopLeaksOne, Pins, Close, collector, requests
<1>9. QED
  BY <1>1, <1>2, <1>3, <1>4, <1>5, <1>6, <1>7, <1>8

(* A new request.                                                             *)
LEMMA ArriveStep ==
    ASSUME LifeInv, NEW h \in Handler, NEW p \in Programs, Arrive(h, p)
    PROVE LifeInv'
<1> USE ActorAssumption DEF LifeInv
<1>1. TypeOK'
  <2>1. want' \in [Actor -> {"none", "read", "write", "grow", "close", "closing"}]
    BY DEF TypeOK, Arrive, database, collector, process
  <2>2. todo' \in [Actor -> Seq(Calls)]
    BY SwitchAssumption, Empty DEF TypeOK, Arrive, database, collector, process
  <2>3. GC \in readers' => todo'[GC] # << >> \/ sweep'.pc \in Iterates
    BY DEF TypeOK, ClosedIsQuiet, Sweeping, Stages, Arrive, database,
       collector, process, Iterates, Sweep, Actor, Client
  <2>4. \A i \in Handler : i \in readers' \/ writer' = i => todo'[i] # << >>
    BY DEF TypeOK, ClosedIsQuiet, Serving, Stages, Arrive, database,
       collector, process, Actor, Client
  <2>5. QED
    BY <2>1, <2>2, <2>3, <2>4 DEF TypeOK, Arrive, database, collector,
       process, Sweep, Actor, Client
<1>2. ClosedIsQuiet'
    BY DEF ClosedIsQuiet, Stages, Arrive, database, collector, process
<1>3. DrainedBeforeClose'
    BY DEF DrainedBeforeClose, TypeOK, Stages, Serving, Arrive, database,
     collector, process
<1>4. StopLeaksOne'
    BY DEF StopLeaksOne, TypeOK, Pins, Arrive, database, collector, process
<1>5. Stages'
    BY DEF TypeOK, Stages, Serving, Sweeping, Arrive, database, collector,
     process, Actor
<1>6. Serving'
    BY DEF TypeOK, Serving, Arrive, database, collector, process, Actor
<1>7. Sweeping'
    BY DEF TypeOK, ClosedIsQuiet, Stages, Sweeping, Arrive, database,
     collector, process, Actor
<1>8. Pins'
    BY DEF TypeOK, StopLeaksOne, Pins, Arrive, database, collector, process
<1>9. QED
  BY <1>1, <1>2, <1>3, <1>4, <1>5, <1>6, <1>7, <1>8

(* A request is answered after its last call.                                 *)
LEMMA AnswerStep == ASSUME LifeInv, NEW h \in Handler, Answer(h) PROVE LifeInv'
<1> USE ActorAssumption DEF LifeInv
<1>1. TypeOK'
    BY DEF TypeOK, Answer, database, collector, process
<1>2. ClosedIsQuiet'
    BY DEF ClosedIsQuiet, Stages, Answer, database, collector, process
<1>3. DrainedBeforeClose'
    BY DEF DrainedBeforeClose, TypeOK, Stages, Serving, Answer, database,
     collector, process
<1>4. StopLeaksOne'
    BY DEF StopLeaksOne, TypeOK, Pins, Answer, database, collector, process
<1>5. Stages'
    BY DEF TypeOK, Stages, Serving, Sweeping, Answer, database, collector,
     process, Actor
<1>6. Serving'
    BY DEF TypeOK, Serving, Answer, database, collector, process, Actor
<1>7. Sweeping'
    BY DEF TypeOK, ClosedIsQuiet, Stages, Sweeping, Answer, database,
     collector, process, Actor
<1>8. Pins'
    BY DEF TypeOK, StopLeaksOne, Pins, Answer, database, collector, process
<1>9. QED
  BY <1>1, <1>2, <1>3, <1>4, <1>5, <1>6, <1>7, <1>8

(* A store call begins to wait.                                               *)
LEMMA CallStep == ASSUME LifeInv, NEW a \in Client, Call(a) PROVE LifeInv'
<1> USE ActorAssumption DEF LifeInv
<1>1. TypeOK'
    BY DEF TypeOK, Call, Idle, collector, requests, process, Actor, Client
<1>2. ClosedIsQuiet'
    BY DEF ClosedIsQuiet, Stages, Call, Idle, collector, requests, process
<1>3. DrainedBeforeClose'
    BY DEF DrainedBeforeClose, TypeOK, Stages, Serving, Call, Idle,
     collector, requests, process
<1>4. StopLeaksOne'
    BY DEF StopLeaksOne, TypeOK, Pins, Call, Idle, collector, requests,
     process
<1>5. Stages'
    BY DEF TypeOK, Stages, Serving, Sweeping, Call, Idle, collector,
     requests, process, Actor, Client
<1>6. Serving'
    BY DEF TypeOK, Serving, Call, Idle, collector, requests, process, Actor,
     Client
<1>7. Sweeping'
    BY DEF TypeOK, ClosedIsQuiet, Stages, Sweeping, Call, Idle, collector,
     requests, process, Actor, Client
<1>8. Pins'
    BY DEF TypeOK, StopLeaksOne, Pins, Call, Idle, collector, requests,
     process
<1>9. QED
  BY <1>1, <1>2, <1>3, <1>4, <1>5, <1>6, <1>7, <1>8

(* A read transaction is only begun on an open store.                         *)
LEMMA BeginReadStep ==
    ASSUME LifeInv, NEW a \in Client, BeginRead(a)
    PROVE LifeInv'
<1> USE ActorAssumption DEF LifeInv
<1>1. TypeOK'
  <2>1. want' \in [Actor -> {"none", "read", "write", "grow", "close", "closing"}]
    BY DEF TypeOK, BeginRead, requests, process
  <2>2. todo' \in [Actor -> Seq(Calls)]
    BY DEF TypeOK, BeginRead, requests, process
  <2>3. GC \in readers' => todo'[GC] # << >> \/ sweep'.pc \in Iterates
    BY DEF TypeOK, ClosedIsQuiet, Sweeping, Stages, BeginRead, requests,
       process, Iterates, Sweep, Actor, Client
  <2>4. \A h \in Handler : h \in readers' \/ writer' = h => todo'[h] # << >>
    BY DEF TypeOK, ClosedIsQuiet, Serving, Stages, BeginRead, requests,
       process, Actor, Client
  <2>5. QED
    BY <2>1, <2>2, <2>3, <2>4 DEF TypeOK, BeginRead, requests, process,
       Sweep, Actor, Client
<1>2. ClosedIsQuiet'
    BY DEF ClosedIsQuiet, Stages, BeginRead, requests, process, Sweep
<1>3. DrainedBeforeClose'
    BY DEF DrainedBeforeClose, TypeOK, Stages, Serving, BeginRead, requests,
     process, Sweep
<1>4. StopLeaksOne'
    BY DEF StopLeaksOne, TypeOK, Pins, BeginRead, requests, process, Sweep
<1>5. Stages'
    BY DEF TypeOK, Stages, Serving, Sweeping, BeginRead, requests, process,
     Sweep, Actor, Client
<1>6. Serving'
    BY DEF TypeOK, Serving, BeginRead, requests, process, Sweep, Actor,
     Client
<1>7. Sweeping'
    BY DEF TypeOK, ClosedIsQuiet, Stages, Sweeping, BeginRead, requests,
     process, Sweep, Actor, Client, Iterates
<1>8. Pins'
    BY DEF TypeOK, StopLeaksOne, Pins, BeginRead, requests, process, Sweep
<1>9. QED
  BY <1>1, <1>2, <1>3, <1>4, <1>5, <1>6, <1>7, <1>8

(* A refused handler outlived Shutdown, or Stages would have it idle.         *)
LEMMA RefusedStep == ASSUME LifeInv, NEW a \in Client, Refused(a) PROVE LifeInv'
<1> USE ActorAssumption DEF LifeInv
<1>1. TypeOK'
  <2>1. want' \in [Actor -> {"none", "read", "write", "grow", "close", "closing"}]
    BY DEF TypeOK, Refused, process
  <2>2. todo' \in [Actor -> Seq(Calls)]
    BY Empty DEF TypeOK, Refused, process
  <2>3. GC \in readers' => todo'[GC] # << >> \/ sweep'.pc \in Iterates
    BY DEF TypeOK, ClosedIsQuiet, Sweeping, Stages, Refused, process,
       Iterates, Sweep, Actor, Client
  <2>4. \A h \in Handler : h \in readers' \/ writer' = h => todo'[h] # << >>
    BY DEF TypeOK, ClosedIsQuiet, Serving, Stages, Refused, process, Actor, Client
  <2>5. QED
    BY <2>1, <2>2, <2>3, <2>4 DEF TypeOK, Refused, process, Sweep, Actor, Client
<1>2. ClosedIsQuiet'
    BY DEF ClosedIsQuiet, Stages, Refused, process, Sweep
<1>3. DrainedBeforeClose'
    BY DEF DrainedBeforeClose, TypeOK, Stages, Serving, Refused, process,
     Sweep
<1>4. StopLeaksOne'
    BY DEF StopLeaksOne, TypeOK, Pins, Refused, process, Sweep
<1>5. Stages'
    BY DEF TypeOK, Stages, Serving, Sweeping, Refused, process, Sweep,
     Actor, Client
<1>6. Serving'
    BY DEF TypeOK, Serving, Refused, process, Sweep, Actor, Client
<1>7. Sweeping'
    BY DEF TypeOK, ClosedIsQuiet, Stages, Sweeping, Refused, process, Sweep,
     Actor, Client, Iterates
<1>8. Pins'
    BY DEF TypeOK, StopLeaksOne, Pins, Refused, process, Sweep
<1>9. QED
  BY <1>1, <1>2, <1>3, <1>4, <1>5, <1>6, <1>7, <1>8

(* A read transaction of a call ends.                                         *)
LEMMA EndReadStep == ASSUME LifeInv, NEW a \in Client, EndRead(a) PROVE LifeInv'
<1> USE ActorAssumption DEF LifeInv
<1>1. TypeOK'
  <2>1. want' \in [Actor -> {"none", "read", "write", "grow", "close", "closing"}]
    BY DEF TypeOK, EndRead, collector, process
  <2>2. todo' \in [Actor -> Seq(Calls)]
    BY Tails DEF TypeOK, EndRead, collector, process
  <2>3. GC \in readers' => todo'[GC] # << >> \/ sweep'.pc \in Iterates
    BY DEF TypeOK, ClosedIsQuiet, Sweeping, Stages, EndRead, collector,
       process, Iterates, Sweep, Actor, Client
  <2>4. \A h \in Handler : h \in readers' \/ writer' = h => todo'[h] # << >>
    BY DEF TypeOK, ClosedIsQuiet, Serving, Stages, EndRead, collector,
       process, Actor, Client
  <2>5. QED
    BY <2>1, <2>2, <2>3, <2>4 DEF TypeOK, EndRead, collector, process,
       Sweep, Actor, Client
<1>2. ClosedIsQuiet'
    BY DEF ClosedIsQuiet, Stages, EndRead, collector, process
<1>3. DrainedBeforeClose'
    BY DEF DrainedBeforeClose, TypeOK, Stages, Serving, EndRead, collector,
     process
<1>4. StopLeaksOne'
    BY DEF StopLeaksOne, TypeOK, Pins, EndRead, collector, process
<1>5. Stages'
    BY DEF TypeOK, Stages, Serving, Sweeping, EndRead, collector, process,
     Actor, Client
<1>6. Serving'
    BY DEF TypeOK, Serving, EndRead, collector, process, Actor, Client
<1>7. Sweeping'
    BY DEF TypeOK, ClosedIsQuiet, Stages, Sweeping, EndRead, collector,
     process, Actor, Client, Iterates
<1>8. Pins'
    BY DEF TypeOK, StopLeaksOne, Pins, EndRead, collector, process
<1>9. QED
  BY <1>1, <1>2, <1>3, <1>4, <1>5, <1>6, <1>7, <1>8

(* A write transaction is only begun on an open store.                        *)
LEMMA BeginWriteStep ==
    ASSUME LifeInv, NEW a \in Client, BeginWrite(a)
    PROVE LifeInv'
<1> USE ActorAssumption DEF LifeInv
<1>1. TypeOK'
  <2>1. want' \in [Actor -> {"none", "read", "write", "grow", "close", "closing"}]
    BY DEF TypeOK, BeginWrite, collector, requests, process
  <2>2. todo' \in [Actor -> Seq(Calls)]
    BY DEF TypeOK, BeginWrite, collector, requests, process
  <2>3. GC \in readers' => todo'[GC] # << >> \/ sweep'.pc \in Iterates
    BY DEF TypeOK, ClosedIsQuiet, Sweeping, Stages, BeginWrite, collector,
       requests, process, Iterates, Sweep, Actor, Client
  <2>4. \A h \in Handler : h \in readers' \/ writer' = h => todo'[h] # << >>
    BY DEF TypeOK, ClosedIsQuiet, Serving, Stages, BeginWrite, collector,
       requests, process, Actor, Client
  <2>5. QED
    BY <2>1, <2>2, <2>3, <2>4 DEF TypeOK, BeginWrite, collector, requests,
       process, Sweep, Actor, Client
<1>2. ClosedIsQuiet'
    BY DEF ClosedIsQuiet, Stages, BeginWrite, collector, requests, process
<1>3. DrainedBeforeClose'
    BY DEF DrainedBeforeClose, TypeOK, Stages, Serving, BeginWrite,
     collector, requests, process
<1>4. StopLeaksOne'
    BY DEF StopLeaksOne, TypeOK, Pins, BeginWrite, collector, requests,
     process
<1>5. Stages'
    BY DEF TypeOK, Stages, Serving, Sweeping, BeginWrite, collector,
     requests, process, Actor, Client
<1>6. Serving'
    BY DEF TypeOK, Serving, BeginWrite, collector, requests, process, Actor,
     Client
<1>7. Sweeping'
    BY DEF TypeOK, ClosedIsQuiet, Stages, Sweeping, BeginWrite, collector,
     requests, process, Actor, Client
<1>8. Pins'
    BY DEF TypeOK, StopLeaksOne, Pins, BeginWrite, collector, requests,
     process
<1>9. QED
  BY <1>1, <1>2, <1>3, <1>4, <1>5, <1>6, <1>7, <1>8

(* A writer waits to map a grown file.                                        *)
LEMMA MustGrowStep ==
    ASSUME LifeInv, NEW a \in Client, MustGrow(a)
    PROVE LifeInv'
<1> USE ActorAssumption DEF LifeInv
<1>1. TypeOK'
    BY DEF TypeOK, MustGrow, Writing, collector, requests, process, Actor,
     Client
<1>2. ClosedIsQuiet'
    BY DEF ClosedIsQuiet, Stages, MustGrow, Writing, collector, requests,
     process
<1>3. DrainedBeforeClose'
    BY DEF DrainedBeforeClose, TypeOK, Stages, Serving, MustGrow, Writing,
     collector, requests, process
<1>4. StopLeaksOne'
    BY DEF StopLeaksOne, TypeOK, Pins, MustGrow, Writing, collector,
     requests, process
<1>5. Stages'
    BY DEF TypeOK, Stages, Serving, Sweeping, MustGrow, Writing, collector,
     requests, process, Actor, Client
<1>6. Serving'
    BY DEF TypeOK, Serving, MustGrow, Writing, collector, requests, process,
     Actor, Client
<1>7. Sweeping'
    BY DEF TypeOK, ClosedIsQuiet, Stages, Sweeping, MustGrow, Writing,
     collector, requests, process, Actor, Client
<1>8. Pins'
    BY DEF TypeOK, StopLeaksOne, Pins, MustGrow, Writing, collector,
     requests, process
<1>9. QED
  BY <1>1, <1>2, <1>3, <1>4, <1>5, <1>6, <1>7, <1>8

(* A write transaction of a call ends.                                        *)
LEMMA CommitStep == ASSUME LifeInv, NEW a \in Client, Commit(a) PROVE LifeInv'
<1> USE ActorAssumption DEF LifeInv
<1>1. TypeOK'
  <2>1. want' \in [Actor -> {"none", "read", "write", "grow", "close", "closing"}]
    BY DEF TypeOK, Commit, Written, Writing, collector, process
  <2>2. todo' \in [Actor -> Seq(Calls)]
    BY Tails DEF TypeOK, Commit, Written, Writing, collector, process
  <2>3. GC \in readers' => todo'[GC] # << >> \/ sweep'.pc \in Iterates
    BY DEF TypeOK, ClosedIsQuiet, Sweeping, Stages, Commit, Written,
       Writing, collector, process, Iterates, Sweep, Actor, Client
  <2>4. \A h \in Handler : h \in readers' \/ writer' = h => todo'[h] # << >>
    BY DEF TypeOK, ClosedIsQuiet, Serving, Stages, Commit, Written, Writing,
       collector, process, Actor, Client
  <2>5. QED
    BY <2>1, <2>2, <2>3, <2>4 DEF TypeOK, Commit, Written, Writing,
       collector, process, Sweep, Actor, Client
<1>2. ClosedIsQuiet'
    BY DEF ClosedIsQuiet, Stages, Commit, Written, Writing, collector,
     process
<1>3. DrainedBeforeClose'
    BY DEF DrainedBeforeClose, TypeOK, Stages, Serving, Commit, Written,
     Writing, collector, process
<1>4. StopLeaksOne'
    BY DEF StopLeaksOne, TypeOK, Pins, Commit, Written, Writing, collector,
     process
<1>5. Stages'
    BY DEF TypeOK, Stages, Serving, Sweeping, Commit, Written, Writing,
     collector, process, Actor, Client
<1>6. Serving'
    BY DEF TypeOK, Serving, Commit, Written, Writing, collector, process,
     Actor, Client
<1>7. Sweeping'
    BY DEF TypeOK, ClosedIsQuiet, Stages, Sweeping, Commit, Written,
     Writing, collector, process, Actor, Client
<1>8. Pins'
    BY DEF TypeOK, StopLeaksOne, Pins, Commit, Written, Writing, collector,
     process
<1>9. QED
  BY <1>1, <1>2, <1>3, <1>4, <1>5, <1>6, <1>7, <1>8

(* A sweep begins by waiting for its read transaction.                        *)
LEMMA SweepBeginsStep == ASSUME LifeInv, SweepBegins PROVE LifeInv'
<1> USE ActorAssumption DEF LifeInv
<1>1. TypeOK'
    BY DEF TypeOK, SweepBegins, requests, process, Sweep, Actor, Client,
     Iterates
<1>2. ClosedIsQuiet'
    BY DEF ClosedIsQuiet, Stages, SweepBegins, requests, process, Sweep
<1>3. DrainedBeforeClose'
    BY DEF DrainedBeforeClose, TypeOK, Stages, Serving, SweepBegins,
     requests, process, Sweep
<1>4. StopLeaksOne'
    BY DEF StopLeaksOne, TypeOK, Pins, SweepBegins, requests, process, Sweep
<1>5. Stages'
    BY DEF TypeOK, Stages, Serving, Sweeping, SweepBegins, requests,
     process, Sweep, Actor
<1>6. Serving'
    BY DEF TypeOK, Serving, SweepBegins, requests, process, Sweep, Actor
<1>7. Sweeping'
    BY DEF TypeOK, ClosedIsQuiet, Stages, Sweeping, SweepBegins, requests,
     process, Sweep, Actor, Iterates
<1>8. Pins'
    BY DEF TypeOK, StopLeaksOne, Pins, SweepBegins, requests, process, Sweep
<1>9. QED
  BY <1>1, <1>2, <1>3, <1>4, <1>5, <1>6, <1>7, <1>8

(* The goroutine returns, in no transaction.                                  *)
LEMMA RunReturnsStep == ASSUME LifeInv, RunReturns PROVE LifeInv'
<1> USE ActorAssumption DEF LifeInv
<1>1. TypeOK'
    BY DEF TypeOK, RunReturns, database, requests, process, Sweep, Iterates
<1>2. ClosedIsQuiet'
    BY DEF ClosedIsQuiet, Stages, RunReturns, database, requests, process,
     Sweep
<1>3. DrainedBeforeClose'
    BY DEF DrainedBeforeClose, TypeOK, Stages, Serving, RunReturns,
     database, requests, process, Sweep
<1>4. StopLeaksOne'
    BY DEF StopLeaksOne, TypeOK, Pins, RunReturns, database, requests,
     process, Sweep
<1>5. Stages'
    BY DEF TypeOK, Stages, Serving, Sweeping, RunReturns, database,
     requests, process, Sweep, Actor
<1>6. Serving'
    BY DEF TypeOK, Serving, RunReturns, database, requests, process, Sweep,
     Actor
<1>7. Sweeping'
    BY DEF TypeOK, ClosedIsQuiet, Stages, Sweeping, RunReturns, database,
     requests, process, Sweep, Actor, Iterates
<1>8. Pins'
    BY DEF TypeOK, StopLeaksOne, Pins, RunReturns, database, requests,
     process, Sweep
<1>9. QED
  BY <1>1, <1>2, <1>3, <1>4, <1>5, <1>6, <1>7, <1>8

(* A mapping is only taken before the cancel, so nothing is lost yet.         *)
LEMMA TakeStep == ASSUME LifeInv, NEW d \in Digest, Take(d) PROVE LifeInv'
<1> USE ActorAssumption DEF LifeInv
<1>1. TypeOK'
    BY DEF TypeOK, Take, database, requests, process, Sweep, Iterates
<1>2. ClosedIsQuiet'
    BY DEF ClosedIsQuiet, Stages, Take, database, requests, process, Sweep
<1>3. DrainedBeforeClose'
    BY DEF DrainedBeforeClose, TypeOK, Stages, Serving, Take, database,
     requests, process, Sweep
<1>4. StopLeaksOne'
    BY DEF StopLeaksOne, TypeOK, Pins, Take, database, requests, process,
     Sweep
<1>5. Stages'
    BY DEF TypeOK, Stages, Serving, Sweeping, Take, database, requests,
     process, Sweep, Actor
<1>6. Serving'
    BY DEF TypeOK, Serving, Take, database, requests, process, Sweep, Actor
<1>7. Sweeping'
    BY DEF TypeOK, ClosedIsQuiet, Stages, Sweeping, Take, database,
     requests, process, Sweep, Actor, Iterates
<1>8. Pins'
    BY DEF TypeOK, StopLeaksOne, Pins, Take, database, requests, process,
     Sweep
<1>9. QED
  BY <1>1, <1>2, <1>3, <1>4, <1>5, <1>6, <1>7, <1>8

(* An unpin fails after the cancel, or by a fault.                            *)
LEMMA UnpinStep == ASSUME LifeInv, Unpin PROVE LifeInv'
<1> USE ActorAssumption DEF LifeInv
<1>1. TypeOK'
    BY DEF TypeOK, Unpin, requests, process, Sweep, Actor, Client, Iterates
<1>2. ClosedIsQuiet'
    BY DEF ClosedIsQuiet, Stages, Unpin, requests, process, Sweep
<1>3. DrainedBeforeClose'
    BY DEF DrainedBeforeClose, TypeOK, Stages, Serving, Unpin, requests,
     process, Sweep
<1>4. StopLeaksOne'
    BY DEF StopLeaksOne, TypeOK, Pins, Unpin, requests, process, Sweep
<1>5. Stages'
    BY DEF TypeOK, Stages, Serving, Sweeping, Unpin, requests, process,
     Sweep, Actor
<1>6. Serving'
    BY DEF TypeOK, Serving, Unpin, requests, process, Sweep, Actor
<1>7. Sweeping'
    BY DEF TypeOK, ClosedIsQuiet, Stages, Sweeping, Unpin, requests,
     process, Sweep, Actor, Iterates
<1>8. Pins'
    BY DEF TypeOK, StopLeaksOne, Pins, Unpin, requests, process, Sweep
<1>9. QED
  BY <1>1, <1>2, <1>3, <1>4, <1>5, <1>6, <1>7, <1>8

(* What is deleted while still pinned is lost; it is the first.               *)
LEMMA DeletedStep == ASSUME LifeInv, Deleted PROVE LifeInv'
<1> USE ActorAssumption DEF LifeInv
<1>1. TypeOK'
    BY DEF TypeOK, Deleted, Written, Writing, requests, process, Sweep,
     Actor, Client, Iterates
<1>2. ClosedIsQuiet'
    BY DEF ClosedIsQuiet, Stages, Deleted, Written, Writing, requests,
     process, Sweep
<1>3. DrainedBeforeClose'
    BY DEF DrainedBeforeClose, TypeOK, Stages, Serving, Deleted, Written,
     Writing, requests, process, Sweep
<1>4. StopLeaksOne'
    BY DEF StopLeaksOne, TypeOK, Pins, Deleted, Written, Writing, requests,
     process, Sweep
<1>5. Stages'
    BY DEF TypeOK, Stages, Serving, Sweeping, Deleted, Written, Writing,
     requests, process, Sweep, Actor
<1>6. Serving'
    BY DEF TypeOK, Serving, Deleted, Written, Writing, requests, process,
     Sweep, Actor
<1>7. Sweeping'
    BY DEF TypeOK, ClosedIsQuiet, Stages, Sweeping, Deleted, Written,
     Writing, requests, process, Sweep, Actor, Iterates
<1>8. Pins'
    BY DEF TypeOK, StopLeaksOne, Pins, Deleted, Written, Writing, requests,
     process, Sweep
<1>9. QED
  BY <1>1, <1>2, <1>3, <1>4, <1>5, <1>6, <1>7, <1>8

(* After the cancel the sweep gives its transaction back.                     *)
LEMMA SweepStoppedStep == ASSUME LifeInv, SweepStopped PROVE LifeInv'
<1> USE ActorAssumption DEF LifeInv
<1>1. TypeOK'
    BY DEF TypeOK, SweepStopped, requests, process, Sweep, Iterates
<1>2. ClosedIsQuiet'
    BY DEF ClosedIsQuiet, Stages, SweepStopped, requests, process, Sweep
<1>3. DrainedBeforeClose'
    BY DEF DrainedBeforeClose, TypeOK, Stages, Serving, SweepStopped,
     requests, process, Sweep
<1>4. StopLeaksOne'
    BY DEF StopLeaksOne, TypeOK, Pins, SweepStopped, requests, process,
     Sweep
<1>5. Stages'
    BY DEF TypeOK, Stages, Serving, Sweeping, SweepStopped, requests,
     process, Sweep, Actor
<1>6. Serving'
    BY DEF TypeOK, Serving, SweepStopped, requests, process, Sweep, Actor
<1>7. Sweeping'
    BY DEF TypeOK, ClosedIsQuiet, Stages, Sweeping, SweepStopped, requests,
     process, Sweep, Actor, Iterates
<1>8. Pins'
    BY DEF TypeOK, StopLeaksOne, Pins, SweepStopped, requests, process,
     Sweep
<1>9. QED
  BY <1>1, <1>2, <1>3, <1>4, <1>5, <1>6, <1>7, <1>8

(* So it does at its end, before it turns to the uploads.                     *)
LEMMA SweepEndsStep == ASSUME LifeInv, SweepEnds PROVE LifeInv'
<1> USE ActorAssumption DEF LifeInv
<1>1. TypeOK'
  <2>1. want' \in [Actor -> {"none", "read", "write", "grow", "close", "closing"}]
    BY DEF TypeOK, SweepEnds, process
  <2>2. todo' \in [Actor -> Seq(Calls)]
    <3>1. PICK stale \in {<<"view">>, <<"view", "update">>} :
                 todo' = [todo EXCEPT ![GC] = stale]
      BY DEF SweepEnds
    <3>2. stale \in Seq(Calls)
      BY Pairs
    <3>3. QED
      BY <3>1, <3>2 DEF TypeOK
  <2>3. GC \in readers' => todo'[GC] # << >> \/ sweep'.pc \in Iterates
    BY DEF TypeOK, ClosedIsQuiet, Sweeping, Stages, SweepEnds, process,
       Iterates, Sweep, Actor, Client
  <2>4. \A h \in Handler : h \in readers' \/ writer' = h => todo'[h] # << >>
    BY DEF TypeOK, ClosedIsQuiet, Serving, Stages, SweepEnds, process, Actor, Client
  <2>5. QED
    BY <2>1, <2>2, <2>3, <2>4 DEF TypeOK, SweepEnds, process, Sweep, Actor, Client
<1>2. ClosedIsQuiet'
    BY DEF ClosedIsQuiet, Stages, SweepEnds, process, Sweep
<1>3. DrainedBeforeClose'
    BY DEF DrainedBeforeClose, TypeOK, Stages, Serving, SweepEnds, process,
     Sweep
<1>4. StopLeaksOne'
    BY DEF StopLeaksOne, TypeOK, Pins, SweepEnds, process, Sweep
<1>5. Stages'
    BY DEF TypeOK, Stages, Serving, Sweeping, SweepEnds, process, Sweep,
     Actor
<1>6. Serving'
    BY DEF TypeOK, Serving, SweepEnds, process, Sweep, Actor
<1>7. Sweeping'
    BY DEF TypeOK, ClosedIsQuiet, Stages, Sweeping, SweepEnds, process,
     Sweep, Actor, Iterates
<1>8. Pins'
    BY DEF TypeOK, StopLeaksOne, Pins, SweepEnds, process, Sweep
<1>9. QED
  BY <1>1, <1>2, <1>3, <1>4, <1>5, <1>6, <1>7, <1>8

(* The collector rests.                                                       *)
LEMMA UploadsDoneStep == ASSUME LifeInv, UploadsDone PROVE LifeInv'
<1> USE ActorAssumption DEF LifeInv
<1>1. TypeOK'
    BY DEF TypeOK, UploadsDone, database, requests, process, Sweep, Iterates
<1>2. ClosedIsQuiet'
    BY DEF ClosedIsQuiet, Stages, UploadsDone, database, requests, process,
     Sweep
<1>3. DrainedBeforeClose'
    BY DEF DrainedBeforeClose, TypeOK, Stages, Serving, UploadsDone,
     database, requests, process, Sweep
<1>4. StopLeaksOne'
    BY DEF StopLeaksOne, TypeOK, Pins, UploadsDone, database, requests,
     process, Sweep
<1>5. Stages'
    BY DEF TypeOK, Stages, Serving, Sweeping, UploadsDone, database,
     requests, process, Sweep, Actor
<1>6. Serving'
    BY DEF TypeOK, Serving, UploadsDone, database, requests, process, Sweep,
     Actor
<1>7. Sweeping'
    BY DEF TypeOK, ClosedIsQuiet, Stages, Sweeping, UploadsDone, database,
     requests, process, Sweep, Actor, Iterates
<1>8. Pins'
    BY DEF TypeOK, StopLeaksOne, Pins, UploadsDone, database, requests,
     process, Sweep
<1>9. QED
  BY <1>1, <1>2, <1>3, <1>4, <1>5, <1>6, <1>7, <1>8

-----------------------------------------------------------------------------
(* The steps of a store call.                                                 *)
LEMMA ClientStep ==
    ASSUME LifeInv, NEW a \in Client, Granted(a) \/ Proceeds(a) \/ MustGrow(a)
    PROVE  LifeInv'
BY BeginReadStep, BeginWriteStep, RefusedStep, CallStep, EndReadStep,
   CommitStep, MustGrowStep DEF Granted, Proceeds

(* The steps of a sweep.                                                      *)
LEMMA CollectorStep ==
    LifeInv /\ (SweepBegins \/ RunReturns \/ Collects) => LifeInv'
BY SweepBeginsStep, RunReturnsStep, TakeStep, UnpinStep, DeletedStep,
   SweepStoppedStep, SweepEndsStep, UploadsDoneStep DEF Collects

(* The steps of main.                                                         *)
LEMMA MainStep ==
    LifeInv /\ (Start \/ Crash \/ Signal \/ ShutsDown \/ CloseWaits) => LifeInv'
BY StartStep, GoneStep, SignalStep, DrainedStep, DeadlineStep, StopCollectorStep,
   CloseWaitsStep, CloseStep DEF Crash, Exit, ShutsDown, LifeInv

(* Requests come and are answered.                                            *)
LEMMA RequestStep ==
    ASSUME LifeInv, NEW h \in Handler,
           Answer(h) \/ (\E p \in Programs : Arrive(h, p))
    PROVE  LifeInv'
BY AnswerStep, ArriveStep

(* Every step keeps the invariant.                                            *)
LEMMA LifeStep == LifeInv /\ [Next]_vars => LifeInv'
<1> SUFFICES ASSUME LifeInv, [Next]_vars PROVE LifeInv'
  OBVIOUS
<1>1. CASE Next
  BY <1>1, MainStep, RequestStep, ClientStep, CollectorStep DEF Next
<1>2. CASE UNCHANGED vars
  BY <1>2 DEF vars, database, collector, requests, process, LifeInv, TypeOK,
     ClosedIsQuiet, DrainedBeforeClose, StopLeaksOne, Stages, Serving, Sweeping,
     Pins
<1>3. QED
  BY <1>1, <1>2

(* It holds in every state.                                                   *)
LEMMA LifeInvariant == Spec => []LifeInv
<1>1. Init => LifeInv
  BY LifeInit
<1>2. QED
  BY <1>1, LifeStep, PTL DEF Spec

(* Every variable keeps its type, and every open transaction belongs to a      *)
(* store call or to the sweep.                                                 *)
THEOREM LifecycleTypeCorrect == Spec => []TypeOK
<1>1. LifeInv => TypeOK
  BY DEF LifeInv
<1>2. QED
  BY <1>1, LifeInvariant, PTL

(* A handler finds the store closed only if Shutdown gave up on it.            *)
THEOREM OnlyLateHandlersRefused == Spec => []DrainedBeforeClose
<1>1. LifeInv => DrainedBeforeClose
  BY DEF LifeInv
<1>2. QED
  BY <1>1, LifeInvariant, PTL

(* A sweep that has given up a pin deletes the mapping, whatever main does     *)
(* meanwhile: it is inside its own read transaction, so Close is not through   *)
(* and no delete of its can be refused.                                        *)
THEOREM NoPinlessMapping == Spec => UnpinnedIsDeleted
<1> DEFINE Done == (sweep.pc = "delete" /\ sweep' # sweep)
                      => \/ sweep.at \notin old'
                         \/ main' = "down" /\ main # "closed"
<1>1. LifeInv /\ [Next]_vars => [Done]_vars
  <2> SUFFICES ASSUME LifeInv, Next, sweep.pc = "delete", sweep' # sweep
               PROVE  \/ sweep.at \notin old'
                      \/ main' = "down" /\ main # "closed"
    BY DEF vars
  <2>1. GC \in readers /\ opened /\ main \notin {"down", "closed"}
    BY DEF LifeInv, ClosedIsQuiet, Stages, Sweeping, Iterates
  <2>2. CASE Start \/ Crash \/ Signal \/ ShutsDown \/ CloseWaits
    BY <2>1, <2>2 DEF Start, Crash, Gone, Signal, ShutsDown, Drained, Deadline,
       StopCollector, Close, Exit, CloseWaits, collector
  <2>3. CASE \E h \in Handler : Answer(h) \/ (\E p \in Programs : Arrive(h, p))
    BY <2>3 DEF Answer, Arrive, collector
  <2>4. CASE \E a \in Client : Granted(a) \/ Proceeds(a) \/ MustGrow(a)
    BY <2>1, <2>4 DEF Granted, BeginRead, BeginWrite, Refused, Proceeds, Call,
       EndRead, Commit, MustGrow, collector
  <2>5. CASE SweepBegins \/ RunReturns \/ Collects
    BY <2>5 DEF SweepBegins, RunReturns, Collects, Take, Unpin, Deleted,
       SweepStopped, SweepEnds, UploadsDone
  <2>6. QED
    BY <2>2, <2>3, <2>4, <2>5 DEF Next
<1>2. QED
  BY <1>1, LifeInvariant, PTL DEF Spec, UnpinnedIsDeleted

(* Stop in the middle of a sweep costs one pin at most.                        *)
THEOREM OnePinLost == Spec => []StopLeaksOne
<1>1. LifeInv => StopLeaksOne
  BY DEF LifeInv
<1>2. QED
  BY <1>1, LifeInvariant, PTL
=============================================================================
