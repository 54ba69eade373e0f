------------------------- MODULE RateLimiterProofs -------------------------
(* Proofs about the rate limiter: its types, that it locks nobody out, and    *)
(* that it implements RequestBudget.                                          *)
EXTENDS RateLimiter, TLAPS

AdmittedAt(ip, t) == log[ip][t] < log[ip][t + 1]

(* The request that opened a counter's window was admitted, and lies back.     *)
OpenedByAdmission ==
    \A ip \in IP : counters[ip] # None =>
        /\ counters[ip].resetAt - Window \in 0..now
        /\ AdmittedAt(ip, counters[ip].resetAt - Window)

(* The log counts upwards, and does not know the future.                       *)
LogOrdered ==
    \A ip \in IP : \A s, t \in 0..(MaxTime + 1) : s <= t =>
        /\ log[ip][s] <= log[ip][t]
        /\ now < s => log[ip][s] = log[ip][t]

Inv == TypeOK /\ LogOrdered /\ OpenedByAdmission /\ NoLockout

Counters == [count : 1..MaxCount, resetAt : Window..(MaxTime + Window)]

(* A budget is never empty.                                                    *)
LEMMA BudgetPositive == Budget \in Nat \ {0}
  BY LimiterAssumption DEF Budget

(* A counter is never mistaken for the absence of one.                         *)
LEMMA CounterIsNotNone ==
  ASSUME NEW c \in [count : Int, resetAt : Int]
  PROVE  c # None
  BY LimiterAssumption

(* A request that is admitted counts for every later moment.                   *)
LEMMA AdmittedTyped ==
  ASSUME TypeOK, NEW ip \in IP, Admitted(ip)
  PROVE  /\ log' \in [IP -> [0..(MaxTime + 1) -> Nat]]
         /\ \A i \in IP \ {ip} : log'[i] = log[i]
         /\ \A t \in 0..(MaxTime + 1) :
               log'[ip][t] = IF t > now THEN log[ip][t] + 1 ELSE log[ip][t]
  <1> DEFINE f == [t \in 0..(MaxTime + 1) |->
                      IF t > now THEN log[ip][t] + 1 ELSE log[ip][t]]
  <1>1. log \in [IP -> [0..(MaxTime + 1) -> Nat]]
    BY DEF TypeOK
  <1>2. log[ip] \in [0..(MaxTime + 1) -> Nat]
    BY <1>1
  <1>3. f \in [0..(MaxTime + 1) -> Nat]
    <2>1. ASSUME NEW t \in 0..(MaxTime + 1)
          PROVE  (IF t > now THEN log[ip][t] + 1 ELSE log[ip][t]) \in Nat
      <3>1. log[ip][t] \in Nat
        BY <1>2
      <3> QED BY <3>1
    <2> QED BY <2>1
  <1>4. log' = [log EXCEPT ![ip] = f]
    BY DEF Admitted
  <1>5. \A t \in 0..(MaxTime + 1) : f[t] = IF t > now THEN log[ip][t] + 1 ELSE log[ip][t]
    OBVIOUS
  <1> HIDE DEF f
  <1>6. log'[ip] = f /\ \A i \in IP \ {ip} : log'[i] = log[i]
    BY <1>1, <1>4
  <1>7. log' \in [IP -> [0..(MaxTime + 1) -> Nat]]
    BY <1>1, <1>3, <1>4
  <1> QED
    BY <1>5, <1>6, <1>7

(* So nothing that was admitted is forgotten, and the log stays ordered.       *)
LEMMA AdmittedKept ==
  ASSUME TypeOK, LogOrdered, NEW ip \in IP, Admitted(ip), now' = now
  PROVE  /\ LogOrdered'
         /\ \A i \in IP, t \in 0..MaxTime : AdmittedAt(i, t) => AdmittedAt(i, t)'
         /\ log'[ip][now] < log'[ip][now + 1]
  <1>1. /\ now \in 0..MaxTime /\ MaxTime \in Nat
        /\ \A i \in IP, t \in 0..(MaxTime + 1) : log[i][t] \in Nat
    BY LimiterAssumption DEF TypeOK
  <1>2. /\ \A i \in IP \ {ip} : log'[i] = log[i]
        /\ \A t \in 0..(MaxTime + 1) :
              log'[ip][t] = IF t > now THEN log[ip][t] + 1 ELSE log[ip][t]
    BY AdmittedTyped
  <1>3. LogOrdered'
    <2> SUFFICES ASSUME NEW i \in IP, NEW s \in 0..(MaxTime + 1),
                        NEW t \in 0..(MaxTime + 1), s <= t
                 PROVE  /\ log'[i][s] <= log'[i][t]
                        /\ now < s => log'[i][s] = log'[i][t]
      BY DEF LogOrdered
    <2>1. log[i][s] <= log[i][t] /\ (now < s => log[i][s] = log[i][t])
      BY DEF LogOrdered
    <2>2. CASE i = ip
      BY <1>1, <1>2, <2>1, <2>2
    <2>3. CASE i # ip
      BY <1>2, <2>1, <2>3
    <2> QED BY <2>2, <2>3
  <1>4. ASSUME NEW i \in IP, NEW t \in 0..MaxTime, AdmittedAt(i, t)
        PROVE  AdmittedAt(i, t)'
    <2>1. t \in 0..(MaxTime + 1) /\ t + 1 \in 0..(MaxTime + 1)
      BY <1>1
    <2>2. CASE i = ip
      BY <1>1, <1>2, <1>4, <2>1, <2>2 DEF AdmittedAt
    <2>3. CASE i # ip
      BY <1>2, <1>4, <2>3 DEF AdmittedAt
    <2> QED BY <2>2, <2>3
  <1>5. log'[ip][now] < log'[ip][now + 1]
    <2>1. now \in 0..(MaxTime + 1) /\ now + 1 \in 0..(MaxTime + 1) /\ now < now + 1
      BY <1>1
    <2>2. log[ip][now] <= log[ip][now + 1]
      BY <2>1 DEF LogOrdered
    <2> QED BY <1>1, <1>2, <2>1, <2>2
  <1> QED
    BY <1>3, <1>4, <1>5

(* The invariant holds at first.                                               *)
LEMMA InitInv == Init => Inv
  BY LimiterAssumption
  DEF Init, Inv, TypeOK, LogOrdered, OpenedByAdmission, NoLockout

(* A request that opens a window keeps it.                                     *)
LEMMA OpenInv ==
  ASSUME Inv, NEW ip \in IP, Open(ip)
  PROVE  Inv'
  <1>1. /\ now' = now /\ now \in 0..MaxTime
        /\ now + Window \in Window..(MaxTime + Window)
    BY LimiterAssumption DEF Inv, TypeOK, Open
  <1>2. counters' = [counters EXCEPT ![ip] = Counter(1, now + Window)]
    BY DEF Open
  <1>3. Counter(1, now + Window) \in Counters
    BY <1>1, LimiterAssumption DEF Counter, Counters
  <1>4. /\ log' \in [IP -> [0..(MaxTime + 1) -> Nat]]
        /\ LogOrdered' /\ refused' = {}
        /\ \A i \in IP, t \in 0..MaxTime : AdmittedAt(i, t) => AdmittedAt(i, t)'
        /\ log'[ip][now] < log'[ip][now + 1]
    BY AdmittedTyped, AdmittedKept DEF Open, Inv, Admitted
  <1>5. counters \in [IP -> Counters \cup {None}]
    BY DEF Inv, TypeOK, Counters
  <1>6. TypeOK'
    BY <1>1, <1>2, <1>3, <1>4, <1>5 DEF TypeOK, Counters
  <1>7. \A i \in IP : counters'[i] = IF i = ip THEN Counter(1, now + Window) ELSE counters[i]
    BY <1>2, <1>5
  <1>8. OpenedByAdmission'
    <2> SUFFICES ASSUME NEW i \in IP, counters'[i] # None
                 PROVE  /\ counters'[i].resetAt - Window \in 0..now
                        /\ AdmittedAt(i, counters[i].resetAt - Window)'
      BY <1>1 DEF OpenedByAdmission
    <2>1. CASE i = ip
      <3>1. counters'[i].resetAt = now + Window
        BY <1>7, <2>1 DEF Counter
      <3>2. counters'[i].resetAt - Window = now
        BY <3>1, <1>1, LimiterAssumption
      <3> QED
        BY <3>2, <2>1, <1>1, <1>4 DEF AdmittedAt
    <2>2. CASE i # ip
      <3>1. counters'[i] = counters[i]
        BY <1>7, <2>2
      <3>2. /\ counters[i].resetAt - Window \in 0..now
            /\ AdmittedAt(i, counters[i].resetAt - Window)
        BY <3>1 DEF Inv, OpenedByAdmission
      <3>3. counters[i].resetAt - Window \in 0..MaxTime
        BY <3>2, <1>1, LimiterAssumption
      <3> QED
        BY <3>1, <3>2, <3>3, <1>4 DEF AdmittedAt
    <2> QED BY <2>1, <2>2
  <1>9. NoLockout'
    BY <1>4 DEF NoLockout
  <1> QED BY <1>4, <1>6, <1>8, <1>9 DEF Inv

(* A request within a window keeps it.                                         *)
LEMMA CountInv ==
  ASSUME Inv, NEW ip \in IP, Count(ip)
  PROVE  Inv'
  <1> DEFINE c == counters[ip]
  <1>1. /\ now' = now /\ now \in 0..MaxTime
        /\ counters \in [IP -> Counters \cup {None}]
        /\ log \in [IP -> [0..(MaxTime + 1) -> Nat]]
    BY DEF Inv, TypeOK, Count, Counters
  <1>2. c # None /\ c \in Counters /\ c.count < MaxCount /\ now <= c.resetAt
    BY <1>1, LimiterAssumption DEF Count, Expired, Counters
  <1>3. counters' = [counters EXCEPT ![ip] = Counter(c.count + 1, c.resetAt)]
    BY DEF Count
  <1>4. Counter(c.count + 1, c.resetAt) \in Counters
    BY <1>2, LimiterAssumption DEF Counter, Counters
  <1>5. \A i \in IP : counters'[i] = IF i = ip THEN Counter(c.count + 1, c.resetAt)
                                     ELSE counters[i]
    BY <1>1, <1>3
  <1>6. /\ \A i \in IP : counters'[i] # None => counters[i] # None
        /\ \A i \in IP : counters'[i] # None => counters'[i].resetAt = counters[i].resetAt
    BY <1>2, <1>5 DEF Counter
  <1>7. \/ Admitted(ip)
        \/ refused' = {ip} /\ log' = log
    BY DEF Count
  <1>8. /\ log' \in [IP -> [0..(MaxTime + 1) -> Nat]]
        /\ LogOrdered' /\ refused' \in SUBSET IP
        /\ \A i \in IP, t \in 0..MaxTime : AdmittedAt(i, t) => AdmittedAt(i, t)'
    <2>1. CASE Admitted(ip)
      BY <1>1, <2>1, AdmittedTyped, AdmittedKept DEF Inv, Admitted
    <2>2. CASE refused' = {ip} /\ log' = log
      BY <1>1, <2>2 DEF Inv, LogOrdered, AdmittedAt
    <2> QED BY <1>7, <2>1, <2>2
  <1>9. TypeOK'
    BY <1>1, <1>3, <1>4, <1>8 DEF TypeOK, Counters
  <1>10. OpenedByAdmission'
    <2> SUFFICES ASSUME NEW i \in IP, counters'[i] # None
                 PROVE  /\ counters'[i].resetAt - Window \in 0..now
                        /\ AdmittedAt(i, counters[i].resetAt - Window)'
      BY <1>1 DEF OpenedByAdmission
    <2>1. counters'[i].resetAt = counters[i].resetAt
      BY <1>6
    <2>2. /\ counters[i].resetAt - Window \in 0..now
          /\ AdmittedAt(i, counters[i].resetAt - Window)
      BY <1>6 DEF Inv, OpenedByAdmission
    <2>3. counters[i].resetAt - Window \in 0..MaxTime
      BY <2>2, <1>1, LimiterAssumption
    <2> QED BY <2>1, <2>2, <2>3, <1>8 DEF AdmittedAt
  <1>11. NoLockout'
    <2>1. CASE Admitted(ip)
      BY <2>1 DEF Admitted, NoLockout
    <2>2. CASE refused' = {ip} /\ log' = log
      <3>1. /\ c.resetAt - Window \in 0..now
            /\ AdmittedAt(ip, c.resetAt - Window)
        BY <1>2 DEF Inv, OpenedByAdmission
      <3>2. now <= (c.resetAt - Window) + Window
        BY <1>1, <1>2, LimiterAssumption DEF Counters
      <3>3. \E t \in 0..now : now <= t + Window /\ log[ip][t] < log[ip][t + 1]
        BY <3>1, <3>2 DEF AdmittedAt
      <3> QED BY <2>2, <3>3, <1>1 DEF NoLockout
    <2> QED BY <1>7, <2>1, <2>2
  <1> QED BY <1>8, <1>9, <1>10, <1>11 DEF Inv

(* A clean-up keeps it.                                                        *)
LEMMA CleanupInv ==
  ASSUME Inv, Cleanup
  PROVE  Inv'
  <1>1. /\ now' = now /\ log' = log /\ refused' = {}
        /\ \A i \in IP : counters'[i] = IF Expired(i) THEN None ELSE counters[i]
        /\ counters' \in [IP -> Counters \cup {None}]
    BY DEF Inv, TypeOK, Cleanup, Counters
  <1>2. TypeOK'
    BY <1>1 DEF Inv, TypeOK, Counters
  <1>3. OpenedByAdmission' /\ LogOrdered'
    BY <1>1 DEF Inv, OpenedByAdmission, AdmittedAt, LogOrdered
  <1>4. NoLockout'
    BY <1>1 DEF NoLockout
  <1> QED BY <1>2, <1>3, <1>4 DEF Inv

(* Time keeps it.                                                              *)
LEMMA TickInv ==
  ASSUME Inv, Tick
  PROVE  Inv'
  <1>1. /\ now' = now + 1 /\ now' \in 0..MaxTime /\ now \in 0..MaxTime
        /\ log' = log /\ counters' = counters /\ refused' = {}
    BY LimiterAssumption DEF Inv, TypeOK, Tick
  <1>2. TypeOK'
    BY <1>1 DEF Inv, TypeOK
  <1>3. OpenedByAdmission' /\ LogOrdered'
    BY <1>1 DEF Inv, OpenedByAdmission, AdmittedAt, LogOrdered
  <1>4. NoLockout'
    BY <1>1 DEF NoLockout
  <1> QED BY <1>2, <1>3, <1>4 DEF Inv

(* So every step does.                                                         *)
LEMMA NextInv == Inv /\ [Next]_vars => Inv'
  <1> SUFFICES ASSUME Inv, [Next]_vars PROVE Inv'
    OBVIOUS
  <1>1. ASSUME NEW ip \in IP, Open(ip) PROVE Inv'
    BY <1>1, OpenInv
  <1>2. ASSUME NEW ip \in IP, Count(ip) PROVE Inv'
    BY <1>2, CountInv
  <1>3. CASE Cleanup
    BY <1>3, CleanupInv
  <1>4. CASE Tick
    BY <1>4, TickInv
  <1>5. CASE UNCHANGED vars
    BY <1>5 DEF vars, Inv, TypeOK, LogOrdered, OpenedByAdmission, AdmittedAt,
                NoLockout
  <1> QED BY <1>1, <1>2, <1>3, <1>4, <1>5 DEF Next

(* And it holds in every state.                                                *)
LEMMA InvHolds == Spec => []Inv
  BY InitInv, NextInv, PTL DEF Spec

(* Counters, clock and log keep their types.                                   *)
THEOREM LimiterTypeCorrect == Spec => []TypeOK
  <1>1. Inv => TypeOK
    BY DEF Inv
  <1> QED BY <1>1, InvHolds, PTL

(* Whoever is refused has had a request admitted within the last window, for   *)
(* every limit, burst and window.                                              *)
THEOREM NobodyLockedOut == Spec => []NoLockout
  <1>1. Inv => NoLockout
    BY DEF Inv
  <1> QED BY <1>1, InvHolds, PTL

-----------------------------------------------------------------------------
(* Two budgets.                                                                *)

(* A counter's window cannot take more than its budget, and whoever has no     *)
(* counter, or one whose window has passed, starts the next with nothing yet   *)
(* admitted at this moment.                                                    *)
Used(c) == IF c.count < Budget THEN c.count ELSE Budget

Opened(ip) == counters[ip].resetAt - Window

(* At most one budget was admitted between s and t, if they lie in one window. *)
OneBudget(ip, s, t) ==
    t <= s + Window + 1 => log[ip][t] - log[ip][s] <= Budget

(* Why no span sees three budgets: all that was admitted since the counter's   *)
(* window opened is in its count, and whatever span reaches back from there    *)
(* reaches one earlier window at most.                                         *)
Spans(ip) ==
    /\ counters[ip] = None \/ Expired(ip) => log[ip][now] = log[ip][now + 1]
    /\ counters[ip] = None => \A s \in 0..now : OneBudget(ip, s, now + 1)
    /\ counters[ip] # None =>
          /\ AdmittedSince(ip, Opened(ip)) <= Used(counters[ip])
          /\ \A s \in 0..Opened(ip) : Opened(ip) <= s + Window =>
                log[ip][Opened(ip)] - log[ip][s] <= Budget

SpanInv == \A ip \in IP : Spans(ip)

(* What the invariants say of one address's counter and log.                   *)
LEMMA Ledger ==
  ASSUME Inv, NEW ip \in IP
  PROVE  /\ now \in 0..MaxTime /\ MaxTime \in Nat /\ Window \in Nat
         /\ Budget \in Nat \ {0}
         /\ \A t \in 0..(MaxTime + 1) : log[ip][t] \in Nat
         /\ \A s, t \in 0..(MaxTime + 1) : s <= t => log[ip][s] <= log[ip][t]
         /\ \A s \in 0..(MaxTime + 1) : now < s => log[ip][s] = log[ip][now + 1]
         /\ counters[ip] # None =>
               /\ counters[ip].count \in Nat /\ counters[ip].resetAt \in Nat
               /\ Opened(ip) \in 0..now
  <1>1. /\ now \in 0..MaxTime /\ MaxTime \in Nat /\ Window \in Nat
        /\ \A t \in 0..(MaxTime + 1) : log[ip][t] \in Nat
    BY LimiterAssumption DEF Inv, TypeOK
  <1>2. \A s, t \in 0..(MaxTime + 1) : s <= t => log[ip][s] <= log[ip][t]
    BY DEF Inv, LogOrdered
  <1>3. ASSUME NEW s \in 0..(MaxTime + 1), now < s
        PROVE  log[ip][s] = log[ip][now + 1]
    <2>1. now + 1 \in 0..(MaxTime + 1) /\ now < now + 1 /\ now + 1 <= s
      BY <1>1, <1>3
    <2> QED BY <2>1 DEF Inv, LogOrdered
  <1>4. ASSUME counters[ip] # None
        PROVE  /\ counters[ip].count \in Nat /\ counters[ip].resetAt \in Nat
               /\ Opened(ip) \in 0..now
    <2>1. counters[ip] \in [count : 1..MaxCount, resetAt : Window..(MaxTime + Window)]
      BY <1>4 DEF Inv, TypeOK
    <2>2. Opened(ip) \in 0..now
      BY <1>4 DEF Inv, OpenedByAdmission, Opened
    <2> QED BY <2>1, <2>2, LimiterAssumption
  <1> QED
    BY <1>1, <1>2, <1>3, <1>4, BudgetPositive

(* A window that has passed leaves room for no more than its own budget.       *)
LEMMA PassedIsOneBudget ==
  ASSUME Inv, NEW ip \in IP, Spans(ip), counters[ip] = None \/ Expired(ip)
  PROVE  \A s \in 0..now : OneBudget(ip, s, now + 1)
  <1> SUFFICES ASSUME Expired(ip), NEW s \in 0..now, now + 1 <= s + Window + 1
               PROVE  log[ip][now + 1] - log[ip][s] <= Budget
    BY DEF Spans, OneBudget
  <1> DEFINE o == Opened(ip)
  <1>1. counters[ip] # None /\ now > counters[ip].resetAt
    BY DEF Expired
  <1>2. /\ o \in 0..now /\ counters[ip].resetAt \in Nat /\ counters[ip].count \in Nat
        /\ now \in 0..MaxTime /\ MaxTime \in Nat /\ Window \in Nat /\ Budget \in Nat
    BY <1>1, Ledger
  <1>3. o <= s
    BY <1>1, <1>2 DEF Opened
  <1>4. o \in 0..(MaxTime + 1) /\ s \in 0..(MaxTime + 1) /\ now + 1 \in 0..(MaxTime + 1)
    BY <1>2
  <1>5. log[ip][o] <= log[ip][s]
    BY <1>3, <1>4, Ledger
  <1>6. log[ip][now + 1] - log[ip][o] <= Used(counters[ip])
    BY <1>1 DEF Spans, AdmittedSince
  <1>7. Used(counters[ip]) <= Budget /\ Used(counters[ip]) \in Nat
    BY <1>2 DEF Used
  <1>8. log[ip][o] \in Nat /\ log[ip][s] \in Nat /\ log[ip][now + 1] \in Nat
    BY <1>4, Ledger
  <1> QED
    BY <1>2, <1>5, <1>6, <1>7, <1>8

(* A step that leaves the clock, an address's counter and its log alone.       *)
LEMMA SpansStay ==
  ASSUME NEW ip \in IP, Spans(ip), now' = now, counters'[ip] = counters[ip],
         log'[ip] = log[ip]
  PROVE  Spans(ip)'
  BY DEF Spans, Expired, OneBudget, AdmittedSince, Opened, Used

(* A request that opens a window.                                              *)
LEMMA OpenSpans ==
  ASSUME Inv, SpanInv, NEW ip \in IP, Open(ip)
  PROVE  SpanInv'
  <1>1. /\ now' = now /\ Admitted(ip)
        /\ counters[ip] = None \/ Expired(ip)
        /\ counters' = [counters EXCEPT ![ip] = Counter(1, now + Window)]
    BY DEF Open
  <1>2. TypeOK /\ counters \in [IP -> Counters \cup {None}]
    BY DEF Inv, TypeOK, Counters
  <1>3. \A i \in IP \ {ip} : counters'[i] = counters[i] /\ log'[i] = log[i]
    BY <1>1, <1>2, AdmittedTyped
  <1>4. \A i \in IP \ {ip} : Spans(i)'
    BY <1>1, <1>3, SpansStay DEF SpanInv
  <1>5. /\ now \in 0..MaxTime /\ MaxTime \in Nat /\ Window \in Nat
        /\ Budget \in Nat \ {0}
        /\ \A t \in 0..(MaxTime + 1) : log[ip][t] \in Nat
    BY Ledger
  <1>6. /\ counters'[ip] = Counter(1, now + Window)
        /\ counters'[ip] # None /\ counters'[ip].resetAt = now + Window
        /\ counters'[ip].count = 1
    <2>1. counters'[ip] = Counter(1, now + Window)
      BY <1>1, <1>2
    <2>2. Counter(1, now + Window) \in [count : Int, resetAt : Int]
      BY <1>5 DEF Counter
    <2> QED BY <2>1, <2>2, CounterIsNotNone DEF Counter
  <1>7. /\ \A t \in 0..now : log'[ip][t] = log[ip][t]
        /\ log'[ip][now + 1] = log[ip][now + 1] + 1
    BY <1>1, <1>2, <1>5, AdmittedTyped
  <1>8. Opened(ip)' = now
    BY <1>5, <1>6 DEF Opened
  <1>9. Spans(ip) /\ log[ip][now] = log[ip][now + 1]
    BY <1>1 DEF SpanInv, Spans
  <1>10. AdmittedSince(ip, Opened(ip))' <= Used(counters[ip])'
    <2>1. AdmittedSince(ip, Opened(ip))' = 1
      BY <1>1, <1>5, <1>7, <1>8, <1>9 DEF AdmittedSince
    <2>2. Used(counters[ip])' = 1
      BY <1>5, <1>6 DEF Used, Budget
    <2> QED BY <2>1, <2>2
  <1>11. ASSUME NEW s \in 0..now, now <= s + Window
         PROVE  log'[ip][now] - log'[ip][s] <= Budget
    <2>1. OneBudget(ip, s, now + 1)
      BY <1>1, <1>9, PassedIsOneBudget
    <2> QED BY <1>5, <1>7, <1>9, <1>11, <2>1 DEF OneBudget
  <1>12. ~Expired(ip)'
    BY <1>1, <1>5, <1>6 DEF Expired
  <1>13. Spans(ip)'
    BY <1>6, <1>8, <1>10, <1>11, <1>12 DEF Spans, Budget
  <1> QED BY <1>4, <1>13 DEF SpanInv

(* A request within a window.                                                  *)
LEMMA CountSpans ==
  ASSUME Inv, SpanInv, NEW ip \in IP, Count(ip)
  PROVE  SpanInv'
  <1> DEFINE c == counters[ip]
             o == c.resetAt - Window
  <1>1. /\ now' = now /\ c # None /\ ~Expired(ip)
        /\ counters' = [counters EXCEPT ![ip] = Counter(c.count + 1, c.resetAt)]
        /\ \/ c.count + 1 <= Limit + Burst /\ Admitted(ip)
           \/ c.count + 1 > Limit + Burst /\ log' = log
    BY DEF Count
  <1>2. TypeOK /\ counters \in [IP -> Counters \cup {None}]
    BY DEF Inv, TypeOK, Counters
  <1>3. \A i \in IP \ {ip} : counters'[i] = counters[i] /\ log'[i] = log[i]
    BY <1>1, <1>2, AdmittedTyped
  <1>4. \A i \in IP \ {ip} : Spans(i)'
    BY <1>1, <1>3, SpansStay DEF SpanInv
  <1>5. /\ now \in 0..MaxTime /\ MaxTime \in Nat /\ Window \in Nat
        /\ Budget \in Nat \ {0} /\ c.count \in Nat /\ c.resetAt \in Nat
        /\ o \in 0..now
        /\ \A t \in 0..(MaxTime + 1) : log[ip][t] \in Nat
    BY <1>1, Ledger DEF Opened
  <1>6. /\ counters'[ip] # None /\ counters'[ip].resetAt = c.resetAt
        /\ counters'[ip].count = c.count + 1
    <2>1. counters'[ip] = Counter(c.count + 1, c.resetAt)
      BY <1>1, <1>2
    <2>2. Counter(c.count + 1, c.resetAt) \in [count : Int, resetAt : Int]
      BY <1>5 DEF Counter
    <2> QED BY <2>1, <2>2, CounterIsNotNone DEF Counter
  <1>7. /\ \A t \in 0..now : log'[ip][t] = log[ip][t]
        /\ \/ log'[ip][now + 1] = log[ip][now + 1]
           \/ /\ log'[ip][now + 1] = log[ip][now + 1] + 1
              /\ c.count + 1 <= Limit + Burst
    <2>1. CASE c.count + 1 <= Limit + Burst /\ Admitted(ip)
      <3>1. \A t \in 0..(MaxTime + 1) :
               log'[ip][t] = IF t > now THEN log[ip][t] + 1 ELSE log[ip][t]
        BY <1>2, <2>1, AdmittedTyped
      <3> HIDE DEF c
      <3> QED BY <1>5, <2>1, <3>1
    <2>2. CASE log' = log
      BY <2>2
    <2> QED BY <1>1, <2>1, <2>2
  <1>8. Opened(ip)' = o
    BY <1>6 DEF Opened
  <1>9. /\ log[ip][now + 1] - log[ip][o] <= Used(c)
        /\ \A s \in 0..o : o <= s + Window => log[ip][o] - log[ip][s] <= Budget
    BY <1>1 DEF SpanInv, Spans, Opened, AdmittedSince
  <1>10. log'[ip][now + 1] - log'[ip][o] <= Used(counters'[ip])
    <2>1. /\ log'[ip][o] = log[ip][o] /\ log[ip][o] \in Nat
          /\ log[ip][now + 1] \in Nat
      BY <1>5, <1>7
    <2>2. Limit + Burst <= Budget /\ Limit \in Nat /\ Burst \in Nat
      BY LimiterAssumption DEF Budget
    <2>3. CASE log'[ip][now + 1] = log[ip][now + 1]
      BY <1>5, <1>6, <1>9, <2>1, <2>3 DEF Used
    <2>4. CASE /\ log'[ip][now + 1] = log[ip][now + 1] + 1
               /\ c.count + 1 <= Limit + Burst
      BY <1>5, <1>6, <1>9, <2>1, <2>2, <2>4 DEF Used
    <2> QED BY <1>7, <2>3, <2>4
  <1>11. \A s \in 0..o : o <= s + Window => log'[ip][o] - log'[ip][s] <= Budget
    BY <1>5, <1>7, <1>9
  <1>12. ~Expired(ip)'
    BY <1>1, <1>6 DEF Expired
  <1>13. Spans(ip)'
    BY <1>1, <1>6, <1>8, <1>10, <1>11, <1>12 DEF Spans, AdmittedSince, Used, Budget
  <1> QED BY <1>4, <1>13 DEF SpanInv

(* A clean-up forgets only windows that have passed.                           *)
LEMMA CleanupSpans ==
  ASSUME Inv, SpanInv, Cleanup
  PROVE  SpanInv'
  <1>1. /\ now' = now /\ log' = log
        /\ \A i \in IP : counters'[i] = IF Expired(i) THEN None ELSE counters[i]
    BY DEF Cleanup
  <1> SUFFICES ASSUME NEW i \in IP PROVE Spans(i)'
    BY DEF SpanInv
  <1>2. CASE Expired(i)
    <2>1. Spans(i) /\ \A s \in 0..now : OneBudget(i, s, now + 1)
      BY <1>2, PassedIsOneBudget DEF SpanInv
    <2>2. log[i][now] = log[i][now + 1]
      BY <1>2, <2>1 DEF Spans
    <2> QED
      BY <1>1, <1>2, <2>1, <2>2 DEF Spans, OneBudget, Budget
  <1>3. CASE ~Expired(i)
    BY <1>1, <1>3, SpansStay DEF SpanInv
  <1> QED BY <1>2, <1>3

(* Time passes, and nothing has been admitted in the moment that begins.       *)
LEMMA TickSpans ==
  ASSUME Inv, SpanInv, Tick
  PROVE  SpanInv'
  <1>1. /\ now' = now + 1 /\ now < MaxTime /\ log' = log /\ counters' = counters
    BY DEF Tick
  <1> SUFFICES ASSUME NEW i \in IP PROVE Spans(i)'
    BY DEF SpanInv
  <1>2. /\ now \in 0..MaxTime /\ MaxTime \in Nat /\ Window \in Nat /\ Budget \in Nat
        /\ \A t \in 0..(MaxTime + 1) : log[i][t] \in Nat
        /\ counters[i] # None => Opened(i) \in 0..now
    BY Ledger
  <1>3. log[i][now + 2] = log[i][now + 1]
    <2>1. now + 2 \in 0..(MaxTime + 1) /\ now < now + 2
      BY <1>1, <1>2
    <2> QED BY <2>1, Ledger
  <1>4. ASSUME counters[i] = None, NEW s \in 0..(now + 1), now + 2 <= s + Window + 1
        PROVE  log[i][now + 2] - log[i][s] <= Budget
    <2>1. CASE s = now + 1
      BY <1>1, <1>2, <1>3, <2>1
    <2>2. CASE s # now + 1
      <3>1. s \in 0..now /\ now + 1 <= s + Window + 1
        BY <1>2, <1>4, <2>2
      <3>2. log[i][now + 1] - log[i][s] <= Budget
        BY <1>4, <3>1 DEF SpanInv, Spans, OneBudget
      <3> QED BY <1>3, <3>2
    <2> QED BY <2>1, <2>2
  <1>5. now' + 1 = now + 2
    BY <1>1, <1>2
  <1>6. counters[i] # None =>
           /\ log[i][now + 2] - log[i][Opened(i)] <= Used(counters[i])
           /\ \A s \in 0..Opened(i) : Opened(i) <= s + Window =>
                 log[i][Opened(i)] - log[i][s] <= Budget
    BY <1>3 DEF SpanInv, Spans, AdmittedSince
  <1>7. Opened(i)' = Opened(i) /\ Used(counters[i])' = Used(counters[i])
    BY <1>1 DEF Opened, Used, Budget
  <1> QED
    BY <1>1, <1>3, <1>4, <1>5, <1>6, <1>7
    DEF Spans, OneBudget, AdmittedSince, Budget

(* Every step.                                                                 *)
LEMMA NextSpans == Inv /\ SpanInv /\ [Next]_vars => SpanInv'
  <1> SUFFICES ASSUME Inv, SpanInv, [Next]_vars PROVE SpanInv'
    OBVIOUS
  <1>1. CASE UNCHANGED vars
    BY <1>1, SpansStay DEF vars, SpanInv
  <1> QED
    BY <1>1, OpenSpans, CountSpans, CleanupSpans, TickSpans DEF Next

(* No span as long as a window sees more than two budgets, for every limit,    *)
(* burst and window, wherever windows and clean-ups fall.                      *)
THEOREM AtMostTwoBudgets == Spec => []TwoBudgets
  <1>1. Init => SpanInv
    <2> SUFFICES ASSUME Init, NEW ip \in IP PROVE Spans(ip)
      BY DEF SpanInv
    <2>1. /\ now = 0 /\ counters[ip] = None /\ MaxTime \in Nat
          /\ log[ip] = [t \in 0..(MaxTime + 1) |-> 0]
      BY LimiterAssumption DEF Init
    <2>2. now + 1 \in 0..(MaxTime + 1) /\ 0..now \subseteq 0..(MaxTime + 1)
      BY <2>1
    <2>3. log[ip][now + 1] = 0 /\ \A s \in 0..now : log[ip][s] = 0
      BY <2>1, <2>2
    <2> QED
      BY <2>1, <2>3, BudgetPositive DEF Spans, OneBudget
  <1>2. Inv /\ SpanInv => TwoBudgets
    <2> SUFFICES ASSUME Inv, SpanInv, NEW ip \in IP, NEW s \in 0..now,
                        now <= s + Window
                 PROVE  AdmittedSince(ip, s) <= 2 * Budget
      BY DEF TwoBudgets
    <2>1. /\ now \in 0..MaxTime /\ MaxTime \in Nat /\ Window \in Nat
          /\ Budget \in Nat \ {0}
          /\ \A t \in 0..(MaxTime + 1) : log[ip][t] \in Nat
          /\ counters[ip] # None =>
                Opened(ip) \in 0..now /\ counters[ip].count \in Nat
      BY Ledger
    <2>2. CASE counters[ip] = None
      <3>1. log[ip][now + 1] - log[ip][s] <= Budget
        BY <2>1, <2>2 DEF SpanInv, Spans, OneBudget
      <3>2. log[ip][now + 1] \in Nat /\ log[ip][s] \in Nat
        BY <2>1
      <3> QED BY <2>1, <3>1, <3>2 DEF AdmittedSince
    <2>3. CASE counters[ip] # None
      <3> DEFINE o == Opened(ip)
      <3>1. /\ log[ip][now + 1] - log[ip][o] <= Used(counters[ip])
            /\ \A r \in 0..o : o <= r + Window => log[ip][o] - log[ip][r] <= Budget
        BY <2>3 DEF SpanInv, Spans, AdmittedSince
      <3>2. Used(counters[ip]) <= Budget /\ Used(counters[ip]) \in Nat
        BY <2>1, <2>3 DEF Used
      <3>3. /\ o \in 0..now /\ o \in 0..(MaxTime + 1) /\ s \in 0..(MaxTime + 1)
            /\ log[ip][now + 1] \in Nat /\ log[ip][o] \in Nat /\ log[ip][s] \in Nat
        BY <2>1, <2>3
      <3> HIDE DEF o
      <3>4. CASE s <= o
        <4>1. log[ip][o] - log[ip][s] <= Budget
          BY <2>1, <3>1, <3>3, <3>4
        <4> QED BY <2>1, <3>1, <3>2, <3>3, <4>1 DEF AdmittedSince
      <3>5. CASE o <= s
        <4>1. log[ip][o] <= log[ip][s]
          BY <3>3, <3>5, Ledger
        <4> QED BY <2>1, <3>1, <3>2, <3>3, <4>1 DEF AdmittedSince
      <3> QED BY <3>3, <3>4, <3>5
    <2> QED BY <2>2, <2>3
  <1> QED BY <1>1, <1>2, NextSpans, InvHolds, PTL DEF Spec

-----------------------------------------------------------------------------
(* Refinement *)

(* At first no window is open.                                                 *)
LEMMA InitRefines == Init => B!Init
  BY DEF Init, B!Init, Windows, WindowOf

(* What the mapping makes of a step that changes one counter.                  *)
LEMMA OneWindow ==
  ASSUME NEW ip \in IP, TypeOK, TypeOK',
         \A i \in IP : i # ip => counters'[i] = counters[i]
  PROVE  Windows' = [Windows EXCEPT ![ip] = WindowOf(ip)']
  BY DEF Windows, WindowOf

(* A request that opens a window opens the abstract one.                       *)
LEMMA OpenRefines ==
  ASSUME Inv, Inv', NEW ip \in IP, Open(ip)
  PROVE  B!Open(ip)
  <1>1. /\ now' = now /\ now \in 0..MaxTime
        /\ counters' = [counters EXCEPT ![ip] = Counter(1, now + Window)]
        /\ counters \in [IP -> Counters \cup {None}]
    BY DEF Inv, TypeOK, Open, Counters
  <1>2. counters'[ip] = Counter(1, now + Window)
        /\ \A i \in IP : i # ip => counters'[i] = counters[i]
    BY <1>1
  <1>3. counters'[ip] # None
    BY <1>1, <1>2, LimiterAssumption, CounterIsNotNone DEF Counter
  <1>4. WindowOf(ip)' = B!Opened(now, 1)
    <2>1. /\ counters'[ip].resetAt - Window = now
          /\ counters'[ip].count = 1
      BY <1>1, <1>2, LimiterAssumption DEF Counter
    <2>2. (IF 1 < Budget THEN 1 ELSE Budget) = 1
      BY BudgetPositive
    <2> QED BY <1>3, <2>1, <2>2 DEF WindowOf, B!Opened, Budget
  <1>5. Windows' = [Windows EXCEPT ![ip] = B!Opened(now, 1)]
    BY <1>2, <1>4, OneWindow DEF Inv
  <1>6. Windows[ip] = None \/ B!Passed(ip)
    <2>1. CASE counters[ip] = None
      BY <2>1 DEF Windows, WindowOf
    <2>2. CASE counters[ip] # None
      <3>1. counters[ip] \in Counters /\ now > counters[ip].resetAt
        BY <1>1, <2>2 DEF Open, Expired
      <3>2. /\ Windows[ip].opened = counters[ip].resetAt - Window
            /\ (counters[ip].resetAt - Window) + Window = counters[ip].resetAt
        BY <2>2, <3>1, LimiterAssumption DEF Windows, WindowOf, Counters
      <3>3. now > Windows[ip].opened + Window
        BY <3>1, <3>2
      <3> QED BY <3>3 DEF B!Passed
    <2> QED BY <2>1, <2>2
  <1> QED BY <1>1, <1>5, <1>6 DEF B!Open

(* A request within a window uses the abstract one, or is refused unseen.      *)
LEMMA CountRefines ==
  ASSUME Inv, Inv', NEW ip \in IP, Count(ip)
  PROVE  B!Use(ip) \/ UNCHANGED <<now, Windows>>
  <1> DEFINE c == counters[ip]
             d == counters'[ip]
  <1>1. /\ now' = now /\ now \in 0..MaxTime
        /\ counters' = [counters EXCEPT ![ip] = Counter(c.count + 1, c.resetAt)]
        /\ counters \in [IP -> Counters \cup {None}]
    BY DEF Inv, TypeOK, Count, Counters
  <1>2. c # None /\ c \in Counters /\ now <= c.resetAt
    BY <1>1, LimiterAssumption DEF Count, Expired, Counters
  <1>3. /\ c.count \in Nat \ {0} /\ c.resetAt \in Nat
        /\ d = Counter(c.count + 1, c.resetAt)
        /\ \A i \in IP : i # ip => counters'[i] = counters[i]
    BY <1>1, <1>2, LimiterAssumption DEF Counters
  <1>4. /\ d # None /\ d.count = c.count + 1 /\ d.resetAt = c.resetAt
    BY <1>3, CounterIsNotNone DEF Counter
  <1> DEFINE used == IF c.count < Budget THEN c.count ELSE Budget
             usedNext == IF d.count < Budget THEN d.count ELSE Budget
  <1>5. Windows[ip] = [opened |-> c.resetAt - Window, used |-> used]
    BY <1>2 DEF Windows, WindowOf
  <1>6. WindowOf(ip)' = [opened |-> c.resetAt - Window, used |-> usedNext]
    BY <1>4 DEF WindowOf, Budget
  <1>7. Windows' = [Windows EXCEPT ![ip] = WindowOf(ip)']
    BY <1>3, OneWindow DEF Inv
  <1>8. CASE c.count + 1 <= Limit + Burst
    <2>1. used = c.count /\ usedNext = used + 1 /\ used < Budget
      BY <1>3, <1>4, <1>8, LimiterAssumption DEF Budget
    <2>2. Windows[ip] # None
      <3>1. Windows[ip] \in [opened : Int, used : Int]
        BY <1>3, <1>5, <2>1, LimiterAssumption
      <3> QED BY <3>1, LimiterAssumption
    <2>3. Windows[ip].opened + Window = c.resetAt
      BY <1>3, <1>5, LimiterAssumption
    <2>4. ~ B!Passed(ip)
      BY <1>1, <1>2, <1>3, <2>3 DEF B!Passed
    <2>5. /\ WindowOf(ip)' = B!Opened(Windows[ip].opened, Windows[ip].used + 1)
          /\ Windows' = [Windows EXCEPT ![ip] = B!Opened(Windows[ip].opened,
                                                          Windows[ip].used + 1)]
      <3>1. /\ Windows[ip].opened = c.resetAt - Window
            /\ Windows[ip].used + 1 = usedNext
        BY <1>5, <2>1
      <3> QED BY <1>6, <1>7, <3>1 DEF B!Opened
    <2>6. Windows[ip].used < Budget
      BY <1>5, <2>1
    <2> QED BY <1>1, <2>2, <2>4, <2>5, <2>6 DEF B!Use
  <1>9. CASE ~ (c.count + 1 <= Limit + Burst)
    <2>1. usedNext = used
      BY <1>3, <1>4, <1>9, LimiterAssumption DEF Budget
    <2>2. Windows' = [Windows EXCEPT ![ip] = Windows[ip]]
      BY <1>5, <1>6, <1>7, <2>1
    <2>3. Windows' = Windows
      BY <2>2 DEF Windows
    <2> QED BY <1>1, <2>3
  <1> QED BY <1>8, <1>9

(* A clean-up forgets the windows that have passed.                            *)
LEMMA CleanupRefines ==
  ASSUME Inv, Inv', Cleanup
  PROVE  B!Forget
  <1> DEFINE S == {ip \in IP : Expired(ip)}
  <1>1. /\ now' = now /\ now \in 0..MaxTime
        /\ counters \in [IP -> Counters \cup {None}]
        /\ \A i \in IP : counters'[i] = IF Expired(i) THEN None ELSE counters[i]
    BY DEF Inv, TypeOK, Cleanup, Counters
  <1>2. ASSUME NEW ip \in S PROVE B!Passed(ip)
    <2>1. counters[ip] # None /\ counters[ip] \in Counters /\ now > counters[ip].resetAt
      BY <1>1 DEF Expired
    <2>2. /\ Windows[ip].opened + Window = counters[ip].resetAt
          /\ Windows[ip] \in [opened : Int, used : Int]
      BY <2>1, LimiterAssumption, BudgetPositive DEF Windows, WindowOf, Counters
    <2> QED BY <2>1, <2>2, LimiterAssumption DEF B!Passed
  <1>3. Windows' = [ip \in IP |-> IF ip \in S THEN None ELSE Windows[ip]]
    BY <1>1 DEF Windows, WindowOf
  <1>4. S \in SUBSET IP
    OBVIOUS
  <1> HIDE DEF S
  <1> QED BY <1>1, <1>2, <1>3, <1>4 DEF B!Forget

(* So every step is a step of RequestBudget, or stutters.                      *)
LEMMA StepRefines ==
  Inv /\ Inv' /\ [Next]_vars => [B!Next]_(B!vars)
  <1> SUFFICES ASSUME Inv, Inv', [Next]_vars PROVE [B!Next]_(B!vars)
    OBVIOUS
  <1>1. ASSUME NEW ip \in IP, Open(ip) PROVE B!Next
    BY <1>1, OpenRefines DEF B!Next
  <1>2. ASSUME NEW ip \in IP, Count(ip) PROVE [B!Next]_(B!vars)
    BY <1>2, CountRefines DEF B!Next, B!vars
  <1>3. CASE Cleanup
    BY <1>3, CleanupRefines DEF B!Next
  <1>4. CASE Tick
    BY <1>4 DEF Tick, B!Next, B!Tick, Windows, WindowOf
  <1>5. CASE UNCHANGED vars
    BY <1>5 DEF vars, B!vars, Windows, WindowOf
  <1> QED BY <1>1, <1>2, <1>3, <1>4, <1>5 DEF Next

(* The limiter implements RequestBudget for every limit, burst and window: a   *)
(* window admits at most the budget, and clean-ups never forget an open one.   *)
THEOREM LimiterImplementsBudget == Spec => ImplementsBudget
  BY InitRefines, InvHolds, StepRefines, PTL DEF Spec, ImplementsBudget, B!Spec
=============================================================================
