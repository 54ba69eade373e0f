---------------------------- MODULE RateLimiter ----------------------------
(* The per-address request counters of internal/middleware/ratelimit.go. allow *)
(* and cleanup hold the limiter's mutex from start to end and read the clock   *)
(* inside it, so each is one action.                                           *)
EXTENDS Integers

CONSTANTS
    IP,         \* what extractIP returns
    Limit,      \* config rate_limit.max_per_min
    Burst,      \* config rate_limit.burst_size
    Window,     \* one minute, in ticks
    MaxTime,    \* bound of the clock
    MaxCount,   \* bound of a counter
    None        \* no counter

ASSUME LimiterAssumption ==
    /\ Limit \in Nat /\ Burst \in Nat
    /\ Window \in Nat /\ MaxTime \in Nat /\ MaxCount \in Nat \ {0}
    /\ None \notin [count : Int, resetAt : Int]
    /\ None \notin [opened : Int, used : Int]

VARIABLES
    now,        \* time.Now()
    counters,   \* RateLimiter.counters: address -> ipCounter or None
    log,        \* history: by address, the requests admitted before each moment
    refused     \* history: the address whose request was just refused, if any

vars == <<now, counters, log, refused>>

Counter(count, resetAt) == [count |-> count, resetAt |-> resetAt]

(* The request that opens a window is admitted without a test.                 *)
Budget == IF Limit + Burst = 0 THEN 1 ELSE Limit + Burst

TypeOK ==
    /\ now \in 0..MaxTime
    /\ counters \in [IP -> [count : 1..MaxCount, resetAt : Window..(MaxTime + Window)]
                            \cup {None}]
    /\ log \in [IP -> [0..(MaxTime + 1) -> Nat]]
    /\ refused \in SUBSET IP

Init ==
    /\ now = 0
    /\ counters = [ip \in IP |-> None]
    /\ log = [ip \in IP |-> [t \in 0..(MaxTime + 1) |-> 0]]
    /\ refused = {}

Expired(ip) == counters[ip] # None /\ now > counters[ip].resetAt
Admitted(ip) ==
    /\ log' = [log EXCEPT ![ip] =
                  [t \in 0..(MaxTime + 1) |-> IF t > now THEN @[t] + 1 ELSE @[t]]]
    /\ refused' = {}

(* Mutant: the counter starts at zero.                                         *)
OpenAtZero(ip) ==
    /\ counters[ip] = None \/ Expired(ip)
    /\ counters' = [counters EXCEPT ![ip] = Counter(0, now + Window)]
    /\ Admitted(ip)
    /\ UNCHANGED now

(* allow: no counter, or one whose window is over.                             *)
Open(ip) ==
    /\ counters[ip] = None \/ Expired(ip)
    /\ counters' = [counters EXCEPT ![ip] = Counter(1, now + Window)]
    /\ Admitted(ip)
    /\ UNCHANGED now

(* Mutant: every request starts the minute anew.                               *)
CountRenews(ip) ==
    LET c == counters[ip] IN
    /\ c # None /\ ~ Expired(ip) /\ c.count < MaxCount
    /\ counters' = [counters EXCEPT ![ip] = Counter(c.count + 1, now + Window)]
    /\ \/ c.count + 1 <= Limit + Burst /\ Admitted(ip)
       \/ c.count + 1 > Limit + Burst /\ refused' = {ip} /\ UNCHANGED log
    /\ UNCHANGED now

(* Mutant: the count is tested before it is raised.                            *)
CountOffByOne(ip) ==
    LET c == counters[ip] IN
    /\ c # None /\ ~ Expired(ip) /\ c.count < MaxCount
    /\ counters' = [counters EXCEPT ![ip] = Counter(c.count + 1, c.resetAt)]
    /\ \/ c.count <= Limit + Burst /\ Admitted(ip)
       \/ c.count > Limit + Burst /\ refused' = {ip} /\ UNCHANGED log
    /\ UNCHANGED now

(* allow: refused requests count as well.                                      *)
Count(ip) ==
    LET c == counters[ip] IN
    /\ c # None /\ ~ Expired(ip) /\ c.count < MaxCount
    /\ counters' = [counters EXCEPT ![ip] = Counter(c.count + 1, c.resetAt)]
    /\ \/ c.count + 1 <= Limit + Burst /\ Admitted(ip)
       \/ c.count + 1 > Limit + Burst /\ refused' = {ip} /\ UNCHANGED log
    /\ UNCHANGED now

(* Mutant: counters are cleaned up a tick early.                               *)
CleanupEarly ==
    /\ counters' = [ip \in IP |->
            IF counters[ip] # None /\ now >= counters[ip].resetAt
            THEN None ELSE counters[ip]]
    /\ refused' = {}
    /\ UNCHANGED <<now, log>>

(* The background goroutine, every five minutes.                               *)
Cleanup ==
    /\ counters' = [ip \in IP |->
            IF Expired(ip)
            THEN None ELSE counters[ip]]
    /\ refused' = {}
    /\ UNCHANGED <<now, log>>

Tick ==
    /\ now < MaxTime
    /\ now' = now + 1
    /\ refused' = {}
    /\ UNCHANGED <<counters, log>>

Next == (\E ip \in IP : Open(ip) \/ Count(ip)) \/ Cleanup \/ Tick

Spec == Init /\ [][Next]_vars

-----------------------------------------------------------------------------
(* A request is refused only to an address that had one admitted within the    *)
(* last window: a client that keeps asking is not locked out for good, and     *)
(* "Retry-After: 60" is not too short for one that waits.                      *)
NoLockout ==
    \A ip \in refused : \E t \in 0..now :
        now <= t + Window /\ log[ip][t] < log[ip][t + 1]

(* Requests admitted from s on.                                                *)
AdmittedSince(ip, s) == log[ip][now + 1] - log[ip][s]

(* The windows are fixed, not sliding, yet no span as long as a window sees    *)
(* more than two budgets, wherever windows and clean-ups fall.                 *)
TwoBudgets ==
    \A ip \in IP, s \in 0..now :
        now <= s + Window => AdmittedSince(ip, s) <= 2 * Budget

(* A counter is the window it closes, with the requests it let pass.           *)
WindowOf(ip) ==
    IF counters[ip] = None THEN None
    ELSE [opened |-> counters[ip].resetAt - Window,
          used |-> IF counters[ip].count < Budget THEN counters[ip].count ELSE Budget]
Windows == [ip \in IP |-> WindowOf(ip)]

B == INSTANCE RequestBudget WITH Closed <- None, window <- Windows

(* The limiter keeps the promise of RequestBudget, clean-ups included.         *)
ImplementsBudget == B!Spec
=============================================================================
