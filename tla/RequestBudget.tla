--------------------------- MODULE RequestBudget ---------------------------
(* What the rate limiter promises an IP address: a window opens with its first *)
(* request, at most Budget requests are admitted until the window has passed,  *)
(* and a window that has passed may be forgotten. Refused requests leave no    *)
(* trace. Module RateLimiter (internal/middleware/ratelimit.go) implements it. *)
EXTENDS Integers

CONSTANTS
    IP,         \* client addresses
    Budget,     \* requests a window admits
    Window,     \* length of a window
    MaxTime,    \* bound of the clock
    Closed      \* no window is open

VARIABLES
    now,        \* the clock
    window      \* of each address: [opened, used] or Closed

vars == <<now, window>>
Opened(opened, used) == [opened |-> opened, used |-> used]

Init ==
    /\ now = 0
    /\ window = [ip \in IP |-> Closed]

Passed(ip) == window[ip] # Closed /\ now > window[ip].opened + Window

Open(ip) ==
    /\ window[ip] = Closed \/ Passed(ip)
    /\ window' = [window EXCEPT ![ip] = Opened(now, 1)]
    /\ UNCHANGED now

Use(ip) ==
    /\ window[ip] # Closed /\ ~ Passed(ip)
    /\ window[ip].used < Budget
    /\ window' = [window EXCEPT ![ip] = Opened(@.opened, @.used + 1)]
    /\ UNCHANGED now

(* Any set of windows that have passed may be forgotten at once.               *)
Forget ==
    \E S \in SUBSET IP :
        /\ \A ip \in S : Passed(ip)
        /\ window' = [ip \in IP |-> IF ip \in S THEN Closed ELSE window[ip]]
        /\ UNCHANGED now

Tick ==
    /\ now < MaxTime
    /\ now' = now + 1
    /\ UNCHANGED window

Next == (\E ip \in IP : Open(ip) \/ Use(ip)) \/ Forget \/ Tick

Spec == Init /\ [][Next]_vars
=============================================================================
