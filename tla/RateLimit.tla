------------------------------- MODULE RateLimit -------------------------------
(***************************************************************************)
(* internal/middleware/ratelimit.go: the counter in Redis of one client on *)
(* one route.  INCR and EXPIRE are sent together in a pipeline; Redis runs *)
(* them back to back unless the connection breaks in between.  A request   *)
(* is let through when Redis does not answer.                              *)
(***************************************************************************)
EXTENDS Integers, Functions

CONSTANTS
    MaxRequests,    \* requests allowed in a window (10 or 120)
    Window,         \* length of the window, in ticks of the clock
    MaxCount        \* bound: how far the counter is followed

ASSUME WindowAssumption == /\ MaxRequests \in Nat \ {0}
                           /\ Window \in Nat \ {0}
                           /\ MaxCount \in Nat

VARIABLES
    count,      \* the counter, 0 when Redis has no such key
    ttl,        \* ticks until Redis deletes the key, 0 when it has no expiry
    tried,      \* history: requests counted in each tick of the last window, by age
    passed      \* history: the ones of them that were let through

vars == <<count, ttl, tried, passed>>

Age == 0 .. Window - 1
Total(f) == FoldFunction(LAMBDA x, y : x + y, 0, f)
Record(f) == [f EXCEPT ![0] = @ + 1]

Init ==
    /\ count = 0 /\ ttl = 0
    /\ tried = [a \in Age |-> 0]
    /\ passed = [a \in Age |-> 0]

Incr == count < MaxCount /\ count' = count + 1

\* Fault: a key that has an expiry keeps it (a fixed window).
ExpireIfNone == ttl' = IF ttl = 0 THEN Window ELSE ttl

Expire == ttl' = Window

Pass ==
    /\ Incr /\ Expire
    /\ count' <= MaxRequests
    /\ tried' = Record(tried) /\ passed' = Record(passed)

Refuse ==
    /\ Incr /\ Expire
    /\ count' > MaxRequests
    /\ tried' = Record(tried)
    /\ UNCHANGED passed

\* The pipeline fails, and the request is let through: Redis may have run both
\* commands, or INCR only.
PipelineFails ==
    /\ Incr
    /\ Expire \/ UNCHANGED ttl
    /\ tried' = Record(tried)
    /\ UNCHANGED passed

Older(f) == [a \in Age |-> IF a = 0 THEN 0 ELSE f[a - 1]]

\* The clock ticks; Redis deletes a key whose time is over.
Tick ==
    /\ ttl' = IF ttl = 0 THEN 0 ELSE ttl - 1
    /\ count' = IF ttl = 1 THEN 0 ELSE count
    /\ tried' = Older(tried)
    /\ passed' = Older(passed)

Next == Pass \/ Refuse \/ PipelineFails \/ Tick
Spec == Init /\ [][Next]_vars

-----------------------------------------------------------------------------
(***************************************************************************)
(* In no window are more than MaxRequests of a client's requests let       *)
(* through on Redis' answer, wherever the window starts and also when the  *)
(* key was deleted or an EXPIRE was lost meanwhile.                        *)
(***************************************************************************)
WindowBounded == Total(passed) <= MaxRequests

(***************************************************************************)
(* What the comment of RateLimit says, a sliding window in which           *)
(* MaxRequests requests are allowed: a request is refused only if at least *)
(* that many were made before it within the window.                        *)
(***************************************************************************)
RefusedOnlyWhenFull == [][Refuse => Total(tried) >= MaxRequests]_vars
=============================================================================
