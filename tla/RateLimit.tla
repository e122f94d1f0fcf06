----------------------------- MODULE RateLimit ------------------------------
(***************************************************************************)
(* What the per-address rate limiters promise: every address has one token *)
(* bucket that is never forgotten, refills with time, and decides each     *)
(* request once.  Server implements it with a map that entries come and go *)
(* from.                                                                   *)
(***************************************************************************)
EXTENDS Integers

CONSTANTS Limiter, Addr, Req,
          Burst, Rate   \* [Limiter -> Nat]: size of a bucket, tokens per tick

VARIABLES level,    \* [Limiter -> [Addr -> tokens left]]
          verdict   \* [Req -> [Limiter -> "none", "allowed" or "refused"]]

vars == <<level, verdict>>

Undecided == [l \in Limiter |-> "none"]

Init ==
    /\ level = [l \in Limiter |-> [a \in Addr |-> Burst[l]]]
    /\ verdict = [r \in Req |-> Undecided]

Refill(l, n) == IF n + Rate[l] > Burst[l] THEN Burst[l] ELSE n + Rate[l]

Tick ==
    /\ level' = [l \in Limiter |-> [a \in Addr |-> Refill(l, level[l][a])]]
    /\ UNCHANGED verdict

Decide(r, l, a) ==
    /\ verdict[r][l] = "none"
    /\ IF level[l][a] >= 1
       THEN /\ level' = [level EXCEPT ![l][a] = @ - 1]
            /\ verdict' = [verdict EXCEPT ![r][l] = "allowed"]
       ELSE /\ verdict' = [verdict EXCEPT ![r][l] = "refused"]
            /\ UNCHANGED level

\* The request is over; its slot serves another one.
Forget(r) ==
    /\ verdict' = [verdict EXCEPT ![r] = Undecided]
    /\ UNCHANGED level

\* The process stops with requests in flight.
ForgetAll ==
    /\ verdict' = [r \in Req |-> Undecided]
    /\ UNCHANGED level

Next ==
    \/ Tick \/ ForgetAll
    \/ \E r \in Req : Forget(r) \/ \E l \in Limiter, a \in Addr : Decide(r, l, a)

Spec == Init /\ [][Next]_vars
=============================================================================
