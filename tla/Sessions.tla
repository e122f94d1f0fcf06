------------------------------ MODULE Sessions ------------------------------
(***************************************************************************)
(* What the OAuth store promises its callers, without tables, clients or   *)
(* transactions: a code is redeemed at most once, for one session; a       *)
(* session has one current refresh token, which a rotation replaces; a     *)
(* spent token presented again revokes the session; a revoked or ended     *)
(* session never comes back; only a deadline that has passed, or a         *)
(* revocation, ends a session; and nothing but use moves the deadline.     *)
(***************************************************************************)
EXTENDS Integers

CONSTANTS Code, Family, Refresh, NULL,
          CodeTTL, IdleTTL,
          Slack,     \* how old the clock reading of an operation may be
          MaxNow

VARIABLES now,
          codeState,    \* "unborn", "open" or "spent"
          codeDeadline, \* when an open code expires
          session,      \* "unborn", "live", "revoked" or "ended"
          deadline,     \* when a live or revoked session expires
          token,        \* "unborn", "current", "spent" or "void"
          holder        \* the session of a current or spent refresh token

absVars == <<now, codeState, codeDeadline, session, deadline, token, holder>>

Init ==
    /\ now = 0
    /\ codeState = [k \in Code |-> "unborn"]
    /\ codeDeadline = [k \in Code |-> 0]
    /\ session = [f \in Family |-> "unborn"]
    /\ deadline = [f \in Family |-> 0]
    /\ token = [r \in Refresh |-> "unborn"]
    /\ holder = [r \in Refresh |-> NULL]

\* A clock reading an operation that completes now may have decided on.
Reading(t) == t \in 0..now /\ now <= t + Slack

Tick ==
    /\ now < MaxNow
    /\ now' = now + 1
    /\ UNCHANGED <<codeState, codeDeadline, session, deadline, token, holder>>

Issue(k, t) ==
    /\ Reading(t)
    /\ codeState[k] = "unborn"
    /\ codeState' = [codeState EXCEPT ![k] = "open"]
    /\ codeDeadline' = [codeDeadline EXCEPT ![k] = t + CodeTTL]
    /\ UNCHANGED <<now, session, deadline, token, holder>>

\* An exchange that fails spends the code all the same.
Waste(k) ==
    /\ codeState[k] = "open"
    /\ codeState' = [codeState EXCEPT ![k] = "spent"]
    /\ codeDeadline' = [codeDeadline EXCEPT ![k] = 0]
    /\ UNCHANGED <<now, session, deadline, token, holder>>

Grant(k, f, r, t) ==
    /\ Reading(t)
    /\ codeState[k] = "open"
    /\ codeDeadline[k] > t
    /\ session[f] = "unborn"
    /\ token[r] = "unborn"
    /\ codeState' = [codeState EXCEPT ![k] = "spent"]
    /\ codeDeadline' = [codeDeadline EXCEPT ![k] = 0]
    /\ session' = [session EXCEPT ![f] = "live"]
    /\ deadline' = [deadline EXCEPT ![f] = t + IdleTTL]
    /\ token' = [token EXCEPT ![r] = "current"]
    /\ holder' = [holder EXCEPT ![r] = f]
    /\ UNCHANGED now

Extend(f, t) ==
    /\ Reading(t)
    /\ session[f] = "live"
    /\ deadline[f] > t
    /\ t + IdleTTL >= deadline[f]
    /\ deadline' = [deadline EXCEPT ![f] = t + IdleTTL]
    /\ UNCHANGED <<now, codeState, codeDeadline, session, token, holder>>

Rotate(f, r, r2, t) ==
    /\ Reading(t)
    /\ session[f] = "live"
    /\ token[r] = "current"
    /\ holder[r] = f
    /\ token[r2] = "unborn"
    /\ deadline[f] > t
    /\ t + IdleTTL >= deadline[f]
    /\ deadline' = [deadline EXCEPT ![f] = t + IdleTTL]
    /\ token' = [token EXCEPT ![r] = "spent", ![r2] = "current"]
    /\ holder' = [holder EXCEPT ![r2] = f]
    /\ UNCHANGED <<now, codeState, codeDeadline, session>>

Revoke(f, r) ==
    /\ token[r] = "spent"
    /\ holder[r] = f
    /\ session' = [session EXCEPT ![f] = "revoked"]
    /\ UNCHANGED <<now, codeState, codeDeadline, deadline, token, holder>>

\* The codes in K and the sessions in S are forgotten.
Reap(K, S) ==
    /\ \A k \in K : codeState[k] = "open" /\ codeDeadline[k] <= now
    /\ \A f \in S : \/ session[f] = "revoked"
                    \/ session[f] = "live" /\ deadline[f] <= now
    /\ codeState' = [k \in Code |-> IF k \in K THEN "spent" ELSE codeState[k]]
    /\ codeDeadline' = [k \in Code |-> IF k \in K THEN 0 ELSE codeDeadline[k]]
    /\ session' = [f \in Family |-> IF f \in S THEN "ended" ELSE session[f]]
    /\ deadline' = [f \in Family |-> IF f \in S THEN 0 ELSE deadline[f]]
    /\ token' = [r \in Refresh |-> IF holder[r] \in S THEN "void" ELSE token[r]]
    /\ holder' = [r \in Refresh |-> IF holder[r] \in S THEN NULL ELSE holder[r]]
    /\ UNCHANGED now

Next ==
    \/ Tick
    \/ \E k \in Code, t \in 0..MaxNow :
          \/ Issue(k, t)
          \/ \E f \in Family, r \in Refresh : Grant(k, f, r, t)
    \/ \E k \in Code : Waste(k)
    \/ \E f \in Family, t \in 0..MaxNow :
          Extend(f, t) \/ \E r, r2 \in Refresh : Rotate(f, r, r2, t)
    \/ \E f \in Family, r \in Refresh : Revoke(f, r)
    \/ \E K \in SUBSET Code, S \in SUBSET Family : Reap(K, S)

Spec == Init /\ [][Next]_absVars
=============================================================================
