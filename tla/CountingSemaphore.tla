------------------------- MODULE CountingSemaphore --------------------------
(***************************************************************************)
(* What a semaphore promises to its users: tokens are neither lost nor     *)
(* made, a thread that asked for one is granted one, times out or is told  *)
(* that the semaphore is gone, and no thread waits while a token is there. *)
(***************************************************************************)
EXTENDS Integers

CONSTANTS Users, MaxCount      \* MaxCount \in Nat

VARIABLES count, asking   \* asking[t]: what became of the request of t

Outcomes == {"none", "waiting", "granted", "timeout", "error"}

TypeOK == count \in 0 .. MaxCount /\ asking \in [Users -> Outcomes]

Init == count \in 0 .. MaxCount /\ asking = [t \in Users |-> "none"]

Waiters == {t \in Users : asking[t] = "waiting"}

Set(t, a) == asking' = [asking EXCEPT ![t] = a]

\* A request is granted at once if there is a token; otherwise it waits.
Take(t) ==
    /\ asking[t] = "none" /\ count > 0
    /\ count' = count - 1 /\ UNCHANGED asking
Wait(t) ==
    /\ asking[t] = "none" /\ count = 0
    /\ Set(t, "waiting") /\ UNCHANGED count

\* A token that is released goes to a waiter if there is one.
Release ==
    IF Waiters = {}
    THEN count < MaxCount /\ count' = count + 1 /\ UNCHANGED asking
    ELSE \E t \in Waiters : Set(t, "granted") /\ UNCHANGED count

Timeout(t) == asking[t] = "waiting" /\ Set(t, "timeout") /\ UNCHANGED count

\* Detach and reset turn every waiter away; detach does so one at a time.
TurnAway(t) == asking[t] = "waiting" /\ Set(t, "error") /\ UNCHANGED count
Reset ==
    /\ count' \in 0 .. MaxCount
    /\ asking' = [t \in Users |-> IF asking[t] = "waiting" THEN "error" ELSE asking[t]]

\* The call of t returns with the outcome.
Return(t) ==
    /\ asking[t] \in {"granted", "timeout", "error"}
    /\ Set(t, "none") /\ UNCHANGED count

Next ==
    \/ Release \/ Reset
    \/ \E t \in Users : Take(t) \/ Wait(t) \/ Timeout(t) \/ TurnAway(t) \/ Return(t)

Spec == Init /\ [][Next]_<<count, asking>>
=============================================================================
