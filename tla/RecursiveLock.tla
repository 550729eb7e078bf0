--------------------------- MODULE RecursiveLock ----------------------------
(***************************************************************************)
(* What a mutex promises to its users: one thread holds it at a time, as   *)
(* deep as it took it, only the holder gives it back, and a request that   *)
(* is answered with success makes the caller the holder.                   *)
(***************************************************************************)
EXTENDS Integers

CONSTANTS Users,
          Nobody,      \* not a user
          MaxDepth     \* positive

VARIABLES holder, depth, asking   \* asking[t]: what became of the request of t

Outcomes == {"none", "waiting", "granted", "refused"}

TypeOK ==
    /\ holder \in Users \cup {Nobody} /\ depth \in 0 .. MaxDepth
    /\ asking \in [Users -> Outcomes]

Init == holder = Nobody /\ depth = 0 /\ asking = [t \in Users |-> "none"]

Set(t, a) == asking' = [asking EXCEPT ![t] = a]

Take(t) ==
    /\ asking[t] = "none"
    /\ \/ holder = Nobody /\ holder' = t /\ depth' = 1
       \/ holder = t /\ depth < MaxDepth /\ depth' = depth + 1 /\ UNCHANGED holder
    /\ UNCHANGED asking

Wait(t) ==
    /\ asking[t] = "none" /\ holder \notin {t, Nobody}
    /\ Set(t, "waiting") /\ UNCHANGED <<holder, depth>>

\* The last release hands the lock to a thread that waits, if there is one.
Release(t) ==
    /\ holder = t /\ asking[t] = "none"
    /\ \/ depth > 1 /\ depth' = depth - 1 /\ UNCHANGED <<holder, asking>>
       \/ /\ depth = 1 /\ \A u \in Users : asking[u] # "waiting"
          /\ holder' = Nobody /\ depth' = 0 /\ UNCHANGED asking
       \/ /\ depth = 1
          /\ \E u \in Users : asking[u] = "waiting" /\ holder' = u /\ Set(u, "granted")
          /\ UNCHANGED depth

\* A timeout, or the lock is being detached
Refuse(t) == asking[t] = "waiting" /\ Set(t, "refused") /\ UNCHANGED <<holder, depth>>

Return(t) ==
    /\ asking[t] \in {"granted", "refused"}
    /\ Set(t, "none") /\ UNCHANGED <<holder, depth>>

Next == \E t \in Users : Take(t) \/ Wait(t) \/ Release(t) \/ Refuse(t) \/ Return(t)

Spec == Init /\ [][Next]_<<holder, depth, asking>>

\* Only the thread that holds the lock is told so.
GrantedHolds == \A t \in Users : asking[t] = "granted" => holder = t /\ depth = 1
=============================================================================
