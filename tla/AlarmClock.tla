----------------------------- MODULE AlarmClock -----------------------------
(***************************************************************************)
(* What the timers of timer.c promise, without lists and without ticks     *)
(* that wrap: an alarm set for d ticks never rings before d ticks have     *)
(* passed, it rings at most Slack ticks late, and of several alarms that   *)
(* are due the one with the earliest deadline rings first.                 *)
(***************************************************************************)
EXTENDS Integers

CONSTANTS Timers,
          MaxDelay, Slack,  \* natural numbers
          Off    \* the time to go of an alarm that is not set, not in -Slack .. MaxDelay

\* left[t]: ticks to go until alarm t is due, negative when it is overdue
VARIABLE left

Running == {t \in Timers : left[t] # Off}

TypeOK == left \in [Timers -> -Slack .. MaxDelay \cup {Off}]

Init == left = [t \in Timers |-> Off]

\* The ticks that pass while a caller is in the middle of setting the alarm,
\* at most Slack, are part of the delay.
Set(t) == \E d \in 1 - Slack .. MaxDelay : left' = [left EXCEPT ![t] = d]

Cancel(t) == left' = [left EXCEPT ![t] = Off]

Tick ==
    /\ \A t \in Running : left[t] > -Slack
    /\ left' = [t \in Timers |-> IF t \in Running THEN left[t] - 1 ELSE Off]

\* A one-shot alarm is off afterwards; a periodic one is set again.
Ring(t) ==
    /\ t \in Running /\ left[t] <= 0
    /\ \A u \in Running : left[t] <= left[u]
    /\ \/ left' = [left EXCEPT ![t] = Off]
       \/ \E d \in 1 .. MaxDelay : left' = [left EXCEPT ![t] = d]

Next == Tick \/ \E t \in Timers : Set(t) \/ Cancel(t) \/ Ring(t)

Spec == Init /\ [][Next]_left
=============================================================================
