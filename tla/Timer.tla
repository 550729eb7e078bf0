------------------------------- MODULE Timer --------------------------------
(***************************************************************************)
(* The hard timers of timer.c: a list of running timers, ordered by their  *)
(* timeout tick, on a tick counter that wraps. Every timer belongs to one  *)
(* thread, whose calls are interrupted between their critical sections by  *)
(* SysTick; rt_timer_check then runs the callbacks of the timers that are  *)
(* due, and a callback may work on its own timer.                          *)
(***************************************************************************)
EXTENDS Integers, Sequences, FiniteSets, SequencesExt

CONSTANTS Timers,
          TickModulus,   \* number of values of rt_tick_t
          Delays,        \* values given to init_tick
          CallbackOps,   \* what callbacks do to their own timer
          Retyped,       \* timers made one-shot or periodic while they may run
          MaxStall       \* bound: ticks that pass while a start is under way

RT_TICK_MAX == TickModulus - 1
Half == RT_TICK_MAX \div 2

Ops == {"none", "stop", "start", "set_time", "set_oneshot", "set_periodic", "detach"}

ASSUME TimerAssumption ==
    /\ TickModulus \in Nat /\ TickModulus >= 8
    /\ MaxStall \in Nat
    \* the RT_ASSERT of rt_timer_start; a periodic timer of delay 0 never
    \* lets rt_timer_check end
    /\ Delays \subseteq 1 .. Half - 1
    /\ CallbackOps \subseteq Ops /\ Retyped \subseteq Timers

\* Two ticks are compared by half the range of rt_tick_t. The RT_ASSERT of
\* rt_timer_start leaves no room for the ticks that pass before the timer is on
\* the list: a delay must be that much shorter.
ASSUME StallAssumption == \A d \in Delays : d + MaxStall <= Half

VARIABLES rt_tick,
          rt_timer_list,  \* the running timers, the next one to expire first
          timeout_tick,   \* not read while the timer does not run, and 0 then
          init_tick,
          activated, periodic,  \* the timers with RT_TIMER_FLAG_ACTIVATED, _PERIODIC
          pc,             \* where the thread of each timer is in a call
          seen,           \* timers that rt_timer_control read ACTIVATED of
          checking,       \* SysTick is in rt_timer_check
          attached        \* timers known to the object system

vars == <<rt_tick, rt_timer_list, timeout_tick, init_tick, activated, periodic,
          pc, seen, checking, attached>>

Ticks == 0 .. RT_TICK_MAX

TypeOK ==
    /\ rt_tick \in Ticks
    /\ rt_timer_list \in Seq(Timers)
    /\ timeout_tick \in [Timers -> Ticks] /\ init_tick \in [Timers -> Delays]
    /\ activated \subseteq Timers /\ periodic \subseteq Timers /\ attached \subseteq Timers
    /\ pc \in [Timers -> {"user", "starting", "stopping", "set_oneshot", "set_periodic"}]
    /\ seen \subseteq Timers
    /\ checking \in BOOLEAN

Init ==
    /\ rt_tick = 0
    /\ rt_timer_list = << >>
    /\ timeout_tick = [t \in Timers |-> 0] /\ init_tick \in [Timers -> Delays]
    /\ activated = {} /\ periodic \in SUBSET Timers /\ attached = Timers
    /\ pc = [t \in Timers |-> "user"] /\ seen = {}
    /\ checking = FALSE

-----------------------------------------------------------------------------
(* Arithmetic of rt_tick_t *)

Sub(a, b) == (a - b) % TickModulus

-----------------------------------------------------------------------------
(* The two halves of rt_timer_start on list l *)

Listed(l, t) == Contains(l, t)

\* Faulty: ticks are compared by value; a timer goes before its equals.
insertion_point_by_value(l, to, e) ==
    LET later == {i \in DOMAIN l : to[l[i]] > e}
    IN  IF later = {} THEN Len(l) + 1 ELSE CHOOSE i \in later : \A j \in later : i <= j
insertion_point_before_equals(l, to, e) ==
    LET later == {i \in DOMAIN l : Sub(to[l[i]], e) < Half}
    IN  IF later = {} THEN Len(l) + 1 ELSE CHOOSE i \in later : \A j \in later : i <= j

\* The place of a timer that expires at tick e: before the first running timer
\* that expires later, so after those that expire at the same time.
InsertionPoint(l, to, e) ==
    LET later == {i \in DOMAIN l : Sub(to[l[i]], e) # 0 /\ Sub(to[l[i]], e) < Half}
    IN  IF later = {} THEN Len(l) + 1 ELSE CHOOSE i \in later : \A j \in later : i <= j

\* Faulty: the sum leaves the range of rt_tick_t.
expiry_unbounded(t) == rt_tick + init_tick[t]
Expiry(t) == (rt_tick + init_tick[t]) % TickModulus

InsertTimer(l, to, t) == InsertAt(l, InsertionPoint(l, to, to[t]), t)

-----------------------------------------------------------------------------
(* Calls of the thread that owns timer t. SysTick may come between them. *)

Thread(t, point) == ~checking /\ pc[t] = point /\ t \in attached

rt_timer_start(t) ==
    /\ Thread(t, "user")
    /\ rt_timer_list' = RemoveFirst(rt_timer_list, t)
    /\ activated' = activated \ {t}
    /\ timeout_tick' = [timeout_tick EXCEPT ![t] = Expiry(t)]
    /\ pc' = [pc EXCEPT ![t] = "starting"]
    /\ UNCHANGED <<rt_tick, init_tick, periodic, checking, attached, seen>>

start_insert(t) ==
    /\ Thread(t, "starting")
    /\ rt_timer_list' = InsertTimer(rt_timer_list, timeout_tick, t)
    /\ activated' = activated \cup {t}
    /\ pc' = [pc EXCEPT ![t] = "user"]
    /\ UNCHANGED <<rt_tick, timeout_tick, init_tick, periodic, checking, attached, seen>>

\* The flag is cleared after the interrupts are enabled again.
rt_timer_stop(t) ==
    /\ Thread(t, "user") /\ t \in activated
    /\ rt_timer_list' = RemoveFirst(rt_timer_list, t)
    /\ timeout_tick' = [timeout_tick EXCEPT ![t] = 0]
    /\ pc' = [pc EXCEPT ![t] = "stopping"]
    /\ UNCHANGED <<rt_tick, init_tick, activated, periodic, checking, attached, seen>>

\* Faulty: the flag stays.
stop_keeping_flag(t) ==
    /\ Thread(t, "stopping")
    /\ pc' = [pc EXCEPT ![t] = "user"]
    /\ UNCHANGED <<rt_tick, rt_timer_list, timeout_tick, init_tick, activated, periodic, checking, attached, seen>>

stop_flag(t) ==
    /\ Thread(t, "stopping")
    /\ activated' = activated \ {t}
    /\ pc' = [pc EXCEPT ![t] = "user"]
    /\ UNCHANGED <<rt_tick, rt_timer_list, timeout_tick, init_tick, periodic, checking, attached, seen>>

\* SET_TIME, or the first half of SET_ONESHOT and SET_PERIODIC: the flag is read
\* with the interrupts enabled. A thread that is to stay out of the way of
\* rt_timer_check does so while its timer is at rest.
rt_timer_control(t) ==
    /\ Thread(t, "user")
    /\ \/ /\ \E d \in Delays : init_tick' = [init_tick EXCEPT ![t] = d]
          /\ UNCHANGED <<pc, seen>>
       \/ /\ t \in Retyped \/ t \notin activated
          /\ \E cmd \in {"set_oneshot", "set_periodic"} : pc' = [pc EXCEPT ![t] = cmd]
          /\ seen' = IF t \in activated THEN seen \cup {t} ELSE seen
          /\ UNCHANGED init_tick
    /\ UNCHANGED <<rt_tick, rt_timer_list, timeout_tick, activated, periodic, checking, attached>>

\* The second half writes the whole flag back, ACTIVATED as it was read, even if
\* the callback has detached the timer meanwhile.
control_write(t) ==
    /\ ~checking /\ pc[t] \in {"set_oneshot", "set_periodic"}
    /\ periodic' = IF pc[t] = "set_periodic" THEN periodic \cup {t} ELSE periodic \ {t}
    /\ activated' = IF t \in seen THEN activated \cup {t} ELSE activated \ {t}
    /\ pc' = [pc EXCEPT ![t] = "user"] /\ seen' = seen \ {t}
    /\ UNCHANGED <<rt_tick, rt_timer_list, timeout_tick, init_tick, checking, attached>>

\* Faulty: the timer stays on the list.
detach_keeping_link(t) ==
    /\ Thread(t, "user")
    /\ attached' = attached \ {t}
    /\ UNCHANGED <<rt_tick, rt_timer_list, timeout_tick, init_tick, activated, periodic, pc, seen, checking>>

rt_timer_detach(t) ==
    /\ Thread(t, "user")
    /\ rt_timer_list' = RemoveFirst(rt_timer_list, t)
    /\ timeout_tick' = [timeout_tick EXCEPT ![t] = 0]
    /\ attached' = attached \ {t}
    /\ UNCHANGED <<rt_tick, init_tick, activated, periodic, pc, seen, checking>>

-----------------------------------------------------------------------------
(* SysTick *)

\* The ticks that passed since the thread of t read the counter
Stall(t) == Sub(rt_tick, Sub(timeout_tick[t], init_tick[t]))

rt_tick_increase ==
    /\ ~checking
    /\ \A t \in Timers : pc[t] = "starting" => Stall(t) < MaxStall
    /\ rt_tick' = (rt_tick + 1) % TickModulus
    /\ checking' = TRUE
    /\ UNCHANGED <<rt_timer_list, timeout_tick, init_tick, activated, periodic, pc, seen, attached>>

\* Faulty: ticks are compared by value.
head_expired_by_value ==
    rt_timer_list # << >> /\ rt_tick >= timeout_tick[Head(rt_timer_list)]

HeadExpired ==
    rt_timer_list # << >> /\ Sub(rt_tick, timeout_tick[Head(rt_timer_list)]) < Half

\* One turn of the loop of rt_timer_check: the first timer is due. Its callback
\* does op to the timer, then the loop restarts it or clears its flag.
rt_timer_check(op) ==
    /\ checking /\ HeadExpired
    /\ LET t == Head(rt_timer_list)
           again == t \in periodic' /\ (op = "start" \/ (op # "stop" /\ t \in activated))
           listed == again \/ op = "start"
       IN  /\ periodic' = CASE op = "set_oneshot"  -> periodic \ {t}
                            [] op = "set_periodic" -> periodic \cup {t}
                            [] OTHER               -> periodic
           /\ init_tick' \in {[init_tick EXCEPT ![t] = d] :
                                 d \in IF op = "set_time" THEN Delays ELSE {init_tick[t]}}
           /\ timeout_tick' = [timeout_tick EXCEPT ![t] =
                                 IF listed THEN (rt_tick + init_tick'[t]) % TickModulus ELSE 0]
           /\ rt_timer_list' = IF listed
                                 THEN InsertTimer(Tail(rt_timer_list), timeout_tick', t)
                                 ELSE Tail(rt_timer_list)
           /\ activated' = IF again THEN activated \cup {t} ELSE activated \ {t}
           /\ attached' = IF op = "detach" THEN attached \ {t} ELSE attached
    /\ UNCHANGED <<rt_tick, pc, seen, checking>>

check_end ==
    /\ checking /\ ~HeadExpired
    /\ checking' = FALSE
    /\ UNCHANGED <<rt_tick, rt_timer_list, timeout_tick, init_tick, activated, periodic, pc, seen, attached>>

Next ==
    \/ \E t \in Timers :
          \/ rt_timer_start(t) \/ start_insert(t)
          \/ rt_timer_stop(t) \/ stop_flag(t)
          \/ rt_timer_control(t) \/ control_write(t)
          \/ rt_timer_detach(t)
    \/ rt_tick_increase
    \/ \E op \in CallbackOps : rt_timer_check(op)
    \/ check_end

Spec == Init /\ [][Next]_vars

-----------------------------------------------------------------------------
(* Properties *)

\* Ticks to go until t is due; the counter wraps, the difference does not as
\* long as it stays below half the range.
Left(t) == LET d == Sub(timeout_tick[t], rt_tick)
           IN  IF d <= Half THEN d ELSE d - TickModulus

\* The list is ordered by time to go and names each timer once, whatever the
\* value of the counter (the search loop of rt_timer_start).
ListOrdered ==
    \A i, j \in DOMAIN rt_timer_list :
        i < j => /\ rt_timer_list[i] # rt_timer_list[j]
                 /\ Left(rt_timer_list[i]) <= Left(rt_timer_list[j])

\* "timer is active" (rtdef.h on RT_TIMER_FLAG_ACTIVATED): outside a call of its
\* thread, a timer that is not retyped while it runs has the flag exactly when
\* it is on the list. A later rt_timer_stop relies on it.
ActivatedIffListed ==
    \A t \in attached \ Retyped : pc[t] = "user" => (t \in activated <=> Listed(rt_timer_list, t))

\* "detach a timer from timer management" (rt_timer_detach): a detached timer
\* is not on the list, so its callback never runs again.
DetachedNotListed == \A t \in Timers \ attached : ~Listed(rt_timer_list, t)

\* "it's preferred that the timer inserted early get called early"
\* (rt_timer_start): a timer enters the list behind those with the same timeout.
EarlyFirst ==
    [][\A t, u \in Timers :
          /\ Listed(rt_timer_list, t) /\ Listed(rt_timer_list', t) /\ timeout_tick'[t] = timeout_tick[t]
          /\ ~Listed(rt_timer_list, u) /\ Listed(rt_timer_list', u) /\ timeout_tick'[u] = timeout_tick[t]
          => \E i, j \in DOMAIN rt_timer_list' :
                i < j /\ rt_timer_list'[i] = t /\ rt_timer_list'[j] = u]_vars

\* The timers implement alarms that are never early, at most MaxStall ticks
\* late and ring in the order of their deadlines.
Off == TickModulus
Alarms == INSTANCE AlarmClock WITH
             MaxDelay <- Half - 1, Slack <- MaxStall,
             left <- [t \in Timers |-> IF Listed(rt_timer_list, t) THEN Left(t) ELSE Off]
ImplementsAlarms == Alarms!Spec
=============================================================================
