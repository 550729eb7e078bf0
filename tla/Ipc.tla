-------------------------------- MODULE Ipc ---------------------------------
(***************************************************************************)
(* What the IPC objects of ipc.c have in common: threads that execute      *)
(* kernel calls one critical section at a time, an interrupt that may come *)
(* between any two of them, and the wait list of an object.                *)
(*                                                                         *)
(* The switch to another thread is immediate here; Scheduler shows that    *)
(* the registers follow rt_current_thread. A handler runs as one step, and *)
(* so do the callbacks of rt_timer_check, each with its rt_schedule.       *)
(***************************************************************************)
EXTENDS Kernel

CONSTANTS Idle,        \* the idle thread, always ready, lowest priority
          Deletable    \* the objects that a thread detaches

ASSUME IpcAssumption ==
    /\ IsFiniteSet(Threads)
    /\ Idle \in Threads /\ Deletable \subseteq Queues
    /\ \A t \in Threads : init_priority[t] <= init_priority[Idle]

VARIABLES k,           \* the thread table
          pc,          \* where each thread is inside a call
          object,      \* the IPC object the call works on; any while in none
          dying        \* objects being detached, or that do not exist

AnyQueue == CHOOSE q \in Queues : TRUE

InitThreads ==
    /\ k = AllStarted
    /\ pc = [t \in Threads |-> "user"]
    /\ object = [t \in Threads |-> AnyQueue]
    /\ dying = {}

Clients == Threads \ {Idle}

\* Thread s executes, at the given point of its call.
Running(s, point) == k.current = s /\ s # Idle /\ pc[s] = point

Goto(s, point) == pc' = [pc EXCEPT ![s] = point]

Waiting(t)  == \E q \in Queues : Contains(k.queue[q], t)
WaitsOn(q)  == {t \in Threads : Contains(k.queue[q], t)}
NoWaiter(q) == k.queue[q] = << >>

\* Block the current thread on q; a wait is for ever or limited by the timer.
Block(u, q, s, flag, timed) ==
    LET v == rt_ipc_list_suspend(u, q, s, flag)
    IN  IF timed THEN rt_timer_start(v, s) ELSE v

\* A section that suspends s on list q, in a call that waits in a loop
WaitOn(s, q, flag, timed) ==
    /\ k' = Block([k EXCEPT !.error[s] = "RT_EOK"], q, s, flag, timed)
    /\ Goto(s, "blocked") /\ object' = [object EXCEPT ![s] = q]

LeaveTo(s, point) == Goto(s, point) /\ object' = [object EXCEPT ![s] = AnyQueue]
LeaveCall(s)      == LeaveTo(s, "user")

\* A section that ends a call; if a thread waits on list q it is resumed, and
\* rt_schedule follows.
LeaveWaking(s, q) ==
    IF NoWaiter(q) THEN LeaveCall(s) /\ UNCHANGED k
    ELSE k' = rt_ipc_list_resume(k, q) /\ LeaveTo(s, "schedule")

\* The same in a handler, or where more follows in the section
IsrWaking(q) == k' = IF NoWaiter(q) THEN k ELSE rt_schedule(rt_ipc_list_resume(k, q))

\* The rt_schedule that ends a section, and where the call goes on
ScheduleStep(s, from, to) ==
    /\ Running(s, from)
    /\ k' = rt_schedule(k)
    /\ Goto(s, to)
    /\ UNCHANGED <<object, dying>>

\* SysTick: the slice of the current thread is used up.
tick_yield ==
    /\ MovesToTail(k)
    /\ k' = rt_schedule(move_to_tail(k))
    /\ UNCHANGED <<pc, object, dying>>

\* SysTick: the timer of thread t expires.
timeout(t) ==
    /\ t \in k.timer
    /\ k' = rt_schedule(rt_thread_timeout(k, t))
    /\ UNCHANGED <<pc, object, dying>>

\* What goes on while threads are in calls: their own rt_schedule, and SysTick
Background ==
    \/ \E s \in Threads :
          ScheduleStep(s, "blocked", "woken") \/ ScheduleStep(s, "schedule", "user")
    \/ tick_yield
    \/ \E t \in Threads : timeout(t)

Usable(q) == q \notin dying

\* Every thread inside a call on one of the lists is suspended there.
OnlyWaiters(Q) ==
    \A t \in Threads :
        pc[t] \notin {"user", "schedule"} /\ object[t] \in Q => k.stat[t] = "suspend"

\* Threads that were woken in the loop of a call on q and have not run yet
OnItsWay(q) ==
    {t \in Clients : /\ pc[t] \in {"blocked", "woken"} /\ object[t] = q
                     /\ k.stat[t] # "suspend" /\ k.error[t] = "RT_EOK"}

\* Faulty: the first turn does not look at the list; there is no loop.
detach_unseen(s, q) ==
    /\ Running(s, "user") /\ q \in Deletable /\ Usable(q)
    /\ dying' = dying \cup {q}
    /\ Goto(s, "resuming") /\ object' = [object EXCEPT ![s] = q]
    /\ UNCHANGED k

\* The detach and delete functions. The loop of rt_ipc_list_resume_all looks at
\* the list with the interrupts enabled; each turn then resumes the head with
\* them disabled.
detach(s, q) ==
    /\ Running(s, "user") /\ q \in Deletable /\ Usable(q)
    /\ dying' = dying \cup {q}
    /\ IF NoWaiter(q) THEN UNCHANGED <<pc, object>>
       ELSE Goto(s, "resuming") /\ object' = [object EXCEPT ![s] = q]
    /\ UNCHANGED k

resume_one(s) ==
    /\ Running(s, "resuming")
    /\ LET q == object[s]
           t == Head(k.queue[q])
       IN  /\ k' = turn_away(k, t)
           /\ IF k'.queue[q] = << >> THEN LeaveCall(s) ELSE UNCHANGED <<pc, object>>
    /\ UNCHANGED dying

-----------------------------------------------------------------------------
(* Properties of every kind of object *)

\* A thread is on the list of an object exactly while it is suspended in a call
\* that waits on it.
WaitersSuspended ==
    \A t \in Threads, q \in Queues :
        Contains(k.queue[q], t) <=>
            pc[t] \in {"blocked", "woken"} /\ object[t] = q /\ k.stat[t] = "suspend"

\* rt_ipc_list_resume_all never takes the head of an empty list for a thread,
\* and once it is through no thread is left behind in the list of the object.
DetachSafe ==
    /\ \A s \in Threads : pc[s] = "resuming" => ~NoWaiter(object[s])
    /\ \A q \in dying :
          (\A s \in Threads : ~(pc[s] = "resuming" /\ object[s] = q)) => NoWaiter(q)
=============================================================================
