----------------------------- MODULE Semaphore ------------------------------
(***************************************************************************)
(* The semaphores of ipc.c: rt_sem_take, _release, _control and _detach    *)
(* (or _delete), called by threads; rt_sem_release also by handlers.       *)
(*                                                                         *)
(* Two rules of use are part of the model. Nobody releases a semaphore     *)
(* whose counter is at its limit (the code does not look). A semaphore     *)
(* that is going to be detached is only waited on for ever, is not         *)
(* released by handlers, and is not used any more once the detach begins:  *)
(* rt_ipc_list_resume_all looks at the list before it disables the         *)
(* interrupts, and would take an empty list's head for a thread.           *)
(***************************************************************************)
EXTENDS Ipc

CONSTANTS Sems,         \* the semaphores; their wait lists are the queues
          flag,         \* semaphore -> RT_IPC_FLAG_FIFO or RT_IPC_FLAG_PRIO
          MaxValue      \* the limit of sem->value (0xffff in the code)

ASSUME SemaphoreAssumption ==
    /\ Queues = Sems /\ Sems # {}
    /\ flag \in [Sems -> IpcFlags]
    /\ MaxValue \in Nat \ {0}

VARIABLE value          \* sem->value

vars == <<k, pc, object, dying, value>>

Points == {"user", "blocked", "taking", "schedule", "resuming"}

TypeOK ==
    /\ k \in KernelType
    /\ pc \in [Threads -> Points] /\ object \in [Threads -> Sems]
    /\ value \in [Sems -> 0 .. MaxValue] /\ dying \subseteq Deletable

Init ==
    /\ InitThreads
    /\ value \in [Sems -> 0 .. MaxValue]

-----------------------------------------------------------------------------

\* Faulty: the comparison with 0 is off by one.
take_below_zero(s, q, timed) ==
    /\ Running(s, "user") /\ Usable(q)
    /\ value[q] >= 0
    /\ value' = [value EXCEPT ![q] = @ - 1]
    /\ UNCHANGED <<k, pc, object, dying>>

\* rt_sem_take: a token is taken if there is one; otherwise the caller returns
\* at once (time = 0) or blocks, for ever or with a timeout.
rt_sem_take(s, q, timed) ==
    /\ Running(s, "user") /\ Usable(q)
    /\ \/ /\ value[q] > 0
          /\ value' = [value EXCEPT ![q] = @ - 1]
          /\ UNCHANGED <<k, pc, object>>
       \/ /\ value[q] = 0
          /\ timed => q \notin Deletable
          /\ k' = Block([k EXCEPT !.error[s] = "RT_EOK"], q, s, flag[q], timed)
          /\ Goto(s, "blocked") /\ object' = [object EXCEPT ![s] = q]
          /\ UNCHANGED value
    /\ UNCHANGED dying

take_return(s) ==
    /\ Running(s, "taking")
    /\ LeaveCall(s)
    /\ UNCHANGED <<k, value, dying>>

\* Faulty: a token that goes to a waiter is counted as well.
release_twice(q) ==
    /\ value[q] < MaxValue /\ value' = [value EXCEPT ![q] = @ + 1]
    /\ k' = IF NoWaiter(q) THEN k ELSE rt_ipc_list_resume(k, q)

\* The section of rt_sem_release: the first waiter gets the token, or it is
\* counted.
release(q) ==
    IF NoWaiter(q)
    THEN value[q] < MaxValue /\ value' = [value EXCEPT ![q] = @ + 1] /\ UNCHANGED k
    ELSE k' = rt_ipc_list_resume(k, q) /\ UNCHANGED value

rt_sem_release(s, q) ==
    /\ Running(s, "user") /\ Usable(q)
    /\ release(q)
    /\ IF NoWaiter(q) THEN UNCHANGED pc ELSE Goto(s, "schedule")
    /\ UNCHANGED <<object, dying>>

\* A handler releases, and reschedules if it woke a thread.
isr_release(q) ==
    /\ q \notin Deletable
    /\ IF NoWaiter(q) THEN release(q)
       ELSE k' = rt_schedule(rt_ipc_list_resume(k, q)) /\ UNCHANGED value
    /\ UNCHANGED <<pc, object, dying>>

\* Faulty: the waiters are left where they are.
reset_keeping_waiters(s, q) ==
    /\ Running(s, "user") /\ Usable(q)
    /\ \E v \in 0 .. MaxValue : value' = [value EXCEPT ![q] = v]
    /\ Goto(s, "schedule")
    /\ UNCHANGED <<k, object, dying>>

\* RT_IPC_CMD_RESET: the waiters are turned away and the counter is set.
rt_sem_control(s, q) ==
    /\ Running(s, "user") /\ Usable(q)
    /\ k' = resume_all(k, q)
    /\ \E v \in 0 .. MaxValue : value' = [value EXCEPT ![q] = v]
    /\ Goto(s, "schedule")
    /\ UNCHANGED <<object, dying>>

rt_sem_detach(s, q) == detach(s, q) /\ UNCHANGED value

Next ==
    \/ \E s \in Threads, q \in Sems :
          \/ \E timed \in BOOLEAN : rt_sem_take(s, q, timed)
          \/ rt_sem_release(s, q)
          \/ rt_sem_control(s, q)
          \/ rt_sem_detach(s, q)
    \/ \E s \in Threads :
          \/ take_return(s)
          \/ resume_one(s) /\ UNCHANGED value
          \/ ScheduleStep(s, "blocked", "taking") /\ UNCHANGED value
          \/ ScheduleStep(s, "schedule", "user") /\ UNCHANGED value
    \/ \E q \in Sems : isr_release(q)
    \/ tick_yield /\ UNCHANGED value
    \/ \E t \in Threads : timeout(t) /\ UNCHANGED value

Spec == Init /\ [][Next]_vars

\* Handlers go on releasing the semaphores that are theirs to release.
FairSpec == Spec /\ \A q \in Sems : WF_vars(isr_release(q))

-----------------------------------------------------------------------------
(* Properties *)

InTake(t, q) == pc[t] \in {"blocked", "taking"} /\ object[t] = q

\* A thread is on the list of a semaphore exactly while it is suspended in
\* rt_sem_take on it, and only such a thread has a running timer. The list of
\* a priority semaphore is ordered by priority.
WaitListOK ==
    /\ \A t \in Threads, q \in Sems :
          Contains(k.queue[q], t) <=> InTake(t, q) /\ k.stat[t] = "suspend"
    /\ \A t \in k.timer : k.stat[t] = "suspend"
    /\ \A q \in Sems : IsInjective(k.queue[q])
    /\ \A q \in Sems : flag[q] = "RT_IPC_FLAG_PRIO" =>
          \A i, j \in DOMAIN k.queue[q] :
             i < j => k.prio[k.queue[q][i]] <= k.prio[k.queue[q][j]]

\* No lost wakeup: nobody waits while a token is there.
NoWaitWithToken == \A q \in Sems : value[q] > 0 => NoWaiter(q)

\* What rt_sem_take returns, and the refinement mapping of semaphore q: what
\* became of the requests for it
Outcome(error) ==
    CASE error = "RT_EOK"      -> "granted"
      [] error = "RT_ETIMEOUT" -> "timeout"
      [] error = "RT_ERROR"    -> "error"
Asking(q) ==
    [t \in Clients |-> IF ~InTake(t, q) THEN "none"
                       ELSE IF k.stat[t] = "suspend" THEN "waiting"
                       ELSE Outcome(k.error[t])]

Counting(q) == INSTANCE CountingSemaphore WITH Users <- Clients, MaxCount <- MaxValue,
                  count <- value[q], asking <- Asking(q)

\* Every semaphore implements a counting semaphore: no release is lost and no
\* caller of rt_sem_take returns RT_EOK without a token of its own, whatever
\* handlers, timeouts and resets do between its sections (ipc.c). It says
\* \A q \in Sems : Counting(q)!Spec, in a form that TLC can check.
Implements ==
    /\ \A q \in Sems : Counting(q)!Init
    /\ [][\A q \in Sems : [Counting(q)!Next]_<<value[q], Asking(q)>>]_vars

\* A thread that waits on a FIFO semaphore which handlers release again and
\* again does not wait for ever, however many threads ask after it.
FifoServed ==
    \A t \in Clients, q \in Sems \ Deletable : flag[q] = "RT_IPC_FLAG_FIFO" =>
        (Contains(k.queue[q], t) ~> ~Contains(k.queue[q], t))
=============================================================================
