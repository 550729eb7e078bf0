------------------------------- MODULE Kernel -------------------------------
(***************************************************************************)
(* The thread table of the RT-Thread 2.1.1 kernel as one value, and the    *)
(* kernel functions of scheduler.c, thread.c and ipc.c as operators on it. *)
(*                                                                         *)
(* Every operator stands for a C function, or a part of one, that the code *)
(* executes with the interrupts disabled; it takes the table `k' before    *)
(* the call and returns the table after it. The modules that extend this   *)
(* one (Scheduler, Semaphore, Mutex, ...) decide who calls them and what   *)
(* may happen between two calls.                                           *)
(*                                                                         *)
(* A doubly linked list is the sequence of the threads linked on it. A     *)
(* thread has one list node (tlist), so it can be on one list only: the    *)
(* ready list of a priority, the wait list of an IPC object or the list of *)
(* dead threads.                                                           *)
(***************************************************************************)
EXTENDS Integers, Sequences, FiniteSets, SequencesExt

CONSTANTS Threads,                \* thread control blocks
          NoThread,               \* RT_NULL
          RT_THREAD_PRIORITY_MAX, \* number of priorities, 0 is the highest
          Queues,                 \* list heads other than the ready table's
          init_priority           \* thread -> the priority given to rt_thread_init

Prios == 0 .. RT_THREAD_PRIORITY_MAX - 1

ASSUME KernelAssumption ==
    /\ NoThread \notin Threads
    /\ RT_THREAD_PRIORITY_MAX \in Nat \ {0}
    /\ init_priority \in [Threads -> Prios]

Stats  == {"init", "ready", "suspend", "close"}
Errors == {"RT_EOK", "RT_ETIMEOUT", "RT_ERROR"}

KernelType ==
    [ stat       : [Threads -> Stats],
      prio       : [Threads -> Prios],          \* current_priority
      error      : [Threads -> Errors],
      timer      : SUBSET Threads,              \* thread_timer is ACTIVATED
      ready      : [Prios -> Seq(Threads)],     \* rt_thread_priority_table
      group      : SUBSET Prios,                \* rt_thread_ready_priority_group
      queue      : [Queues -> Seq(Threads)],
      current    : Threads \cup {NoThread},     \* rt_current_thread
      lock_nest  : Nat ]                        \* rt_scheduler_lock_nest

\* All threads initialised by rt_thread_init, none started.
rt_system_scheduler_init ==
    [ stat      |-> [t \in Threads |-> "init"],
      prio      |-> init_priority,
      error     |-> [t \in Threads |-> "RT_EOK"],
      timer     |-> {},
      ready     |-> [p \in Prios |-> << >>],
      group     |-> {},
      queue     |-> [q \in Queues |-> << >>],
      current   |-> NoThread,
      lock_nest |-> 0 ]

\* All threads started, and the scheduler with them.
AllStarted ==
    LET at(p) == {t \in Threads : init_priority[t] = p}
        k     == [rt_system_scheduler_init EXCEPT
                     !.stat  = [t \in Threads |-> "ready"],
                     !.ready = [p \in Prios |-> SetToSeq(at(p))],
                     !.group = {p \in Prios : at(p) # {}}]
    IN  [k EXCEPT !.current = Head(k.ready[CHOOSE p \in k.group : \A q \in k.group : p <= q])]

-----------------------------------------------------------------------------
(* Lists *)

\* Unlink the node of t from whatever list it is on; nothing if it is on none.
rt_list_remove(k, t) ==
    [k EXCEPT !.ready = [p \in Prios  |-> RemoveFirst(k.ready[p], t)],
              !.queue = [q \in Queues |-> RemoveFirst(k.queue[q], t)]]

\* Link t just after the head of list q.
rt_list_insert_after(k, q, t) == [k EXCEPT !.queue[q] = <<t>> \o @]

-----------------------------------------------------------------------------
(* The ready table *)

rt_schedule_insert_thread(k, t) ==
    [k EXCEPT !.stat[t]          = "ready",
              !.ready[k.prio[t]] = Append(@, t),
              !.group            = @ \cup {k.prio[t]}]

\* Faulty: the bit of the priority is never cleared.
remove_keeping_bit(k, t) == rt_list_remove(k, t)

rt_schedule_remove_thread(k, t) ==
    LET u == rt_list_remove(k, t)
    IN  [u EXCEPT !.group = IF u.ready[k.prio[t]] = << >> THEN @ \ {k.prio[t]} ELSE @]

\* __rt_ffs(rt_thread_ready_priority_group) - 1
highest_ready_priority(k) == CHOOSE p \in k.group : \A q \in k.group : p <= q

\* Faulty: the scheduler lock is ignored.
schedule_ignoring_lock(k) == [k EXCEPT !.current = Head(k.ready[highest_ready_priority(k)])]

rt_schedule(k) ==
    IF k.lock_nest = 0
    THEN [k EXCEPT !.current = Head(k.ready[highest_ready_priority(k)])]
    ELSE k

-----------------------------------------------------------------------------
(* Threads. A thread's timer is only known here to run or not: the models  *)
(* let a running timer expire at any tick.                                 *)

rt_timer_start(k, t)  == [k EXCEPT !.timer = @ \cup {t}]
rt_timer_stop(k, t)   == [k EXCEPT !.timer = @ \ {t}]

rt_thread_suspend(k, t) ==
    IF k.stat[t] = "ready"
    THEN rt_timer_stop(rt_schedule_remove_thread([k EXCEPT !.stat[t] = "suspend"], t), t)
    ELSE k

\* Faulty: the timer of the resumed thread goes on.
unlink_keeping_timer(k, t) == rt_list_remove(k, t)

\* The two critical sections of rt_thread_resume: the thread leaves the list
\* it waits on; it enters the ready list.
resume_unlink(k, t) == rt_timer_stop(rt_list_remove(k, t), t)

rt_thread_resume(k, t) ==
    IF k.stat[t] = "suspend"
    THEN rt_schedule_insert_thread(resume_unlink(k, t), t)
    ELSE k

\* Faulty: the thread stays on the list it waits on.
timeout_keeping_link(k, t) ==
    rt_schedule_insert_thread([rt_timer_stop(k, t) EXCEPT !.error[t] = "RT_ETIMEOUT"], t)

\* The expiry of the thread timer, run by rt_timer_check; the reschedule that
\* ends it is left to the caller.
rt_thread_timeout(k, t) ==
    rt_schedule_insert_thread(
        rt_list_remove([rt_timer_stop(k, t) EXCEPT !.error[t] = "RT_ETIMEOUT"], t), t)

\* RT_THREAD_CTRL_CHANGE_PRIORITY
rt_thread_control(k, t, p) ==
    IF k.stat[t] = "ready"
    THEN rt_schedule_insert_thread(
             [rt_schedule_remove_thread(k, t) EXCEPT !.prio[t] = p], t)
    ELSE [k EXCEPT !.prio[t] = p]

\* rt_thread_yield: the current thread goes to the tail of its ready list,
\* unless it is alone there.
MovesToTail(k) ==
    k.stat[k.current] = "ready" /\ Len(k.ready[k.prio[k.current]]) > 1
\* Faulty: the thread goes back to the head of its list.
move_to_head(k) == k
move_to_tail(k) ==
    [rt_list_remove(k, k.current) EXCEPT !.ready[k.prio[k.current]] = Append(@, k.current)]

-----------------------------------------------------------------------------
(* Wait lists of the IPC objects *)

IpcFlags == {"RT_IPC_FLAG_FIFO", "RT_IPC_FLAG_PRIO"}

\* Faulty: the thread enters the list at the head.
ipc_list_suspend_first(k, q, t, flag) == rt_list_insert_after(rt_thread_suspend(k, t), q, t)

\* Suspend t and link it on list q: last, or before the first thread of a
\* strictly lower priority.
rt_ipc_list_suspend(k, q, t, flag) ==
    LET u     == rt_thread_suspend(k, t)
        lower == {i \in DOMAIN u.queue[q] : u.prio[t] < u.prio[u.queue[q][i]]}
        pos   == IF flag = "RT_IPC_FLAG_PRIO" /\ lower # {}
                 THEN CHOOSE i \in lower : \A j \in lower : i <= j
                 ELSE Len(u.queue[q]) + 1
    IN  [u EXCEPT !.queue[q] = InsertAt(@, pos, t)]

\* Resume the thread at the head of a list that is not empty.
rt_ipc_list_resume(k, q) == rt_thread_resume(k, Head(k.queue[q]))

\* One turn of rt_ipc_list_resume_all: thread t gets an error and becomes ready.
turn_away(k, t) == rt_thread_resume([k EXCEPT !.error[t] = "RT_ERROR"], t)

\* rt_ipc_list_resume_all with the interrupts disabled throughout, the first
\* waiter first.
resume_all(k, q) ==
    LET l == k.queue[q]
        resume[i \in 0 .. Len(l)] == IF i = 0 THEN k ELSE turn_away(resume[i-1], l[i])
    IN  resume[Len(l)]

=============================================================================
