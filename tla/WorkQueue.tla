----------------------------- MODULE WorkQueue ------------------------------
(***************************************************************************)
(* The work queue of workqueue.c: a worker thread that takes works off a   *)
(* list and runs them, and rt_workqueue_dowork (or _critical_work, the     *)
(* same code), _cancel_work and _cancel_all_work, called by other threads. *)
(* The worker looks at the list and suspends itself with the interrupts    *)
(* enabled, on no list. A work function may sleep.                         *)
(*                                                                         *)
(* Rule of use: the callers are threads less urgent than the worker. Work  *)
(* handed in between the worker's look at the list and its suspension, by  *)
(* a handler or by a thread that may run there, would not be noticed.      *)
(* With several callers one may wake the worker between the test and the   *)
(* unlink of another, which then takes it off its ready list or out of its *)
(* sleep; the theorems are about one caller (WorkRule).                    *)
(***************************************************************************)
EXTENDS Ipc

CONSTANTS Worker,       \* queue->work_thread
          Callers,      \* the threads that hand in and cancel works
          Works

NoWork == "RT_NULL"

ASSUME WorkQueueAssumption ==
    /\ NoWork \notin Works
    /\ Worker \in Clients /\ Callers \subseteq Clients \ {Worker}
    /\ \A s \in Callers : init_priority[Worker] < init_priority[s]

VARIABLES work_list, work_current

work == <<work_list, work_current>>

WorkQueueType ==
    /\ work_list \in Seq(Works)
    /\ work_current \in Works \cup {NoWork}

\* rt_workqueue_create
WorkQueueInit == work_list = << >> /\ work_current = NoWork

-----------------------------------------------------------------------------
(* The worker: _workqueue_thread_entry *)

look_at_list ==
    /\ Running(Worker, "user")
    /\ Goto(Worker, IF work_list = << >> THEN "wq_suspend" ELSE "wq_take")
    /\ UNCHANGED <<k, object, dying, work>>

suspend_worker ==
    /\ Running(Worker, "wq_suspend")
    /\ k' = rt_thread_suspend(k, Worker)
    /\ Goto(Worker, "wq_idle")
    /\ UNCHANGED <<object, dying, work>>

\* The first work is taken. The worker does not look at the list again after
\* its suspension; if it is empty, its head is taken for a work and what
\* follows is not modelled.
take_work ==
    /\ Running(Worker, "wq_take") /\ work_list # << >>
    /\ work_current' = Head(work_list) /\ work_list' = Tail(work_list)
    /\ Goto(Worker, "wq_work")
    /\ UNCHANGED <<k, object, dying>>

\* The work function returns, perhaps after a sleep.
do_work ==
    /\ Running(Worker, "wq_work")
    /\ \/ Goto(Worker, "wq_done") /\ UNCHANGED k
       \/ /\ Goto(Worker, "wq_sleep")
          /\ k' = rt_timer_start(rt_thread_suspend(k, Worker), Worker)
    /\ UNCHANGED <<object, dying, work>>

work_done ==
    /\ Running(Worker, "wq_done")
    /\ work_current' = NoWork
    /\ Goto(Worker, "user")
    /\ UNCHANGED <<k, object, dying, work_list>>

-----------------------------------------------------------------------------
(* The callers *)

\* The work is linked last, unless it is being done; the worker is woken if it
\* does nothing.
rt_workqueue_dowork(s, w) ==
    /\ Running(s, "user") /\ work_current # w
    /\ work_list' = Append(RemoveFirst(work_list, w), w)
    /\ IF work_current = NoWork THEN Goto(s, "wq_wake") ELSE UNCHANGED pc
    /\ UNCHANGED <<k, object, dying, work_current>>

\* rt_thread_resume of the worker, with the interrupts enabled between its
\* sections: the state is tested, the worker unlinked, and made ready.
wake_worker(s) ==
    /\ Running(s, "wq_wake")
    /\ Goto(s, IF k.stat[Worker] = "suspend" THEN "wq_unlink" ELSE "schedule")
    /\ UNCHANGED <<k, object, dying, work>>

wake_unlink(s) ==
    /\ Running(s, "wq_unlink")
    /\ k' = resume_unlink(k, Worker)
    /\ Goto(s, "wq_insert")
    /\ UNCHANGED <<object, dying, work>>

wake_insert(s) ==
    /\ Running(s, "wq_insert")
    /\ k' = rt_schedule_insert_thread(k, Worker)
    /\ Goto(s, "schedule")
    /\ UNCHANGED <<object, dying, work>>

rt_workqueue_cancel_work(s, w) ==
    /\ Running(s, "user") /\ work_current # w
    /\ work_list' = RemoveFirst(work_list, w)
    /\ UNCHANGED <<k, pc, object, dying, work_current>>

\* In a section of rt_enter_critical and rt_exit_critical, which reschedules.
rt_workqueue_cancel_all_work(s) ==
    /\ Running(s, "user")
    /\ work_list' = << >>
    /\ k' = rt_schedule(k)
    /\ UNCHANGED <<pc, object, dying, work_current>>

WorkQueueNext ==
    \/ look_at_list \/ suspend_worker \/ take_work \/ do_work \/ work_done
    \/ ScheduleStep(Worker, "wq_idle", "wq_take") /\ UNCHANGED work
    \/ ScheduleStep(Worker, "wq_sleep", "wq_done") /\ UNCHANGED work
    \/ \E s \in Callers :
          \/ \E w \in Works : rt_workqueue_dowork(s, w) \/ rt_workqueue_cancel_work(s, w)
          \/ wake_worker(s) \/ wake_unlink(s) \/ wake_insert(s)
          \/ rt_workqueue_cancel_all_work(s)
    \/ \E s \in Callers : ScheduleStep(s, "schedule", "user") /\ UNCHANGED work
    \/ tick_yield /\ UNCHANGED work
    \/ timeout(Worker) /\ UNCHANGED work

-----------------------------------------------------------------------------
(* Properties *)

\* "we have work to do with" (workqueue.c:48): the worker goes to take a work
\* only when there is one.
WorkToDo ==
    pc[Worker] = "wq_take" /\ k.stat[Worker] = "ready" => work_list # << >>

Waking == {"wq_wake", "wq_unlink", "wq_insert"}

\* No lost wakeup: when works are on the list and the worker sleeps for want of
\* work, the caller that handed one in is about to wake it.
WorkerWoken ==
    /\ work_list # << >>
    /\ pc[Worker] \in {"wq_suspend", "wq_idle", "wq_take"} /\ k.stat[Worker] = "suspend"
    => \E s \in Callers : pc[s] \in Waking
=============================================================================
