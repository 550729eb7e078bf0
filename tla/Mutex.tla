------------------------------- MODULE Mutex --------------------------------
(***************************************************************************)
(* The mutexes of ipc.c: rt_mutex_take, _release and _detach (or _delete), *)
(* with priority inheritance. A holder may sleep or, where MaxOwned allows *)
(* it, wait for another mutex. A thread's priority is changed by nobody    *)
(* but the mutexes, and a mutex to be detached is only waited on for ever. *)
(***************************************************************************)
EXTENDS Ipc

CONSTANTS Mutexes,      \* their wait lists are the queues
          flag,         \* mutex -> RT_IPC_FLAG_FIFO or RT_IPC_FLAG_PRIO
          MaxHold,      \* the limit of mutex->hold (255 in the code)
          MaxOwned      \* bound: mutexes a thread owns at a time

NoPriority == RT_THREAD_PRIORITY_MAX     \* 0xff in the code

ASSUME MutexAssumption ==
    /\ Queues = Mutexes /\ Mutexes # {} /\ IsFiniteSet(Mutexes)
    /\ flag \in [Mutexes -> IpcFlags]
    /\ MaxHold \in Nat \ {0} /\ MaxOwned \in Nat \ {0}

VARIABLES value, owner, hold, original_priority   \* the fields of a mutex

mutex == <<value, owner, hold, original_priority>>
vars == <<k, pc, object, dying, value, owner, hold, original_priority>>

TypeOK ==
    /\ k \in KernelType
    /\ pc \in [Threads -> {"user", "blocked", "taking", "schedule", "resuming"}]
    /\ object \in [Threads -> Mutexes] /\ dying \subseteq Deletable
    /\ value \in [Mutexes -> {0, 1}] /\ owner \in [Mutexes -> Threads \cup {NoThread}]
    /\ hold \in [Mutexes -> 0 .. MaxHold]
    /\ original_priority \in [Mutexes -> Prios \cup {NoPriority}]

Init ==
    /\ InitThreads
    /\ value = [q \in Mutexes |-> 1] /\ owner = [q \in Mutexes |-> NoThread]
    /\ hold = [q \in Mutexes |-> 0]
    /\ original_priority = [q \in Mutexes |-> NoPriority]

-----------------------------------------------------------------------------

Owned(s) == {q \in Mutexes : owner[q] = s}

\* The branches of rt_mutex_take
take_again(s, q) ==
    /\ owner[q] = s /\ hold[q] < MaxHold
    /\ hold' = [hold EXCEPT ![q] = @ + 1]
    /\ k' = [k EXCEPT !.error[s] = "RT_EOK"]
    /\ UNCHANGED <<pc, object, value, owner, original_priority>>

\* Faulty: the priority is not noted.
take_unnoted(s, q) ==
    /\ owner[q] # s /\ value[q] > 0 /\ Cardinality(Owned(s)) < MaxOwned
    /\ value' = [value EXCEPT ![q] = @ - 1]
    /\ owner' = [owner EXCEPT ![q] = s]
    /\ hold' = [hold EXCEPT ![q] = @ + 1]
    /\ UNCHANGED <<k, pc, object, original_priority>>

take_free(s, q) ==
    /\ owner[q] # s /\ value[q] > 0 /\ Cardinality(Owned(s)) < MaxOwned
    /\ value' = [value EXCEPT ![q] = @ - 1]
    /\ owner' = [owner EXCEPT ![q] = s]
    /\ original_priority' = [original_priority EXCEPT ![q] = k.prio[s]]
    /\ hold' = [hold EXCEPT ![q] = @ + 1]
    /\ k' = [k EXCEPT !.error[s] = "RT_EOK"]
    /\ UNCHANGED <<pc, object>>

\* Faulty: no inheritance.
inherit_nothing(u, s, q) == u

\* The owner inherits the priority of the caller before the caller blocks.
Inherit(u, s, q) ==
    IF u.prio[s] < u.prio[owner[q]] THEN rt_thread_control(u, owner[q], u.prio[s]) ELSE u

take_wait(s, q, timed) ==
    /\ owner[q] # s /\ value[q] = 0 /\ Cardinality(Owned(s)) < MaxOwned
    /\ timed => q \notin Deletable
    /\ k' = Block(Inherit([k EXCEPT !.error[s] = "RT_EOK"], s, q), q, s, flag[q], timed)
    /\ Goto(s, "blocked") /\ object' = [object EXCEPT ![s] = q]
    /\ UNCHANGED mutex

\* time = 0
take_refused(s, q) ==
    /\ owner[q] # s /\ value[q] = 0
    /\ k' = [k EXCEPT !.error[s] = "RT_ETIMEOUT"]
    /\ UNCHANGED <<pc, object, mutex>>

rt_mutex_take(s, q) ==
    /\ Running(s, "user") /\ Usable(q)
    /\ \/ take_again(s, q) \/ take_free(s, q) \/ take_refused(s, q)
       \/ \E timed \in BOOLEAN : take_wait(s, q, timed)
    /\ UNCHANGED dying

take_return(s) ==
    /\ Running(s, "taking")
    /\ LeaveCall(s)
    /\ UNCHANGED <<k, dying, mutex>>

\* Faulty: the inherited priority stays.
restore_nothing(s, q) == k

\* The owner gets its original priority back before the mutex is passed on.
Restore(s, q) ==
    IF original_priority[q] # k.prio[s] THEN rt_thread_control(k, s, original_priority[q]) ELSE k

release_one(q) ==
    /\ hold[q] > 1
    /\ hold' = [hold EXCEPT ![q] = @ - 1]
    /\ UNCHANGED <<k, pc, value, owner, original_priority>>

release_free(s, q) ==
    /\ hold[q] = 1 /\ NoWaiter(q)
    /\ k' = Restore(s, q)
    /\ value' = [value EXCEPT ![q] = @ + 1]
    /\ owner' = [owner EXCEPT ![q] = NoThread]
    /\ hold' = [hold EXCEPT ![q] = 0]
    /\ original_priority' = [original_priority EXCEPT ![q] = NoPriority]
    /\ UNCHANGED pc

release_pass(s, q) ==
    /\ hold[q] = 1 /\ ~NoWaiter(q)
    /\ LET t == Head(k.queue[q])
       IN  /\ owner' = [owner EXCEPT ![q] = t]
           /\ original_priority' = [original_priority EXCEPT ![q] = k.prio[t]]
    /\ k' = rt_ipc_list_resume(Restore(s, q), q)
    /\ Goto(s, "schedule")
    /\ UNCHANGED <<value, hold>>

release_refused(s) ==
    /\ k' = [k EXCEPT !.error[s] = "RT_ERROR"]
    /\ UNCHANGED <<pc, mutex>>

\* Faulty: anyone may release.
release_by_anyone(s, q) ==
    /\ Running(s, "user") /\ Usable(q)
    /\ release_one(q) \/ release_free(s, q) \/ release_pass(s, q)
    /\ UNCHANGED <<object, dying>>

rt_mutex_release(s, q) ==
    /\ Running(s, "user") /\ Usable(q)
    /\ IF owner[q] = s THEN release_one(q) \/ release_free(s, q) \/ release_pass(s, q)
                       ELSE release_refused(s)
    /\ UNCHANGED <<object, dying>>

rt_mutex_detach(s, q) == detach(s, q) /\ UNCHANGED mutex

rt_thread_sleep(s) ==
    /\ Running(s, "user")
    /\ k' = rt_timer_start(rt_thread_suspend(k, s), s)
    /\ Goto(s, "schedule")
    /\ UNCHANGED <<object, dying, mutex>>

Next ==
    \/ \E s \in Threads, q \in Mutexes :
          rt_mutex_take(s, q) \/ rt_mutex_release(s, q) \/ rt_mutex_detach(s, q)
    \/ \E s \in Threads :
          \/ take_return(s)
          \/ rt_thread_sleep(s)
          \/ resume_one(s) /\ UNCHANGED mutex
          \/ ScheduleStep(s, "blocked", "taking") /\ UNCHANGED mutex
          \/ ScheduleStep(s, "schedule", "user") /\ UNCHANGED mutex
    \/ tick_yield /\ UNCHANGED mutex
    \/ \E t \in Threads : timeout(t) /\ UNCHANGED mutex

Spec == Init /\ [][Next]_vars

-----------------------------------------------------------------------------
(* Properties *)

InTake(t, q) == pc[t] \in {"blocked", "taking"} /\ object[t] = q

\* The fields of a mutex agree (rt_mutex_take, rt_mutex_release): it is free
\* exactly when it has no owner and is not held, nobody waits for a free mutex
\* or for its own, and a list holds exactly the threads suspended in
\* rt_mutex_take on it.
MutexOK ==
    \A q \in Mutexes :
        /\ (value[q] = 1) = (owner[q] = NoThread)
        /\ (value[q] = 1) = (hold[q] = 0)
        /\ value[q] = 1 => NoWaiter(q)
        /\ owner[q] \notin WaitsOn(q)
        /\ WaitsOn(q) = {t \in Threads : InTake(t, q) /\ k.stat[t] = "suspend"}

\* No priority inversion: the owner of a priority mutex is at least as urgent
\* as every thread that waits for it, through handing over, timeouts and sleep.
OwnerInherits ==
    \A q \in Mutexes : flag[q] = "RT_IPC_FLAG_PRIO" /\ owner[q] # NoThread =>
        \A t \in WaitsOn(q) : k.prio[owner[q]] <= k.prio[t]

\* "change the owner thread to original priority" (rt_mutex_release): a thread
\* that owns no mutex has the priority it was given.
PriorityRestored ==
    \A t \in Threads : Owned(t) = {} => k.prio[t] = init_priority[t]

\* The refinement mapping of mutex q
Asking(q) ==
    [t \in Clients |-> IF ~InTake(t, q) THEN "none"
                       ELSE IF k.stat[t] = "suspend" THEN "waiting"
                       ELSE IF k.error[t] = "RT_EOK" THEN "granted" ELSE "refused"]
Lock(q) == INSTANCE RecursiveLock WITH Users <- Clients, Nobody <- NoThread,
              MaxDepth <- MaxHold, holder <- owner[q], depth <- hold[q], asking <- Asking(q)

\* Every mutex implements a recursive lock: no caller of rt_mutex_take returns
\* RT_EOK without being the owner, and only the owner passes the mutex on,
\* whatever timeouts, ticks and detaching do between the sections (ipc.c). It
\* says \A q \in Mutexes : Lock(q)!Spec, in a form that TLC can check.
Implements ==
    /\ \A q \in Mutexes : Lock(q)!Init
    /\ [][\A q \in Mutexes : [Lock(q)!Next]_<<owner[q], hold[q], Asking(q)>>]_vars
=============================================================================
