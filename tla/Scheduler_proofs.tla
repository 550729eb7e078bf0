-------------------------- MODULE Scheduler_proofs ---------------------------
(***************************************************************************)
(* The safety of Scheduler for every number of threads, priorities, time   *)
(* slices and nesting levels.                                              *)
(*                                                                         *)
(* IInv is the inductive invariant. Its part Core speaks of a table u and  *)
(* not of the variable k, so that it can be stated of the tables inside a  *)
(* handler, between the wake-up of a thread and the rt_schedule after it.  *)
(* The lemmas come in three layers: what an operator of Kernel does to a   *)
(* sound table; what a kind of step preserves (a thread that goes on, a    *)
(* thread that stops itself, a handler that reschedules); and one lemma    *)
(* per action. The theorems are at the end.                                *)
(***************************************************************************)
EXTENDS Scheduler, Kernel_proofs

\* The rule of use the theorems assume: the threads that the Manager resumes,
\* detaches or deletes never sleep and never wait on an object, they only suspend
\* themselves. Without it the Manager can work on a thread that a timeout or a
\* handler has made ready meanwhile: rt_thread_resume then unlinks a READY thread
\* from its ready list, and detach_unlink closes one (run scheduler_detach).
Untimed == (Managed \cup Detachable) \cap (Sleepers \cup Waiters) = {}

\* A table whose lists and states agree: ready lists hold READY threads, the
\* wait list holds SUSPENDed waiters, the defunct list CLOSEd threads, and only
\* a SUSPENDed sleeper or waiter has a running timer.
Sound(u) ==
    /\ Lists(u)
    /\ \A x \in Threads : Listed(u, x) => u.stat[x] = "ready"
    /\ \A x \in Threads : Queued(u, Waiting, x) => u.stat[x] = "suspend" /\ x \in Waiters
    /\ \A x \in Threads : Queued(u, Defunct, x) => u.stat[x] = "close"
    /\ \A x \in u.timer : u.stat[x] = "suspend" /\ x \in Sleepers \cup Waiters

\* The idle thread is ready from its startup on, so rt_schedule always finds
\* a thread.
IdleReady(u) == u.stat[Idle] = IF u.current = NoThread /\ u.stat[Idle] = "init" THEN "init" ELSE "ready"

\* The converse of Sound: a READY thread is on its list.
ReadyListed(u) ==
    \A x \in Threads : u.stat[x] = "ready" /\ ~BeingDetached(x) => Listed(u, x)

\* The call the Manager is in works on a thread that is on no list, has no
\* running timer, is not current and is not dead: what lets the second half of
\* rt_thread_resume and of rt_thread_detach trust what the first half did.
InCallOn(u) ==
    /\ \A x \in Threads : pc[x] \in {"resuming", "insert", "unlinked", "stopped"} => x = Manager
    /\ pc[Manager] \in {"resuming", "insert", "unlinked", "stopped"} =>
          /\ target \in Threads /\ target # u.current /\ target \notin u.timer
          /\ ~Listed(u, target) /\ \A q \in Queues : ~Queued(u, q, target)
          /\ u.stat[target] # "close"
    /\ pc[Manager] \in {"resuming", "insert"} => u.stat[target] = "suspend"
    /\ pc[Manager] \in {"unlinked", "stopped"} => target \in Detachable
    /\ pc[Manager] \notin {"resuming", "insert", "unlinked", "stopped"} => target = NoThread

\* A current thread that is not READY has taken itself out of the table and
\* still owes the rt_schedule that ends its call.
CurrentReady(u) ==
    u.current \in Threads /\ u.stat[u.current] # "ready"
       => pc[u.current] \in {"schedule", "sleep"} /\ u.lock_nest = 0

\* A dead thread whose context is still in use is on the defunct list: the idle
\* thread has not released it.
DeadQueued(u) ==
    \A x \in Reaped : u.stat[x] = "close" /\ (x = u.current \/ x = cpu) => Queued(u, Defunct, x)

\* What holds of the table at any time, inside a handler too.
Core(u) ==
    /\ Sound(u) /\ IdleReady(u) /\ ReadyListed(u) /\ InCallOn(u)
    /\ CurrentReady(u) /\ DeadQueued(u)

\* A pending switch leads to a ready thread, and none is pending while the
\* scheduler is locked.
Pending == sw.flag => k.lock_nest = 0 /\ k.current # NoThread /\ k.stat[k.current] = "ready"

\* Until rt_system_scheduler_start nothing runs and no interrupt comes.
Booting ==
    k.current = NoThread =>
       /\ ~sw.flag /\ cpu = NoThread /\ rt_interrupt_nest = 0 /\ due = 0
       /\ pc = [x \in Threads |-> "user"] /\ k.lock_nest = 0

\* The inductive invariant.
IInv == TypeOK /\ Core(k) /\ ContextOK /\ Pending /\ Booting

-----------------------------------------------------------------------------
\* From table u to v thread t has left its queue, and its timer is stopped.
Unlinked(u, v, t) ==
    /\ Sound(v)
    /\ \A x \in Threads : Listed(v, x) <=> Listed(u, x)
    /\ \A q \in Queues, x \in Threads : Queued(v, q, x) <=> Queued(u, q, x) /\ x # t
    /\ v.stat = u.stat /\ v.timer = u.timer \ {t}
    /\ v.current = u.current /\ v.lock_nest = u.lock_nest

\* From table u to v thread t has left its queue and become ready.
Woken(u, v, t) ==
    /\ Sound(v)
    /\ \A x \in Threads : Listed(v, x) <=> Listed(u, x) \/ x = t
    /\ \A q \in Queues, x \in Threads : Queued(v, q, x) <=> Queued(u, q, x) /\ x # t
    /\ v.stat = [u.stat EXCEPT ![t] = "ready"] /\ v.timer = u.timer \ {t}
    /\ v.current = u.current /\ v.lock_nest = u.lock_nest

\* The first critical section of rt_thread_resume.
LEMMA ResumeUnlinks ==
    ASSUME NEW u, Sound(u), NEW t \in Threads, ~Listed(u, t)
    PROVE  Unlinked(u, resume_unlink(u, t), t)
  <1> DEFINE w == rt_list_remove(u, t)
             v == resume_unlink(u, t)
  <1>1. /\ Lists(w)
        /\ \A x \in Threads : Listed(w, x) <=> Listed(u, x)
        /\ \A q \in Queues, x \in Threads : Queued(w, q, x) <=> Queued(u, q, x) /\ x # t
        /\ w.stat = u.stat /\ w.prio = u.prio /\ w.timer = u.timer
        /\ w.current = u.current /\ w.lock_nest = u.lock_nest
    BY UnlinkEffect DEF Sound
  <1> HIDE DEF w
  <1>2. /\ v \in KernelType /\ v.ready = w.ready /\ v.queue = w.queue /\ v.group = w.group
        /\ v.stat = w.stat /\ v.prio = w.prio /\ v.timer = w.timer \ {t}
        /\ v.current = w.current /\ v.lock_nest = w.lock_nest
    BY <1>1 DEF resume_unlink, rt_timer_stop, w, Lists, KernelType
  <1> HIDE DEF v
  <1>3. Lists(v)
    BY <1>1, <1>2 DEF Lists
  <1>4. \A x : Listed(v, x) <=> Listed(w, x)
    BY <1>2 DEF Listed
  <1>5. \A q, x : Queued(v, q, x) <=> Queued(w, q, x)
    BY <1>2 DEF Queued
  <1>6. Sound(v)
    BY <1>1, <1>2, <1>3, <1>4, <1>5, SchedulerAssumption DEF Sound
  <1> QED BY <1>1, <1>2, <1>4, <1>5, <1>6 DEF Unlinked, v

\* rt_thread_timeout up to its rt_schedule_insert_thread.
LEMMA TimeoutUnlinks ==
    ASSUME NEW u, Sound(u), NEW t \in Threads, ~Listed(u, t)
    PROVE  Unlinked(u, rt_list_remove([rt_timer_stop(u, t) EXCEPT !.error[t] = "RT_ETIMEOUT"], t), t)
  <1> DEFINE w == [rt_timer_stop(u, t) EXCEPT !.error[t] = "RT_ETIMEOUT"]
             v == rt_list_remove(w, t)
  <1>1. /\ w \in KernelType /\ w.ready = u.ready /\ w.queue = u.queue /\ w.group = u.group
        /\ w.stat = u.stat /\ w.prio = u.prio /\ w.timer = u.timer \ {t}
        /\ w.current = u.current /\ w.lock_nest = u.lock_nest
    BY DEF rt_timer_stop, Sound, Lists, KernelType, Errors
  <1> HIDE DEF w
  <1>2. Lists(w)
    BY <1>1 DEF Sound, Lists
  <1>3. \A x : Listed(w, x) <=> Listed(u, x)
    BY <1>1 DEF Listed
  <1>4. \A q, x : Queued(w, q, x) <=> Queued(u, q, x)
    BY <1>1 DEF Queued
  <1>5. /\ Lists(v)
        /\ \A x \in Threads : Listed(v, x) <=> Listed(w, x)
        /\ \A q \in Queues, x \in Threads : Queued(v, q, x) <=> Queued(w, q, x) /\ x # t
        /\ v.stat = w.stat /\ v.prio = w.prio /\ v.timer = w.timer
        /\ v.current = w.current /\ v.lock_nest = w.lock_nest
    BY <1>2, <1>3, UnlinkEffect
  <1> HIDE DEF v
  <1>6. Sound(v)
    BY <1>1, <1>3, <1>4, <1>5, SchedulerAssumption DEF Sound
  <1> QED BY <1>1, <1>3, <1>4, <1>5, <1>6 DEF Unlinked, v, w

\* rt_schedule_insert_thread of a thread just unlinked completes its wake-up.
LEMMA InsertWakes ==
    ASSUME NEW u, Sound(u), NEW t \in Threads, u.stat[t] = "suspend", 
           NEW v, Unlinked(u, v, t)
    PROVE  Woken(u, rt_schedule_insert_thread(v, t), t)
  <1> DEFINE w == rt_schedule_insert_thread(v, t)
  <1>1. ~Listed(v, t)
    BY DEF Sound, Unlinked
  <1>2. /\ Lists(w)
        /\ \A x \in Threads : Listed(w, x) <=> Listed(v, x) \/ x = t
        /\ w.queue = v.queue
        /\ w.stat = [v.stat EXCEPT ![t] = "ready"]
        /\ w.prio = v.prio /\ w.timer = v.timer
        /\ w.current = v.current /\ w.lock_nest = v.lock_nest
    BY <1>1, InsertEffect DEF Unlinked, Sound
  <1> HIDE DEF w
  <1>3. \A q, x : Queued(w, q, x) <=> Queued(v, q, x)
    BY <1>2 DEF Queued
  <1>4. v.stat \in [Threads -> Stats] /\ v.timer \subseteq Threads
    BY DEF Unlinked, Sound, Lists, KernelType
  <1>6. Sound(w)
    BY <1>2, <1>3, <1>4, SchedulerAssumption DEF Sound, Unlinked
  <1> QED BY <1>2, <1>3, <1>6 DEF Woken, Unlinked, w

\* Waking a suspended thread that the Manager is not working on keeps Core:
\* a handler may do so between any two stretches of thread code.
LEMMA WokenCore ==
    ASSUME NEW u, Core(u), NEW t \in Threads, u.stat[t] = "suspend",
           pc[Manager] \in {"resuming", "insert", "unlinked", "stopped"} => t # target,
           NEW v, Woken(u, v, t)
    PROVE  Core(v)
  <1>1. u.stat \in [Threads -> Stats]
    BY DEF Core, Sound, Lists, KernelType
  <1>2. Sound(v)
    BY DEF Woken
  <1>3. ReadyListed(v)
    BY <1>1 DEF Woken, Core, ReadyListed
  <1>4. InCallOn(v)
    BY <1>1 DEF Woken, Core, InCallOn
  <1>5. CurrentReady(v)
    BY <1>1 DEF Woken, Core, CurrentReady
  <1>6. IdleReady(v)
    BY <1>1, SchedulerAssumption DEF Woken, Core, IdleReady
  <1>7. DeadQueued(v)
    BY <1>1, SchedulerAssumption DEF Woken, Core, DeadQueued
  <1> QED BY <1>2, <1>3, <1>4, <1>5, <1>6, <1>7 DEF Core

\* Once the system runs the idle thread is on a ready list.
LEMMA IdleListed ==
    ASSUME NEW u, Core(u), u.current # NoThread
    PROVE  Listed(u, Idle)
  BY SchedulerAssumption DEF Core, IdleReady, ReadyListed, InCallOn, BeingDetached

\* rt_schedule keeps Core and chooses a ready thread, unless the scheduler is
\* locked.
LEMMA ScheduleCore ==
    ASSUME NEW u, Core(u), u.current \in Threads
    PROVE  LET v == rt_schedule(u)
           IN  /\ Core(v) /\ v.current \in Threads
               /\ v.stat = u.stat /\ v.lock_nest = u.lock_nest
               /\ v.current = u.current \/ v.lock_nest = 0
               /\ v.lock_nest = 0 => v.stat[v.current] = "ready"
  <1> DEFINE v == rt_schedule(u)
  <1>1. NoThread \notin Threads
    BY KernelAssumption
  <1>2. Lists(u) /\ Idle \in Threads /\ Listed(u, Idle)
    BY <1>1, IdleListed, SchedulerAssumption DEF Core, Sound
  <1> DEFINE c == Head(u.ready[highest_ready_priority(u)])
  <1>3. c \in Threads /\ Listed(u, c)
    BY <1>2, HighestReady
  <1> HIDE DEF c
  <1>4. v = IF u.lock_nest = 0 THEN [u EXCEPT !.current = c] ELSE u
    BY DEF rt_schedule, c
  <1>5. CASE u.lock_nest = 0
    <2>1. /\ v \in KernelType /\ v.ready = u.ready /\ v.queue = u.queue /\ v.group = u.group
          /\ v.stat = u.stat /\ v.prio = u.prio /\ v.timer = u.timer
          /\ v.current = c /\ v.lock_nest = u.lock_nest
      BY <1>3, <1>4, <1>5 DEF Core, Sound, Lists, KernelType
    <2> HIDE DEF v
    <2>2. Lists(v)
      BY <2>1 DEF Core, Sound, Lists
    <2>3. \A x : Listed(v, x) <=> Listed(u, x)
      BY <2>1 DEF Listed
    <2>4. \A q, x : Queued(v, q, x) <=> Queued(u, q, x)
      BY <2>1 DEF Queued
    <2>5. Sound(v)
      BY <2>1, <2>2, <2>3, <2>4, SchedulerAssumption DEF Core, Sound
    <2>6. v.stat[c] = "ready"
      BY <2>1, <1>3 DEF Core, Sound
    <2>7. IdleReady(v) /\ ReadyListed(v) /\ CurrentReady(v) /\ DeadQueued(v)
      BY <2>1, <2>3, <2>4, <2>6, <1>1 DEF Core, IdleReady, ReadyListed, CurrentReady, DeadQueued
    <2>8. InCallOn(v)
      BY <2>1, <2>3, <2>4, <1>3 DEF Core, InCallOn
    <2> QED BY <2>1, <2>5, <2>6, <2>7, <2>8, <1>3, <1>5 DEF Core, v
  <1>6. CASE u.lock_nest # 0
    BY <1>4, <1>6
  <1> QED BY <1>5, <1>6

-----------------------------------------------------------------------------
\* The table rt_system_scheduler_init leaves satisfies the invariant.
LEMMA InitHolds == Init => IInv
  <1> SUFFICES ASSUME Init PROVE IInv
    OBVIOUS
  <1>1. /\ k \in KernelType
        /\ k.ready = [p \in Prios |-> << >>] /\ k.queue = [q \in Queues |-> << >>]
        /\ k.group = {} /\ k.timer = {} /\ k.current = NoThread /\ k.lock_nest = 0
        /\ k.stat = [x \in Threads |-> "init"]
    BY KernelAssumption DEF Init, rt_system_scheduler_init, KernelType, Stats, Errors
  <1>2. \A x : ~Listed(k, x)
    BY <1>1 DEF Listed, Contains
  <1>3. \A q \in Queues : \A x : ~Queued(k, q, x)
    BY <1>1 DEF Queued, Contains
  <1>4. Lists(k)
    <2>1. \A p \in Prios : IsInjective(k.ready[p])
      BY <1>1 DEF IsInjective
    <2>2. \A q \in Queues : IsInjective(k.queue[q])
      BY <1>1 DEF IsInjective
    <2>3. \A p \in Prios, x \in Threads : ~Contains(k.ready[p], x)
      BY <1>2 DEF Listed
    <2> QED BY <1>1, <2>1, <2>2, <2>3 DEF Lists
  <1>5. Core(k)
    BY <1>1, <1>2, <1>3, <1>4, SchedulerAssumption, KernelAssumption
       DEF Core, Sound, IdleReady, ReadyListed, InCallOn, CurrentReady, DeadQueued, Init
  <1>6. TypeOK
    BY <1>1, SchedulerAssumption DEF Init, TypeOK, NoSwitch, Points
  <1>7. ContextOK /\ Pending /\ Booting
    BY <1>1 DEF Init, ContextOK, Pending, Booting, NoSwitch
  <1> QED BY <1>5, <1>6, <1>7 DEF IInv

\* What the code of a running thread may rely on: it is current, no switch is
\* pending, and if it owes no rt_schedule it is READY and on its list.
LEMMA ThreadRuns ==
    ASSUME IInv, NEW s \in Threads, NEW point, InThread(s, point)
    PROVE  /\ k.current = s /\ cpu = s /\ rt_interrupt_nest = 0 /\ ~sw.flag /\ pc[s] = point
           /\ point \notin {"schedule", "sleep"} => k.stat[s] = "ready" /\ Listed(k, s)
           /\ pc[Manager] \in {"resuming", "insert", "unlinked", "stopped"} => s # target
  <1>1. k.current = s
    BY DEF IInv, ContextOK, InThread
  <1>2. pc[Manager] \in {"resuming", "insert", "unlinked", "stopped"} => s # target
    BY <1>1 DEF IInv, Core, InCallOn
  <1>3. point \notin {"schedule", "sleep"} => k.stat[s] = "ready"
    BY <1>1 DEF IInv, Core, CurrentReady, InThread
  <1>4. k.stat[s] = "ready" => Listed(k, s)
    BY <1>2 DEF IInv, Core, ReadyListed, BeingDetached
  <1> QED BY <1>1, <1>2, <1>3, <1>4 DEF InThread

\* A step of thread code that leaves the current thread alone.
LEMMA ThreadStep ==
    ASSUME IInv, k.current \in Threads, ~sw.flag, Core(k)',
           k'.current = k.current,
           UNCHANGED <<rt_interrupt_nest, sw, cpu, remaining_tick, due>>,
           pc' \in [Threads -> Points], target' \in Threads \cup {NoThread}
    PROVE  IInv'
  <1>1. k' \in KernelType
    BY DEF Core, Sound, Lists
  <1>2. TypeOK'
    BY <1>1 DEF TypeOK, IInv
  <1>3. ContextOK' /\ Pending' /\ Booting'
    BY KernelAssumption DEF ContextOK, Pending, Booting, IInv
  <1> QED BY <1>2, <1>3 DEF IInv

\* A step of a handler that makes threads ready and reschedules.
LEMMA HandlerStep ==
    ASSUME IInv, NEW u, Core(u), u.current = k.current, k.current \in Threads,
           u.lock_nest = k.lock_nest, Schedule(u),
           UNCHANGED <<rt_interrupt_nest, cpu, pc, target, remaining_tick>>,
           due' \in 0 .. MaxNest, k.stat[k.current] = "ready" => u.stat[u.current] = "ready"
    PROVE  IInv'
  <1>1. /\ Core(k') /\ k'.current \in Threads
        /\ k'.stat = u.stat /\ k'.lock_nest = u.lock_nest
        /\ k'.current = u.current \/ k'.lock_nest = 0
        /\ k'.lock_nest = 0 => k'.stat[k'.current] = "ready"
    BY ScheduleCore DEF Schedule
  <1>2. Core(k)'
    BY <1>1 DEF Core, Sound, Lists, IdleReady, ReadyListed, InCallOn, CurrentReady, DeadQueued,
            Listed, Queued, BeingDetached
  <1>3. k' \in KernelType /\ NoThread \notin Threads
    BY <1>1, KernelAssumption DEF Core, Sound, Lists
  <1>4. sw' = IF k'.current = u.current THEN sw
              ELSE [flag |-> TRUE, from |-> IF sw.flag THEN sw.from ELSE u.current, to |-> k'.current]
    BY DEF Schedule, rt_hw_context_switch
  <1>5. TypeOK'
    BY <1>1, <1>3, <1>4 DEF TypeOK, IInv
  <1>6. ContextOK'
    BY <1>4 DEF ContextOK, IInv
  <1>7. Pending'
    BY <1>1, <1>3, <1>4 DEF Pending, IInv
  <1>8. Booting'
    BY <1>1, <1>3 DEF Booting
  <1> QED BY <1>2, <1>5, <1>6, <1>7, <1>8 DEF IInv

-----------------------------------------------------------------------------
\* rt_thread_startup before it calls rt_thread_resume.
Started(u, x) == [u EXCEPT !.stat[x] = "suspend", !.prio[x] = init_priority[x]]

\* rt_thread_startup makes a thread in state INIT a suspended one; no list
\* knows it yet.
LEMMA StartedSound ==
    ASSUME NEW u, Sound(u), NEW x \in Threads, u.stat[x] = "init"
    PROVE  LET w == Started(u, x)
           IN  /\ Sound(w)
               /\ \A y \in Threads : Listed(w, y) <=> Listed(u, y)
               /\ \A q \in Queues, y \in Threads : Queued(w, q, y) <=> Queued(u, q, y)
               /\ w.stat = [u.stat EXCEPT ![x] = "suspend"] /\ w.timer = u.timer
               /\ w.current = u.current /\ w.lock_nest = u.lock_nest
  <1> DEFINE w == Started(u, x)
  <1>1. u \in KernelType /\ u.stat \in [Threads -> Stats] /\ u.prio \in [Threads -> Prios]
        /\ init_priority[x] \in Prios
    BY KernelAssumption DEF Sound, Lists, KernelType
  <1>2. /\ w \in KernelType
        /\ w.stat = [u.stat EXCEPT ![x] = "suspend"]
        /\ w.prio = [u.prio EXCEPT ![x] = init_priority[x]]
        /\ w.ready = u.ready /\ w.queue = u.queue /\ w.group = u.group /\ w.timer = u.timer
        /\ w.current = u.current /\ w.lock_nest = u.lock_nest
    <2>1. [u.stat EXCEPT ![x] = "suspend"] \in [Threads -> Stats]
      BY <1>1 DEF Stats
    <2>2. [u.prio EXCEPT ![x] = init_priority[x]] \in [Threads -> Prios]
      BY <1>1
    <2> QED BY <1>1, <2>1, <2>2 DEF Started, KernelType
  <1> HIDE DEF w
  <1>3. \A y : Listed(w, y) <=> Listed(u, y)
    BY <1>2 DEF Listed
  <1>4. \A q, y : Queued(w, q, y) <=> Queued(u, q, y)
    BY <1>2 DEF Queued
  <1>5. ~Listed(u, x)
    BY DEF Sound
  <1>6. \A p \in Prios, y \in Threads : Contains(w.ready[p], y) => w.prio[y] = p
    <2> SUFFICES ASSUME NEW p \in Prios, NEW y \in Threads, Contains(w.ready[p], y)
                 PROVE  w.prio[y] = p
      OBVIOUS
    <2>1. Contains(u.ready[p], y)
      BY <1>2
    <2>2. y # x
      BY <2>1, <1>5 DEF Listed
    <2> QED BY <2>1, <2>2, <1>1, <1>2 DEF Sound, Lists
  <1>7. Lists(w)
    BY <1>2, <1>6 DEF Sound, Lists
  <1>8. Sound(w)
    BY <1>1, <1>2, <1>3, <1>4, <1>5, <1>7, SchedulerAssumption DEF Sound
  <1> QED BY <1>2, <1>3, <1>4, <1>8 DEF w

\* BootStartup (rt_thread_startup before the scheduler runs) keeps the invariant.
LEMMA BootStartupStep ==
    ASSUME IInv, NEW x \in Threads, BootStartup(x)
    PROVE  IInv'
  <1> DEFINE w == Started(k, x)
  <1>1. Sound(k) /\ k.stat[x] = "init" /\ k.current = NoThread /\ k.stat \in [Threads -> Stats]
    BY DEF IInv, Core, BootStartup, TypeOK, KernelType
  <1>2. /\ Sound(w)
        /\ \A y \in Threads : Listed(w, y) <=> Listed(k, y)
        /\ \A q \in Queues, y \in Threads : Queued(w, q, y) <=> Queued(k, q, y)
        /\ w.stat = [k.stat EXCEPT ![x] = "suspend"] /\ w.timer = k.timer
        /\ w.current = k.current /\ w.lock_nest = k.lock_nest
    BY <1>1, StartedSound
  <1>3. k' = rt_thread_resume(w, x)
    BY DEF BootStartup, Started
  <1> HIDE DEF w
  <1>4. w.stat[x] = "suspend" /\ ~Listed(w, x)
    BY <1>1, <1>2 DEF Sound
  <1>5. k' = rt_schedule_insert_thread(resume_unlink(w, x), x)
    BY <1>3, <1>4 DEF rt_thread_resume
  <1>6. Woken(w, k', x)
    BY <1>2, <1>4, <1>5, ResumeUnlinks, InsertWakes
  <1>7. k'.stat = [k.stat EXCEPT ![x] = "ready"] /\ k'.current = NoThread
        /\ k'.lock_nest = k.lock_nest
    BY <1>1, <1>2, <1>6 DEF Woken
  <1>8. UNCHANGED <<rt_interrupt_nest, sw, cpu, pc, target, remaining_tick, due>>
    BY DEF BootStartup
  <1>9. NoThread \notin Threads
    BY KernelAssumption
  <1>10. Sound(k')
    BY <1>6 DEF Woken
  <1>11. IdleReady(k')
    BY <1>1, <1>7, SchedulerAssumption DEF IdleReady, IInv, Core
  <1>12. ReadyListed(k)'
    BY <1>1, <1>2, <1>6, <1>7, <1>8 DEF ReadyListed, IInv, Core, Woken, BeingDetached
  <1>13. pc' = pc /\ pc = [y \in Threads |-> "user"] /\ cpu' = NoThread /\ target' = target
         /\ Manager \in Threads
    BY <1>1, <1>8, SchedulerAssumption DEF IInv, Booting
  <1>14. InCallOn(k)'
    <2>1. pc[Manager] = "user" /\ \A y \in Threads : pc[y] = "user"
      BY <1>13
    <2>2. target = NoThread
      BY <2>1 DEF InCallOn, IInv, Core
    <2> QED BY <2>1, <2>2, <1>13 DEF InCallOn
  <1>15. CurrentReady(k)' /\ DeadQueued(k)'
    BY <1>7, <1>9, <1>13, SchedulerAssumption DEF CurrentReady, DeadQueued
  <1>16. Core(k)'
    BY <1>10, <1>11, <1>12, <1>14, <1>15 DEF Core, IdleReady
  <1>17. k' \in KernelType
    BY <1>10 DEF Sound, Lists
  <1>18. TypeOK'
    BY <1>8, <1>17 DEF TypeOK, IInv
  <1>19. ContextOK' /\ Pending' /\ Booting'
    BY <1>1, <1>7, <1>8 DEF ContextOK, Pending, Booting, IInv
  <1> QED BY <1>16, <1>18, <1>19 DEF IInv

\* rt_system_scheduler_start keeps the invariant: the first switch has no thread
\* to save.
LEMMA SchedulerStartStep ==
    ASSUME IInv, rt_system_scheduler_start
    PROVE  IInv'
  <1> DEFINE c == Head(k.ready[highest_ready_priority(k)])
  <1>1. /\ k.current = NoThread /\ k' = [k EXCEPT !.current = c]
        /\ sw' = [flag |-> TRUE, from |-> NoThread, to |-> k'.current]
        /\ UNCHANGED <<rt_interrupt_nest, cpu, pc, target, remaining_tick, due>>
    BY DEF rt_system_scheduler_start
  <1>2. NoThread \notin Threads /\ Idle \in Threads /\ Manager \in Threads
    BY KernelAssumption, SchedulerAssumption
  <1>3. pc = [y \in Threads |-> "user"] /\ cpu = NoThread /\ k.lock_nest = 0
    BY <1>1 DEF IInv, Booting
  <1>4. k.stat[Idle] = "ready"
    BY <1>1 DEF IInv, Core, IdleReady, rt_system_scheduler_start
  <1>5. Listed(k, Idle)
    BY <1>2, <1>3, <1>4 DEF IInv, Core, ReadyListed, BeingDetached
  <1>6. c \in Threads /\ Listed(k, c)
    BY <1>2, <1>5, HighestReady DEF IInv, Core, Sound
  <1> HIDE DEF c
  <1>7. /\ k' \in KernelType /\ k'.ready = k.ready /\ k'.queue = k.queue /\ k'.group = k.group
        /\ k'.stat = k.stat /\ k'.prio = k.prio /\ k'.timer = k.timer
        /\ k'.current = c /\ k'.lock_nest = k.lock_nest
    BY <1>1, <1>6 DEF IInv, Core, Sound, Lists, KernelType
  <1>8. Lists(k')
    BY <1>7 DEF IInv, Core, Sound, Lists
  <1>9. \A x : Listed(k', x) <=> Listed(k, x)
    BY <1>7 DEF Listed
  <1>10. \A q, x : Queued(k', q, x) <=> Queued(k, q, x)
    BY <1>7 DEF Queued
  <1>11. Sound(k')
    BY <1>7, <1>8, <1>9, <1>10, SchedulerAssumption DEF IInv, Core, Sound
  <1>12. k'.stat[c] = "ready"
    BY <1>7, <1>6 DEF IInv, Core, Sound
  <1>13. ReadyListed(k)' /\ IdleReady(k)'
    BY <1>1, <1>4, <1>7, <1>9 DEF IInv, Core, ReadyListed, IdleReady, BeingDetached
  <1>14. InCallOn(k)' /\ CurrentReady(k)'
    BY <1>1, <1>2, <1>3, <1>7, <1>12 DEF IInv, Core, InCallOn, CurrentReady
  <1>15. DeadQueued(k)'
    BY <1>1, <1>2, <1>3, <1>7, <1>12, SchedulerAssumption DEF DeadQueued
  <1>16. Core(k)'
    BY <1>11, <1>13, <1>14, <1>15 DEF Core
  <1>17. TypeOK'
    BY <1>1, <1>6, <1>7 DEF TypeOK, IInv
  <1>18. ContextOK' /\ Pending' /\ Booting'
    BY <1>1, <1>2, <1>3, <1>6, <1>7, <1>12 DEF ContextOK, Pending, Booting, IInv
  <1> QED BY <1>16, <1>17, <1>18 DEF IInv

-----------------------------------------------------------------------------
\* Tables u and v have the same threads on the same lists, in whatever order.
SameLists(u, v) ==
    /\ \A x \in Threads : Listed(v, x) <=> Listed(u, x)
    /\ \A q \in Queues, x \in Threads : Queued(v, q, x) <=> Queued(u, q, x)

\* A table whose lists and states are those of a sound one is sound.
LEMMA FieldsSound ==
    ASSUME NEW u, Sound(u), NEW v \in KernelType,
           v.ready = u.ready, v.queue = u.queue, v.group = u.group,
           v.stat = u.stat, v.prio = u.prio,
           \A x \in v.timer : u.stat[x] = "suspend" /\ x \in Sleepers \cup Waiters
    PROVE  Sound(v) /\ SameLists(u, v)
  <1>1. Lists(v)
    BY DEF Sound, Lists
  <1>2. \A x : Listed(v, x) <=> Listed(u, x)
    BY DEF Listed
  <1>3. \A q, x : Queued(v, q, x) <=> Queued(u, q, x)
    BY DEF Queued
  <1>4. Sound(v)
    BY <1>1, <1>2, <1>3, SchedulerAssumption DEF Sound
  <1> QED BY <1>2, <1>3, <1>4 DEF SameLists

\* rt_schedule_remove_thread keeps a table sound.
LEMMA SoundRemove ==
    ASSUME NEW u, Sound(u), NEW t \in Threads
    PROVE  LET v == rt_schedule_remove_thread(u, t)
           IN  /\ Sound(v)
               /\ \A x \in Threads : Listed(v, x) <=> Listed(u, x) /\ x # t
               /\ \A q \in Queues, x \in Threads : Queued(v, q, x) <=> Queued(u, q, x) /\ x # t
               /\ v.stat = u.stat /\ v.timer = u.timer /\ v.current = u.current
               /\ v.lock_nest = u.lock_nest
  <1> DEFINE v == rt_schedule_remove_thread(u, t)
  <1>1. /\ Lists(v)
        /\ \A x \in Threads : Listed(v, x) <=> Listed(u, x) /\ x # t
        /\ \A q \in Queues, x \in Threads : Queued(v, q, x) <=> Queued(u, q, x) /\ x # t
        /\ v.stat = u.stat /\ v.timer = u.timer /\ v.current = u.current
        /\ v.lock_nest = u.lock_nest
    BY RemoveEffect DEF Sound
  <1> HIDE DEF v
  <1>2. Sound(v)
    BY <1>1, SchedulerAssumption DEF Sound
  <1> QED BY <1>1, <1>2 DEF v

\* rt_thread_suspend takes a ready thread off its list and stops its timer.
LEMMA SuspendEffect ==
    ASSUME NEW u, Sound(u), NEW t \in Threads, u.stat[t] = "ready"
    PROVE  LET v == rt_thread_suspend(u, t)
           IN  /\ Sound(v)
               /\ \A x \in Threads : Listed(v, x) <=> Listed(u, x) /\ x # t
               /\ \A q \in Queues, x \in Threads : Queued(v, q, x) <=> Queued(u, q, x) /\ x # t
               /\ v.stat = [u.stat EXCEPT ![t] = "suspend"] /\ v.timer = u.timer \ {t}
               /\ v.current = u.current /\ v.lock_nest = u.lock_nest
  <1> DEFINE w == [u EXCEPT !.stat[t] = "suspend"]
             r == rt_schedule_remove_thread(w, t)
             v == rt_thread_suspend(u, t)
  <1>0. u \in KernelType /\ u.stat \in [Threads -> Stats]
    BY DEF Sound, Lists, KernelType
  <1>1. /\ w \in KernelType /\ w.stat = [u.stat EXCEPT ![t] = "suspend"]
        /\ w.ready = u.ready /\ w.queue = u.queue /\ w.group = u.group
        /\ w.prio = u.prio /\ w.timer = u.timer
        /\ w.current = u.current /\ w.lock_nest = u.lock_nest
    <2>1. [u.stat EXCEPT ![t] = "suspend"] \in [Threads -> Stats]
      BY <1>0 DEF Stats
    <2> QED BY <1>0, <2>1 DEF KernelType
  <1>2. v = rt_timer_stop(r, t)
    BY DEF rt_thread_suspend
  <1> HIDE DEF w
  <1>3. Lists(w)
    BY <1>1 DEF Sound, Lists
  <1>4. \A x : Listed(w, x) <=> Listed(u, x)
    BY <1>1 DEF Listed
  <1>5. \A q, x : Queued(w, q, x) <=> Queued(u, q, x)
    BY <1>1 DEF Queued
  <1>6. /\ Lists(r)
        /\ \A x \in Threads : Listed(r, x) <=> Listed(w, x) /\ x # t
        /\ \A q \in Queues, x \in Threads : Queued(r, q, x) <=> Queued(w, q, x) /\ x # t
        /\ r.stat = w.stat /\ r.timer = w.timer /\ r.prio = w.prio
        /\ r.current = w.current /\ r.lock_nest = w.lock_nest
    BY <1>3, RemoveEffect
  <1> HIDE DEF r
  <1>7. /\ v \in KernelType /\ v.ready = r.ready /\ v.queue = r.queue /\ v.group = r.group
        /\ v.stat = r.stat /\ v.prio = r.prio /\ v.timer = r.timer \ {t}
        /\ v.current = r.current /\ v.lock_nest = r.lock_nest
    BY <1>2, <1>6 DEF rt_timer_stop, Lists, KernelType
  <1> HIDE DEF v
  <1>8. Lists(v)
    BY <1>6, <1>7 DEF Lists
  <1>9. \A x : Listed(v, x) <=> Listed(r, x)
    BY <1>7 DEF Listed
  <1>10. \A q, x : Queued(v, q, x) <=> Queued(r, q, x)
    BY <1>7 DEF Queued
  <1>11. /\ \A x \in Threads : Listed(v, x) <=> Listed(u, x) /\ x # t
         /\ \A q \in Queues, x \in Threads : Queued(v, q, x) <=> Queued(u, q, x) /\ x # t
    BY <1>4, <1>5, <1>6, <1>9, <1>10
  <1>12. v.stat = [u.stat EXCEPT ![t] = "suspend"] /\ v.timer = u.timer \ {t}
    BY <1>1, <1>6, <1>7
  <1>13. Sound(v)
    BY <1>0, <1>8, <1>11, <1>12, SchedulerAssumption DEF Sound
  <1> QED BY <1>1, <1>6, <1>7, <1>11, <1>12, <1>13 DEF v

\* rt_timer_start of the timer of a suspended sleeper or waiter.
LEMMA StartTimerSound ==
    ASSUME NEW u, Sound(u), NEW t \in Sleepers \cup Waiters, u.stat[t] = "suspend"
    PROVE  LET v == rt_timer_start(u, t)
           IN  /\ Sound(v) /\ SameLists(u, v)
               /\ v.stat = u.stat /\ v.timer = u.timer \cup {t}
               /\ v.current = u.current /\ v.lock_nest = u.lock_nest
  <1> DEFINE v == rt_timer_start(u, t)
  <1>1. /\ v \in KernelType /\ v.ready = u.ready /\ v.queue = u.queue /\ v.group = u.group
        /\ v.stat = u.stat /\ v.prio = u.prio /\ v.timer = u.timer \cup {t}
        /\ v.current = u.current /\ v.lock_nest = u.lock_nest
    BY SchedulerAssumption DEF rt_timer_start, Sound, Lists, KernelType
  <1> HIDE DEF v
  <1>2. \A x \in v.timer : u.stat[x] = "suspend" /\ x \in Sleepers \cup Waiters
    BY <1>1 DEF Sound
  <1>3. Sound(v) /\ SameLists(u, v)
    BY <1>1, <1>2, FieldsSound
  <1> QED BY <1>1, <1>3 DEF v

\* rt_timer_stop of the timer of any thread.
LEMMA StopTimerSound ==
    ASSUME NEW u, Sound(u), NEW t
    PROVE  LET v == rt_timer_stop(u, t)
           IN  /\ Sound(v) /\ SameLists(u, v)
               /\ v.stat = u.stat /\ v.timer = u.timer \ {t}
               /\ v.current = u.current /\ v.lock_nest = u.lock_nest
  <1> DEFINE v == rt_timer_stop(u, t)
  <1>1. /\ v \in KernelType /\ v.ready = u.ready /\ v.queue = u.queue /\ v.group = u.group
        /\ v.stat = u.stat /\ v.prio = u.prio /\ v.timer = u.timer \ {t}
        /\ v.current = u.current /\ v.lock_nest = u.lock_nest
    BY DEF rt_timer_stop, Sound, Lists, KernelType
  <1> HIDE DEF v
  <1>2. \A x \in v.timer : u.stat[x] = "suspend" /\ x \in Sleepers \cup Waiters
    BY <1>1 DEF Sound
  <1>3. Sound(v) /\ SameLists(u, v)
    BY <1>1, <1>2, FieldsSound
  <1> QED BY <1>1, <1>3 DEF v

\* A thread that is on no list and has no running timer dies: it is CLOSEd and,
\* if somebody must release it, put on the defunct list.
LEMMA CloseEffect ==
    ASSUME NEW u, Sound(u), NEW t \in Threads, ~Listed(u, t), t \notin u.timer,
           \A q \in Queues : ~Queued(u, q, t)
    PROVE  LET v == close(u, t)
           IN  /\ Sound(v)
               /\ \A x \in Threads : Listed(v, x) <=> Listed(u, x)
               /\ \A q \in Queues, x \in Threads :
                     Queued(v, q, x) <=> Queued(u, q, x) \/ (q = Defunct /\ x = t /\ t \in Reaped)
               /\ v.stat = [u.stat EXCEPT ![t] = "close"] /\ v.timer = u.timer
               /\ v.current = u.current /\ v.lock_nest = u.lock_nest
  <1> DEFINE w == [u EXCEPT !.stat[t] = "close"]
             l == <<t>> \o u.queue[Defunct]
             v == close(u, t)
  <1>0. u \in KernelType /\ u.stat \in [Threads -> Stats] /\ Defunct \in Queues
    BY SchedulerAssumption DEF Sound, Lists, KernelType
  <1>1. /\ w \in KernelType /\ w.stat = [u.stat EXCEPT ![t] = "close"]
        /\ w.ready = u.ready /\ w.queue = u.queue /\ w.group = u.group
        /\ w.prio = u.prio /\ w.timer = u.timer
        /\ w.current = u.current /\ w.lock_nest = u.lock_nest
    <2>1. [u.stat EXCEPT ![t] = "close"] \in [Threads -> Stats]
      BY <1>0 DEF Stats
    <2> QED BY <1>0, <2>1 DEF KernelType
  <1>2. v = IF t \in Reaped THEN [w EXCEPT !.queue[Defunct] = l] ELSE w
    <2>1. v = IF t \in Reaped THEN [w EXCEPT !.queue[Defunct] = <<t>> \o w.queue[Defunct]] ELSE w
      BY DEF close, rt_list_insert_after
    <2> QED BY <1>1, <2>1
  <1>3. /\ l \in Seq(Threads) /\ IsInjective(l)
        /\ \A x : Contains(l, x) <=> Contains(u.queue[Defunct], x) \/ x = t
    <2>1. u.queue[Defunct] \in Seq(Threads) /\ IsInjective(u.queue[Defunct])
      BY <1>0 DEF Sound, Lists, KernelType
    <2>2. ~Contains(u.queue[Defunct], t)
      BY <1>0 DEF Queued
    <2> QED BY <2>1, <2>2, PushList
  <1> HIDE DEF w, l
  <1>4. Lists(w)
    BY <1>1 DEF Sound, Lists
  <1>5. \A x : Listed(w, x) <=> Listed(u, x)
    BY <1>1 DEF Listed
  <1>6. \A q, x : Queued(w, q, x) <=> Queued(u, q, x)
    BY <1>1 DEF Queued
  <1>7. /\ Lists(v)
        /\ \A x \in Threads : Listed(v, x) <=> Listed(w, x)
        /\ \A q \in Queues, x \in Threads :
              Queued(v, q, x) <=> Queued(w, q, x) \/ (q = Defunct /\ x = t /\ t \in Reaped)
        /\ v.stat = w.stat /\ v.timer = w.timer
        /\ v.current = w.current /\ v.lock_nest = w.lock_nest
    <2>1. CASE t \in Reaped
      <3> DEFINE n == [w EXCEPT !.queue[Defunct] = l]
      <3>1. /\ ~Queued(w, Defunct, t) /\ Defunct \in Queues
            /\ l \in Seq(Threads) /\ IsInjective(l)
        BY <1>0, <1>3, <1>6
      <3>0. \A x : Contains(l, x) <=> Contains(w.queue[Defunct], x) \/ x = t
        BY <1>1, <1>3
      <3>2. /\ Lists(n)
            /\ \A x \in Threads : Listed(n, x) <=> Listed(w, x)
            /\ \A q \in Queues, x \in Threads : Queued(n, q, x) <=> Queued(w, q, x) \/ (q = Defunct /\ x = t)
            /\ n.stat = w.stat /\ n.prio = w.prio /\ n.timer = w.timer /\ n.error = w.error
            /\ n.current = w.current /\ n.lock_nest = w.lock_nest
        BY ONLY <1>4, <3>1, <3>0, t \in Threads, EnqueueEffect
      <3>3. v = n
        BY <1>2, <2>1
      <3> HIDE DEF n, v
      <3> QED BY <2>1, <3>2, <3>3
    <2>2. CASE t \notin Reaped
      <3>1. v = w
        BY <1>2, <2>2
      <3> HIDE DEF v
      <3> QED BY <2>2, <3>1, <1>4
    <2> QED BY <2>1, <2>2
  <1> HIDE DEF v
  <1>8. Sound(v)
    BY <1>0, <1>1, <1>5, <1>6, <1>7, SchedulerAssumption DEF Sound
  <1> QED BY <1>1, <1>5, <1>6, <1>7, <1>8 DEF v

-----------------------------------------------------------------------------
\* The test of rt_thread_resume, whoever calls it, establishes InCallOn for a
\* thread that nobody else can make ready.
LEMMA ResumeOpens ==
    ASSUME IInv, NEW x \in Threads, InThread(Manager, "user"), x # Idle, x # Manager,
           Sound(k)', SameLists(k, k'), k.stat[x] \in {"init", "suspend"},
           \A q \in Queues : ~Queued(k, q, x), x \notin k'.timer,
           k'.stat = [k.stat EXCEPT ![x] = "suspend"],
           k'.current = k.current, k'.lock_nest = k.lock_nest,
           Goto(Manager, "resuming"), target' = x,
           UNCHANGED <<rt_interrupt_nest, sw, cpu, remaining_tick, due>>
    PROVE  IInv'
  <1>1. /\ Manager \in Threads /\ Idle \in Threads
        /\ k.stat \in [Threads -> Stats] /\ pc \in [Threads -> Points]
    BY SchedulerAssumption DEF IInv, TypeOK, KernelType
  <1>2. /\ k.current = Manager /\ cpu = Manager /\ ~sw.flag /\ pc[Manager] = "user"
        /\ k.stat[Manager] = "ready"
    BY <1>1, ThreadRuns
  <1>3. ~Listed(k, x)
    BY <1>1 DEF IInv, Core, Sound
  <1>4. Sound(k')
    BY DEF Sound, Lists, Listed, Queued
  <1>5. /\ \A y \in Threads : Listed(k', y) <=> Listed(k, y)
        /\ \A q \in Queues, y \in Threads : Queued(k', q, y) <=> Queued(k, q, y)
    BY DEF SameLists
  <1>6. pc' = [pc EXCEPT ![Manager] = "resuming"]
    BY DEF Goto
  <1>8. IdleReady(k')
    BY <1>1, <1>5 DEF IdleReady, IInv, Core
  <1>9. ReadyListed(k)'
    BY <1>1, <1>2, <1>5, <1>6 DEF ReadyListed, IInv, Core, BeingDetached
  <1>10. InCallOn(k)'
    BY <1>1, <1>2, <1>3, <1>5, <1>6 DEF InCallOn, IInv, Core
  <1>11. CurrentReady(k)'
    BY <1>1, <1>2, <1>5 DEF CurrentReady
  <1>12. DeadQueued(k)'
    BY <1>1, <1>2, <1>5, SchedulerAssumption DEF DeadQueued
  <1>13. Core(k)'
    BY <1>4, <1>8, <1>9, <1>10, <1>11, <1>12 DEF Core, IdleReady
  <1>14. pc' \in [Threads -> Points]
    BY <1>1, <1>6 DEF Points
  <1> QED BY <1>1, <1>2, <1>13, <1>14, ThreadStep

\* rt_thread_startup by the Manager keeps the invariant.
LEMMA ThreadStartupStep ==
    ASSUME IInv, NEW x \in Threads, rt_thread_startup(x)
    PROVE  IInv'
  <1>1. /\ InThread(Manager, "user") /\ k.stat[x] = "init"
        /\ k' = Started(k, x) /\ Goto(Manager, "resuming") /\ target' = x
        /\ UNCHANGED <<rt_interrupt_nest, sw, cpu, remaining_tick, due>>
    BY DEF rt_thread_startup, Started
  <1>2. Manager \in Threads /\ NoThread \notin Threads
    BY SchedulerAssumption, KernelAssumption
  <1>3. k.current = Manager /\ k.stat[Manager] = "ready"
    BY <1>1, <1>2, ThreadRuns
  <1>4. x # Idle /\ x # Manager
    BY <1>1, <1>2, <1>3 DEF IInv, Core, IdleReady
  <1>5. /\ Sound(k')
        /\ \A y \in Threads : Listed(k', y) <=> Listed(k, y)
        /\ \A q \in Queues, y \in Threads : Queued(k', q, y) <=> Queued(k, q, y)
        /\ k'.stat = [k.stat EXCEPT ![x] = "suspend"] /\ k'.timer = k.timer
        /\ k'.current = k.current /\ k'.lock_nest = k.lock_nest
    BY <1>1, StartedSound DEF IInv, Core
  <1>6. SameLists(k, k')
    BY <1>5 DEF SameLists
  <1>7. Sound(k)'
    BY <1>5 DEF Sound, Lists, Listed, Queued
  <1>8. (\A q \in Queues : ~Queued(k, q, x)) /\ x \notin k'.timer
    BY <1>1, <1>5, SchedulerAssumption DEF IInv, Core, Sound
  <1> QED BY <1>1, <1>4, <1>5, <1>6, <1>7, <1>8, ResumeOpens

\* The test of rt_thread_resume. This step needs Untimed: a thread that waits or
\* has a running timer would break InCallOn.
LEMMA ResumeTestStep ==
    ASSUME IInv, Untimed, NEW x \in Threads, rt_thread_resume_test(x)
    PROVE  IInv'
  <1>1. /\ InThread(Manager, "user") /\ k.stat[x] = "suspend" /\ x \in Managed
        /\ k' = k /\ Goto(Manager, "resuming") /\ target' = x
        /\ UNCHANGED <<rt_interrupt_nest, sw, cpu, remaining_tick, due>>
    BY DEF rt_thread_resume_test
  <1>2. x # Idle /\ x # Manager
    BY <1>1, SchedulerAssumption
  <1>3. Sound(k) /\ SameLists(k, k) /\ k.stat = [k.stat EXCEPT ![x] = "suspend"]
    BY <1>1 DEF IInv, Core, SameLists, TypeOK, KernelType
  <1>4. Sound(k)' /\ SameLists(k, k')
    BY <1>1, <1>3 DEF Sound, Lists, Listed, Queued
  <1>5. (\A q \in Queues : ~Queued(k, q, x)) /\ x \notin k'.timer
    BY <1>1, <1>3, SchedulerAssumption DEF Sound, Untimed
  <1> QED BY <1>1, <1>2, <1>3, <1>4, <1>5, ResumeOpens

\* The first critical section of rt_thread_resume: what the test found still holds.
LEMMA ResumeUnlinkStep ==
    ASSUME IInv, rt_thread_resume_unlink
    PROVE  IInv'
  <1>1. /\ InThread(Manager, "resuming") /\ k' = resume_unlink(k, target)
        /\ pc' = [pc EXCEPT ![Manager] = "insert"] /\ target' = target
        /\ UNCHANGED <<rt_interrupt_nest, sw, cpu, remaining_tick, due>>
    BY DEF rt_thread_resume_unlink, Goto
  <1>2. /\ Manager \in Threads /\ Idle \in Threads /\ NoThread \notin Threads
        /\ k.stat \in [Threads -> Stats] /\ pc \in [Threads -> Points]
    BY SchedulerAssumption, KernelAssumption DEF IInv, TypeOK, KernelType
  <1>3. /\ k.current = Manager /\ cpu = Manager /\ ~sw.flag /\ pc[Manager] = "resuming"
        /\ k.stat[Manager] = "ready"
    BY <1>1, <1>2, ThreadRuns
  <1>4. /\ target \in Threads /\ target # Manager /\ ~Listed(k, target)
        /\ k.stat[target] = "suspend"
    BY <1>3 DEF IInv, Core, InCallOn
  <1>5. Unlinked(k, k', target)
    BY <1>1, <1>4, ResumeUnlinks DEF IInv, Core
  <1>6. /\ Sound(k')
        /\ \A y \in Threads : Listed(k', y) <=> Listed(k, y)
        /\ \A q \in Queues, y \in Threads : Queued(k', q, y) <=> Queued(k, q, y) /\ y # target
        /\ k'.stat = k.stat /\ target \notin k'.timer
        /\ k'.current = k.current /\ k'.lock_nest = k.lock_nest
    BY <1>5 DEF Unlinked
  <1>8. IdleReady(k')
    BY <1>6 DEF IdleReady, IInv, Core
  <1>9. ReadyListed(k)'
    BY <1>1, <1>2, <1>3, <1>6 DEF ReadyListed, IInv, Core, BeingDetached
  <1>10. InCallOn(k)'
    BY <1>1, <1>2, <1>3, <1>4, <1>6 DEF InCallOn, IInv, Core
  <1>11. CurrentReady(k)'
    BY <1>2, <1>3, <1>6 DEF CurrentReady
  <1>12. DeadQueued(k)'
    BY <1>1, <1>2, <1>3, <1>4, <1>6, SchedulerAssumption DEF DeadQueued
  <1>13. Core(k)'
    BY <1>6, <1>8, <1>9, <1>10, <1>11, <1>12 DEF Core, IdleReady
  <1>14. pc' \in [Threads -> Points]
    BY <1>1, <1>2 DEF Points
  <1> QED BY <1>1, <1>2, <1>3, <1>4, <1>6, <1>13, <1>14, ThreadStep

\* The second critical section of rt_thread_resume: the thread it makes ready is
\* on no list, whatever handlers did since the first one.
LEMMA ResumeInsertStep ==
    ASSUME IInv, rt_thread_resume_insert
    PROVE  IInv'
  <1>1. /\ InThread(Manager, "insert") /\ k' = rt_schedule_insert_thread(k, target)
        /\ pc' = [pc EXCEPT ![Manager] = "schedule"] /\ target' = NoThread
        /\ UNCHANGED <<rt_interrupt_nest, sw, cpu, remaining_tick, due>>
    BY DEF rt_thread_resume_insert, Goto
  <1>2. /\ Manager \in Threads /\ Idle \in Threads /\ NoThread \notin Threads
        /\ k.stat \in [Threads -> Stats] /\ pc \in [Threads -> Points]
    BY SchedulerAssumption, KernelAssumption DEF IInv, TypeOK, KernelType
  <1>3. /\ k.current = Manager /\ cpu = Manager /\ ~sw.flag /\ pc[Manager] = "insert"
        /\ k.stat[Manager] = "ready"
    BY <1>1, <1>2, ThreadRuns
  <1>4. /\ target \in Threads /\ target # Manager /\ target \notin k.timer
        /\ ~Listed(k, target) /\ \A q \in Queues : ~Queued(k, q, target)
        /\ k.stat[target] = "suspend"
    BY <1>3 DEF IInv, Core, InCallOn
  <1>5. Unlinked(k, k, target)
    BY <1>4 DEF Unlinked, IInv, Core
  <1>6. Woken(k, k', target)
    BY <1>1, <1>4, <1>5, InsertWakes DEF IInv, Core
  <1>7. /\ Sound(k')
        /\ \A y \in Threads : Listed(k', y) <=> Listed(k, y) \/ y = target
        /\ \A q \in Queues, y \in Threads : Queued(k', q, y) <=> Queued(k, q, y)
        /\ k'.stat = [k.stat EXCEPT ![target] = "ready"]
        /\ k'.current = k.current /\ k'.lock_nest = k.lock_nest
    BY <1>4, <1>6 DEF Woken
  <1>8. IdleReady(k')
    BY <1>2, <1>3, <1>4, <1>7 DEF IdleReady, IInv, Core
  <1>9. ReadyListed(k)'
    BY <1>1, <1>2, <1>3, <1>7 DEF ReadyListed, IInv, Core, BeingDetached
  <1>10. InCallOn(k)'
    BY <1>1, <1>2 DEF InCallOn, IInv, Core
  <1>11. CurrentReady(k)'
    BY <1>2, <1>3, <1>4, <1>7 DEF CurrentReady
  <1>12. DeadQueued(k)'
    BY <1>1, <1>2, <1>3, <1>4, <1>7, SchedulerAssumption DEF DeadQueued
  <1>13. Core(k)'
    BY <1>7, <1>8, <1>9, <1>10, <1>11, <1>12 DEF Core, IdleReady
  <1>14. pc' \in [Threads -> Points]
    BY <1>1, <1>2 DEF Points
  <1> QED BY <1>1, <1>2, <1>3, <1>7, <1>13, <1>14, ThreadStep

\* rt_thread_detach up to the removal from the lists. This is the step that
\* needs Untimed: a thread with a running timer would break InCallOn.
LEMMA DetachUnlinkStep ==
    ASSUME IInv, Untimed, NEW x \in Threads, detach_unlink(x)
    PROVE  IInv'
  <1>1. /\ InThread(Manager, "user") /\ x \in Detachable /\ k.stat[x] # "close"
        /\ k' = IF k.stat[x] # "init" THEN rt_schedule_remove_thread(k, x) ELSE k
        /\ pc' = [pc EXCEPT ![Manager] = "unlinked"] /\ target' = x
        /\ UNCHANGED <<rt_interrupt_nest, sw, cpu, remaining_tick, due>>
    BY DEF detach_unlink, Goto
  <1>2. /\ Manager \in Threads /\ Idle \in Threads /\ x # Manager /\ x # Idle
        /\ k.stat \in [Threads -> Stats] /\ pc \in [Threads -> Points]
    BY <1>1, SchedulerAssumption DEF IInv, TypeOK, KernelType
  <1>3. /\ k.current = Manager /\ cpu = Manager /\ ~sw.flag /\ pc[Manager] = "user"
        /\ k.stat[Manager] = "ready"
    BY <1>1, <1>2, ThreadRuns
  <1>4. Sound(k)
    BY DEF IInv, Core
  <1>5. /\ Sound(k')
        /\ \A y \in Threads : Listed(k', y) <=> Listed(k, y) /\ y # x
        /\ \A q \in Queues, y \in Threads : Queued(k', q, y) <=> Queued(k, q, y) /\ y # x
        /\ k'.stat = k.stat /\ k'.timer = k.timer
        /\ k'.current = k.current /\ k'.lock_nest = k.lock_nest
    <2>1. CASE k.stat[x] # "init"
      <3>1. k' = rt_schedule_remove_thread(k, x)
        BY <1>1, <2>1
      <3> QED BY <1>4, <3>1, SoundRemove
    <2>2. CASE k.stat[x] = "init"
      <3>1. k' = k
        BY <1>1, <2>2
      <3>2. ~Listed(k, x) /\ \A q \in Queues : ~Queued(k, q, x)
        BY <1>4, <2>2, SchedulerAssumption DEF Sound
      <3> QED BY <1>4, <3>1, <3>2
    <2> QED BY <2>1, <2>2
  <1>6. x \notin k'.timer
    BY <1>1, <1>5 DEF Sound, Untimed
  <1>7. IdleReady(k')
    BY <1>5 DEF IdleReady, IInv, Core
  <1>8. ReadyListed(k)'
    BY <1>1, <1>2, <1>3, <1>5 DEF ReadyListed, IInv, Core, BeingDetached
  <1>9. InCallOn(k)'
    BY <1>1, <1>2, <1>3, <1>5, <1>6 DEF InCallOn, IInv, Core
  <1>10. CurrentReady(k)'
    BY <1>2, <1>3, <1>5 DEF CurrentReady
  <1>11. DeadQueued(k)'
    BY <1>1, <1>2, <1>3, <1>5, SchedulerAssumption DEF DeadQueued
  <1>12. Core(k)'
    BY <1>5, <1>7, <1>8, <1>9, <1>10, <1>11 DEF Core, IdleReady
  <1>13. pc' \in [Threads -> Points]
    BY <1>1, <1>2 DEF Points
  <1> QED BY <1>1, <1>2, <1>3, <1>5, <1>12, <1>13, ThreadStep

\* rt_thread_detach: the timer is stopped.
LEMMA DetachTimerStep ==
    ASSUME IInv, detach_timer
    PROVE  IInv'
  <1>1. /\ InThread(Manager, "unlinked") /\ k' = rt_timer_stop(k, target)
        /\ pc' = [pc EXCEPT ![Manager] = "stopped"]
        /\ UNCHANGED <<rt_interrupt_nest, sw, cpu, target, remaining_tick, due>>
    BY DEF detach_timer, Goto
  <1>2. /\ Manager \in Threads /\ Idle \in Threads
        /\ k.stat \in [Threads -> Stats] /\ pc \in [Threads -> Points]
    BY SchedulerAssumption DEF IInv, TypeOK, KernelType
  <1>3. /\ k.current = Manager /\ cpu = Manager /\ ~sw.flag /\ pc[Manager] = "unlinked"
        /\ k.stat[Manager] = "ready"
    BY <1>1, <1>2, ThreadRuns
  <1>4. /\ Sound(k') /\ SameLists(k, k')
        /\ k'.stat = k.stat /\ k'.timer = k.timer \ {target}
        /\ k'.current = k.current /\ k'.lock_nest = k.lock_nest
    BY <1>1, StopTimerSound DEF IInv, Core
  <1>5. IdleReady(k')
    BY <1>4 DEF IdleReady, IInv, Core
  <1>6. ReadyListed(k)'
    BY <1>1, <1>2, <1>3, <1>4 DEF ReadyListed, IInv, Core, BeingDetached, SameLists
  <1>7. InCallOn(k)'
    BY <1>1, <1>2, <1>3, <1>4 DEF InCallOn, IInv, Core, SameLists
  <1>8. CurrentReady(k)'
    BY <1>2, <1>3, <1>4 DEF CurrentReady
  <1>9. DeadQueued(k)'
    BY <1>1, <1>2, <1>3, <1>4, SchedulerAssumption DEF DeadQueued
  <1>10. Core(k)'
    BY <1>4, <1>5, <1>6, <1>7, <1>8, <1>9 DEF Core, IdleReady
  <1>11. pc' \in [Threads -> Points] /\ target' \in Threads \cup {NoThread}
    BY <1>1, <1>2 DEF Points, IInv, TypeOK
  <1> QED BY <1>1, <1>2, <1>3, <1>4, <1>10, <1>11, ThreadStep

\* rt_thread_detach: the thread is closed and handed to the idle thread.
LEMMA DetachCloseStep ==
    ASSUME IInv, detach_close
    PROVE  IInv'
  <1>1. /\ InThread(Manager, "stopped") /\ k' = close(k, target)
        /\ pc' = [pc EXCEPT ![Manager] = "user"] /\ target' = NoThread
        /\ UNCHANGED <<rt_interrupt_nest, sw, cpu, remaining_tick, due>>
    BY DEF detach_close, Goto
  <1>2. /\ Manager \in Threads /\ Idle \in Threads /\ NoThread \notin Threads
        /\ k.stat \in [Threads -> Stats] /\ pc \in [Threads -> Points]
    BY SchedulerAssumption, KernelAssumption DEF IInv, TypeOK, KernelType
  <1>3. /\ k.current = Manager /\ cpu = Manager /\ ~sw.flag /\ pc[Manager] = "stopped"
        /\ k.stat[Manager] = "ready"
    BY <1>1, <1>2, ThreadRuns
  <1>4. /\ target \in Threads /\ target # Manager /\ target \notin k.timer /\ target \in Detachable
        /\ ~Listed(k, target) /\ \A q \in Queues : ~Queued(k, q, target)
    BY <1>3 DEF IInv, Core, InCallOn
  <1>5. /\ Sound(k')
        /\ \A x \in Threads : Listed(k', x) <=> Listed(k, x)
        /\ \A q \in Queues, x \in Threads :
              Queued(k', q, x) <=> Queued(k, q, x) \/ (q = Defunct /\ x = target /\ target \in Reaped)
        /\ k'.stat = [k.stat EXCEPT ![target] = "close"] /\ k'.timer = k.timer
        /\ k'.current = k.current /\ k'.lock_nest = k.lock_nest
    BY <1>1, <1>4, CloseEffect DEF IInv, Core
  <1>6. IdleReady(k')
    BY <1>2, <1>4, <1>5, SchedulerAssumption DEF IdleReady, IInv, Core
  <1>7. ReadyListed(k)'
    BY <1>1, <1>2, <1>3, <1>5 DEF ReadyListed, IInv, Core, BeingDetached
  <1>8. InCallOn(k)'
    BY <1>1, <1>2 DEF InCallOn, IInv, Core
  <1>9. CurrentReady(k)'
    BY <1>2, <1>3, <1>4, <1>5 DEF CurrentReady
  <1>10. DeadQueued(k)'
    BY <1>1, <1>2, <1>3, <1>4, <1>5, SchedulerAssumption DEF DeadQueued
  <1>11. Core(k)'
    BY <1>5, <1>6, <1>7, <1>8, <1>9, <1>10 DEF Core, IdleReady
  <1>12. pc' \in [Threads -> Points]
    BY <1>1, <1>2 DEF Points
  <1> QED BY <1>1, <1>2, <1>3, <1>5, <1>11, <1>12, ThreadStep

-----------------------------------------------------------------------------
\* A step of the running thread that reorders or renumbers the table but makes
\* no thread ready or unready.
LEMMA StaysReady ==
    ASSUME IInv, NEW s \in Threads, NEW point \in {"user", "woken"}, InThread(s, point),
           NEW next \in {"user", "schedule"}, pc' = pc \/ pc' = [pc EXCEPT ![s] = next],
           Sound(k'), SameLists(k, k'), k'.stat = k.stat, k'.timer = k.timer,
           k'.current = k.current,
           UNCHANGED <<rt_interrupt_nest, sw, cpu, target, remaining_tick, due>>
    PROVE  IInv'
  <1>1. /\ Manager \in Threads /\ Idle \in Threads
        /\ k.stat \in [Threads -> Stats] /\ pc \in [Threads -> Points]
    BY SchedulerAssumption DEF IInv, TypeOK, KernelType
  <1>2. k.current = s /\ cpu = s /\ ~sw.flag /\ pc[s] = point /\ k.stat[s] = "ready"
    BY ThreadRuns
  <1>3. /\ \A x \in Threads : x # s => pc'[x] = pc[x]
        /\ pc[s] \in {"user", "woken"} /\ pc'[s] \in {"user", "woken", "schedule"}
        /\ pc' \in [Threads -> Points]
    BY <1>1, <1>2 DEF Points
  <1>4. IdleReady(k')
    BY DEF IdleReady, IInv, Core
  <1>5. ReadyListed(k)'
    BY <1>1, <1>3 DEF ReadyListed, IInv, Core, BeingDetached, SameLists
  <1>6. InCallOn(k)'
    BY <1>1, <1>3 DEF InCallOn, IInv, Core, SameLists
  <1>7. CurrentReady(k)'
    BY <1>2 DEF CurrentReady
  <1>8. DeadQueued(k)'
    BY <1>2, SchedulerAssumption DEF DeadQueued
  <1>9. Core(k)'
    BY <1>4, <1>5, <1>6, <1>7, <1>8 DEF Core, IdleReady
  <1>10. target' \in Threads \cup {NoThread}
    BY DEF IInv, TypeOK
  <1> QED BY <1>2, <1>3, <1>9, <1>10, ThreadStep

\* A step with which the running thread takes itself out of the ready table,
\* to wait, to sleep or for good; the rt_schedule that it owes comes later.
LEMMA StopsItself ==
    ASSUME IInv, NEW s \in Threads, InThread(s, "user"), s # Idle, k.lock_nest = 0,
           NEW next \in {"schedule", "sleep"}, pc' = [pc EXCEPT ![s] = next],
           Sound(k'), \A x \in Threads : Listed(k', x) <=> Listed(k, x) /\ x # s,
           \A q \in Queues, x \in Threads : x # s => (Queued(k', q, x) <=> Queued(k, q, x)),
           \A x \in Threads : x # s /\ x \in k'.timer => x \in k.timer,
           NEW stat \in {"suspend", "close"}, k'.stat = [k.stat EXCEPT ![s] = stat],
           stat = "close" /\ s \in Reaped => Queued(k', Defunct, s),
           k'.current = k.current, k'.lock_nest = k.lock_nest,
           UNCHANGED <<rt_interrupt_nest, sw, cpu, target, remaining_tick, due>>
    PROVE  IInv'
  <1>1. /\ Manager \in Threads /\ Idle \in Threads
        /\ k.stat \in [Threads -> Stats] /\ pc \in [Threads -> Points]
    BY SchedulerAssumption DEF IInv, TypeOK, KernelType
  <1>2. /\ k.current = s /\ cpu = s /\ ~sw.flag /\ pc[s] = "user"
        /\ pc[Manager] \in {"resuming", "insert", "unlinked", "stopped"} => s # target
    BY ThreadRuns
  <1>3. /\ \A x \in Threads : x # s => pc'[x] = pc[x]
        /\ pc'[s] \in {"schedule", "sleep"} /\ pc' \in [Threads -> Points]
    BY <1>1 DEF Points
  <1>4. IdleReady(k')
    BY <1>1 DEF IdleReady, IInv, Core
  <1>5. ReadyListed(k)'
    BY <1>1, <1>2, <1>3 DEF ReadyListed, IInv, Core, BeingDetached
  <1>6. InCallOn(k)'
    BY <1>1, <1>2, <1>3 DEF InCallOn, IInv, Core
  <1>7. CurrentReady(k)'
    BY <1>2, <1>3 DEF CurrentReady
  <1>8. DeadQueued(k)'
    BY <1>1, <1>2, SchedulerAssumption DEF DeadQueued
  <1>9. Core(k)'
    BY <1>4, <1>5, <1>6, <1>7, <1>8 DEF Core, IdleReady
  <1>10. target' \in Threads \cup {NoThread}
    BY DEF IInv, TypeOK
  <1> QED BY <1>2, <1>3, <1>9, <1>10, ThreadStep

\* rt_thread_control(CHANGE_PRIORITY) moves a ready thread to the list of its
\* new priority and only notes the priority of another one.
LEMMA ControlEffect ==
    ASSUME NEW u, Sound(u), NEW t \in Threads, NEW p \in Prios,
           u.stat[t] = "ready" => Listed(u, t)
    PROVE  LET v == rt_thread_control(u, t, p)
           IN  /\ Sound(v) /\ SameLists(u, v)
               /\ v.stat = u.stat /\ v.timer = u.timer
               /\ v.current = u.current /\ v.lock_nest = u.lock_nest
  <1> DEFINE v == rt_thread_control(u, t, p)
  <1>0. u \in KernelType /\ u.stat \in [Threads -> Stats] /\ u.prio \in [Threads -> Prios]
    BY DEF Sound, Lists, KernelType
  <1>1. CASE u.stat[t] # "ready"
    <2>1. v = [u EXCEPT !.prio[t] = p]
      BY <1>1 DEF rt_thread_control
    <2>2. /\ v \in KernelType /\ v.prio = [u.prio EXCEPT ![t] = p]
          /\ v.ready = u.ready /\ v.queue = u.queue /\ v.group = u.group
          /\ v.stat = u.stat /\ v.timer = u.timer
          /\ v.current = u.current /\ v.lock_nest = u.lock_nest
      <3>1. [u.prio EXCEPT ![t] = p] \in [Threads -> Prios]
        BY <1>0
      <3> QED BY <1>0, <2>1, <3>1 DEF KernelType
    <2> HIDE DEF v
    <2>3. \A x : Listed(v, x) <=> Listed(u, x)
      BY <2>2 DEF Listed
    <2>4. \A q, x : Queued(v, q, x) <=> Queued(u, q, x)
      BY <2>2 DEF Queued
    <2>5. ~Listed(u, t)
      BY <1>1 DEF Sound
    <2>6. ASSUME NEW n \in Prios, NEW x \in Threads, Contains(v.ready[n], x)
          PROVE  v.prio[x] = n
      <3>1. Contains(u.ready[n], x)
        BY <2>2, <2>6
      <3>2. x # t
        BY <2>5, <3>1 DEF Listed
      <3> QED BY <1>0, <2>2, <3>1, <3>2 DEF Sound, Lists
    <2>7. Lists(v)
      BY <2>2, <2>6 DEF Sound, Lists
    <2>8. Sound(v)
      BY <2>2, <2>3, <2>4, <2>7, SchedulerAssumption DEF Sound
    <2> QED BY <2>2, <2>3, <2>4, <2>8 DEF SameLists, v
  <1>2. CASE u.stat[t] = "ready"
    <2> DEFINE r == rt_schedule_remove_thread(u, t)
               w == [r EXCEPT !.prio[t] = p]
    <2>1. v = rt_schedule_insert_thread(w, t)
      BY <1>2 DEF rt_thread_control
    <2>2. /\ Lists(r)
          /\ \A x \in Threads : Listed(r, x) <=> Listed(u, x) /\ x # t
          /\ \A q \in Queues, x \in Threads : Queued(r, q, x) <=> Queued(u, q, x) /\ x # t
          /\ r.stat = u.stat /\ r.prio = u.prio /\ r.timer = u.timer
          /\ r.current = u.current /\ r.lock_nest = u.lock_nest
      BY RemoveEffect DEF Sound
    <2> HIDE DEF r
    <2>3. /\ w \in KernelType /\ w.prio = [u.prio EXCEPT ![t] = p]
          /\ w.ready = r.ready /\ w.queue = r.queue /\ w.group = r.group
          /\ w.stat = u.stat /\ w.timer = u.timer
          /\ w.current = u.current /\ w.lock_nest = u.lock_nest
      <3>1. [u.prio EXCEPT ![t] = p] \in [Threads -> Prios]
        BY <1>0
      <3>2. r \in KernelType
        BY <2>2 DEF Lists
      <3> QED BY <2>2, <3>1, <3>2 DEF KernelType
    <2> HIDE DEF w
    <2>4. \A x : Listed(w, x) <=> Listed(r, x)
      BY <2>3 DEF Listed
    <2>5. \A q, x : Queued(w, q, x) <=> Queued(r, q, x)
      BY <2>3 DEF Queued
    <2>6. ~Listed(w, t)
      BY <2>2, <2>4
    <2>7. ASSUME NEW n \in Prios, NEW x \in Threads, Contains(w.ready[n], x)
          PROVE  w.prio[x] = n
      <3>1. Contains(r.ready[n], x)
        BY <2>3, <2>7
      <3>2. x # t
        BY <2>6, <2>7 DEF Listed
      <3> QED BY <1>0, <2>2, <2>3, <3>1, <3>2 DEF Lists
    <2>8. Lists(w)
      BY <2>2, <2>3, <2>7 DEF Lists
    <2>9. /\ Lists(v)
          /\ \A x \in Threads : Listed(v, x) <=> Listed(w, x) \/ x = t
          /\ v.queue = w.queue
          /\ v.stat = [w.stat EXCEPT ![t] = "ready"]
          /\ v.timer = w.timer
          /\ v.current = w.current /\ v.lock_nest = w.lock_nest
      BY <2>1, <2>6, <2>8, InsertEffect
    <2> HIDE DEF v
    <2>10. \A q, x : Queued(v, q, x) <=> Queued(w, q, x)
      BY <2>9 DEF Queued
    <2>11. v.stat = u.stat /\ v.timer = u.timer
      BY <1>0, <1>2, <2>3, <2>9
    <2>12. \A q \in Queues : ~Queued(u, q, t)
      BY <1>2, SchedulerAssumption DEF Sound
    <2>13. SameLists(u, v)
      BY <1>2, <2>2, <2>4, <2>5, <2>9, <2>10, <2>12 DEF SameLists
    <2>14. Sound(v)
      BY <2>9, <2>11, <2>13, SchedulerAssumption DEF Sound, SameLists
    <2> QED BY <2>3, <2>9, <2>11, <2>13, <2>14 DEF v
  <1> QED BY <1>1, <1>2

\* A change of priority by the Manager keeps the invariant.
LEMMA ChangePriorityStep ==
    ASSUME IInv, NEW x \in Threads, NEW p \in Prios, change_priority(x, p)
    PROVE  IInv'
  <1>1. /\ InThread(Manager, "user") /\ k' = rt_thread_control(k, x, p)
        /\ pc' = [pc EXCEPT ![Manager] = "schedule"]
        /\ UNCHANGED <<rt_interrupt_nest, sw, cpu, target, remaining_tick, due>>
    BY DEF change_priority, Goto
  <1>2. Manager \in Threads
    BY SchedulerAssumption
  <1>3. pc[Manager] = "user"
    BY <1>1 DEF InThread
  <1>4. k.stat[x] = "ready" => Listed(k, x)
    BY <1>3 DEF IInv, Core, ReadyListed, BeingDetached
  <1>5. /\ Sound(k') /\ SameLists(k, k') /\ k'.stat = k.stat /\ k'.timer = k.timer
        /\ k'.current = k.current
    BY <1>1, <1>4, ControlEffect DEF IInv, Core
  <1> QED BY <1>1, <1>2, <1>5, StaysReady

\* rt_thread_suspend of the caller keeps the invariant.
LEMMA SuspendSelfStep ==
    ASSUME IInv, NEW s \in Threads, suspend_self(s)
    PROVE  IInv'
  <1>1. /\ InThread(s, "user") /\ s \in Managed /\ k.lock_nest = 0
        /\ k' = rt_thread_suspend(k, s) /\ pc' = [pc EXCEPT ![s] = "schedule"]
        /\ UNCHANGED <<rt_interrupt_nest, sw, cpu, target, remaining_tick, due>>
    BY DEF suspend_self, Goto
  <1>2. k.stat[s] = "ready" /\ s # Idle
    BY <1>1, ThreadRuns, SchedulerAssumption
  <1>3. /\ Sound(k')
        /\ \A x \in Threads : Listed(k', x) <=> Listed(k, x) /\ x # s
        /\ \A q \in Queues, x \in Threads : Queued(k', q, x) <=> Queued(k, q, x) /\ x # s
        /\ k'.stat = [k.stat EXCEPT ![s] = "suspend"] /\ k'.timer = k.timer \ {s}
        /\ k'.current = k.current /\ k'.lock_nest = k.lock_nest
    BY <1>1, <1>2, SuspendEffect DEF IInv, Core
  <1> QED BY <1>1, <1>2, <1>3, StopsItself

\* rt_thread_sleep: the timer starts after the suspension, which would stop it.
LEMMA SleepStep ==
    ASSUME IInv, NEW s \in Threads, rt_thread_sleep(s)
    PROVE  IInv'
  <1> DEFINE u == rt_thread_suspend(k, s)
  <1>1. /\ InThread(s, "user") /\ s \in Sleepers /\ k.lock_nest = 0
        /\ k' = rt_timer_start(u, s) /\ pc' = [pc EXCEPT ![s] = "sleep"]
        /\ UNCHANGED <<rt_interrupt_nest, sw, cpu, target, remaining_tick, due>>
    BY DEF rt_thread_sleep, Goto
  <1>2. k.stat[s] = "ready" /\ s # Idle /\ k.stat \in [Threads -> Stats]
    <2>1. k.stat[s] = "ready" /\ s # Idle
      BY <1>1, ThreadRuns, SchedulerAssumption
    <2> QED BY <2>1 DEF IInv, TypeOK, KernelType
  <1>3. /\ Sound(u)
        /\ \A x \in Threads : Listed(u, x) <=> Listed(k, x) /\ x # s
        /\ \A q \in Queues, x \in Threads : Queued(u, q, x) <=> Queued(k, q, x) /\ x # s
        /\ u.stat = [k.stat EXCEPT ![s] = "suspend"] /\ u.timer = k.timer \ {s}
        /\ u.current = k.current /\ u.lock_nest = k.lock_nest
    BY <1>2, SuspendEffect DEF IInv, Core
  <1> HIDE DEF u
  <1>4. /\ Sound(k') /\ SameLists(u, k')
        /\ k'.stat = u.stat /\ k'.timer = u.timer \cup {s}
        /\ k'.current = u.current /\ k'.lock_nest = u.lock_nest
    BY <1>1, <1>2, <1>3, StartTimerSound
  <1>5. /\ \A x \in Threads : Listed(k', x) <=> Listed(k, x) /\ x # s
        /\ \A q \in Queues, x \in Threads : Queued(k', q, x) <=> Queued(k, q, x) /\ x # s
    BY <1>3, <1>4 DEF SameLists
  <1> QED BY <1>1, <1>2, <1>3, <1>4, <1>5, StopsItself

\* The end of rt_thread_sleep keeps the invariant.
LEMMA SleepReturnStep ==
    ASSUME IInv, NEW s \in Threads, sleep_return(s)
    PROVE  IInv'
  <1>1. /\ InThread(s, "woken") /\ pc' = [pc EXCEPT ![s] = "user"]
        /\ k' = [k EXCEPT !.error[s] = IF @ = "RT_ETIMEOUT" THEN "RT_EOK" ELSE @]
        /\ UNCHANGED <<rt_interrupt_nest, sw, cpu, target, remaining_tick, due>>
    BY DEF sleep_return, Goto
  <1>2. /\ k' \in KernelType /\ k'.ready = k.ready /\ k'.queue = k.queue /\ k'.group = k.group
        /\ k'.stat = k.stat /\ k'.prio = k.prio /\ k'.timer = k.timer
        /\ k'.current = k.current
    BY <1>1 DEF IInv, TypeOK, KernelType, Errors
  <1>3. Sound(k') /\ SameLists(k, k')
    BY <1>2, FieldsSound DEF IInv, Core, Sound
  <1> QED BY <1>1, <1>2, <1>3, StaysReady

\* rt_enter_critical keeps the invariant.
LEMMA EnterCriticalStep ==
    ASSUME IInv, NEW s \in Threads, rt_enter_critical(s)
    PROVE  IInv'
  <1>1. /\ InThread(s, "user") /\ k' = [k EXCEPT !.lock_nest = @ + 1]
        /\ pc' = pc /\ UNCHANGED <<rt_interrupt_nest, sw, cpu, target, remaining_tick, due>>
    BY DEF rt_enter_critical
  <1>2. /\ k' \in KernelType /\ k'.ready = k.ready /\ k'.queue = k.queue /\ k'.group = k.group
        /\ k'.stat = k.stat /\ k'.prio = k.prio /\ k'.timer = k.timer
        /\ k'.current = k.current
    <2>1. k \in KernelType /\ k.lock_nest + 1 \in Nat
      BY DEF IInv, TypeOK, KernelType
    <2> QED BY <1>1, <2>1 DEF KernelType
  <1>3. Sound(k') /\ SameLists(k, k')
    BY <1>2, FieldsSound DEF IInv, Core, Sound
  <1> QED BY <1>1, <1>2, <1>3, StaysReady

\* rt_exit_critical keeps the invariant: the nesting does not go below zero.
LEMMA ExitCriticalStep ==
    ASSUME IInv, NEW s \in Threads, rt_exit_critical(s)
    PROVE  IInv'
  <1>1. /\ InThread(s, "user")
        /\ k' = [k EXCEPT !.lock_nest = IF @ - 1 <= 0 THEN 0 ELSE @ - 1]
        /\ pc' = pc \/ pc' = [pc EXCEPT ![s] = "schedule"]
        /\ UNCHANGED <<rt_interrupt_nest, sw, cpu, target, remaining_tick, due>>
    BY DEF rt_exit_critical, Goto
  <1>2. /\ k' \in KernelType /\ k'.ready = k.ready /\ k'.queue = k.queue /\ k'.group = k.group
        /\ k'.stat = k.stat /\ k'.prio = k.prio /\ k'.timer = k.timer
        /\ k'.current = k.current
    <2>1. (IF k.lock_nest - 1 <= 0 THEN 0 ELSE k.lock_nest - 1) \in Nat
      BY DEF IInv, TypeOK, KernelType
    <2> QED BY <1>1, <2>1 DEF IInv, TypeOK, KernelType
  <1>3. Sound(k') /\ SameLists(k, k')
    BY <1>2, FieldsSound DEF IInv, Core, Sound
  <1> QED BY <1>1, <1>2, <1>3, StaysReady

\* A blocking IPC call that waits, with or without a timeout.
LEMMA IpcWaitStep ==
    ASSUME IInv, NEW s \in Threads, NEW timed \in BOOLEAN, ipc_wait(s, timed)
    PROVE  IInv'
  <1> DEFINE e == [k EXCEPT !.error[s] = "RT_EOK"]
             w == rt_thread_suspend(e, s)
             l == InsertAt(w.queue[Waiting], Len(w.queue[Waiting]) + 1, s)
             u == [w EXCEPT !.queue[Waiting] = l]
  <1>1. /\ InThread(s, "user") /\ s \in Waiters /\ k.lock_nest = 0
        /\ k' = IF timed THEN rt_timer_start(u, s) ELSE u
        /\ pc' = [pc EXCEPT ![s] = "schedule"]
        /\ UNCHANGED <<rt_interrupt_nest, sw, cpu, target, remaining_tick, due>>
    BY DEF ipc_wait, rt_ipc_list_suspend, Goto
  <1>2. k.stat[s] = "ready" /\ s # Idle /\ Waiting \in Queues /\ Waiting # Defunct
    BY <1>1, ThreadRuns, SchedulerAssumption
  <1>3. Sound(k) /\ k \in KernelType /\ k.stat \in [Threads -> Stats]
    BY DEF IInv, Core, TypeOK, KernelType
  <1>4. /\ e \in KernelType /\ e.ready = k.ready /\ e.queue = k.queue /\ e.group = k.group
        /\ e.stat = k.stat /\ e.prio = k.prio /\ e.timer = k.timer
        /\ e.current = k.current /\ e.lock_nest = k.lock_nest
    BY <1>3 DEF KernelType, Errors
  <1> HIDE DEF e
  <1>5. Sound(e) /\ SameLists(k, e)
    BY <1>3, <1>4, FieldsSound DEF Sound
  <1>6. /\ Sound(w)
        /\ \A x \in Threads : Listed(w, x) <=> Listed(e, x) /\ x # s
        /\ \A q \in Queues, x \in Threads : Queued(w, q, x) <=> Queued(e, q, x) /\ x # s
        /\ w.stat = [e.stat EXCEPT ![s] = "suspend"] /\ w.timer = e.timer \ {s}
        /\ w.current = e.current /\ w.lock_nest = e.lock_nest
    BY <1>2, <1>4, <1>5, SuspendEffect
  <1> HIDE DEF w
  <1>7. /\ w.queue[Waiting] \in Seq(Threads) /\ IsInjective(w.queue[Waiting])
        /\ ~Contains(w.queue[Waiting], s) /\ Lists(w) /\ ~Queued(w, Waiting, s)
    BY <1>2, <1>6 DEF Sound, Lists, KernelType, Queued
  <1>8. /\ l \in Seq(Threads) /\ IsInjective(l)
        /\ \A x : Contains(l, x) <=> Contains(w.queue[Waiting], x) \/ x = s
    <2>1. Len(w.queue[Waiting]) + 1 \in 1 .. Len(w.queue[Waiting]) + 1
      BY <1>7
    <2> QED BY <1>7, <2>1, InsertList
  <1> HIDE DEF l
  <1>9. /\ Lists(u)
        /\ \A x \in Threads : Listed(u, x) <=> Listed(w, x)
        /\ \A r \in Queues, x \in Threads : Queued(u, r, x) <=> Queued(w, r, x) \/ (r = Waiting /\ x = s)
        /\ u.stat = w.stat /\ u.prio = w.prio /\ u.timer = w.timer /\ u.error = w.error
        /\ u.current = w.current /\ u.lock_nest = w.lock_nest
    <2>1. Lists(w) /\ ~Queued(w, Waiting, s) /\ Waiting \in Queues /\ l \in Seq(Threads) /\ IsInjective(l)
      BY <1>2, <1>7, <1>8
    <2>2. \A x : Contains(l, x) <=> Contains(w.queue[Waiting], x) \/ x = s
      BY <1>8
    <2> QED BY ONLY <2>1, <2>2, s \in Threads, EnqueueEffect
  <1> HIDE DEF u
  <1>10. u.stat = [k.stat EXCEPT ![s] = "suspend"] /\ u.stat[s] = "suspend"
    BY <1>3, <1>4, <1>6, <1>9
  <1>11. Sound(u)
    <2>1. \A x \in Threads : Listed(u, x) => u.stat[x] = "ready"
      BY <1>6, <1>9 DEF Sound
    <2>2. \A x \in Threads : Queued(u, Waiting, x) => u.stat[x] = "suspend" /\ x \in Waiters
      BY <1>1, <1>2, <1>6, <1>9, <1>10 DEF Sound
    <2>3. \A x \in Threads : Queued(u, Defunct, x) => u.stat[x] = "close"
      BY <1>2, <1>6, <1>9, SchedulerAssumption DEF Sound
    <2>4. \A x \in u.timer : u.stat[x] = "suspend" /\ x \in Sleepers \cup Waiters
      BY <1>6, <1>9 DEF Sound
    <2> QED BY <1>9, <2>1, <2>2, <2>3, <2>4 DEF Sound
  <1>12. /\ Sound(k') /\ SameLists(u, k') /\ k'.stat = u.stat
         /\ \A x \in Threads : x # s /\ x \in k'.timer => x \in u.timer
         /\ k'.current = u.current /\ k'.lock_nest = u.lock_nest
    <2>1. CASE timed
      <3>1. k' = rt_timer_start(u, s)
        BY <1>1, <2>1
      <3>2. /\ Sound(k') /\ SameLists(u, k')
            /\ k'.stat = u.stat /\ k'.timer = u.timer \cup {s}
            /\ k'.current = u.current /\ k'.lock_nest = u.lock_nest
        <4>1. s \in Sleepers \cup Waiters /\ u.stat[s] = "suspend"
          BY <1>1, <1>10
        <4> QED BY <1>11, <3>1, <4>1, StartTimerSound
      <3> QED BY <3>2
    <2>2. CASE ~timed
      <3>1. k' = u
        BY <1>1, <2>2
      <3> QED BY <1>11, <3>1 DEF SameLists
    <2> QED BY <2>1, <2>2
  <1>13. /\ \A x \in Threads : Listed(k', x) <=> Listed(k, x) /\ x # s
         /\ \A q \in Queues, x \in Threads : x # s => (Queued(k', q, x) <=> Queued(k, q, x))
         /\ \A x \in Threads : x # s /\ x \in k'.timer => x \in k.timer
    BY <1>4, <1>5, <1>6, <1>9, <1>12 DEF SameLists
  <1>14. /\ k'.stat = [k.stat EXCEPT ![s] = "suspend"]
         /\ k'.current = k.current /\ k'.lock_nest = k.lock_nest
    BY <1>4, <1>6, <1>9, <1>10, <1>12
  <1> QED BY <1>1, <1>2, <1>12, <1>13, <1>14, StopsItself

\* rt_thread_exit keeps the invariant: the dead thread goes on using its stack
\* until the switch, and the defunct list holds it till then.
LEMMA ThreadExitStep ==
    ASSUME IInv, NEW s \in Threads, rt_thread_exit(s)
    PROVE  IInv'
  <1> DEFINE r == rt_schedule_remove_thread(k, s)
             u == rt_timer_stop(r, s)
  <1>1. /\ InThread(s, "user") /\ s # Idle /\ k.lock_nest = 0
        /\ pc' = [pc EXCEPT ![s] = "schedule"]
        /\ UNCHANGED <<rt_interrupt_nest, sw, cpu, target, remaining_tick, due>>
    BY DEF rt_thread_exit, Goto
  <1>2. k.current = s /\ k.stat[s] = "ready"
    BY <1>1, ThreadRuns
  <1>3. k' = close(u, s)
    BY <1>2 DEF rt_thread_exit
  <1>4. Sound(k) /\ k.stat \in [Threads -> Stats]
    BY DEF IInv, Core, TypeOK, KernelType
  <1>5. /\ Sound(r)
        /\ \A x \in Threads : Listed(r, x) <=> Listed(k, x) /\ x # s
        /\ \A q \in Queues, x \in Threads : Queued(r, q, x) <=> Queued(k, q, x) /\ x # s
        /\ r.stat = k.stat /\ r.timer = k.timer /\ r.current = k.current
        /\ r.lock_nest = k.lock_nest
    BY <1>4, SoundRemove
  <1> HIDE DEF r
  <1>6. /\ Sound(u) /\ SameLists(r, u)
        /\ u.stat = r.stat /\ u.timer = r.timer \ {s}
        /\ u.current = r.current /\ u.lock_nest = r.lock_nest
    BY <1>5, StopTimerSound
  <1> HIDE DEF u
  <1>7. ~Listed(u, s) /\ s \notin u.timer /\ \A q \in Queues : ~Queued(u, q, s)
    BY <1>5, <1>6 DEF SameLists
  <1>8. /\ Sound(k')
        /\ \A x \in Threads : Listed(k', x) <=> Listed(u, x)
        /\ \A q \in Queues, x \in Threads :
              Queued(k', q, x) <=> Queued(u, q, x) \/ (q = Defunct /\ x = s /\ s \in Reaped)
        /\ k'.stat = [u.stat EXCEPT ![s] = "close"] /\ k'.timer = u.timer
        /\ k'.current = u.current /\ k'.lock_nest = u.lock_nest
    BY <1>3, <1>6, <1>7, CloseEffect
  <1>9. /\ \A x \in Threads : Listed(k', x) <=> Listed(k, x) /\ x # s
        /\ \A q \in Queues, x \in Threads : x # s => (Queued(k', q, x) <=> Queued(k, q, x))
        /\ s \in Reaped => Queued(k', Defunct, s)
    BY <1>5, <1>6, <1>8, SchedulerAssumption DEF SameLists
  <1>10. /\ k'.stat = [k.stat EXCEPT ![s] = "close"]
         /\ \A x \in Threads : x # s /\ x \in k'.timer => x \in k.timer
         /\ k'.current = k.current /\ k'.lock_nest = k.lock_nest
    BY <1>5, <1>6, <1>8
  <1> QED BY <1>1, <1>8, <1>9, <1>10, StopsItself

\* The current thread goes to the tail of its ready list (rt_thread_yield).
LEMMA MoveEffect ==
    ASSUME NEW u, Sound(u), u.current \in Threads, u.stat[u.current] = "ready",
           Listed(u, u.current)
    PROVE  LET v == move_to_tail(u)
           IN  /\ Sound(v) /\ SameLists(u, v)
               /\ v.stat = u.stat /\ v.timer = u.timer
               /\ v.current = u.current /\ v.lock_nest = u.lock_nest
  <1> DEFINE v == move_to_tail(u)
  <1>1. Lists(u) /\ \A q \in Queues : ~Queued(u, q, u.current)
    BY SchedulerAssumption DEF Sound
  <1>2. /\ Lists(v)
        /\ \A x \in Threads : Listed(v, x) <=> Listed(u, x)
        /\ v.queue = u.queue
        /\ v.stat = u.stat /\ v.timer = u.timer
        /\ v.current = u.current /\ v.lock_nest = u.lock_nest
    BY <1>1, MoveLists
  <1> HIDE DEF v
  <1>3. \A q, x : Queued(v, q, x) <=> Queued(u, q, x)
    BY <1>2 DEF Queued
  <1>4. Sound(v)
    BY <1>2, <1>3, SchedulerAssumption DEF Sound
  <1> QED BY <1>2, <1>3, <1>4 DEF SameLists, v

\* Core does not depend on the order of the lists.
LEMMA SameCore ==
    ASSUME NEW u, Core(u), NEW v, Sound(v), SameLists(u, v), v.stat = u.stat, v.timer = u.timer,
           v.current = u.current, v.lock_nest = u.lock_nest
    PROVE  Core(v)
  <1>1. IdleReady(v) /\ CurrentReady(v)
    BY DEF Core, IdleReady, CurrentReady
  <1>2. ReadyListed(v)
    BY DEF Core, ReadyListed, SameLists
  <1>3. InCallOn(v)
    BY DEF Core, InCallOn, SameLists
  <1>4. DeadQueued(v)
    BY SchedulerAssumption DEF Core, DeadQueued, SameLists
  <1> QED BY <1>1, <1>2, <1>3, <1>4 DEF Core

\* A current thread that is READY is on its ready list, in a handler as well.
LEMMA CurrentListed ==
    ASSUME IInv, k.current \in Threads, k.stat[k.current] = "ready"
    PROVE  Listed(k, k.current)
  <1>1. ~BeingDetached(k.current)
    BY DEF IInv, Core, InCallOn, BeingDetached
  <1> QED BY <1>1 DEF IInv, Core, ReadyListed

\* rt_thread_yield by a thread keeps the invariant.
LEMMA YieldStep ==
    ASSUME IInv, NEW s \in Threads, rt_thread_yield(s)
    PROVE  IInv'
  <1>1. /\ InThread(s, "user") /\ k' = move_to_tail(k)
        /\ pc' = [pc EXCEPT ![s] = "schedule"]
        /\ UNCHANGED <<rt_interrupt_nest, sw, cpu, target, remaining_tick, due>>
    BY DEF rt_thread_yield, Goto
  <1>2. k.current = s /\ k.stat[s] = "ready" /\ Listed(k, s)
    BY <1>1, ThreadRuns
  <1>3. /\ Sound(k') /\ SameLists(k, k') /\ k'.stat = k.stat /\ k'.timer = k.timer
        /\ k'.current = k.current
    BY <1>1, <1>2, MoveEffect DEF IInv, Core
  <1> QED BY <1>1, <1>3, StaysReady

\* The rt_schedule that ends a call keeps the invariant, also when the caller
\* is no longer ready.
LEMMA ScheduleStepStep ==
    ASSUME IInv, NEW s \in Threads, ScheduleStep(s)
    PROVE  IInv'
  <1>1. PICK point \in {"schedule", "sleep"} :
           /\ InThread(s, point)
           /\ pc' = [pc EXCEPT ![s] = IF point = "schedule" THEN "user" ELSE "woken"]
    BY DEF ScheduleStep, Goto
  <1>2. Schedule(k) /\ UNCHANGED <<rt_interrupt_nest, cpu, target, remaining_tick, due>>
    BY DEF ScheduleStep
  <1>3. k.current = s /\ cpu = s /\ ~sw.flag /\ pc[s] = point
    BY <1>1, ThreadRuns
  <1>4. k.stat[s] # "ready" => k.lock_nest = 0
    BY <1>3 DEF IInv, Core, CurrentReady
  <1>5. /\ Core(k') /\ k'.current \in Threads
        /\ k'.stat = k.stat /\ k'.lock_nest = k.lock_nest
        /\ k'.current = k.current \/ k'.lock_nest = 0
        /\ k'.lock_nest = 0 => k'.stat[k'.current] = "ready"
    BY <1>2, <1>3, ScheduleCore DEF Schedule, IInv
  <1>6. k'.stat[k'.current] = "ready"
    BY <1>3, <1>4, <1>5
  <1>7. /\ NoThread \notin Threads /\ pc \in [Threads -> Points]
        /\ Manager \in Threads
    BY KernelAssumption, SchedulerAssumption DEF IInv, TypeOK
  <1>8. /\ \A x \in Threads : x # s => pc'[x] = pc[x]
        /\ pc[s] \in {"schedule", "sleep"} /\ pc'[s] \in {"user", "woken"}
        /\ pc' \in [Threads -> Points]
    BY <1>1, <1>3, <1>7 DEF Points
  <1>9. ReadyListed(k)'
    BY <1>2, <1>5, <1>7, <1>8 DEF Core, ReadyListed, BeingDetached
  <1>10. InCallOn(k)'
    BY <1>2, <1>5, <1>7, <1>8 DEF Core, InCallOn
  <1>11. CurrentReady(k)'
    BY <1>6 DEF CurrentReady
  <1>12. DeadQueued(k)' /\ Sound(k)' /\ IdleReady(k)'
    BY <1>2, <1>5 DEF Core, DeadQueued, Sound, IdleReady, Lists, Listed, Queued
  <1>13. Core(k)'
    BY <1>9, <1>10, <1>11, <1>12 DEF Core
  <1>14. sw' = IF k'.current = k.current THEN sw
               ELSE [flag |-> TRUE, from |-> k.current, to |-> k'.current]
    BY <1>2, <1>3 DEF Schedule, rt_hw_context_switch
  <1>15. k' \in KernelType
    BY <1>5 DEF Core, Sound, Lists
  <1>16. TypeOK'
    BY <1>2, <1>3, <1>5, <1>8, <1>14, <1>15 DEF TypeOK, IInv
  <1>17. ContextOK'
    BY <1>2, <1>3, <1>14 DEF ContextOK
  <1>18. Pending'
    BY <1>3, <1>5, <1>6, <1>7, <1>14 DEF Pending
  <1>19. Booting'
    BY <1>5, <1>7 DEF Booting
  <1> QED BY <1>13, <1>16, <1>17, <1>18, <1>19 DEF IInv

\* The idle thread releases a dead thread: one that is not running, as the idle
\* thread is.
LEMMA IdleStep ==
    ASSUME IInv, rt_thread_idle_excute
    PROVE  IInv'
  <1> DEFINE t == Head(k.queue[Defunct])
  <1>1. /\ InThread(Idle, "user") /\ k.queue[Defunct] # << >> /\ k' = rt_list_remove(k, t)
        /\ UNCHANGED <<rt_interrupt_nest, sw, cpu, pc, target, remaining_tick, due>>
    BY DEF rt_thread_idle_excute
  <1>2. Idle \in Threads /\ Defunct \in Queues /\ Waiting \in Queues
    BY SchedulerAssumption
  <1>3. k.current = Idle /\ cpu = Idle /\ ~sw.flag /\ k.stat[Idle] = "ready"
    BY <1>1, <1>2, ThreadRuns
  <1>4. t \in Threads /\ Queued(k, Defunct, t)
    <2>1. k.queue[Defunct] \in Seq(Threads)
      BY <1>2 DEF IInv, TypeOK, KernelType
    <2> QED BY <1>1, <2>1, EmptyList DEF Queued
  <1> HIDE DEF t
  <1>5. k.stat[t] = "close" /\ ~Listed(k, t)
    BY <1>4 DEF IInv, Core, Sound
  <1>6. /\ Lists(k')
        /\ \A x \in Threads : Listed(k', x) <=> Listed(k, x)
        /\ \A q \in Queues, x \in Threads : Queued(k', q, x) <=> Queued(k, q, x) /\ x # t
        /\ k'.stat = k.stat /\ k'.timer = k.timer
        /\ k'.current = k.current /\ k'.lock_nest = k.lock_nest
    BY <1>1, <1>4, <1>5, UnlinkEffect DEF IInv, Core, Sound
  <1>7. Sound(k')
    BY <1>6, SchedulerAssumption DEF IInv, Core, Sound
  <1>8. IdleReady(k)' /\ ReadyListed(k)' /\ CurrentReady(k)'
    BY <1>1, <1>6 DEF IInv, Core, IdleReady, ReadyListed, CurrentReady, BeingDetached
  <1>9. InCallOn(k)'
    BY <1>1, <1>6 DEF IInv, Core, InCallOn
  <1>10. DeadQueued(k)'
    BY <1>1, <1>3, <1>6, SchedulerAssumption DEF DeadQueued
  <1>11. Core(k)'
    BY <1>7, <1>8, <1>9, <1>10 DEF Core
  <1>12. pc' \in [Threads -> Points] /\ target' \in Threads \cup {NoThread}
    BY <1>1 DEF IInv, TypeOK
  <1> QED BY <1>1, <1>2, <1>3, <1>6, <1>11, <1>12, ThreadStep

-----------------------------------------------------------------------------
\* Core does not depend on the variables of the interrupts.
LEMMA CoreKept ==
    ASSUME Core(k), UNCHANGED <<k, cpu, pc, target>>
    PROVE  Core(k)'
  BY DEF Core, Sound, Lists, IdleReady, ReadyListed, InCallOn, CurrentReady, DeadQueued,
         Listed, Queued, BeingDetached

\* rt_interrupt_enter and rt_interrupt_leave keep the invariant.
LEMMA InterruptStep ==
    ASSUME IInv, rt_interrupt_enter \/ rt_interrupt_leave
    PROVE  IInv'
  <1>1. UNCHANGED <<k, sw, cpu, pc, target, remaining_tick, due>>
    BY DEF rt_interrupt_enter, rt_interrupt_leave
  <1>2. rt_interrupt_nest' \in 0 .. MaxNest /\ k.current # NoThread
    BY SchedulerAssumption DEF rt_interrupt_enter, rt_interrupt_leave, InHandler, IInv, TypeOK, Booting
  <1>3. Core(k)'
    BY <1>1, CoreKept DEF IInv
  <1>4. TypeOK' /\ ContextOK' /\ Pending' /\ Booting'
    BY <1>1, <1>2 DEF IInv, TypeOK, ContextOK, Pending, Booting
  <1> QED BY <1>3, <1>4 DEF IInv

\* Inside a handler there is a current thread.
LEMMA HandlerRuns ==
    ASSUME IInv, rt_interrupt_nest > 0 \/ due > 0
    PROVE  k.current \in Threads
  BY DEF IInv, TypeOK, Booting, KernelType

\* rt_tick_increase keeps the invariant: the slice is reloaded, never zero.
LEMMA TickIncreaseStep ==
    ASSUME IInv, rt_tick_increase
    PROVE  IInv'
  <1>1. UNCHANGED <<k, rt_interrupt_nest, sw, cpu, pc, target>>
    BY DEF rt_tick_increase
  <1>2. k.current \in Threads /\ k.current # NoThread
    BY HandlerRuns, KernelAssumption DEF rt_tick_increase, InHandler
  <1>3. due' \in 0 .. MaxNest
    BY SchedulerAssumption DEF rt_tick_increase, IInv, TypeOK
  <1>4. remaining_tick' \in [Threads -> Nat \ {0}]
    <2>1. /\ init_tick[k.current] \in Nat \ {0}
          /\ remaining_tick[k.current] # 1 => remaining_tick[k.current] - 1 \in Nat \ {0}
          /\ remaining_tick \in [Threads -> Nat \ {0}]
      BY <1>2, SchedulerAssumption DEF IInv, TypeOK
    <2> QED BY <2>1 DEF rt_tick_increase
  <1>5. Core(k)'
    BY <1>1, CoreKept DEF IInv
  <1>6. TypeOK' /\ ContextOK' /\ Pending' /\ Booting'
    BY <1>1, <1>2, <1>3, <1>4 DEF IInv, TypeOK, ContextOK, Pending, Booting
  <1> QED BY <1>5, <1>6 DEF IInv

\* The rt_thread_yield of an expired slice: it moves the thread that is current
\* by then, which another handler may have chosen.
LEMMA TickYieldStep ==
    ASSUME IInv, tick_yield
    PROVE  IInv'
  <1>1. /\ due > 0 /\ due' = 0
        /\ UNCHANGED <<rt_interrupt_nest, cpu, pc, target, remaining_tick>>
    BY DEF tick_yield
  <1>2. k.current \in Threads /\ k.current # NoThread
    BY <1>1, HandlerRuns, KernelAssumption
  <1>3. due' \in 0 .. MaxNest
    BY <1>1, SchedulerAssumption
  <1>4. CASE MovesToTail(k)
    <2> DEFINE u == move_to_tail(k)
    <2>1. Schedule(u) /\ k.stat[k.current] = "ready"
      BY <1>4 DEF tick_yield, MovesToTail
    <2>2. Listed(k, k.current)
      BY <1>2, <2>1, CurrentListed
    <2>3. /\ Sound(u) /\ SameLists(k, u) /\ u.stat = k.stat /\ u.timer = k.timer
          /\ u.current = k.current /\ u.lock_nest = k.lock_nest
      BY <1>2, <2>1, <2>2, MoveEffect DEF IInv, Core
    <2> HIDE DEF u
    <2>4. Core(u)
      BY <2>3, SameCore DEF IInv
    <2> QED BY <1>1, <1>2, <1>3, <2>1, <2>3, <2>4, HandlerStep
  <1>5. CASE ~MovesToTail(k)
    <2>1. UNCHANGED <<k, sw>>
      BY <1>5 DEF tick_yield
    <2>2. Core(k)'
      BY <1>1, <2>1, CoreKept DEF IInv
    <2>3. TypeOK' /\ ContextOK' /\ Pending' /\ Booting'
      BY <1>1, <1>2, <1>3, <2>1 DEF IInv, TypeOK, ContextOK, Pending, Booting
    <2> QED BY <2>2, <2>3 DEF IInv
  <1> QED BY <1>4, <1>5

\* A handler makes thread t ready and reschedules.
LEMMA WakeStep ==
    ASSUME IInv, k.current \in Threads, NEW t \in Threads, k.stat[t] = "suspend",
           pc[Manager] \in {"resuming", "insert", "unlinked", "stopped"} => t # target,
           NEW u, Woken(k, u, t), Schedule(u),
           UNCHANGED <<rt_interrupt_nest, cpu, pc, target, remaining_tick, due>>
    PROVE  IInv'
  <1>1. Core(u)
    BY WokenCore DEF IInv
  <1>2. u.current = k.current /\ u.lock_nest = k.lock_nest /\ u.stat = [k.stat EXCEPT ![t] = "ready"]
    BY DEF Woken
  <1>3. k.stat[k.current] = "ready" => u.stat[u.current] = "ready"
    <2>1. k.stat \in [Threads -> Stats]
      BY DEF IInv, TypeOK, KernelType
    <2> QED BY <1>2, <2>1
  <1>4. due' \in 0 .. MaxNest
    BY DEF IInv, TypeOK
  <1> QED BY <1>1, <1>2, <1>3, <1>4, HandlerStep

\* rt_thread_timeout wakes the thread whose timer runs.
LEMMA TimeoutWoken ==
    ASSUME IInv, NEW x \in k.timer
    PROVE  /\ x \in Threads /\ k.stat[x] = "suspend"
           /\ pc[Manager] \in {"resuming", "insert", "unlinked", "stopped"} => x # target
           /\ Woken(k, rt_thread_timeout(k, x), x)
  <1> DEFINE v == rt_list_remove([rt_timer_stop(k, x) EXCEPT !.error[x] = "RT_ETIMEOUT"], x)
  <1>1. x \in Threads /\ k.stat[x] = "suspend" /\ ~Listed(k, x) /\ Sound(k)
    BY DEF IInv, Core, Sound, Lists, KernelType
  <1>2. pc[Manager] \in {"resuming", "insert", "unlinked", "stopped"} => x # target
    BY DEF IInv, Core, InCallOn
  <1>3. Unlinked(k, v, x)
    BY <1>1, TimeoutUnlinks
  <1>4. rt_thread_timeout(k, x) = rt_schedule_insert_thread(v, x)
    BY DEF rt_thread_timeout
  <1> HIDE DEF v
  <1>5. Woken(k, rt_thread_timeout(k, x), x)
    BY <1>1, <1>3, <1>4, InsertWakes
  <1> QED BY <1>1, <1>2, <1>5

\* rt_ipc_list_resume wakes the first waiting thread.
LEMMA WaiterWoken ==
    ASSUME IInv, k.queue[Waiting] # << >>
    PROVE  LET t == Head(k.queue[Waiting])
           IN  /\ t \in Threads /\ k.stat[t] = "suspend"
               /\ pc[Manager] \in {"resuming", "insert", "unlinked", "stopped"} => t # target
               /\ Woken(k, rt_ipc_list_resume(k, Waiting), t)
  <1> DEFINE t == Head(k.queue[Waiting])
  <1>1. Waiting \in Queues
    BY SchedulerAssumption
  <1>2. t \in Threads /\ Queued(k, Waiting, t)
    <2>1. k.queue[Waiting] \in Seq(Threads)
      BY <1>1 DEF IInv, TypeOK, KernelType
    <2> QED BY <2>1, EmptyList DEF Queued
  <1>3. rt_ipc_list_resume(k, Waiting) = rt_thread_resume(k, t)
    BY DEF rt_ipc_list_resume
  <1> HIDE DEF t
  <1>4. k.stat[t] = "suspend" /\ ~Listed(k, t) /\ Sound(k)
    BY <1>2 DEF IInv, Core, Sound
  <1>5. pc[Manager] \in {"resuming", "insert", "unlinked", "stopped"} => t # target
    BY <1>1, <1>2 DEF IInv, Core, InCallOn
  <1>6. rt_thread_resume(k, t) = rt_schedule_insert_thread(resume_unlink(k, t), t)
    BY <1>4 DEF rt_thread_resume
  <1>7. Unlinked(k, resume_unlink(k, t), t)
    BY <1>2, <1>4, ResumeUnlinks
  <1>8. Woken(k, rt_thread_resume(k, t), t)
    BY <1>2, <1>4, <1>6, <1>7, InsertWakes
  <1> QED BY <1>2, <1>3, <1>4, <1>5, <1>8 DEF t

\* A timer expires: the thread it wakes is suspended and not the one the Manager
\* works on, so the invariant holds at the rt_schedule that follows.
LEMMA TimerCheckStep ==
    ASSUME IInv, NEW x \in Threads, rt_timer_check(x)
    PROVE  IInv'
  <1> DEFINE u == rt_thread_timeout(k, x)
  <1>1. /\ x \in k.timer /\ Schedule(u) /\ rt_interrupt_nest > 0
        /\ UNCHANGED <<rt_interrupt_nest, cpu, pc, target, remaining_tick, due>>
    BY DEF rt_timer_check, InHandler
  <1>2. /\ k.stat[x] = "suspend" /\ Woken(k, u, x)
        /\ pc[Manager] \in {"resuming", "insert", "unlinked", "stopped"} => x # target
    BY <1>1, TimeoutWoken
  <1> HIDE DEF u
  <1>3. k.current \in Threads
    BY <1>1, HandlerRuns
  <1> QED BY <1>1, <1>2, <1>3, WakeStep

\* An interrupt handler wakes the first waiting thread (rt_sem_release).
LEMMA IpcWakeStep ==
    ASSUME IInv, ipc_wake
    PROVE  IInv'
  <1> DEFINE t == Head(k.queue[Waiting])
             u == rt_ipc_list_resume(k, Waiting)
  <1>1. /\ k.queue[Waiting] # << >> /\ Schedule(u) /\ rt_interrupt_nest > 0
        /\ UNCHANGED <<rt_interrupt_nest, cpu, pc, target, remaining_tick, due>>
    BY DEF ipc_wake, InHandler
  <1>2. /\ t \in Threads /\ k.stat[t] = "suspend" /\ Woken(k, u, t)
        /\ pc[Manager] \in {"resuming", "insert", "unlinked", "stopped"} => t # target
    BY <1>1, WaiterWoken
  <1> HIDE DEF t, u
  <1>3. k.current \in Threads
    BY <1>1, HandlerRuns
  <1> QED BY <1>1, <1>2, <1>3, WakeStep

\* PendSV_Handler loads the current thread, which is ready.
LEMMA PendSVStep ==
    ASSUME IInv, PendSV_Handler
    PROVE  IInv'
  <1>1. /\ sw.flag /\ sw' = NoSwitch /\ cpu' = sw.to
        /\ UNCHANGED <<k, rt_interrupt_nest, pc, target, remaining_tick, due>>
    BY DEF PendSV_Handler
  <1>2. sw.to = k.current /\ k.current # NoThread /\ k.stat[k.current] = "ready"
    BY <1>1 DEF IInv, ContextOK, Pending
  <1>3. Sound(k)' /\ IdleReady(k)' /\ ReadyListed(k)' /\ InCallOn(k)' /\ CurrentReady(k)'
    BY <1>1 DEF IInv, Core, Sound, Lists, IdleReady, ReadyListed, InCallOn, CurrentReady,
            Listed, Queued, BeingDetached
  <1>4. DeadQueued(k)'
    BY <1>1, <1>2 DEF DeadQueued
  <1>5. Core(k)'
    BY <1>3, <1>4 DEF Core
  <1>6. TypeOK' /\ ContextOK' /\ Pending' /\ Booting'
    BY <1>1, <1>2 DEF IInv, TypeOK, ContextOK, Pending, Booting, NoSwitch
  <1> QED BY <1>5, <1>6 DEF IInv

-----------------------------------------------------------------------------
\* Every step keeps the invariant, one case per action.
LEMMA NextStep ==
    ASSUME Untimed, IInv, [Next]_vars
    PROVE  IInv'
  <1>1. CASE rt_system_scheduler_start
    BY <1>1, SchedulerStartStep
  <1>2. CASE \E x \in Threads : BootStartup(x) \/ rt_thread_startup(x)
    BY <1>2, BootStartupStep, ThreadStartupStep
  <1>3. CASE \E x \in Threads : rt_thread_resume_test(x) \/ detach_unlink(x)
    BY <1>3, ResumeTestStep, DetachUnlinkStep
  <1>4. CASE rt_thread_resume_unlink \/ rt_thread_resume_insert
    BY <1>4, ResumeUnlinkStep, ResumeInsertStep
  <1>5. CASE detach_timer
    BY <1>5, DetachTimerStep
  <1>6. CASE detach_close
    BY <1>6, DetachCloseStep
  <1>7. CASE \E x \in Threads, p \in Prios : change_priority(x, p)
    BY <1>7, ChangePriorityStep
  <1>8. ASSUME NEW s \in Threads,
               \/ ScheduleStep(s)
               \/ suspend_self(s)
               \/ \E timed \in BOOLEAN : ipc_wait(s, timed)
               \/ rt_thread_sleep(s)
               \/ sleep_return(s)
               \/ rt_thread_yield(s)
               \/ rt_thread_exit(s)
               \/ rt_enter_critical(s)
               \/ rt_exit_critical(s)
        PROVE  IInv'
    BY <1>8, ScheduleStepStep, SuspendSelfStep, IpcWaitStep, SleepStep, SleepReturnStep,
       YieldStep, ThreadExitStep, EnterCriticalStep, ExitCriticalStep
  <1>9. CASE rt_thread_idle_excute
    BY <1>9, IdleStep
  <1>10. CASE rt_interrupt_enter \/ rt_interrupt_leave
    BY <1>10, InterruptStep
  <1>11. CASE rt_tick_increase
    BY <1>11, TickIncreaseStep
  <1>12. CASE tick_yield
    BY <1>12, TickYieldStep
  <1>13. CASE \E x \in Threads : rt_timer_check(x)
    BY <1>13, TimerCheckStep
  <1>14. CASE ipc_wake
    BY <1>14, IpcWakeStep
  <1>15. CASE PendSV_Handler
    BY <1>15, PendSVStep
  <1>16. CASE UNCHANGED vars
    <2>1. Core(k)'
      BY <1>16, CoreKept DEF IInv, vars
    <2>2. TypeOK' /\ ContextOK' /\ Pending' /\ Booting'
      BY <1>16 DEF IInv, vars, TypeOK, ContextOK, Pending, Booting
    <2> QED BY <2>1, <2>2 DEF IInv
  <1> QED BY <1>1, <1>2, <1>3, <1>4, <1>5, <1>6, <1>7, <1>8, <1>9, <1>10, <1>11, <1>12,
             <1>13, <1>14, <1>15, <1>16 DEF Next

\* IInv is an invariant of the scheduler: scheduler.c, thread.c, clock.c, idle.c
\* and the PendSV code keep the table, the registers and the calls in progress
\* consistent under every interleaving of threads and handlers.
THEOREM Invariance ==
    ASSUME Untimed
    PROVE  Spec => []IInv
  <1>1. Init => IInv
    BY InitHolds
  <1>2. IInv /\ [Next]_vars => IInv'
    BY NextStep
  <1> QED BY <1>1, <1>2, PTL DEF Spec

\* Every variable keeps its type; the ready lists hold threads only and the time
\* slice never reaches zero (rt_tick_increase).
THEOREM TypeCorrect ==
    ASSUME Untimed
    PROVE  Spec => []TypeOK
  <1>1. IInv => TypeOK
    BY DEF IInv
  <1> QED BY <1>1, Invariance, PTL

\* The ready lists, the bitmap and the thread states agree at every point where
\* a thread or a handler can be interrupted (scheduler.c, thread.c).
THEOREM ReadyTableConsistent ==
    ASSUME Untimed
    PROVE  Spec => []ReadyTable
  <1>1. IInv => ReadyTable
    <2> SUFFICES ASSUME IInv PROVE ReadyTable
      OBVIOUS
    <2>1. Sound(k) /\ Lists(k) /\ ReadyListed(k)
      BY DEF IInv, Core, Sound
    <2>2. \A t \in Threads : OnReadyList(t) <=> Listed(k, t)
      BY DEF OnReadyList, Listed
    <2>3. ASSUME NEW p \in Prios, NEW t \in Threads, Contains(k.ready[p], t)
          PROVE  k.prio[t] = p /\ k.stat[t] = "ready"
      BY <2>1, <2>3 DEF Sound, Lists, Listed
    <2> QED BY <2>1, <2>2, <2>3 DEF ReadyTable, Lists, ReadyListed
  <1> QED BY <1>1, Invariance, PTL

\* The registers hold the context of rt_current_thread, or PendSV is pending and
\* will save and load the right ones, however handlers nest (context_rvds.S).
THEOREM RegistersFollow ==
    ASSUME Untimed
    PROVE  Spec => []ContextOK
  <1>1. IInv => ContextOK
    BY DEF IInv
  <1> QED BY <1>1, Invariance, PTL

\* The RT_ASSERT of rt_thread_timeout: only a suspended thread has a running
\* timer.
THEOREM TimersOfSuspended ==
    ASSUME Untimed
    PROVE  Spec => []TimeoutOnlySuspended
  <1>1. IInv => TimeoutOnlySuspended
    BY DEF IInv, Core, Sound, TimeoutOnlySuspended
  <1> QED BY <1>1, Invariance, PTL

\* Nobody uses a thread after the idle thread released it (idle.c, thread.c).
THEOREM FreedUnused ==
    ASSUME Untimed
    PROVE  Spec => []NoUseAfterFree
  <1>1. IInv => NoUseAfterFree
    <2> SUFFICES ASSUME IInv, NEW t \in Threads, Freed(t)
                 PROVE  /\ t # cpu /\ t # k.current /\ ~(sw.flag /\ t \in {sw.from, sw.to})
                        /\ t \notin k.timer /\ ~OnReadyList(t)
                        /\ t # target
      BY DEF NoUseAfterFree
    <2>1. t # cpu /\ t # k.current /\ k.stat[t] = "close"
      BY DEF IInv, Core, DeadQueued, Freed, Queued
    <2>2. ~(sw.flag /\ t \in {sw.from, sw.to})
      BY <2>1 DEF IInv, ContextOK
    <2>3. t \notin k.timer /\ ~OnReadyList(t)
      BY <2>1 DEF IInv, Core, Sound, OnReadyList, Listed
    <2>4. t # target
      BY <2>1, KernelAssumption DEF IInv, Core, InCallOn
    <2> QED BY <2>1, <2>2, <2>3, <2>4
  <1> QED BY <1>1, Invariance, PTL

\* Only PendSV_Handler changes the registers to those of another thread.
LEMMA OnlyPendSVSwitches ==
    ASSUME [Next]_vars, cpu' # cpu
    PROVE  PendSV_Handler
  BY DEF Next, vars, rt_system_scheduler_start, BootStartup, rt_thread_startup,
     rt_thread_resume_test, detach_unlink, rt_thread_resume_unlink, rt_thread_resume_insert,
     detach_timer,
     detach_close, change_priority, ScheduleStep, suspend_self, ipc_wait, rt_thread_sleep,
     sleep_return, rt_thread_yield, rt_thread_exit, rt_enter_critical, rt_exit_critical,
     rt_thread_idle_excute, rt_interrupt_enter, rt_interrupt_leave, rt_tick_increase,
     tick_yield, rt_timer_check, ipc_wake

\* No handler takes the processor from a thread that locked the scheduler
\* (rt_enter_critical).
THEOREM CriticalUndisturbed ==
    ASSUME Untimed
    PROVE  Spec => CriticalKeepsProcessor
  <1>1. IInv /\ [Next]_vars => [k.lock_nest > 0 => cpu' = cpu]_vars
    BY OnlyPendSVSwitches DEF IInv, Pending, PendSV_Handler
  <1> QED BY <1>1, Invariance, PTL DEF Spec, CriticalKeepsProcessor

\* PendSV only loads ready threads: a suspended or dead thread does not run.
THEOREM ReadyLoaded ==
    ASSUME Untimed
    PROVE  Spec => SwitchesToReady
  <1>1. IInv /\ [Next]_vars => [cpu' # cpu => cpu' # NoThread /\ k.stat[cpu'] = "ready"]_vars
    BY OnlyPendSVSwitches DEF IInv, Pending, ContextOK, PendSV_Handler
  <1> QED BY <1>1, Invariance, PTL DEF Spec, SwitchesToReady

-----------------------------------------------------------------------------
(* The processor goes to a thread of the highest ready priority: one more  *)
(* conjunct, TopRuns, is inductive beside IInv.                            *)

\* The thread rt_schedule would choose on table u.
Top(u) == Head(u.ready[highest_ready_priority(u)])

\* HighestPriorityRuns, also in the middle of handlers and of pending switches:
\* rt_current_thread heads the list of the highest ready priority unless it
\* still owes the rt_schedule of its call or the scheduler is locked.
TopRuns ==
    k.current # NoThread /\ k.lock_nest = 0 /\ pc[k.current] \notin {"schedule", "sleep"}
       => k.current = Top(k)

\* rt_schedule restores TopRuns from whatever table it is called on.
LEMMA Reschedules ==
    ASSUME NEW u \in KernelType, Schedule(u)
    PROVE  TopRuns'
  <1>1. k' = IF u.lock_nest = 0 THEN [u EXCEPT !.current = Top(u)] ELSE u
    BY DEF Schedule, rt_schedule, Top
  <1>2. CASE u.lock_nest = 0
    <2>1. k'.current = Top(u) /\ k'.ready = u.ready /\ k'.group = u.group
      BY <1>1, <1>2 DEF KernelType
    <2> QED BY <2>1 DEF TopRuns, Top, highest_ready_priority
  <1>3. CASE u.lock_nest # 0
    BY <1>1, <1>3 DEF TopRuns
  <1> QED BY <1>2, <1>3

\* A step of the running thread that ends with an rt_schedule still owed.
LEMMA OwesSchedule ==
    ASSUME IInv, IInv', NEW s \in Threads, NEW point, InThread(s, point),
           UNCHANGED <<cpu, sw>>, pc'[s] \in {"schedule", "sleep"}
    PROVE  TopRuns'
  <1>1. k'.current = s
    BY DEF IInv, ContextOK, InThread
  <1> QED BY <1>1 DEF TopRuns

\* A step of the running thread that leaves the ready table alone.
LEMMA TableKept ==
    ASSUME IInv, IInv', TopRuns, NEW s \in Threads, NEW point, point \notin {"schedule", "sleep"},
           InThread(s, point), UNCHANGED <<cpu, sw>>,
           k'.ready = k.ready, k'.group = k.group, k'.lock_nest = k.lock_nest
    PROVE  TopRuns'
  <1>1. k'.current = s /\ k.current = s /\ pc[s] = point
    BY DEF IInv, ContextOK, InThread
  <1> QED BY <1>1, KernelAssumption DEF TopRuns, Top, highest_ready_priority

\* Unlinking a thread that is on no ready list leaves the ready table alone.
LEMMA UnlistedKept ==
    ASSUME NEW u, Lists(u), NEW t \in Threads, ~Listed(u, t)
    PROVE  LET v == rt_list_remove(u, t)
           IN  v \in KernelType /\ v.ready = u.ready /\ v.group = u.group /\ v.lock_nest = u.lock_nest
  <1> DEFINE v == rt_list_remove(u, t)
  <1>1. \A p \in Prios : RemoveFirst(u.ready[p], t) = u.ready[p]
    BY DEF Lists, KernelType, Listed, Contains, RemoveFirst
  <1>2. v \in KernelType
    BY UnlinkEffect DEF Lists
  <1>3. v.ready = [p \in Prios |-> RemoveFirst(u.ready[p], t)] /\ v.group = u.group /\ v.lock_nest = u.lock_nest
    BY DEF rt_list_remove, Lists, KernelType
  <1>4. v.ready = u.ready
    BY <1>1, <1>3 DEF Lists, KernelType
  <1> QED BY <1>2, <1>3, <1>4

\* The first critical section of rt_thread_resume leaves the ready table alone.
LEMMA UnlinkKept ==
    ASSUME NEW u, Sound(u), NEW t \in Threads, ~Listed(u, t)
    PROVE  LET v == resume_unlink(u, t)
           IN  v.ready = u.ready /\ v.group = u.group /\ v.lock_nest = u.lock_nest
  <1> DEFINE w == rt_list_remove(u, t)
  <1>1. w \in KernelType /\ w.ready = u.ready /\ w.group = u.group /\ w.lock_nest = u.lock_nest
    BY UnlistedKept DEF Sound
  <1> HIDE DEF w
  <1>2. resume_unlink(u, t) = [w EXCEPT !.timer = @ \ {t}]
    BY DEF resume_unlink, rt_timer_stop, w
  <1> QED BY <1>1, <1>2 DEF KernelType

-----------------------------------------------------------------------------
\* rt_thread_startup and rt_thread_resume up to the end of the first critical
\* section: the thread they work on is on no ready list.
LEMMA ManagerKeepsTop ==
    ASSUME IInv, IInv', TopRuns,
           \/ \E x \in Threads : rt_thread_startup(x) \/ rt_thread_resume_test(x)
           \/ rt_thread_resume_unlink
    PROVE  TopRuns'
  <1>1. PICK point \in {"user", "resuming"} : InThread(Manager, point)
    BY DEF rt_thread_startup, rt_thread_resume_test, rt_thread_resume_unlink
  <1>2. UNCHANGED <<cpu, sw>> /\ Manager \in Threads
    BY SchedulerAssumption DEF rt_thread_startup, rt_thread_resume_test, rt_thread_resume_unlink
  <1>3. k'.ready = k.ready /\ k'.group = k.group /\ k'.lock_nest = k.lock_nest
    <2>1. CASE \E x \in Threads : rt_thread_startup(x) \/ rt_thread_resume_test(x)
      BY <2>1 DEF rt_thread_startup, rt_thread_resume_test, IInv, TypeOK, KernelType
    <2>2. CASE rt_thread_resume_unlink
      <3>1. pc[Manager] = "resuming" /\ k' = resume_unlink(k, target)
        BY <2>2 DEF rt_thread_resume_unlink, InThread
      <3>2. Sound(k) /\ target \in Threads /\ ~Listed(k, target)
        BY <3>1 DEF IInv, Core, InCallOn
      <3> QED BY <3>1, <3>2, UnlinkKept
    <2> QED BY <2>1, <2>2
  <1> QED BY <1>1, <1>2, <1>3, TableKept

\* A detached thread is not the one that detaches it, so the head stays.
LEMMA DetachKeepsTop ==
    ASSUME IInv, IInv', TopRuns, NEW x \in Threads, detach_unlink(x)
    PROVE  TopRuns'
  <1>1. /\ InThread(Manager, "user") /\ UNCHANGED <<cpu, sw>> /\ Manager \in Threads
        /\ x # Manager /\ pc[Manager] = "user"
        /\ k' = IF k.stat[x] # "init" THEN rt_schedule_remove_thread(k, x) ELSE k
    BY SchedulerAssumption DEF detach_unlink, InThread
  <1>2. k.current = Manager /\ k'.current = Manager
    BY <1>1 DEF IInv, ContextOK, InThread
  <1>3. CASE k.stat[x] = "init"
    BY <1>1, <1>3, TableKept
  <1>4. CASE k.stat[x] # "init"
    <2>1. k' = rt_schedule_remove_thread(k, x) /\ Lists(k)
      BY <1>1, <1>4 DEF IInv, Core, Sound
    <2>2. Listed(k, Idle) /\ Idle \in Threads
      BY <1>1, <1>2, IdleListed, KernelAssumption, SchedulerAssumption DEF IInv
    <2>3. k'.lock_nest = k.lock_nest
      BY <2>1, RemoveEffect
    <2>4. CASE k.lock_nest = 0
      <3>1. Manager = Top(k)
        BY <1>1, <1>2, <2>4, KernelAssumption DEF TopRuns
      <3>2. Top(k') = Top(k)
        BY <1>1, <2>1, <2>2, <3>1, HeadKept DEF Top
      <3>3. Top(k)' = Top(k')
        BY DEF Top, highest_ready_priority
      <3> QED BY <1>2, <3>1, <3>2, <3>3 DEF TopRuns
    <2>5. CASE k.lock_nest # 0
      BY <2>3, <2>5 DEF TopRuns
    <2> QED BY <2>4, <2>5
  <1> QED BY <1>3, <1>4

\* The rest of rt_thread_detach leaves the ready table alone.
LEMMA DetachEndKeepsTop ==
    ASSUME IInv, IInv', TopRuns, detach_timer \/ detach_close
    PROVE  TopRuns'
  <1>1. PICK point \in {"unlinked", "stopped"} : InThread(Manager, point)
    BY DEF detach_timer, detach_close
  <1>2. UNCHANGED <<cpu, sw>> /\ Manager \in Threads
    BY SchedulerAssumption DEF detach_timer, detach_close
  <1>3. k'.ready = k.ready /\ k'.group = k.group /\ k'.lock_nest = k.lock_nest
    <2>1. CASE detach_timer
      BY <2>1 DEF detach_timer, rt_timer_stop, IInv, TypeOK, KernelType
    <2>2. CASE detach_close
      BY <2>2 DEF detach_close, close, rt_list_insert_after, IInv, TypeOK, KernelType
    <2> QED BY <2>1, <2>2
  <1> QED BY <1>1, <1>2, <1>3, TableKept

\* rt_thread_resume and rt_thread_control may make a more urgent thread ready;
\* the caller then owes an rt_schedule.
LEMMA ManagerOwes ==
    ASSUME IInv, IInv',
           rt_thread_resume_insert \/ \E x \in Threads, p \in Prios : change_priority(x, p)
    PROVE  TopRuns'
  <1>1. Manager \in Threads /\ UNCHANGED <<cpu, sw>> /\ pc'[Manager] = "schedule"
    BY SchedulerAssumption DEF rt_thread_resume_insert, change_priority, Goto, IInv, TypeOK
  <1>2. InThread(Manager, "insert") \/ InThread(Manager, "user")
    BY DEF rt_thread_resume_insert, change_priority
  <1> QED BY <1>1, <1>2, OwesSchedule

\* The calls of the running thread: a thread that gives up its place owes an
\* rt_schedule, and so does the last rt_exit_critical.
LEMMA CallKeepsTop ==
    ASSUME IInv, IInv', TopRuns, NEW s \in Threads,
           \/ suspend_self(s)
           \/ \E timed \in BOOLEAN : ipc_wait(s, timed)
           \/ rt_thread_sleep(s)
           \/ sleep_return(s)
           \/ rt_thread_yield(s)
           \/ rt_thread_exit(s)
           \/ rt_enter_critical(s)
           \/ rt_exit_critical(s)
    PROVE  TopRuns'
  <1>1. ASSUME \/ suspend_self(s)
               \/ \E timed \in BOOLEAN : ipc_wait(s, timed)
               \/ rt_thread_sleep(s)
               \/ rt_thread_yield(s)
               \/ rt_thread_exit(s)
        PROVE  TopRuns'
    <2>1. InThread(s, "user") /\ UNCHANGED <<cpu, sw>>
      BY <1>1 DEF suspend_self, ipc_wait, rt_thread_sleep, rt_thread_yield, rt_thread_exit
    <2>2. pc'[s] \in {"schedule", "sleep"}
      BY <1>1 DEF suspend_self, ipc_wait, rt_thread_sleep, rt_thread_yield, rt_thread_exit,
                  Goto, IInv, TypeOK
    <2> QED BY <2>1, <2>2, OwesSchedule
  <1>2. CASE sleep_return(s)
    <2>1. InThread(s, "woken") /\ UNCHANGED <<cpu, sw>>
      BY <1>2 DEF sleep_return
    <2>2. k'.ready = k.ready /\ k'.group = k.group /\ k'.lock_nest = k.lock_nest
      BY <1>2 DEF sleep_return, IInv, TypeOK, KernelType
    <2> QED BY <2>1, <2>2, TableKept
  <1>3. CASE rt_enter_critical(s)
    <2>1. k'.lock_nest = k.lock_nest + 1 /\ k.lock_nest \in Nat
      BY <1>3 DEF rt_enter_critical, IInv, TypeOK, KernelType
    <2> QED BY <2>1 DEF TopRuns
  <1>4. CASE rt_exit_critical(s)
    <2>1. InThread(s, "user") /\ UNCHANGED <<cpu, sw>> /\ k.lock_nest \in Nat
      BY <1>4 DEF rt_exit_critical, IInv, TypeOK, KernelType
    <2>2. CASE k.lock_nest - 1 <= 0
      <3>1. pc'[s] = "schedule"
        BY <1>4, <2>2 DEF rt_exit_critical, Goto, IInv, TypeOK
      <3> QED BY <2>1, <3>1, OwesSchedule
    <2>3. CASE ~(k.lock_nest - 1 <= 0)
      <3>1. k'.lock_nest = k.lock_nest - 1
        BY <1>4, <2>3 DEF rt_exit_critical, IInv, TypeOK, KernelType
      <3> QED BY <2>1, <2>3, <3>1 DEF TopRuns
    <2> QED BY <2>2, <2>3
  <1> QED BY <1>1, <1>2, <1>3, <1>4

\* The idle thread releases a thread that is on no ready list.
LEMMA IdleKeepsTop ==
    ASSUME IInv, IInv', TopRuns, rt_thread_idle_excute
    PROVE  TopRuns'
  <1> DEFINE t == Head(k.queue[Defunct])
  <1>1. /\ InThread(Idle, "user") /\ k.queue[Defunct] # << >> /\ k' = rt_list_remove(k, t)
        /\ UNCHANGED <<cpu, sw>>
    BY DEF rt_thread_idle_excute
  <1>2. Idle \in Threads /\ Defunct \in Queues
    BY SchedulerAssumption
  <1>3. t \in Threads /\ Queued(k, Defunct, t)
    <2>1. k.queue[Defunct] \in Seq(Threads)
      BY <1>2 DEF IInv, TypeOK, KernelType
    <2> QED BY <1>1, <2>1, EmptyList DEF Queued
  <1> HIDE DEF t
  <1>4. ~Listed(k, t) /\ Lists(k)
    BY <1>3 DEF IInv, Core, Sound
  <1>5. k'.ready = k.ready /\ k'.group = k.group /\ k'.lock_nest = k.lock_nest
    BY <1>1, <1>3, <1>4, UnlistedKept
  <1> QED BY <1>1, <1>2, <1>5, TableKept

\* A handler that wakes threads or ends a time slice calls rt_schedule in the
\* same stretch.
LEMMA HandlerKeepsTop ==
    ASSUME IInv, IInv', TopRuns,
           tick_yield \/ ipc_wake \/ \E x \in Threads : rt_timer_check(x)
    PROVE  TopRuns'
  <1>1. CASE tick_yield
    <2>1. CASE MovesToTail(k)
      <3>1. Schedule(move_to_tail(k)) /\ k.current \in Threads /\ k.stat[k.current] = "ready"
        BY <1>1, <2>1, HandlerRuns DEF tick_yield, MovesToTail
      <3>2. Sound(move_to_tail(k))
        BY <3>1, CurrentListed, MoveEffect DEF IInv, Core
      <3> QED BY <3>1, <3>2, Reschedules DEF Sound, Lists
    <2>2. CASE ~MovesToTail(k)
      BY <1>1, <2>2 DEF tick_yield, TopRuns, Top, highest_ready_priority
    <2> QED BY <2>1, <2>2
  <1>2. CASE ipc_wake
    <2> DEFINE u == rt_ipc_list_resume(k, Waiting)
    <2>1. k.queue[Waiting] # << >> /\ Schedule(u)
      BY <1>2 DEF ipc_wake
    <2>2. Woken(k, u, Head(k.queue[Waiting]))
      BY <2>1, WaiterWoken
    <2> HIDE DEF u
    <2>3. u \in KernelType
      BY <2>2 DEF Woken, Sound, Lists
    <2> QED BY <2>1, <2>3, Reschedules
  <1>3. ASSUME NEW x \in Threads, rt_timer_check(x) PROVE TopRuns'
    <2> DEFINE u == rt_thread_timeout(k, x)
    <2>1. x \in k.timer /\ Schedule(u)
      BY <1>3 DEF rt_timer_check
    <2>2. Woken(k, u, x)
      BY <2>1, TimeoutWoken
    <2> HIDE DEF u
    <2>3. u \in KernelType
      BY <2>2 DEF Woken, Sound, Lists
    <2> QED BY <2>1, <2>3, Reschedules
  <1> QED BY <1>1, <1>2, <1>3

\* The rt_schedule that a thread owes restores TopRuns.
LEMMA ScheduleKeepsTop ==
    ASSUME IInv, NEW s \in Threads, ScheduleStep(s)
    PROVE  TopRuns'
  BY Reschedules DEF ScheduleStep, IInv, TypeOK

\* rt_system_scheduler_start begins with the thread of the highest priority.
LEMMA BootKeepsTop ==
    ASSUME IInv, IInv', TopRuns,
           rt_system_scheduler_start \/ \E x \in Threads : BootStartup(x)
    PROVE  TopRuns'
  <1>1. CASE rt_system_scheduler_start
    <2>1. k'.current = Top(k) /\ k'.ready = k.ready /\ k'.group = k.group
      BY <1>1 DEF rt_system_scheduler_start, Top, IInv, TypeOK, KernelType
    <2> QED BY <2>1 DEF TopRuns, Top, highest_ready_priority
  <1>2. ASSUME NEW x \in Threads, BootStartup(x) PROVE TopRuns'
    <2>1. k'.current = NoThread
      BY <1>2 DEF BootStartup, Booting, IInv, ContextOK
    <2> QED BY <2>1 DEF TopRuns
  <1> QED BY <1>1, <1>2

\* What is left: steps that touch neither the table nor the program counters.
LEMMA TopUndisturbed ==
    ASSUME TopRuns, UNCHANGED <<k, pc>>
    PROVE  TopRuns'
  BY DEF TopRuns, Top, highest_ready_priority

\* Every step keeps TopRuns, one case per group of actions.
LEMMA TopStep ==
    ASSUME IInv, IInv', TopRuns, [Next]_vars
    PROVE  TopRuns'
  <1>1. CASE rt_system_scheduler_start \/ \E x \in Threads : BootStartup(x)
    BY <1>1, BootKeepsTop
  <1>2. CASE \/ \E x \in Threads : rt_thread_startup(x) \/ rt_thread_resume_test(x)
             \/ rt_thread_resume_unlink
    BY <1>2, ManagerKeepsTop
  <1>3. CASE \E x \in Threads : detach_unlink(x)
    BY <1>3, DetachKeepsTop
  <1>4. CASE detach_timer \/ detach_close
    BY <1>4, DetachEndKeepsTop
  <1>5. CASE rt_thread_resume_insert \/ \E x \in Threads, p \in Prios : change_priority(x, p)
    BY <1>5, ManagerOwes
  <1>6. ASSUME NEW s \in Threads,
               \/ ScheduleStep(s)
               \/ suspend_self(s)
               \/ \E timed \in BOOLEAN : ipc_wait(s, timed)
               \/ rt_thread_sleep(s)
               \/ sleep_return(s)
               \/ rt_thread_yield(s)
               \/ rt_thread_exit(s)
               \/ rt_enter_critical(s)
               \/ rt_exit_critical(s)
        PROVE  TopRuns'
    BY <1>6, ScheduleKeepsTop, CallKeepsTop
  <1>7. CASE rt_thread_idle_excute
    BY <1>7, IdleKeepsTop
  <1>8. CASE tick_yield \/ ipc_wake \/ \E x \in Threads : rt_timer_check(x)
    BY <1>8, HandlerKeepsTop
  <1>9. CASE \/ rt_interrupt_enter \/ rt_interrupt_leave
             \/ rt_tick_increase \/ PendSV_Handler \/ UNCHANGED vars
    BY <1>9, TopUndisturbed
       DEF rt_interrupt_enter, rt_interrupt_leave, rt_tick_increase, PendSV_Handler, vars
  <1> QED BY <1>1, <1>2, <1>3, <1>4, <1>5, <1>6, <1>7, <1>8, <1>9 DEF Next

\* In thread code that owes no rt_schedule, with the scheduler unlocked and no
\* switch pending, the running thread is the first of the highest ready priority
\* (rt_schedule: "select one thread with the highest priority level").
THEOREM TopThreadRuns ==
    ASSUME Untimed
    PROVE  Spec => []HighestPriorityRuns
  <1>1. Init => TopRuns
    BY DEF Init, rt_system_scheduler_init, TopRuns
  <1>2. IInv /\ IInv' /\ TopRuns /\ [Next]_vars => TopRuns'
    BY TopStep
  <1>3. IInv /\ TopRuns => HighestPriorityRuns
    BY DEF TopRuns, Top, HighestPriorityRuns
  <1> QED BY <1>1, <1>2, <1>3, Invariance, PTL DEF Spec
=============================================================================
