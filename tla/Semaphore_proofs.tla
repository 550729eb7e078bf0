-------------------------- MODULE Semaphore_proofs ---------------------------
(***************************************************************************)
(* The safety of Semaphore for every number of threads, priorities and     *)
(* semaphores and every limit of the counter, and the proof that each      *)
(* semaphore implements a counting semaphore.                              *)
(*                                                                         *)
(* SemInv is the inductive invariant. Its parts speak of a table u and of  *)
(* the calls at[t], on[t] the threads are in, so that they can be stated   *)
(* between the wake-up of a thread and the rt_schedule after it. A lemma   *)
(* per part of a step (a thread wakes, blocks, goes on; rt_schedule) comes *)
(* before the lemma per action; the theorems are at the end.               *)
(***************************************************************************)
EXTENDS Semaphore, Kernel_proofs

TakePoints == {"blocked", "taking"}

\* Who waits: exactly the threads suspended in rt_sem_take are on the lists,
\* with no error yet; the idle thread never is; the lists of priority
\* semaphores are ordered, and no timer runs out on a semaphore that is going
\* to be detached.
Waits(u, at, on) ==
    /\ Settled(u)
    /\ WaitersListed(u, at, on, TakePoints)
    /\ \A t \in Threads : u.stat[t] = "suspend" => at[t] \in TakePoints /\ u.error[t] = "RT_EOK"
    /\ \A q \in Sems : flag[q] = "RT_IPC_FLAG_PRIO" => Ordered(u.queue[q], u.prio)
    /\ \A t \in u.timer : on[t] \notin Deletable
    /\ u.stat[Idle] = "ready" /\ at[Idle] = "user"

\* Who runs: a READY thread, or one that has just blocked and still owes the
\* rt_schedule.
Runs(u, at) ==
    u.current \in Threads /\ (u.stat[u.current] = "ready" \/ at[u.current] = "blocked")

\* One thread detaches an object at a time, and it is not through while
\* somebody waits.
Detaching(u, at, on, gone) ==
    /\ \A s \in Threads : at[s] = "resuming" => on[s] \in gone /\ u.queue[on[s]] # << >>
    /\ \A s, r \in Threads : at[s] = "resuming" /\ at[r] = "resuming" /\ on[s] = on[r] => s = r
    /\ \A q \in gone : (\A s \in Threads : ~(at[s] = "resuming" /\ on[s] = q)) => u.queue[q] = << >>

\* The inductive invariant.
SemInv ==
    /\ TypeOK /\ Waits(k, pc, object) /\ Runs(k, pc)
    /\ Detaching(k, pc, object, dying) /\ NoWaitWithToken

-----------------------------------------------------------------------------
(* Parts of steps *)

\* A suspended thread is woken, by a token, a timeout or the end of the object.
LEMMA WakeWaits ==
    ASSUME NEW u, NEW at, NEW on, Waits(u, at, on), NEW t \in Threads, u.stat[t] = "suspend",
           NEW e, NEW v, MadeReady(u, v, t, e)
    PROVE  /\ Waits(v, at, on) /\ (Runs(u, at) => Runs(v, at))
           /\ \A q \in Queues : /\ \A x : Contains(v.queue[q], x) <=> Contains(u.queue[q], x) /\ x # t
                                /\ on[t] # q => v.queue[q] = u.queue[q]
           /\ \A x \in Threads : v.stat[x] = IF x = t THEN "ready" ELSE u.stat[x]
           /\ \A x \in Threads : v.error[x] = IF x = t THEN e ELSE u.error[x]
           /\ v.current = u.current
  <1>1. /\ WaitersListed(v, at, on, TakePoints)
        /\ \A q \in Queues : /\ \A x : Contains(v.queue[q], x) <=> Contains(u.queue[q], x) /\ x # t
                             /\ on[t] # q => v.queue[q] = u.queue[q]
                             /\ Ordered(u.queue[q], u.prio) => Ordered(v.queue[q], v.prio)
        /\ \A x \in Threads : v.stat[x] = IF x = t THEN "ready" ELSE u.stat[x]
        /\ \A x \in Threads : v.error[x] = IF x = t THEN e ELSE u.error[x]
        /\ v.timer \subseteq u.timer
    <2>1. Settled(u) /\ WaitersListed(u, at, on, TakePoints)
      BY DEF Waits
    <2> QED BY <2>1, ReadyWaiters
  <1>2. Settled(v) /\ v.current = u.current
    BY DEF MadeReady
  <1>3. Waits(v, at, on)
    BY <1>1, <1>2, SemaphoreAssumption, IpcAssumption DEF Waits
  <1>4. Runs(u, at) => Runs(v, at)
    BY <1>1, <1>2 DEF Runs
  <1> QED BY <1>1, <1>2, <1>3, <1>4

\* rt_schedule finds a ready thread.
LEMMA ScheduleWaits ==
    ASSUME NEW u, NEW at, NEW on, Waits(u, at, on)
    PROVE  LET v == rt_schedule(u)
           IN  /\ Waits(v, at, on) /\ v.current \in Threads /\ v.stat[v.current] = "ready"
               /\ v.stat = u.stat /\ v.error = u.error /\ v.queue = u.queue
  <1> DEFINE v == rt_schedule(u)
  <1>1. Settled(u) /\ Idle \in Threads /\ u.stat[Idle] = "ready"
    BY IpcAssumption DEF Waits
  <1>2. /\ Settled(v) /\ v.current \in Threads /\ v.stat[v.current] = "ready"
        /\ v.stat = u.stat /\ v.error = u.error /\ v.timer = u.timer
        /\ v.queue = u.queue /\ v.prio = u.prio
    BY <1>1, ScheduleSettled
  <1> HIDE DEF v
  <1>3. Waits(v, at, on)
    BY <1>2 DEF Waits, WaitersListed, Queued
  <1> QED BY <1>2, <1>3 DEF v

\* A ready thread, not the idle one, goes from one point of its calls to
\* another.
LEMMA GoWaits ==
    ASSUME NEW u, NEW at, NEW on, Waits(u, at, on), NEW s \in Threads, u.stat[s] = "ready", s # Idle,
           NEW bt, NEW bn, \A x \in Threads : x # s => bt[x] = at[x] /\ bn[x] = on[x]
    PROVE  Waits(u, bt, bn)
  <1>1. WaitersListed(u, bt, bn, TakePoints)
    BY DEF Waits, WaitersListed
  <1>2. u.timer \subseteq Threads /\ s \notin u.timer
    BY SettledType DEF Waits, Settled
  <1> QED BY <1>1, <1>2, IpcAssumption DEF Waits

\* Table v after u, where thread s has blocked on q
HasBlocked(u, v, bt, bn, s, q) ==
    /\ Waits(v, bt, bn) /\ Runs(v, bt) /\ v.current = s
    /\ \A r \in Sems : r # q => v.queue[r] = u.queue[r]
    /\ \A x : Contains(v.queue[q], x) <=> Contains(u.queue[q], x) \/ x = s
    /\ \A x \in Threads : v.stat[x] = IF x = s THEN "suspend" ELSE u.stat[x]
    /\ \A x \in Threads : x # s => v.error[x] = u.error[x]

\* The current thread blocks in rt_sem_take, for ever or with a timeout.
LEMMA BlockWaits ==
    ASSUME NEW u, NEW at, NEW on, Waits(u, at, on), NEW s \in Threads, u.current = s, s # Idle,
           u.stat[s] = "ready", NEW q \in Sems, NEW timed \in BOOLEAN, timed => q \notin Deletable,
           NEW bt, NEW bn, \A x \in Threads : x # s => bt[x] = at[x] /\ bn[x] = on[x],
           bt[s] = "blocked", bn[s] = q,
           NEW v, v = Block([u EXCEPT !.error[s] = "RT_EOK"], q, s, flag[q], timed)
    PROVE  HasBlocked(u, v, bt, bn, s, q)
  <1> DEFINE w == [u EXCEPT !.error[s] = "RT_EOK"]
             x == rt_ipc_list_suspend(w, q, s, flag[q])
  <1>0. Settled(u) /\ WaitersListed(u, at, on, TakePoints) /\ q \in Queues /\ s \in Threads
    BY SemaphoreAssumption DEF Waits
  <1>v. v = Block(w, q, s, flag[q], timed)
    OBVIOUS
  <1>1. /\ Settled(w) /\ w.error = [u.error EXCEPT ![s] = "RT_EOK"]
        /\ w.stat = u.stat /\ w.timer = u.timer /\ w.queue = u.queue
        /\ w.prio = u.prio /\ w.current = u.current
    BY <1>0, ErrorSettled DEF Errors
  <1> HIDE DEF w
  <1>2. PutToWait(w, x, s, q, flag[q])
    BY <1>0, <1>1, IpcSuspendSettled
  <1>3. v = IF timed THEN rt_timer_start(x, s) ELSE x
    BY <1>v DEF Block
  <1> HIDE DEF x
  <1>4. WaitersListed(w, at, on, TakePoints)
    BY <1>0, <1>1 DEF WaitersListed, Queued
  <1>5. /\ WaitersListed(x, bt, bn, TakePoints)
        /\ \A y \in Threads : x.stat[y] = IF y = s THEN "suspend" ELSE w.stat[y]
    <2>1. w.stat[s] = "ready" /\ bt[s] \in TakePoints
      BY <1>1 DEF TakePoints
    <2>2. (\A y \in Threads : y # s => bt[y] = at[y] /\ bn[y] = on[y]) /\ bn[s] = q
      OBVIOUS
    <2>3. Settled(w) /\ s \in Threads /\ q \in Queues
      BY <1>0, <1>1
    <2> DEFINE f == flag[q]
               W == TakePoints
    <2>4. PutToWait(w, x, s, q, f) /\ WaitersListed(w, at, on, W) /\ bt[s] \in W
      BY <1>2, <1>4, <2>1
    <2>5. WaitersListed(x, bt, bn, W) /\ \A y \in Threads : x.stat[y] = IF y = s THEN "suspend" ELSE w.stat[y]
      <3> HIDE DEF f, W
      <3> QED BY ONLY <2>1, <2>2, <2>3, <2>4, BlockedWaiters
    <2> QED BY <2>5
  <1>6. Settled(x) /\ x.stat[s] = "suspend"
    BY <1>0, <1>2, <1>5 DEF PutToWait
  <1>7. /\ Settled(v) /\ v.timer = IF timed THEN x.timer \cup {s} ELSE x.timer
        /\ v.stat = x.stat /\ v.error = x.error /\ v.queue = x.queue
        /\ v.prio = x.prio /\ v.current = x.current
    <2>1. CASE timed
      <3>1. v = rt_timer_start(x, s)
        BY <1>3, <2>1
      <3> QED BY ONLY <1>6, <2>1, <3>1, s \in Threads, TimerSettled
    <2>2. CASE ~timed
      BY ONLY <1>3, <1>6, <2>2
    <2> QED BY <2>1, <2>2
  <1>8. /\ x.error = w.error /\ x.timer = w.timer /\ x.prio = w.prio /\ x.current = w.current
        /\ \A r \in Queues : r # q => x.queue[r] = w.queue[r]
        /\ \A y : Contains(x.queue[q], y) <=> Contains(w.queue[q], y) \/ y = s
        /\ flag[q] = "RT_IPC_FLAG_PRIO" /\ Ordered(w.queue[q], w.prio) => Ordered(x.queue[q], w.prio)
    BY <1>2 DEF PutToWait
  <1>9. u.error \in [Threads -> Errors] /\ u.timer \subseteq Threads
    BY <1>0, SettledType
  <1>10. /\ \A y \in Threads : v.stat[y] = IF y = s THEN "suspend" ELSE u.stat[y]
         /\ \A y \in Threads : v.error[y] = IF y = s THEN "RT_EOK" ELSE u.error[y]
    BY <1>1, <1>5, <1>7, <1>8, <1>9
  <1>11. \A r \in Sems : flag[r] = "RT_IPC_FLAG_PRIO" => Ordered(v.queue[r], v.prio)
    <2> SUFFICES ASSUME NEW r \in Sems, flag[r] = "RT_IPC_FLAG_PRIO"
                 PROVE  Ordered(v.queue[r], v.prio)
      OBVIOUS
    <2>1. Ordered(u.queue[r], u.prio)
      BY DEF Waits
    <2>2. CASE r = q
      BY <2>1, <2>2, <1>1, <1>7, <1>8
    <2>3. CASE r # q
      <3>1. v.queue[r] = u.queue[r] /\ v.prio = u.prio
        BY <2>3, <1>1, <1>7, <1>8, SemaphoreAssumption
      <3> QED BY <2>1, <3>1
    <2> QED BY <2>2, <2>3
  <1>12. WaitersListed(v, bt, bn, TakePoints)
    BY <1>5, <1>7 DEF WaitersListed, Queued
  <1>13. \A y \in v.timer : bn[y] \notin Deletable
    <2>1. \A y \in u.timer : y # s /\ on[y] \notin Deletable
      BY DEF Waits, Settled
    <2> QED BY <2>1, <1>1, <1>7, <1>8, <1>9
  <1>14. \A y \in Threads : v.stat[y] = "suspend" => bt[y] \in TakePoints /\ v.error[y] = "RT_EOK"
    BY <1>10 DEF Waits, TakePoints
  <1>15. v.stat[Idle] = "ready" /\ bt[Idle] = "user"
    BY <1>10, IpcAssumption DEF Waits
  <1>16. Waits(v, bt, bn)
    BY <1>7, <1>11, <1>12, <1>13, <1>14, <1>15 DEF Waits
  <1>17. Runs(v, bt) /\ v.current = s
    BY <1>1, <1>7, <1>8 DEF Runs
  <1>18. /\ \A r \in Sems : r # q => v.queue[r] = u.queue[r]
         /\ \A y : Contains(v.queue[q], y) <=> Contains(u.queue[q], y) \/ y = s
    BY <1>1, <1>7, <1>8, SemaphoreAssumption
  <1> QED BY ONLY <1>10, <1>16, <1>17, <1>18 DEF HasBlocked

\* RT_IPC_CMD_RESET turns the waiters of one semaphore away.
LEMMA ResetWaits ==
    ASSUME NEW u, NEW at, NEW on, Waits(u, at, on), Runs(u, at), NEW q \in Sems
    PROVE  LET v == resume_all(u, q)
           IN  /\ Waits(v, at, on) /\ Runs(v, at) /\ v.current = u.current
               /\ v.queue[q] = << >>
               /\ \A r \in Sems : r # q => v.queue[r] = u.queue[r]
               /\ \A x \in Threads : v.stat[x] = IF Queued(u, q, x) THEN "ready" ELSE u.stat[x]
               /\ \A x \in Threads : v.error[x] = IF Queued(u, q, x) THEN "RT_ERROR" ELSE u.error[x]
  <1> DEFINE v == resume_all(u, q)
  <1>0. Settled(u) /\ WaitersListed(u, at, on, TakePoints) /\ Queues = Sems
    BY SemaphoreAssumption DEF Waits
  <1>1. /\ Settled(v) /\ v.prio = u.prio /\ v.current = u.current
        /\ \A x \in Threads : v.stat[x] = IF Queued(u, q, x) THEN "ready" ELSE u.stat[x]
        /\ \A x \in Threads : v.error[x] = IF Queued(u, q, x) THEN "RT_ERROR" ELSE u.error[x]
        /\ \A x \in Threads : x \in v.timer <=> x \in u.timer /\ ~Queued(u, q, x)
        /\ \A r \in Queues, x \in Threads :
              Queued(v, r, x) <=> Queued(u, r, x) /\ ~Queued(u, q, x)
        /\ \A r \in Queues : (\A x \in Threads : ~(Queued(u, q, x) /\ Queued(u, r, x))) =>
              v.queue[r] = u.queue[r]
    BY <1>0, ResumeAllSettled
  <1> HIDE DEF v
  <1>2. \A r \in Sems : r # q => v.queue[r] = u.queue[r]
    BY <1>0, <1>1 DEF WaitersListed
  <1>3. v.queue[q] = << >>
    <2>1. v.queue[q] \in Seq(Threads)
      BY <1>0, <1>1, SettledType
    <2>2. \A x \in Threads : ~Contains(v.queue[q], x)
      BY <1>0, <1>1 DEF Queued
    <2> QED BY <2>1, <2>2, EmptyList
  <1>4. WaitersListed(v, at, on, TakePoints)
    BY <1>0, <1>1 DEF WaitersListed
  <1>5. \A r \in Sems : flag[r] = "RT_IPC_FLAG_PRIO" => Ordered(v.queue[r], v.prio)
    BY <1>1, <1>2, <1>3 DEF Waits, Ordered
  <1>6. v.timer \subseteq u.timer
    <2>1. v.timer \subseteq Threads
      BY <1>1, SettledType
    <2> QED BY <2>1, <1>1
  <1>7. Waits(v, at, on)
    BY <1>1, <1>4, <1>5, <1>6, IpcAssumption DEF Waits
  <1>8. Runs(v, at)
    BY <1>1 DEF Runs
  <1> QED BY <1>1, <1>2, <1>3, <1>7, <1>8 DEF v

\* Detaching depends on the lists of the dying objects and the threads that
\* detach them only.
LEMMA DetachingKept ==
    ASSUME NEW u, NEW at, NEW on, NEW gone, Detaching(u, at, on, gone),
           NEW v, \A q \in gone : v.queue[q] = u.queue[q],
           NEW bt, NEW bn,
           \A x \in Threads : /\ bt[x] = "resuming" <=> at[x] = "resuming"
                              /\ at[x] = "resuming" => bn[x] = on[x]
    PROVE  Detaching(v, bt, bn, gone)
  BY DEF Detaching

\* The thread that executes a section is ready, unless it has just blocked.
LEMMA RunningReady ==
    ASSUME SemInv, NEW s \in Threads, NEW point, Running(s, point)
    PROVE  /\ k.current = s /\ s # Idle /\ pc[s] = point
           /\ point # "blocked" => k.stat[s] = "ready"
           /\ \A x \in Threads : pc[x] \in Points
           /\ \A x \in Threads : object[x] \in Sems
           /\ pc = [x \in Threads |-> pc[x]] /\ object = [x \in Threads |-> object[x]]
  BY DEF SemInv, Runs, Running, TypeOK

\* A list is empty when nobody is on it, and its first thread is suspended in
\* rt_sem_take.
LEMMA FirstWaiter ==
    ASSUME NEW u, NEW at, NEW on, Waits(u, at, on), NEW q \in Sems
    PROVE  /\ u.queue[q] = << >> <=> \A x : ~Contains(u.queue[q], x)
           /\ u.queue[q] # << >> =>
                 /\ Head(u.queue[q]) \in Threads /\ Queued(u, q, Head(u.queue[q]))
                 /\ u.stat[Head(u.queue[q])] = "suspend" /\ on[Head(u.queue[q])] = q
                 /\ at[Head(u.queue[q])] \in TakePoints
  <1>1. Settled(u) /\ WaitersListed(u, at, on, TakePoints) /\ q \in Queues
    BY SemaphoreAssumption DEF Waits
  <1>2. u.queue[q] \in Seq(Threads)
    BY <1>1, SettledType
  <1> QED BY <1>1, <1>2, EmptyList DEF WaitersListed, Queued

\* A step whose parts keep the invariant keeps it.
LEMMA Together ==
    ASSUME Waits(k', pc', object'), Runs(k', pc'), Detaching(k', pc', object', dying'),
           pc' \in [Threads -> Points], object' \in [Threads -> Sems],
           value' \in [Sems -> 0 .. MaxValue], dying' \subseteq Deletable,
           \A q \in Sems : value'[q] > 0 => k'.queue[q] = << >>
    PROVE  SemInv'
  <1>1. k' \in KernelType
    BY SettledType DEF Waits
  <1>2. TypeOK'
    BY <1>1 DEF TypeOK
  <1>3. NoWaitWithToken'
    BY DEF NoWaitWithToken, NoWaiter
  <1> QED BY <1>2, <1>3 DEF SemInv

-----------------------------------------------------------------------------
(* Actions *)

\* Nobody waits at the start.
LEMMA InitHolds == Init => SemInv
  <1> SUFFICES ASSUME Init PROVE SemInv
    OBVIOUS
  <1>1. /\ Settled(k)
        /\ k.stat = [t \in Threads |-> "ready"] /\ k.error = [t \in Threads |-> "RT_EOK"]
        /\ k.timer = {} /\ k.queue = [q \in Queues |-> << >>]
        /\ k.prio = init_priority /\ k.current \in Threads
    BY IpcAssumption, AllStartedSettled DEF Init, InitThreads
  <1>2. /\ pc = [t \in Threads |-> "user"] /\ object = [t \in Threads |-> AnyQueue] /\ dying = {}
        /\ value \in [Sems -> 0 .. MaxValue] /\ AnyQueue \in Sems /\ Queues = Sems
    BY SemaphoreAssumption DEF Init, InitThreads, AnyQueue
  <1>3. WaitersListed(k, pc, object, TakePoints)
    BY <1>1, <1>2 DEF WaitersListed, Queued, Contains
  <1>4. \A q \in Sems : Ordered(k.queue[q], k.prio)
    BY <1>1, <1>2 DEF Ordered
  <1>5. Waits(k, pc, object)
    BY <1>1, <1>2, <1>3, <1>4, IpcAssumption DEF Waits
  <1>6. Runs(k, pc) /\ Detaching(k, pc, object, dying) /\ NoWaitWithToken
    BY <1>1, <1>2 DEF Runs, Detaching, NoWaitWithToken, NoWaiter
  <1>7. TypeOK
    BY <1>1, <1>2, SettledType DEF TypeOK, Points
  <1> QED BY <1>5, <1>6, <1>7 DEF SemInv

\* rt_sem_take: a token is taken, or the caller joins the waiters of a semaphore
\* without tokens.
LEMMA TakeStep ==
    ASSUME SemInv, NEW s \in Threads, NEW q \in Sems, NEW timed \in BOOLEAN, rt_sem_take(s, q, timed)
    PROVE  SemInv'
  <1>1. /\ k.current = s /\ s # Idle /\ pc[s] = "user" /\ k.stat[s] = "ready"
        /\ q \notin dying /\ dying' = dying
    BY RunningReady DEF rt_sem_take, Usable
  <1>2. /\ Waits(k, pc, object) /\ Runs(k, pc) /\ Detaching(k, pc, object, dying)
        /\ value \in [Sems -> 0 .. MaxValue] /\ dying \subseteq Deletable
        /\ pc \in [Threads -> Points] /\ object \in [Threads -> Sems]
        /\ \A r \in Sems : value[r] > 0 => k.queue[r] = << >>
    BY DEF SemInv, TypeOK, NoWaitWithToken, NoWaiter
  <1>3. CASE /\ value[q] > 0
             /\ value' = [value EXCEPT ![q] = @ - 1]
             /\ UNCHANGED <<k, pc, object>>
    <2>1. value' \in [Sems -> 0 .. MaxValue]
      <3>1. value[q] \in 0 .. MaxValue
        BY <1>2
      <3>2. value[q] - 1 \in 0 .. MaxValue
        BY <1>3, <3>1, SemaphoreAssumption
      <3> QED BY <1>2, <1>3, <3>2
    <2>2. \A r \in Sems : value'[r] > 0 => k'.queue[r] = << >>
      BY <1>2, <1>3
    <2> QED BY <1>1, <1>2, <1>3, <2>1, <2>2, Together
  <1>4. CASE /\ value[q] = 0
             /\ timed => q \notin Deletable
             /\ k' = Block([k EXCEPT !.error[s] = "RT_EOK"], q, s, flag[q], timed)
             /\ Goto(s, "blocked") /\ object' = [object EXCEPT ![s] = q]
             /\ UNCHANGED value
    <2>1. /\ pc' = [pc EXCEPT ![s] = "blocked"]
          /\ \A x \in Threads : x # s => pc'[x] = pc[x] /\ object'[x] = object[x]
          /\ pc'[s] = "blocked" /\ object'[s] = q
      BY <1>2, <1>4 DEF Goto
    <2>2. pc' \in [Threads -> Points] /\ object' \in [Threads -> Sems]
      BY <1>2, <1>4, <2>1 DEF Points
    <2>3. /\ Waits(k', pc', object') /\ Runs(k', pc') /\ k'.current = s
          /\ \A r \in Sems : r # q => k'.queue[r] = k.queue[r]
      <3>1. k' = Block([k EXCEPT !.error[s] = "RT_EOK"], q, s, flag[q], timed)
        BY <1>4
      <3>2. timed => q \notin Deletable
        BY <1>4
      <3>3. Waits(k, pc, object)
        BY <1>2
      <3>4. k.current = s /\ s # Idle /\ k.stat[s] = "ready"
        BY <1>1
      <3>5. \A x \in Threads : x # s => pc'[x] = pc[x] /\ object'[x] = object[x]
        BY <2>1
      <3>6. pc'[s] = "blocked" /\ object'[s] = q
        BY <2>1
      <3>7. HasBlocked(k, k', pc', object', s, q)
        BY ONLY <3>1, <3>2, <3>3, <3>4, <3>5, <3>6, s \in Threads, q \in Sems,
                timed \in BOOLEAN, BlockWaits
      <3> QED BY ONLY <3>7 DEF HasBlocked
    <2>4. Detaching(k', pc', object', dying)
      <3>1. \A r \in dying : k'.queue[r] = k.queue[r]
        BY <1>1, <1>2, <2>3, SemaphoreAssumption, IpcAssumption
      <3>2. \A x \in Threads : /\ pc'[x] = "resuming" <=> pc[x] = "resuming"
                               /\ pc[x] = "resuming" => object'[x] = object[x]
        BY <1>1, <2>1
      <3> QED BY <1>2, <3>1, <3>2, DetachingKept
    <2>5. \A r \in Sems : value'[r] > 0 => k'.queue[r] = << >>
      <3>1. value' = value /\ value[q] = 0
        BY <1>4
      <3> QED BY ONLY <3>1, <1>2, <2>3
    <2> QED BY <1>1, <1>2, <1>4, <2>2, <2>3, <2>4, <2>5, Together
  <1> QED BY <1>3, <1>4 DEF rt_sem_take

\* rt_sem_take returns.
LEMMA TakeReturnStep ==
    ASSUME SemInv, NEW s \in Threads, take_return(s)
    PROVE  SemInv'
  <1>1. k.current = s /\ s # Idle /\ pc[s] = "taking" /\ k.stat[s] = "ready"
    BY RunningReady DEF take_return
  <1>2. /\ Waits(k, pc, object) /\ Runs(k, pc) /\ Detaching(k, pc, object, dying)
        /\ value \in [Sems -> 0 .. MaxValue] /\ dying \subseteq Deletable
        /\ pc \in [Threads -> Points] /\ object \in [Threads -> Sems]
        /\ \A r \in Sems : value[r] > 0 => k.queue[r] = << >>
    BY DEF SemInv, TypeOK, NoWaitWithToken, NoWaiter
  <1>3. /\ pc' = [pc EXCEPT ![s] = "user"] /\ object' = [object EXCEPT ![s] = AnyQueue]
        /\ UNCHANGED <<k, value, dying>> /\ AnyQueue \in Sems
    BY SemaphoreAssumption DEF take_return, LeaveCall, LeaveTo, Goto, AnyQueue
  <1>4. /\ \A x \in Threads : x # s => pc'[x] = pc[x] /\ object'[x] = object[x]
        /\ pc'[s] = "user"
        /\ pc' \in [Threads -> Points] /\ object' \in [Threads -> Sems]
    BY <1>2, <1>3 DEF Points
  <1>5. Waits(k, pc', object')
    <2>1. Waits(k, pc, object) /\ k.stat[s] = "ready" /\ s # Idle
      BY <1>1, <1>2
    <2> QED BY ONLY <2>1, <1>4, s \in Threads, GoWaits
  <1>6. Runs(k, pc')
    BY <1>1 DEF Runs
  <1>7. Detaching(k, pc', object', dying)
    <2>1. \A x \in Threads : /\ pc'[x] = "resuming" <=> pc[x] = "resuming"
                             /\ pc[x] = "resuming" => object'[x] = object[x]
      BY <1>1, <1>4
    <2> QED BY ONLY <1>2, <2>1, DetachingKept
  <1> QED BY <1>2, <1>3, <1>4, <1>5, <1>6, <1>7, Together

\* The section of rt_sem_release, with or without the rt_schedule of a handler,
\* on a semaphore that is not being detached: who waits, and how the tokens are.
LEMMA ReleaseEffect ==
    ASSUME SemInv, NEW q \in Sems, q \notin dying, k.queue[q] # << >>
    PROVE  LET v == rt_ipc_list_resume(k, q)
           IN  /\ Waits(v, pc, object) /\ Runs(v, pc)
               /\ \A r \in Sems : k.queue[r] = << >> => v.queue[r] = << >>
               /\ \A r \in dying : v.queue[r] = k.queue[r]
  <1> DEFINE t == Head(k.queue[q])
             v == rt_ipc_list_resume(k, q)
  <1>1. Waits(k, pc, object) /\ Runs(k, pc) /\ dying \subseteq Sems
    BY SemaphoreAssumption, IpcAssumption DEF SemInv, TypeOK
  <1>2. t \in Threads /\ k.stat[t] = "suspend" /\ object[t] = q
    BY <1>1, FirstWaiter
  <1>3. MadeReady(k, v, t, k.error[t])
    BY <1>1, <1>2, ResumeSettled DEF rt_ipc_list_resume, Waits
  <1> HIDE DEF t, v
  <1>4. /\ Waits(v, pc, object) /\ Runs(v, pc)
        /\ \A r \in Queues : object[t] # r => v.queue[r] = k.queue[r]
    BY <1>1, <1>2, <1>3, WakeWaits
  <1>5. \A r \in Sems : r # q => v.queue[r] = k.queue[r]
    BY <1>2, <1>4, SemaphoreAssumption
  <1> QED BY <1>1, <1>4, <1>5 DEF v

\* A thread releases: the first waiter becomes ready, or the token is counted.
LEMMA ReleaseStep ==
    ASSUME SemInv, NEW s \in Threads, NEW q \in Sems, rt_sem_release(s, q)
    PROVE  SemInv'
  <1>1. /\ k.current = s /\ s # Idle /\ pc[s] = "user" /\ k.stat[s] = "ready"
        /\ q \notin dying /\ dying' = dying /\ object' = object
    BY RunningReady DEF rt_sem_release, Usable
  <1>2. /\ Waits(k, pc, object) /\ Runs(k, pc) /\ Detaching(k, pc, object, dying)
        /\ value \in [Sems -> 0 .. MaxValue] /\ dying \subseteq Deletable
        /\ pc \in [Threads -> Points] /\ object \in [Threads -> Sems]
        /\ \A r \in Sems : value[r] > 0 => k.queue[r] = << >>
    BY DEF SemInv, TypeOK, NoWaitWithToken, NoWaiter
  <1>3. CASE NoWaiter(q)
    <2>1. /\ value[q] < MaxValue /\ value' = [value EXCEPT ![q] = @ + 1]
          /\ UNCHANGED <<k, pc>>
      BY <1>3 DEF rt_sem_release, release
    <2>2. value' \in [Sems -> 0 .. MaxValue]
      <3>1. value[q] \in 0 .. MaxValue
        BY <1>2
      <3>2. value[q] + 1 \in 0 .. MaxValue
        BY <2>1, <3>1, SemaphoreAssumption
      <3> QED BY <1>2, <2>1, <3>2
    <2>3. \A r \in Sems : value'[r] > 0 => k'.queue[r] = << >>
      BY <1>2, <1>3, <2>1 DEF NoWaiter
    <2> QED BY <1>1, <1>2, <2>1, <2>2, <2>3, Together
  <1>4. CASE ~NoWaiter(q)
    <2>1. /\ k' = rt_ipc_list_resume(k, q) /\ value' = value
          /\ pc' = [pc EXCEPT ![s] = "schedule"]
      BY <1>4 DEF rt_sem_release, release, Goto
    <2>2. /\ \A x \in Threads : x # s => pc'[x] = pc[x]
          /\ pc'[s] = "schedule" /\ pc' \in [Threads -> Points]
      BY <1>2, <2>1 DEF Points
    <2>3. Waits(k, pc', object)
      BY <1>1, <1>2, <2>2, GoWaits
    <2>4. /\ Waits(k', pc, object) /\ Runs(k', pc)
          /\ \A r \in Sems : k.queue[r] = << >> => k'.queue[r] = << >>
          /\ \A r \in dying : k'.queue[r] = k.queue[r]
          /\ k'.stat[s] = "ready" /\ k'.current = s
      <3>1. q \notin dying /\ k.queue[q] # << >>
        BY <1>1, <1>4 DEF NoWaiter
      <3>2. k'.stat[s] = "ready" /\ k'.current = s
        <4> DEFINE t == Head(k.queue[q])
        <4>1. t \in Threads /\ k.stat[t] = "suspend"
          BY <1>2, <3>1, FirstWaiter
        <4>2. MadeReady(k, k', t, k.error[t])
          BY <1>2, <2>1, <4>1, ResumeSettled DEF rt_ipc_list_resume, Waits
        <4> HIDE DEF t
        <4>3. k.stat \in [Threads -> Stats]
          BY <1>2, SettledType DEF Waits
        <4> QED BY <1>1, <4>1, <4>2, <4>3 DEF MadeReady
      <3> QED BY <2>1, <3>1, <3>2, ReleaseEffect
    <2>5. Waits(k', pc', object)
      BY <1>1, <2>2, <2>4, GoWaits
    <2>6. Runs(k', pc')
      BY <2>4 DEF Runs
    <2>7. Detaching(k', pc', object, dying)
      <3>1. \A x \in Threads : pc'[x] = "resuming" <=> pc[x] = "resuming"
        BY <1>1, <2>2
      <3> QED BY ONLY <1>2, <2>4, <3>1, DetachingKept
    <2> QED BY <1>1, <1>2, <2>1, <2>2, <2>4, <2>5, <2>6, <2>7, Together
  <1> QED BY <1>3, <1>4

\* What SemInv says, as the lemmas about parts of steps need it.
LEMMA Parts ==
    ASSUME SemInv
    PROVE  /\ Waits(k, pc, object) /\ Runs(k, pc) /\ Detaching(k, pc, object, dying)
           /\ value \in [Sems -> 0 .. MaxValue] /\ dying \subseteq Deletable /\ Deletable \subseteq Sems
           /\ pc \in [Threads -> Points] /\ object \in [Threads -> Sems]
           /\ \A r \in Sems : value[r] > 0 => k.queue[r] = << >>
  BY SemaphoreAssumption, IpcAssumption DEF SemInv, TypeOK, NoWaitWithToken, NoWaiter

\* A waiter that becomes ready changes no list but its own.
LEMMA WakeEffect ==
    ASSUME SemInv, NEW t \in Threads, k.stat[t] = "suspend", NEW e, NEW v, MadeReady(k, v, t, e)
    PROVE  /\ Waits(v, pc, object) /\ Runs(v, pc) /\ v.current = k.current
           /\ \A r \in Sems : k.queue[r] = << >> => v.queue[r] = << >>
           /\ \A r \in Sems : r # object[t] => v.queue[r] = k.queue[r]
           /\ \A x \in Threads : x # t => v.stat[x] = k.stat[x]
  <1>1. /\ Waits(k, pc, object) /\ Runs(k, pc) /\ object[t] \in Sems /\ Queues = Sems
    BY Parts, SemaphoreAssumption
  <1>2. /\ Waits(v, pc, object) /\ Runs(v, pc) /\ v.current = k.current
        /\ \A r \in Queues : object[t] # r => v.queue[r] = k.queue[r]
        /\ \A x \in Threads : v.stat[x] = IF x = t THEN "ready" ELSE k.stat[x]
    BY ONLY <1>1, k.stat[t] = "suspend", t \in Threads, MadeReady(k, v, t, e), WakeWaits
  <1>3. k.queue[object[t]] # << >>
    <2>1. Contains(k.queue[object[t]], t)
      BY <1>1 DEF Waits, WaitersListed, Queued
    <2> QED BY <1>1, <2>1, FirstWaiter
  <1> QED BY <1>1, <1>2, <1>3

\* A section that ends in rt_schedule, and that leaves the dying objects and
\* the threads' calls alone.
LEMMA RescheduleStep ==
    ASSUME SemInv, NEW v, Waits(v, pc, object),
           \A r \in dying : v.queue[r] = k.queue[r],
           \A r \in Sems : k.queue[r] = << >> => v.queue[r] = << >>,
           k' = rt_schedule(v), UNCHANGED <<pc, object, dying, value>>
    PROVE  SemInv'
  <1>1. /\ Waits(k', pc, object) /\ k'.current \in Threads /\ k'.stat[k'.current] = "ready"
        /\ k'.queue = v.queue
    BY ScheduleWaits
  <1>2. Detaching(k', pc, object, dying)
    <2>1. \A r \in dying : k'.queue[r] = k.queue[r]
      BY <1>1
    <2>2. Detaching(k, pc, object, dying)
      BY Parts
    <2> QED BY ONLY <2>1, <2>2, DetachingKept
  <1>3. Runs(k', pc)
    BY <1>1 DEF Runs
  <1> QED BY <1>1, <1>2, <1>3, Parts, Together

\* rt_sem_control: the waiters leave the list before the counter is set.
LEMMA ControlStep ==
    ASSUME SemInv, NEW s \in Threads, NEW q \in Sems, rt_sem_control(s, q)
    PROVE  SemInv'
  <1>1. /\ k.current = s /\ s # Idle /\ pc[s] = "user" /\ k.stat[s] = "ready"
        /\ q \notin dying /\ dying' = dying /\ object' = object /\ k' = resume_all(k, q)
    BY RunningReady DEF rt_sem_control, Usable
  <1>2. Waits(k, pc, object) /\ Runs(k, pc)
    BY Parts
  <1>3. /\ Waits(k', pc, object) /\ k'.current = s /\ k'.queue[q] = << >>
        /\ \A r \in Sems : r # q => k'.queue[r] = k.queue[r]
        /\ \A x \in Threads : k'.stat[x] = IF Queued(k, q, x) THEN "ready" ELSE k.stat[x]
    BY <1>1, <1>2, ResetWaits
  <1>4. k'.stat[s] = "ready"
    BY <1>1, <1>3
  <1>5. /\ \A x \in Threads : x # s => pc'[x] = pc[x] /\ object'[x] = object[x]
        /\ pc'[s] = "schedule" /\ pc' \in [Threads -> Points]
    BY <1>1, Parts DEF rt_sem_control, Goto, Points
  <1>6. Waits(k', pc', object')
    BY ONLY <1>1, <1>3, <1>4, <1>5, s \in Threads, GoWaits
  <1>7. Runs(k', pc')
    BY <1>3, <1>4 DEF Runs
  <1>8. Detaching(k', pc', object', dying)
    <2>1. \A r \in dying : k'.queue[r] = k.queue[r]
      BY <1>1, <1>3, Parts
    <2>2. \A x \in Threads : /\ pc'[x] = "resuming" <=> pc[x] = "resuming"
                             /\ pc[x] = "resuming" => object'[x] = object[x]
      BY <1>1, <1>5
    <2>3. Detaching(k, pc, object, dying)
      BY Parts
    <2> QED BY ONLY <2>1, <2>2, <2>3, DetachingKept
  <1>9. value' \in [Sems -> 0 .. MaxValue] /\ \A r \in Sems : value'[r] > 0 => k'.queue[r] = << >>
    BY <1>3, Parts DEF rt_sem_control
  <1> QED BY <1>1, <1>5, <1>6, <1>7, <1>8, <1>9, Parts, Together

\* The detach begins: if somebody waits, the caller goes into the loop.
LEMMA DetachStep ==
    ASSUME SemInv, NEW s \in Threads, NEW q \in Sems, rt_sem_detach(s, q)
    PROVE  SemInv'
  <1>1. /\ k.current = s /\ s # Idle /\ pc[s] = "user" /\ k.stat[s] = "ready"
        /\ q \in Deletable /\ q \notin dying /\ dying' = dying \cup {q} /\ k' = k /\ value' = value
    BY RunningReady DEF rt_sem_detach, detach, Usable
  <1>2. Waits(k, pc, object) /\ Detaching(k, pc, object, dying)
    BY Parts
  <1>3. dying' \subseteq Deletable
    BY <1>1, Parts
  <1>4. CASE NoWaiter(q)
    <2>1. UNCHANGED <<pc, object>> /\ k.queue[q] = << >>
      BY <1>4 DEF rt_sem_detach, detach, NoWaiter
    <2>2. Detaching(k, pc, object, dying')
      BY <1>1, <1>2, <2>1 DEF Detaching
    <2> QED BY <1>1, <1>3, <2>1, <2>2, Parts, Together
  <1>5. CASE ~NoWaiter(q)
    <2>1. /\ \A x \in Threads : x # s => pc'[x] = pc[x] /\ object'[x] = object[x]
          /\ pc'[s] = "resuming" /\ object'[s] = q
          /\ pc' \in [Threads -> Points] /\ object' \in [Threads -> Sems]
      BY <1>5, Parts DEF rt_sem_detach, detach, Goto, Points
    <2>2. Waits(k, pc', object')
      BY ONLY <1>1, <1>2, <2>1, s \in Threads, GoWaits
    <2>3. Runs(k, pc')
      BY <1>1 DEF Runs
    <2>4. Detaching(k, pc', object', dying')
      <3>1. \A x \in Threads : pc[x] = "resuming" => object[x] \in dying /\ object[x] # q
        BY <1>1, <1>2 DEF Detaching
      <3>2. \A x \in Threads : pc'[x] = "resuming" => object'[x] \in dying' /\ k.queue[object'[x]] # << >>
        <4>1. k.queue[q] # << >>
          BY <1>5 DEF NoWaiter
        <4> QED BY <1>1, <1>2, <2>1, <4>1 DEF Detaching
      <3>3. \A x, y \in Threads : pc'[x] = "resuming" /\ pc'[y] = "resuming" /\ object'[x] = object'[y] => x = y
        BY <1>2, <2>1, <3>1 DEF Detaching
      <3>4. ASSUME NEW r \in dying', \A x \in Threads : ~(pc'[x] = "resuming" /\ object'[x] = r)
            PROVE  k.queue[r] = << >>
        <4>1. r # q /\ r \in dying
          BY <1>1, <2>1, <3>4
        <4>2. \A x \in Threads : ~(pc[x] = "resuming" /\ object[x] = r)
          BY <1>1, <2>1, <3>4
        <4> QED BY <1>2, <4>1, <4>2 DEF Detaching
      <3> QED BY <3>2, <3>3, <3>4 DEF Detaching
    <2> QED BY <1>1, <1>3, <2>1, <2>2, <2>3, <2>4, Parts, Together
  <1> QED BY <1>4, <1>5

\* One turn of the loop; after the last waiter the detach is through.
LEMMA ResumeOneStep ==
    ASSUME SemInv, NEW s \in Threads, resume_one(s), UNCHANGED value
    PROVE  SemInv'
  <1> DEFINE q == object[s]
             t == Head(k.queue[q])
  <1>1. /\ k.current = s /\ s # Idle /\ pc[s] = "resuming" /\ k.stat[s] = "ready"
        /\ dying' = dying /\ k' = turn_away(k, t) /\ q \in Sems
    BY RunningReady DEF resume_one
  <1>2. Waits(k, pc, object) /\ Detaching(k, pc, object, dying)
    BY Parts
  <1>3. q \in dying /\ k.queue[q] # << >>
    BY <1>1, <1>2 DEF Detaching
  <1>4. t \in Threads /\ k.stat[t] = "suspend" /\ object[t] = q
    BY <1>1, <1>2, <1>3, FirstWaiter
  <1>5. IF k'.queue[q] = << >> THEN LeaveCall(s) ELSE UNCHANGED <<pc, object>>
    BY DEF resume_one
  <1> HIDE DEF t
  <1>6. MadeReady(k, k', t, "RT_ERROR")
    BY <1>1, <1>2, <1>4, TurnAwaySettled DEF Waits
  <1>7. /\ Waits(k', pc, object) /\ Runs(k', pc) /\ k'.current = s
        /\ \A r \in Sems : k.queue[r] = << >> => k'.queue[r] = << >>
        /\ \A r \in Sems : r # q => k'.queue[r] = k.queue[r]
        /\ \A x \in Threads : x # t => k'.stat[x] = k.stat[x]
    BY <1>1, <1>4, <1>6, WakeEffect
  <1>8. k'.stat[s] = "ready"
    BY <1>1, <1>4, <1>7
  <1> HIDE DEF q
  <1>9. \A x \in Threads : x # s /\ pc[x] = "resuming" => object[x] # q
    BY <1>1, <1>2 DEF Detaching, q
  <1>10. dying \subseteq Sems
    BY Parts
  <1>11. CASE k'.queue[q] = << >>
    <2>1. /\ \A x \in Threads : x # s => pc'[x] = pc[x] /\ object'[x] = object[x]
          /\ pc'[s] = "user" /\ pc' \in [Threads -> Points] /\ object' \in [Threads -> Sems]
      BY <1>5, <1>11, Parts, SemaphoreAssumption DEF LeaveCall, LeaveTo, Goto, Points, AnyQueue
    <2>2. Waits(k', pc', object')
      BY ONLY <1>1, <1>7, <1>8, <2>1, s \in Threads, GoWaits
    <2>3. Runs(k', pc')
      BY <1>7, <1>8 DEF Runs
    <2>4. Detaching(k', pc', object', dying)
      <3>1. \A x \in Threads : pc'[x] = "resuming" =>
               x # s /\ pc[x] = "resuming" /\ object'[x] = object[x] /\ object[x] # q
        BY <1>9, <2>1
      <3>2. \A x \in Threads : pc'[x] = "resuming" => object'[x] \in dying /\ k'.queue[object'[x]] # << >>
        BY <1>2, <1>7, <1>10, <3>1 DEF Detaching
      <3>3. \A x, y \in Threads : pc'[x] = "resuming" /\ pc'[y] = "resuming" /\ object'[x] = object'[y] => x = y
        BY <1>2, <3>1 DEF Detaching
      <3>4. ASSUME NEW r \in dying, \A x \in Threads : ~(pc'[x] = "resuming" /\ object'[x] = r)
            PROVE  k'.queue[r] = << >>
        <4>1. CASE r = q
          BY <1>11, <4>1
        <4>2. CASE r # q
          <5>1. \A x \in Threads : ~(pc[x] = "resuming" /\ object[x] = r)
            BY <2>1, <3>4, <4>2 DEF q
          <5> QED BY <1>2, <1>7, <1>10, <4>2, <5>1 DEF Detaching
        <4> QED BY <4>1, <4>2
      <3> QED BY <3>2, <3>3, <3>4 DEF Detaching
    <2> QED BY <1>1, <1>7, <2>1, <2>2, <2>3, <2>4, Parts, Together
  <1>12. CASE k'.queue[q] # << >>
    <2>1. pc' = pc /\ object' = object
      BY <1>5, <1>12
    <2>2. Detaching(k', pc, object, dying)
      <3>1. \A x \in Threads : pc[x] = "resuming" => object[x] \in dying /\ k'.queue[object[x]] # << >>
        BY <1>2, <1>7, <1>10, <1>12 DEF Detaching
      <3>2. ASSUME NEW r \in dying, \A x \in Threads : ~(pc[x] = "resuming" /\ object[x] = r)
            PROVE  k'.queue[r] = << >>
        <4>1. k.queue[r] = << >>
          BY <1>2, <3>2 DEF Detaching
        <4> QED BY <1>7, <1>10, <4>1
      <3> QED BY <1>2, <3>1, <3>2 DEF Detaching
    <2> QED BY <1>1, <1>7, <2>1, <2>2, Parts, Together
  <1> QED BY <1>11, <1>12

\* The thread that has blocked switches away.
LEMMA BlockedStep ==
    ASSUME SemInv, NEW s \in Threads, ScheduleStep(s, "blocked", "taking"), UNCHANGED value
    PROVE  SemInv'
  <1>1. /\ k.current = s /\ s # Idle /\ pc[s] = "blocked"
        /\ dying' = dying /\ object' = object /\ k' = rt_schedule(k) /\ pc' = [pc EXCEPT ![s] = "taking"]
    BY RunningReady DEF ScheduleStep, Goto
  <1>2. /\ Waits(k', pc, object) /\ k'.current \in Threads /\ k'.stat[k'.current] = "ready"
        /\ k'.queue = k.queue
    BY <1>1, Parts, ScheduleWaits
  <1>3. /\ \A x \in Threads : x # s => pc'[x] = pc[x]
        /\ pc'[s] = "taking" /\ pc' \in [Threads -> Points]
    BY <1>1, Parts DEF Points
  <1>4. Waits(k', pc', object)
    <2>1. \A x \in Threads : pc'[x] \in TakePoints <=> pc[x] \in TakePoints
      BY <1>1, <1>3 DEF TakePoints
    <2>2. pc'[Idle] = "user"
      BY <1>1, <1>2, <1>3, IpcAssumption DEF Waits
    <2> QED BY <1>2, <2>1, <2>2 DEF Waits, WaitersListed
  <1>5. Runs(k', pc')
    BY <1>2 DEF Runs
  <1>6. Detaching(k', pc', object, dying)
    <2>1. Detaching(k, pc, object, dying)
      BY Parts
    <2>2. \A x \in Threads : pc'[x] = "resuming" <=> pc[x] = "resuming"
      BY <1>1, <1>3
    <2> QED BY ONLY <1>2, <2>1, <2>2, DetachingKept
  <1> QED BY <1>1, <1>2, <1>3, <1>4, <1>5, <1>6, Parts, Together

\* The rt_schedule at the end of a call.
LEMMA LeaveStep ==
    ASSUME SemInv, NEW s \in Threads, ScheduleStep(s, "schedule", "user"), UNCHANGED value
    PROVE  SemInv'
  <1>1. /\ k.current = s /\ s # Idle /\ pc[s] = "schedule" /\ k.stat[s] = "ready"
        /\ dying' = dying /\ object' = object /\ k' = rt_schedule(k) /\ pc' = [pc EXCEPT ![s] = "user"]
    BY RunningReady DEF ScheduleStep, Goto
  <1>2. /\ Waits(k', pc, object) /\ k'.current \in Threads /\ k'.stat[k'.current] = "ready"
        /\ k'.queue = k.queue /\ k'.stat[s] = "ready"
    BY <1>1, Parts, ScheduleWaits
  <1>3. /\ \A x \in Threads : x # s => pc'[x] = pc[x] /\ object'[x] = object[x]
        /\ pc'[s] = "user" /\ pc' \in [Threads -> Points]
    BY <1>1, Parts DEF Points
  <1>4. Waits(k', pc', object')
    BY ONLY <1>1, <1>2, <1>3, s \in Threads, GoWaits
  <1>5. Runs(k', pc')
    BY <1>2 DEF Runs
  <1>6. Detaching(k', pc', object, dying)
    <2>1. Detaching(k, pc, object, dying)
      BY Parts
    <2>2. \A x \in Threads : pc'[x] = "resuming" <=> pc[x] = "resuming"
      BY <1>1, <1>3
    <2> QED BY ONLY <1>2, <2>1, <2>2, DetachingKept
  <1> QED BY <1>1, <1>2, <1>3, <1>4, <1>5, <1>6, Parts, Together

\* A handler releases a semaphore, which is none that a thread detaches.
LEMMA IsrReleaseStep ==
    ASSUME SemInv, NEW q \in Sems, isr_release(q)
    PROVE  SemInv'
  <1>1. q \notin dying /\ pc' = pc /\ object' = object /\ dying' = dying
    BY Parts DEF isr_release
  <1>2. CASE NoWaiter(q)
    <2>1. /\ value[q] < MaxValue /\ value' = [value EXCEPT ![q] = @ + 1] /\ k' = k
      BY <1>2 DEF isr_release, release
    <2>2. value' \in [Sems -> 0 .. MaxValue]
      <3>1. value \in [Sems -> 0 .. MaxValue] /\ value[q] \in 0 .. MaxValue
        BY Parts
      <3>2. value[q] + 1 \in 0 .. MaxValue
        BY <2>1, <3>1, SemaphoreAssumption
      <3> QED BY <3>1, <2>1, <3>2
    <2>3. \A r \in Sems : value'[r] > 0 => k'.queue[r] = << >>
      BY <1>2, <2>1, Parts DEF NoWaiter
    <2> QED BY <1>1, <2>1, <2>2, <2>3, Parts, Together
  <1>3. CASE ~NoWaiter(q)
    <2> DEFINE v == rt_ipc_list_resume(k, q)
    <2>1. k' = rt_schedule(v) /\ value' = value /\ k.queue[q] # << >>
      BY <1>3 DEF isr_release, NoWaiter
    <2>2. /\ Waits(v, pc, object)
          /\ \A r \in Sems : k.queue[r] = << >> => v.queue[r] = << >>
          /\ \A r \in dying : v.queue[r] = k.queue[r]
      BY <1>1, <2>1, ReleaseEffect
    <2> HIDE DEF v
    <2> QED BY <1>1, <2>1, <2>2, RescheduleStep
  <1> QED BY <1>2, <1>3

\* The slice of the current thread ends.
LEMMA TickYieldStep ==
    ASSUME SemInv, tick_yield, UNCHANGED value
    PROVE  SemInv'
  <1> DEFINE v == move_to_tail(k)
  <1>1. k.stat[k.current] = "ready" /\ k' = rt_schedule(v) /\ UNCHANGED <<pc, object, dying>>
    BY DEF tick_yield, MovesToTail
  <1>2. Waits(k, pc, object) /\ k.current \in Threads
    BY Parts DEF Runs
  <1>3. /\ Settled(v) /\ v.stat = k.stat /\ v.error = k.error /\ v.timer = k.timer
        /\ v.queue = k.queue /\ v.prio = k.prio
    BY <1>1, <1>2, MoveSettled DEF Waits
  <1> HIDE DEF v
  <1>4. Waits(v, pc, object)
    BY <1>2, <1>3 DEF Waits, WaitersListed, Queued
  <1> QED BY <1>1, <1>3, <1>4, RescheduleStep

\* The timer of a waiter runs out; its semaphore is none that a thread
\* detaches.
LEMMA TimeoutStep ==
    ASSUME SemInv, NEW t \in Threads, timeout(t), UNCHANGED value
    PROVE  SemInv'
  <1> DEFINE v == rt_thread_timeout(k, t)
  <1>1. t \in k.timer /\ k' = rt_schedule(v) /\ UNCHANGED <<pc, object, dying>>
    BY DEF timeout
  <1>2. Settled(k) /\ k.stat[t] = "suspend" /\ object[t] \notin Deletable
    BY <1>1, Parts DEF Waits, Settled
  <1>3. MadeReady(k, v, t, "RT_ETIMEOUT")
    BY <1>2, TimeoutSettled
  <1> HIDE DEF v
  <1>4. /\ Waits(v, pc, object)
        /\ \A r \in Sems : k.queue[r] = << >> => v.queue[r] = << >>
        /\ \A r \in Sems : r # object[t] => v.queue[r] = k.queue[r]
    BY <1>2, <1>3, WakeEffect
  <1>5. \A r \in dying : v.queue[r] = k.queue[r]
    BY <1>2, <1>4, Parts
  <1> QED BY <1>1, <1>4, <1>5, RescheduleStep

\* Every step keeps the invariant.
LEMMA StepHolds == SemInv /\ [Next]_vars => SemInv'
  <1> SUFFICES ASSUME SemInv, [Next]_vars PROVE SemInv'
    OBVIOUS
  <1>1. ASSUME NEW s \in Threads, NEW q \in Sems,
               \/ \E timed \in BOOLEAN : rt_sem_take(s, q, timed)
               \/ rt_sem_release(s, q) \/ rt_sem_control(s, q) \/ rt_sem_detach(s, q)
        PROVE  SemInv'
    BY <1>1, TakeStep, ReleaseStep, ControlStep, DetachStep
  <1>2. ASSUME NEW s \in Threads,
               \/ take_return(s)
               \/ resume_one(s) /\ UNCHANGED value
               \/ ScheduleStep(s, "blocked", "taking") /\ UNCHANGED value
               \/ ScheduleStep(s, "schedule", "user") /\ UNCHANGED value
        PROVE  SemInv'
    BY <1>2, TakeReturnStep, ResumeOneStep, BlockedStep, LeaveStep
  <1>3. ASSUME NEW q \in Sems, isr_release(q) PROVE SemInv'
    BY <1>3, IsrReleaseStep
  <1>4. ASSUME tick_yield, UNCHANGED value PROVE SemInv'
    BY <1>4, TickYieldStep
  <1>5. ASSUME NEW t \in Threads, timeout(t), UNCHANGED value PROVE SemInv'
    BY <1>5, TimeoutStep
  <1>6. ASSUME UNCHANGED vars PROVE SemInv'
    BY <1>6, Parts, Together DEF vars
  <1> QED BY <1>1, <1>2, <1>3, <1>4, <1>5, <1>6 DEF Next

-----------------------------------------------------------------------------
(* Theorems *)

\* Who waits, who runs and who detaches, in every state.
THEOREM Invariance == Spec => []SemInv
  BY InitHolds, StepHolds, PTL DEF Spec

\* The fields keep their types: the counter stays between 0 and its limit, and
\* every list holds threads.
THEOREM TypeCorrect == Spec => []TypeOK
  <1>1. SemInv => TypeOK
    BY DEF SemInv
  <1> QED BY <1>1, Invariance, PTL

\* A thread is on the list of a semaphore exactly while it is suspended in
\* rt_sem_take on it; a running timer belongs to such a thread, and the list of
\* a priority semaphore is ordered.
THEOREM WaitersListedRight == Spec => []WaitListOK
  <1>1. SemInv => WaitListOK
    <2> SUFFICES ASSUME SemInv PROVE WaitListOK
      OBVIOUS
    <2>1. Waits(k, pc, object) /\ Queues = Sems
      BY SemaphoreAssumption, Parts
    <2>2. Settled(k) /\ WaitersListed(k, pc, object, TakePoints)
      BY <2>1 DEF Waits
    <2>3. \A q \in Sems : IsInjective(k.queue[q])
      BY <2>1, <2>2, SettledType
    <2>4. \A q \in Sems : flag[q] = "RT_IPC_FLAG_PRIO" =>
             \A i, j \in DOMAIN k.queue[q] :
                i < j => k.prio[k.queue[q][i]] <= k.prio[k.queue[q][j]]
      BY <2>1 DEF Waits, Ordered
    <2>5. \A t \in k.timer : k.stat[t] = "suspend"
      BY <2>2 DEF Settled
    <2>6. \A t \in Threads, q \in Sems :
             Contains(k.queue[q], t) <=> InTake(t, q) /\ k.stat[t] = "suspend"
      BY <2>1, <2>2 DEF WaitersListed, Queued, InTake, TakePoints
    <2> QED BY <2>3, <2>4, <2>5, <2>6 DEF WaitListOK
  <1> QED BY <1>1, Invariance, PTL

\* No lost wakeup: a token that is there while somebody waits would have been
\* released between the look at the counter and the suspension of the waiter,
\* or counted twice.
THEOREM NoLostWakeup == Spec => []NoWaitWithToken
  <1>1. SemInv => NoWaitWithToken
    BY DEF SemInv
  <1> QED BY <1>1, Invariance, PTL

\* The loop of rt_ipc_list_resume_all never takes the head of an empty list for
\* a thread and leaves nobody behind.
THEOREM DetachIsSafe == Spec => []DetachSafe
  <1>1. SemInv => DetachSafe
    <2> SUFFICES ASSUME SemInv PROVE DetachSafe
      OBVIOUS
    <2> QED BY Parts DEF DetachSafe, Detaching, NoWaiter
  <1> QED BY <1>1, Invariance, PTL

-----------------------------------------------------------------------------
(* Each semaphore implements a counting semaphore *)

\* Asking, of a table and the calls the threads are in.
Ask(u, at, on, q) ==
    [t \in Clients |-> IF ~(at[t] \in TakePoints /\ on[t] = q) THEN "none"
                       ELSE IF u.stat[t] = "suspend" THEN "waiting"
                       ELSE Outcome(u.error[t])]

\* The mapping before and after a step.
LEMMA Asked ==
    ASSUME NEW q
    PROVE  Asking(q) = Ask(k, pc, object, q) /\ Asking(q)' = Ask(k', pc', object', q)
  BY DEF Asking, Ask, InTake, TakePoints

\* Nothing becomes of a request while its thread stays as it is.
LEMMA AskSame ==
    ASSUME NEW u, NEW at, NEW on, NEW v, NEW bt, NEW bn, NEW q,
           \A x \in Clients :
               /\ at[x] \in TakePoints /\ on[x] = q <=> bt[x] \in TakePoints /\ bn[x] = q
               /\ at[x] \in TakePoints /\ on[x] = q =>
                     v.stat[x] = u.stat[x] /\ v.error[x] = u.error[x]
    PROVE  Ask(v, bt, bn, q) = Ask(u, at, on, q)
  BY DEF Ask

\* A thread that wakes has its request answered, on the object it waits on.
LEMMA AskWoken ==
    ASSUME NEW u, NEW at, NEW on, Waits(u, at, on), NEW t \in Threads, u.stat[t] = "suspend",
           NEW e, NEW v, MadeReady(u, v, t, e), NEW q
    PROVE  /\ t \in Clients
           /\ on[t] = q => /\ Ask(u, at, on, q)[t] = "waiting"
                           /\ Ask(v, at, on, q) = [Ask(u, at, on, q) EXCEPT ![t] = Outcome(e)]
           /\ on[t] # q => Ask(v, at, on, q) = Ask(u, at, on, q)
  <1>1. /\ \A x \in Threads : v.stat[x] = IF x = t THEN "ready" ELSE u.stat[x]
        /\ \A x \in Threads : v.error[x] = IF x = t THEN e ELSE u.error[x]
    BY WakeWaits
  <1>2. t \in Clients /\ at[t] \in TakePoints /\ Clients \subseteq Threads
    BY DEF Waits, Clients
  <1>3. ASSUME on[t] = q
        PROVE  /\ Ask(u, at, on, q)[t] = "waiting"
               /\ Ask(v, at, on, q) = [Ask(u, at, on, q) EXCEPT ![t] = Outcome(e)]
    BY <1>1, <1>2, <1>3 DEF Ask
  <1>4. ASSUME on[t] # q PROVE Ask(v, at, on, q) = Ask(u, at, on, q)
    BY <1>1, <1>2, <1>4, AskSame
  <1> QED BY <1>2, <1>3, <1>4

\* The waiters of the counting semaphore are the threads on the list.
LEMMA AskWaiting ==
    ASSUME SemInv, NEW q \in Sems
    PROVE  /\ \A x \in Clients : Asking(q)[x] = "waiting" <=> Contains(k.queue[q], x)
           /\ NoWaiter(q) <=> Counting(q)!Waiters = {}
  <1>1. /\ Waits(k, pc, object) /\ q \in Queues
        /\ WaitersListed(k, pc, object, TakePoints)
    BY Parts, SemaphoreAssumption DEF Waits
  <1>2. \A e \in Errors : Outcome(e) # "waiting"
    BY DEF Errors, Outcome
  <1>3. \A x \in Clients : x \in Threads /\ k.error[x] \in Errors
    BY <1>1, SettledType DEF Waits, Clients
  <1>4. \A x \in Clients : Asking(q)[x] = "waiting" <=> Contains(k.queue[q], x)
    BY <1>1, <1>2, <1>3 DEF Asking, InTake, WaitersListed, TakePoints, Queued
  <1>5. \A x : Contains(k.queue[q], x) => x \in Clients
    <2>1. k.queue[q] \in Seq(Threads)
      BY <1>1, SettledType DEF Waits
    <2>2. ~Contains(k.queue[q], Idle)
      BY <1>1, IpcAssumption DEF WaitersListed, Queued, Waits
    <2>3. \A x : Contains(k.queue[q], x) => x \in Threads
      BY <2>1, EmptyList
    <2> QED BY <2>2, <2>3 DEF Clients
  <1>6. NoWaiter(q) <=> \A x : ~Contains(k.queue[q], x)
    BY <1>1, FirstWaiter DEF NoWaiter
  <1> QED BY <1>4, <1>5, <1>6 DEF Counting!Waiters

\* What a step of the system is for semaphore q.
Simulated(q) == [Counting(q)!Next]_<<value[q], Asking(q)>>

\* A step that changes no token and answers nobody is none for the counting
\* semaphore.
LEMMA Stutters ==
    ASSUME NEW q, value'[q] = value[q], Ask(k', pc', object', q) = Ask(k, pc, object, q)
    PROVE  Simulated(q)
  BY Asked DEF Simulated

\* No thread enters rt_sem_take or leaves it.
TakersStay ==
    \A x \in Clients :
        /\ pc'[x] \in TakePoints <=> pc[x] \in TakePoints
        /\ pc[x] \in TakePoints => object'[x] = object[x]

\* A waiter of one semaphore becomes ready: its request is answered.
LEMMA WakeMaps ==
    ASSUME SemInv, NEW t \in Threads, k.stat[t] = "suspend", NEW e, NEW v, MadeReady(k, v, t, e),
           k'.stat = v.stat, k'.error = v.error,
           TakersStay, NEW q \in Sems
    PROVE  /\ t \in Clients
           /\ object[t] = q => /\ Asking(q)[t] = "waiting"
                               /\ Asking(q)' = [Asking(q) EXCEPT ![t] = Outcome(e)]
           /\ object[t] # q => Asking(q)' = Asking(q)
  <1>1. Waits(k, pc, object) /\ \A x \in Clients : x \in Threads /\ object[x] \in Sems
    BY Parts DEF Clients
  <1>2. /\ t \in Clients
        /\ object[t] = q => /\ Ask(k, pc, object, q)[t] = "waiting"
                            /\ Ask(v, pc, object, q) = [Ask(k, pc, object, q) EXCEPT ![t] = Outcome(e)]
        /\ object[t] # q => Ask(v, pc, object, q) = Ask(k, pc, object, q)
    BY <1>1, AskWoken
  <1>3. Ask(k', pc', object', q) = Ask(v, pc, object, q)
    <2>1. \A x \in Clients : pc[x] \in TakePoints /\ object[x] = q <=> pc'[x] \in TakePoints /\ object'[x] = q
      BY DEF TakersStay
    <2> QED BY <2>1, AskSame
  <1> QED BY <1>2, <1>3, Asked

\* rt_sem_take takes a token, or waits for one.
LEMMA TakeMaps ==
    ASSUME SemInv, NEW s \in Threads, NEW r \in Sems, NEW timed \in BOOLEAN, rt_sem_take(s, r, timed),
           NEW q \in Sems
    PROVE  Simulated(q)
  <1>1. /\ k.current = s /\ s # Idle /\ pc[s] = "user" /\ k.stat[s] = "ready" /\ s \in Clients
    BY RunningReady DEF rt_sem_take, Clients
  <1>2. /\ Waits(k, pc, object) /\ value \in [Sems -> 0 .. MaxValue]
        /\ pc \in [Threads -> Points] /\ object \in [Threads -> Sems]
    BY Parts
  <1>3. Asking(q)[s] = "none"
    BY <1>1 DEF Asking, InTake
  <1>4. CASE value[r] > 0 /\ value' = [value EXCEPT ![r] = @ - 1] /\ UNCHANGED <<k, pc, object>>
    <2>1. Asking(q)' = Asking(q)
      BY <1>4, Asked, AskSame
    <2>2. CASE q = r
      <3>1. Counting(q)!Take(s)
        BY <1>2, <1>3, <1>4, <2>1, <2>2 DEF Counting!Take
      <3> QED BY <1>1, <3>1 DEF Simulated, Counting!Next
    <2>3. CASE q # r
      BY <1>2, <1>4, <2>1, <2>3 DEF Simulated
    <2> QED BY <2>2, <2>3
  <1>5. CASE /\ value[r] = 0
             /\ timed => r \notin Deletable
             /\ k' = Block([k EXCEPT !.error[s] = "RT_EOK"], r, s, flag[r], timed)
             /\ Goto(s, "blocked") /\ object' = [object EXCEPT ![s] = r]
             /\ UNCHANGED value
    <2>1. /\ \A x \in Threads : x # s => pc'[x] = pc[x] /\ object'[x] = object[x]
          /\ pc'[s] = "blocked" /\ object'[s] = r
      BY <1>2, <1>5 DEF Goto
    <2>2. /\ \A x \in Threads : k'.stat[x] = IF x = s THEN "suspend" ELSE k.stat[x]
          /\ \A x \in Threads : x # s => k'.error[x] = k.error[x]
      <3>1. k' = Block([k EXCEPT !.error[s] = "RT_EOK"], r, s, flag[r], timed)
        BY <1>5
      <3>2. timed => r \notin Deletable
        BY <1>5
      <3>3. k.current = s /\ s # Idle /\ k.stat[s] = "ready" /\ Waits(k, pc, object)
        BY <1>1, <1>2
      <3>4. HasBlocked(k, k', pc', object', s, r)
        <4>1. k.current = s /\ s # Idle /\ k.stat[s] = "ready"
          BY <3>3
        <4>2. Waits(k, pc, object)
          BY <3>3
        <4>3. \A x \in Threads : x # s => pc'[x] = pc[x] /\ object'[x] = object[x]
          BY <2>1
        <4>4. pc'[s] = "blocked" /\ object'[s] = r
          BY <2>1
        <4> QED BY ONLY <3>1, <3>2, <4>1, <4>2, <4>3, <4>4, s \in Threads, r \in Sems,
                        timed \in BOOLEAN, BlockWaits
      <3> QED BY ONLY <3>4 DEF HasBlocked
    <2>3. CASE q = r
      <3>1. Ask(k', pc', object', q) = [Ask(k, pc, object, q) EXCEPT ![s] = "waiting"]
        BY <1>1, <2>1, <2>2, <2>3 DEF Ask, TakePoints, Clients
      <3>2. Counting(q)!Wait(s)
        BY <1>3, <1>5, <2>3, <3>1, Asked DEF Counting!Wait, Counting!Set
      <3> QED BY <1>1, <3>2 DEF Simulated, Counting!Next
    <2>4. CASE q # r
      <3>1. Ask(k', pc', object', q) = Ask(k, pc, object, q)
        BY <1>1, <2>1, <2>2, <2>4 DEF Ask, TakePoints, Clients
      <3> QED BY <1>5, <3>1, Stutters
    <2> QED BY <2>3, <2>4
  <1> QED BY <1>4, <1>5 DEF rt_sem_take

\* rt_sem_take returns with the outcome.
LEMMA TakeReturnMaps ==
    ASSUME SemInv, NEW s \in Threads, take_return(s), NEW q \in Sems
    PROVE  Simulated(q)
  <1>1. /\ k.current = s /\ s # Idle /\ pc[s] = "taking" /\ k.stat[s] = "ready" /\ s \in Clients
    BY RunningReady DEF take_return, Clients
  <1>2. /\ pc \in [Threads -> Points] /\ object \in [Threads -> Sems] /\ k.error[s] \in Errors
    BY Parts, SettledType DEF Waits
  <1>3. /\ UNCHANGED <<k, value>>
        /\ \A x \in Threads : x # s => pc'[x] = pc[x] /\ object'[x] = object[x]
        /\ pc'[s] = "user"
    BY <1>2 DEF take_return, LeaveCall, LeaveTo, Goto
  <1>4. CASE object[s] = q
    <2>1. Asking(q)[s] = Outcome(k.error[s])
      BY <1>1, <1>4 DEF Asking, InTake
    <2>2. Outcome(k.error[s]) \in {"granted", "timeout", "error"}
      BY <1>2 DEF Outcome, Errors
    <2>3. Ask(k', pc', object', q) = [Ask(k, pc, object, q) EXCEPT ![s] = "none"]
      BY <1>1, <1>3, <1>4 DEF Ask, TakePoints, Clients
    <2>4. Counting(q)!Return(s)
      BY <1>3, <2>1, <2>2, <2>3, Asked DEF Counting!Return, Counting!Set
    <2> QED BY <1>1, <2>4 DEF Simulated, Counting!Next
  <1>5. CASE object[s] # q
    <2>1. Ask(k', pc', object', q) = Ask(k, pc, object, q)
      BY <1>1, <1>3, <1>5 DEF Ask, TakePoints, Clients
    <2> QED BY <1>3, <2>1, Stutters
  <1> QED BY <1>4, <1>5

\* The first waiter of a semaphore gets the token of a release.
LEMMA ReleaseMaps ==
    ASSUME SemInv, NEW r \in Sems, ~NoWaiter(r), NEW v, v = rt_ipc_list_resume(k, r),
           k'.stat = v.stat, k'.error = v.error, UNCHANGED value, TakersStay, NEW q \in Sems
    PROVE  Simulated(q)
  <1> DEFINE t == Head(k.queue[r])
  <1>1. Waits(k, pc, object) /\ k.queue[r] # << >>
    BY Parts DEF NoWaiter
  <1>2. /\ t \in Threads /\ k.stat[t] = "suspend" /\ object[t] = r /\ pc[t] \in TakePoints
    BY <1>1, FirstWaiter
  <1>3. MadeReady(k, v, t, k.error[t])
    BY <1>1, <1>2, ResumeSettled DEF rt_ipc_list_resume, Waits
  <1>4. k.error[t] = "RT_EOK"
    BY <1>1, <1>2 DEF Waits
  <1> HIDE DEF t
  <1>5. /\ t \in Clients
        /\ object[t] = q => /\ Asking(q)[t] = "waiting"
                            /\ Asking(q)' = [Asking(q) EXCEPT ![t] = Outcome("RT_EOK")]
        /\ object[t] # q => Asking(q)' = Asking(q)
    BY <1>2, <1>3, <1>4, WakeMaps
  <1>6. CASE q = r
    <2>1. t \in Counting(q)!Waiters
      BY <1>2, <1>5, <1>6 DEF Counting!Waiters
    <2>2. Counting(q)!Set(t, "granted")
      BY <1>2, <1>5, <1>6 DEF Counting!Set, Outcome
    <2>3. Counting(q)!Release
      BY <2>1, <2>2 DEF Counting!Release
    <2> QED BY <2>3 DEF Simulated, Counting!Next
  <1>7. CASE q # r
    BY <1>2, <1>5, <1>7 DEF Simulated
  <1> QED BY <1>6, <1>7

\* A release that finds nobody is counted.
LEMMA CountMaps ==
    ASSUME SemInv, NEW r \in Sems, NoWaiter(r), release(r), UNCHANGED <<pc, object>>, NEW q \in Sems
    PROVE  Simulated(q)
  <1>1. /\ value[r] < MaxValue /\ value' = [value EXCEPT ![r] = @ + 1] /\ k' = k
        /\ value \in [Sems -> 0 .. MaxValue]
    BY Parts DEF release
  <1>2. Asking(q)' = Asking(q)
    BY <1>1, Asked, AskSame
  <1>3. CASE q = r
    <2>1. Counting(q)!Waiters = {}
      BY <1>3, AskWaiting
    <2>2. Counting(q)!Release
      BY <1>1, <1>2, <1>3, <2>1 DEF Counting!Release
    <2> QED BY <2>2 DEF Simulated, Counting!Next
  <1>4. CASE q # r
    BY <1>1, <1>2, <1>4 DEF Simulated
  <1> QED BY <1>3, <1>4

\* rt_sem_release, called by a thread or by a handler.
LEMMA ReleaseCallMaps ==
    ASSUME SemInv, NEW s \in Threads, NEW r \in Sems, rt_sem_release(s, r), NEW q \in Sems
    PROVE  Simulated(q)
  <1>1. pc[s] = "user" /\ release(r) /\ object' = object /\ pc \in [Threads -> Points]
    BY RunningReady, Parts DEF rt_sem_release
  <1>2. CASE NoWaiter(r)
    BY <1>1, <1>2, CountMaps DEF rt_sem_release
  <1>3. CASE ~NoWaiter(r)
    <2>1. k' = rt_ipc_list_resume(k, r) /\ value' = value /\ pc' = [pc EXCEPT ![s] = "schedule"]
      BY <1>1, <1>3 DEF rt_sem_release, release, Goto
    <2>2. TakersStay
      BY <1>1, <2>1 DEF TakersStay, TakePoints, Clients
    <2> QED BY <1>3, <2>1, <2>2, ReleaseMaps
  <1> QED BY <1>2, <1>3

\* A handler's release.
LEMMA IsrReleaseMaps ==
    ASSUME SemInv, NEW r \in Sems, isr_release(r), NEW q \in Sems
    PROVE  Simulated(q)
  <1>1. CASE NoWaiter(r)
    BY <1>1, CountMaps DEF isr_release
  <1>2. CASE ~NoWaiter(r)
    <2> DEFINE v == rt_ipc_list_resume(k, r)
    <2>1. k' = rt_schedule(v) /\ value' = value /\ UNCHANGED <<pc, object>>
      BY <1>2 DEF isr_release
    <2>2. k.queue[r] # << >> /\ r \notin dying
      BY <1>2, Parts DEF NoWaiter, isr_release
    <2>3. Waits(v, pc, object)
      BY <2>2, ReleaseEffect
    <2> HIDE DEF v
    <2>4. k'.stat = v.stat /\ k'.error = v.error
      BY <2>1, <2>3, ScheduleWaits
    <2>5. TakersStay
      BY <2>1 DEF TakersStay
    <2> QED BY <1>2, <2>1, <2>4, <2>5, ReleaseMaps DEF v
  <1> QED BY <1>1, <1>2

\* RT_IPC_CMD_RESET turns all waiters of its semaphore away.
LEMMA ControlMaps ==
    ASSUME SemInv, NEW s \in Threads, NEW r \in Sems, rt_sem_control(s, r), NEW q \in Sems
    PROVE  Simulated(q)
  <1>1. pc[s] = "user" /\ k' = resume_all(k, r) /\ pc' = [pc EXCEPT ![s] = "schedule"] /\ object' = object
    BY RunningReady DEF rt_sem_control, Goto
  <1>2. /\ Waits(k, pc, object) /\ Runs(k, pc) /\ pc \in [Threads -> Points]
        /\ value \in [Sems -> 0 .. MaxValue]
    BY Parts
  <1>3. /\ \A x \in Threads : k'.stat[x] = IF Queued(k, r, x) THEN "ready" ELSE k.stat[x]
        /\ \A x \in Threads : k'.error[x] = IF Queued(k, r, x) THEN "RT_ERROR" ELSE k.error[x]
    BY <1>1, <1>2, ResetWaits
  <1>4. \A x \in Clients : /\ x \in Threads
                           /\ pc'[x] \in TakePoints <=> pc[x] \in TakePoints
    BY <1>1, <1>2 DEF TakePoints, Clients
  <1>5. \A x \in Threads : Queued(k, r, x) <=> pc[x] \in TakePoints /\ object[x] = r /\ k.stat[x] = "suspend"
    BY <1>2, SemaphoreAssumption DEF Waits, WaitersListed
  <1>6. CASE q = r
    <2>1. Asking(q) = Ask(k, pc, object, q)
      BY Asked
    <2>2. \A x \in Clients : Asking(q)[x] = "waiting" <=> Queued(k, r, x)
      BY <1>6, AskWaiting DEF Queued
    <2>3. Ask(k', pc', object', q) =
             [x \in Clients |-> IF Asking(q)[x] = "waiting" THEN "error" ELSE Asking(q)[x]]
      <3>1. ASSUME NEW x \in Clients
            PROVE  Ask(k', pc', object', q)[x] =
                      IF Asking(q)[x] = "waiting" THEN "error" ELSE Ask(k, pc, object, q)[x]
        <4>1. CASE Queued(k, r, x)
          BY <1>1, <1>3, <1>4, <1>5, <1>6, <2>2, <4>1 DEF Ask, Outcome
        <4>2. CASE ~Queued(k, r, x)
          BY <1>1, <1>3, <1>4, <1>5, <1>6, <2>2, <4>2 DEF Ask
        <4> QED BY <4>1, <4>2
      <3> QED BY <2>1, <3>1 DEF Ask
    <2>4. value'[q] \in 0 .. MaxValue
      BY <1>2, <1>6 DEF rt_sem_control
    <2>5. Counting(q)!Reset
      BY <2>3, <2>4, Asked DEF Counting!Reset
    <2> QED BY <2>5 DEF Simulated, Counting!Next
  <1>7. CASE q # r
    <2>1. Ask(k', pc', object', q) = Ask(k, pc, object, q)
      <3>1. \A x \in Clients :
               /\ pc[x] \in TakePoints /\ object[x] = q <=> pc'[x] \in TakePoints /\ object'[x] = q
               /\ pc[x] \in TakePoints /\ object[x] = q =>
                     k'.stat[x] = k.stat[x] /\ k'.error[x] = k.error[x]
        BY <1>1, <1>3, <1>4, <1>5, <1>7
      <3> QED BY ONLY <3>1, AskSame
    <2>2. value'[q] = value[q]
      BY <1>2, <1>7 DEF rt_sem_control
    <2> QED BY <2>1, <2>2, Stutters
  <1> QED BY <1>6, <1>7

\* The loop of the detach turns one waiter away.
LEMMA ResumeOneMaps ==
    ASSUME SemInv, NEW s \in Threads, resume_one(s), UNCHANGED value, NEW q \in Sems
    PROVE  Simulated(q)
  <1> DEFINE r == object[s]
             t == Head(k.queue[r])
  <1>1. /\ pc[s] = "resuming" /\ k' = turn_away(k, t) /\ r \in Sems
        /\ (LeaveCall(s) \/ UNCHANGED <<pc, object>>)
    BY RunningReady DEF resume_one
  <1>2. /\ Waits(k, pc, object) /\ k.queue[r] # << >>
        /\ pc \in [Threads -> Points] /\ object \in [Threads -> Sems]
    BY <1>1, Parts DEF Detaching
  <1>3. t \in Threads /\ k.stat[t] = "suspend" /\ object[t] = r
    BY <1>1, <1>2, FirstWaiter
  <1>4. MadeReady(k, k', t, "RT_ERROR")
    <2> HIDE DEF t
    <2> QED BY <1>1, <1>2, <1>3, TurnAwaySettled DEF Waits
  <1>5. TakersStay
    BY <1>1, <1>2 DEF TakersStay, TakePoints, Clients, LeaveCall, LeaveTo, Goto
  <1> HIDE DEF t, r
  <1>6. /\ t \in Clients
        /\ object[t] = q => /\ Asking(q)[t] = "waiting"
                            /\ Asking(q)' = [Asking(q) EXCEPT ![t] = Outcome("RT_ERROR")]
        /\ object[t] # q => Asking(q)' = Asking(q)
    BY <1>3, <1>4, <1>5, WakeMaps
  <1>7. CASE object[t] = q
    <2>1. Counting(q)!TurnAway(t)
      BY <1>6, <1>7 DEF Counting!TurnAway, Counting!Set, Outcome
    <2> QED BY <1>6, <2>1 DEF Simulated, Counting!Next
  <1>8. CASE object[t] # q
    BY <1>6, <1>8 DEF Simulated
  <1> QED BY <1>7, <1>8

\* The timer of a waiter runs out.
LEMMA TimeoutMaps ==
    ASSUME SemInv, NEW t \in Threads, timeout(t), UNCHANGED value, NEW q \in Sems
    PROVE  Simulated(q)
  <1> DEFINE v == rt_thread_timeout(k, t)
  <1>1. t \in k.timer /\ k' = rt_schedule(v) /\ UNCHANGED <<pc, object>>
    BY DEF timeout
  <1>2. Settled(k) /\ k.stat[t] = "suspend"
    BY <1>1, Parts DEF Waits, Settled
  <1>3. MadeReady(k, v, t, "RT_ETIMEOUT")
    BY <1>2, TimeoutSettled
  <1> HIDE DEF v
  <1>4. Waits(v, pc, object)
    BY <1>2, <1>3, WakeEffect
  <1>5. k'.stat = v.stat /\ k'.error = v.error
    BY <1>1, <1>4, ScheduleWaits
  <1>6. TakersStay
    BY <1>1 DEF TakersStay
  <1>7. /\ t \in Clients
        /\ object[t] = q => /\ Asking(q)[t] = "waiting"
                            /\ Asking(q)' = [Asking(q) EXCEPT ![t] = Outcome("RT_ETIMEOUT")]
        /\ object[t] # q => Asking(q)' = Asking(q)
    BY <1>2, <1>3, <1>5, <1>6, WakeMaps
  <1>8. CASE object[t] = q
    <2>1. Counting(q)!Timeout(t)
      BY <1>7, <1>8 DEF Counting!Timeout, Counting!Set, Outcome
    <2> QED BY <1>7, <2>1 DEF Simulated, Counting!Next
  <1>9. CASE object[t] # q
    BY <1>7, <1>9 DEF Simulated
  <1> QED BY <1>8, <1>9

\* The steps that no user of a semaphore sees.
LEMMA HiddenMaps ==
    ASSUME SemInv, UNCHANGED value, NEW s \in Threads, NEW r \in Sems,
           \/ ScheduleStep(s, "blocked", "taking") \/ ScheduleStep(s, "schedule", "user")
           \/ tick_yield \/ rt_sem_detach(s, r),
           NEW q \in Sems
    PROVE  Simulated(q)
  <1>1. /\ Waits(k, pc, object) /\ Runs(k, pc) /\ pc \in [Threads -> Points] /\ object \in [Threads -> Sems]
    BY Parts
  <1>2. k'.stat = k.stat /\ k'.error = k.error
    <2>1. k' = rt_schedule(k) => k'.stat = k.stat /\ k'.error = k.error
      BY <1>1, ScheduleWaits
    <2>2. ASSUME tick_yield PROVE k'.stat = k.stat /\ k'.error = k.error
      <3> DEFINE v == move_to_tail(k)
      <3>1. k.stat[k.current] = "ready" /\ k' = rt_schedule(v)
        BY <2>2 DEF tick_yield, MovesToTail
      <3>2. /\ Settled(v) /\ v.stat = k.stat /\ v.error = k.error
        BY <1>1, <3>1, MoveSettled DEF Waits, Runs
      <3> HIDE DEF v
      <3>3. Idle \in Threads /\ v.stat[Idle] = "ready"
        BY <1>1, <3>2, IpcAssumption DEF Waits
      <3> QED BY <3>1, <3>2, <3>3, ScheduleSettled
    <2> QED BY <2>1, <2>2 DEF ScheduleStep, rt_sem_detach, detach
  <1>3. TakersStay
    BY <1>1 DEF TakersStay, TakePoints, Clients, ScheduleStep, tick_yield, rt_sem_detach, detach,
                Goto, Running
  <1>4. Ask(k', pc', object', q) = Ask(k, pc, object, q)
    BY <1>2, <1>3, AskSame DEF TakersStay
  <1> QED BY <1>4, Stutters

\* Every step of the system is a step of each counting semaphore, or none.
LEMMA CountingStep == SemInv /\ [Next]_vars => \A q \in Sems : Simulated(q)
  <1> SUFFICES ASSUME SemInv, [Next]_vars, NEW q \in Sems PROVE Simulated(q)
    OBVIOUS
  <1>1. ASSUME NEW s \in Threads, NEW r \in Sems,
               \/ \E timed \in BOOLEAN : rt_sem_take(s, r, timed)
               \/ rt_sem_release(s, r) \/ rt_sem_control(s, r) \/ rt_sem_detach(s, r)
        PROVE  Simulated(q)
    BY <1>1, TakeMaps, ReleaseCallMaps, ControlMaps, HiddenMaps DEF rt_sem_detach
  <1>2. ASSUME NEW s \in Threads,
               \/ take_return(s)
               \/ resume_one(s) /\ UNCHANGED value
               \/ ScheduleStep(s, "blocked", "taking") /\ UNCHANGED value
               \/ ScheduleStep(s, "schedule", "user") /\ UNCHANGED value
        PROVE  Simulated(q)
    BY <1>2, TakeReturnMaps, ResumeOneMaps, HiddenMaps
  <1>3. ASSUME NEW r \in Sems, isr_release(r) PROVE Simulated(q)
    BY <1>3, IsrReleaseMaps
  <1>4. ASSUME tick_yield, UNCHANGED value PROVE Simulated(q)
    BY <1>4, HiddenMaps, IpcAssumption
  <1>5. ASSUME NEW t \in Threads, timeout(t), UNCHANGED value PROVE Simulated(q)
    BY <1>5, TimeoutMaps
  <1>6. ASSUME UNCHANGED vars PROVE Simulated(q)
    BY <1>6, AskSame, Stutters DEF vars
  <1> QED BY <1>1, <1>2, <1>3, <1>4, <1>5, <1>6 DEF Next

\* At the start nothing is asked.
LEMMA CountingInit ==
    ASSUME Init, NEW q \in Sems
    PROVE  Counting(q)!Init
  <1>1. value[q] \in 0 .. MaxValue
    BY DEF Init
  <1>2. pc = [t \in Threads |-> "user"]
    BY DEF Init, InitThreads
  <1>3. Asking(q) = [t \in Clients |-> "none"]
    BY <1>2 DEF Asking, InTake, Clients
  <1> QED BY <1>1, <1>3 DEF Counting!Init

\* Every semaphore implements a counting semaphore: no token is lost or made,
\* and no caller of rt_sem_take returns RT_EOK without a token of its own.
THEOREM SemaphoresCount == Spec => Implements
  <1>1. Init => \A q \in Sems : Counting(q)!Init
    BY CountingInit
  <1>2. SemInv /\ [Next]_vars =>
           [\A q \in Sems : [Counting(q)!Next]_<<value[q], Asking(q)>>]_vars
    BY CountingStep DEF Simulated
  <1> QED BY <1>1, <1>2, Invariance, PTL DEF Spec, Implements

\* The same as the specification of the abstract module.
THEOREM SemaphoresImplement == Spec => \A q \in Sems : Counting(q)!Spec
  <1>1. ASSUME NEW q \in Sems PROVE Spec => Counting(q)!Spec
    <2>1. Init => Counting(q)!Init
      BY CountingInit
    <2>2. SemInv /\ [Next]_vars => [Counting(q)!Next]_<<value[q], Asking(q)>>
      BY CountingStep DEF Simulated
    <2> QED BY <2>1, <2>2, Invariance, PTL DEF Spec, Counting!Spec
  <1> QED BY <1>1
=============================================================================
