---------------------------- MODULE Mutex_proofs -----------------------------
(***************************************************************************)
(* The safety of Mutex for every number of threads, priorities and mutexes *)
(* and every depth, and the proof that each mutex implements a recursive   *)
(* lock.                                                                   *)
(*                                                                         *)
(* MutexInv is the inductive invariant; where a thread owns one mutex at a *)
(* time, Inherits with it says how the priorities follow the owners. As in *)
(* Semaphore_proofs, the parts speak of a table u and of the calls at[t],  *)
(* on[t] the threads are in; the lemmas about parts of steps come before   *)
(* the lemma per action.                                                   *)
(***************************************************************************)
EXTENDS Mutex, Kernel_proofs

\* List m has the threads of list l and t, or no threads but those of l without t.
Joined(l, t, m) == \A x : Contains(m, x) <=> Contains(l, x) \/ x = t
Parted(l, t, m) == \A x : Contains(m, x) => Contains(l, x) /\ x # t

TakePoints == {"blocked", "taking"}
Points == {"user", "blocked", "taking", "schedule", "resuming"}

\* Who waits: exactly the threads suspended in rt_mutex_take are on the lists,
\* with no error yet; other suspended threads sleep, which the idle thread
\* never does. No timer runs out on a mutex that is going to be detached.
Waits(u, at, on) ==
    /\ Settled(u)
    /\ WaitersListed(u, at, on, TakePoints)
    /\ \A t \in Threads : u.stat[t] = "suspend" =>
          \/ at[t] \in TakePoints /\ u.error[t] = "RT_EOK"
          \/ at[t] \in {"schedule", "user"}
    /\ \A t \in u.timer : at[t] \in TakePoints => on[t] \notin Deletable
    /\ u.stat[Idle] = "ready" /\ at[Idle] = "user"

\* Who runs: a READY thread, or one that has just blocked or gone to sleep and
\* still owes the rt_schedule.
Runs(u, at) ==
    /\ u.current \in Threads
    /\ u.stat[u.current] = "ready" \/ at[u.current] \in {"blocked", "schedule"}

\* One thread detaches an object at a time, and it is not through while
\* somebody waits.
Detaching(u, at, on, gone) ==
    /\ \A s \in Threads : at[s] = "resuming" => on[s] \in gone /\ u.queue[on[s]] # << >>
    /\ \A s, r \in Threads : at[s] = "resuming" /\ at[r] = "resuming" /\ on[s] = on[r] => s = r
    /\ \A q \in gone : (\A s \in Threads : ~(at[s] = "resuming" /\ on[s] = q)) => u.queue[q] = << >>

\* Who owns what: a mutex with the value 1 has no owner, no depth and no
\* waiters; the owner waits for others only, and knows a priority to go back to.
Owners(u, val, own, depth, orig) ==
    \A q \in Mutexes :
        /\ val[q] = 1 <=> own[q] = NoThread
        /\ val[q] = 1 <=> depth[q] = 0
        /\ val[q] = 1 => u.queue[q] = << >>
        /\ ~Contains(u.queue[q], own[q]) /\ own[q] # Idle
        /\ own[q] # NoThread => orig[q] \in Prios

\* The inductive invariant.
MutexInv ==
    /\ TypeOK /\ Waits(k, pc, object) /\ Runs(k, pc) /\ Detaching(k, pc, object, dying)
    /\ Owners(k, value, owner, hold, original_priority)

-----------------------------------------------------------------------------
(* Parts of steps *)

\* A suspended thread is woken: handed the mutex, timed out, turned away, or
\* out of its sleep.
LEMMA WakeWaits ==
    ASSUME NEW u, NEW at, NEW on, Waits(u, at, on), NEW t \in Threads, u.stat[t] = "suspend",
           NEW e, NEW v, MadeReady(u, v, t, e)
    PROVE  /\ Waits(v, at, on) /\ (Runs(u, at) => Runs(v, at))
           /\ \A q \in Mutexes :
                 /\ Parted(u.queue[q], t, v.queue[q])
                 /\ ~Queued(u, q, t) => v.queue[q] = u.queue[q]
                 /\ u.queue[q] = << >> => v.queue[q] = << >>
                 /\ Ordered(u.queue[q], u.prio) => Ordered(v.queue[q], v.prio)
           /\ \A x \in Threads : v.stat[x] = IF x = t THEN "ready" ELSE u.stat[x]
           /\ \A x \in Threads : v.error[x] = IF x = t THEN e ELSE u.error[x]
           /\ v.current = u.current /\ v.prio = u.prio
  <1>1. /\ WaitersListed(v, at, on, TakePoints)
        /\ \A q \in Queues : /\ \A x : Contains(v.queue[q], x) <=> Contains(u.queue[q], x) /\ x # t
                             /\ Ordered(u.queue[q], u.prio) => Ordered(v.queue[q], v.prio)
        /\ \A x \in Threads : v.stat[x] = IF x = t THEN "ready" ELSE u.stat[x]
        /\ \A x \in Threads : v.error[x] = IF x = t THEN e ELSE u.error[x]
        /\ v.timer \subseteq u.timer
    <2>1. Settled(u) /\ WaitersListed(u, at, on, TakePoints)
      BY DEF Waits
    <2> QED BY <2>1, ReadyWaiters
  <1>2. Settled(v) /\ v.current = u.current /\ v.prio = u.prio /\ Queues = Mutexes
    BY MutexAssumption DEF MadeReady
  <1>3. ASSUME NEW q \in Mutexes
        PROVE  /\ ~Queued(u, q, t) => v.queue[q] = u.queue[q]
               /\ u.queue[q] = << >> => v.queue[q] = << >>
    <2>1. v.queue[q] = RemoveFirst(u.queue[q], t)
      BY <1>2 DEF MadeReady
    <2>2. ~Queued(u, q, t) => v.queue[q] = u.queue[q]
      BY <2>1, NotOnList DEF Queued
    <2>3. u.queue[q] = << >> => ~Queued(u, q, t)
      BY DEF Queued, Contains
    <2> QED BY <2>2, <2>3
  <1>4. Waits(v, at, on)
    BY <1>1, <1>2, IpcAssumption DEF Waits
  <1>5. Runs(u, at) => Runs(v, at)
    BY <1>1, <1>2 DEF Runs
  <1>6. \A q \in Mutexes : Parted(u.queue[q], t, v.queue[q])
    BY <1>1, <1>2 DEF Parted
  <1> QED BY <1>1, <1>2, <1>3, <1>4, <1>5, <1>6

\* rt_schedule finds a ready thread.
LEMMA ScheduleWaits ==
    ASSUME NEW u, NEW at, NEW on, Waits(u, at, on)
    PROVE  LET v == rt_schedule(u)
           IN  /\ Waits(v, at, on) /\ v.current \in Threads /\ v.stat[v.current] = "ready"
               /\ v.stat = u.stat /\ v.error = u.error /\ v.queue = u.queue /\ v.prio = u.prio
  <1> DEFINE v == rt_schedule(u)
  <1>1. Settled(u) /\ Idle \in Threads /\ u.stat[Idle] = "ready"
    BY IpcAssumption DEF Waits
  <1>2. /\ Settled(v) /\ v.current \in Threads /\ v.stat[v.current] = "ready"
        /\ v.stat = u.stat /\ v.error = u.error /\ v.timer = u.timer
        /\ v.queue = u.queue /\ v.prio = u.prio
    BY <1>1, ScheduleSettled
  <1> HIDE DEF v
  <1>3. Waits(v, at, on)
    BY <1>2 DEF Waits, WaitersListed, Queued
  <1> QED BY <1>2, <1>3 DEF v

\* A thread that does not wait, and is not the idle one, goes from one point of
\* its calls to another; one that sleeps is at no point of rt_mutex_take.
LEMMA GoWaits ==
    ASSUME NEW u, NEW at, NEW on, Waits(u, at, on), NEW s \in Threads, s # Idle,
           NEW bt, NEW bn, \A x \in Threads : x # s => bt[x] = at[x] /\ bn[x] = on[x],
           \/ u.stat[s] = "ready"
           \/ at[s] \notin TakePoints /\ bt[s] \in {"schedule", "user"}
    PROVE  Waits(u, bt, bn)
  <1>1. WaitersListed(u, bt, bn, TakePoints)
    BY DEF Waits, WaitersListed, TakePoints
  <1>2. u.timer \subseteq Threads /\ (u.stat[s] = "ready" => s \notin u.timer)
    BY SettledType DEF Waits, Settled
  <1> QED BY <1>1, <1>2, IpcAssumption DEF Waits, TakePoints

\* A call sets the error of the thread that executes it.
LEMMA ErrorWaits ==
    ASSUME NEW u, NEW at, NEW on, Waits(u, at, on), NEW s \in Threads, u.stat[s] = "ready",
           NEW e \in Errors, NEW v, v = [u EXCEPT !.error[s] = e]
    PROVE  /\ Waits(v, at, on)
           /\ v.stat = u.stat /\ v.queue = u.queue /\ v.prio = u.prio /\ v.current = u.current
           /\ \A x \in Threads : x # s => v.error[x] = u.error[x]
  <1>1. Settled(u) /\ u.error \in [Threads -> Errors]
    BY SettledType DEF Waits
  <1>2. /\ Settled(v) /\ v.error = [u.error EXCEPT ![s] = e]
        /\ v.stat = u.stat /\ v.timer = u.timer /\ v.queue = u.queue
        /\ v.prio = u.prio /\ v.current = u.current
    BY <1>1, ErrorSettled
  <1>3. \A x \in Threads : x # s => v.error[x] = u.error[x]
    BY <1>1, <1>2
  <1>4. Waits(v, at, on)
    BY ONLY Waits(u, at, on), u.stat[s] = "ready", <1>2, <1>3 DEF Waits, WaitersListed, Queued
  <1> QED BY <1>2, <1>3, <1>4

\* The priority of a thread changes.
LEMMA PriorityWaits ==
    ASSUME NEW u, NEW at, NEW on, Waits(u, at, on), NEW t \in Threads, NEW p \in Prios,
           NEW v, v = rt_thread_control(u, t, p)
    PROVE  /\ Waits(v, at, on) /\ v.prio = [u.prio EXCEPT ![t] = p]
           /\ v.stat = u.stat /\ v.error = u.error /\ v.queue = u.queue /\ v.current = u.current
  <1>1. Settled(u)
    BY DEF Waits
  <1>2. /\ Settled(v) /\ v.prio = [u.prio EXCEPT ![t] = p]
        /\ v.stat = u.stat /\ v.error = u.error /\ v.timer = u.timer
        /\ v.queue = u.queue /\ v.current = u.current
    BY <1>1, ControlSettled
  <1>3. Waits(v, at, on)
    BY <1>2 DEF Waits, WaitersListed, Queued
  <1> QED BY <1>2, <1>3

\* The current thread blocks in rt_mutex_take, for ever or with a timeout.
LEMMA BlockWaits ==
    ASSUME NEW u, NEW at, NEW on, Waits(u, at, on), NEW s \in Threads, u.current = s, s # Idle,
           u.stat[s] = "ready", u.error[s] = "RT_EOK",
           NEW q \in Mutexes, NEW timed \in BOOLEAN, timed => q \notin Deletable,
           NEW bt, NEW bn, \A x \in Threads : x # s => bt[x] = at[x] /\ bn[x] = on[x],
           bt[s] = "blocked", bn[s] = q,
           NEW v, v = Block(u, q, s, flag[q], timed)
    PROVE  /\ Waits(v, bt, bn) /\ Runs(v, bt) /\ v.current = s /\ v.prio = u.prio
           /\ \A r \in Mutexes : r # q => v.queue[r] = u.queue[r]
           /\ Joined(u.queue[q], s, v.queue[q])
           /\ flag[q] = "RT_IPC_FLAG_PRIO" /\ Ordered(u.queue[q], u.prio) => Ordered(v.queue[q], u.prio)
           /\ \A x \in Threads : v.stat[x] = IF x = s THEN "suspend" ELSE u.stat[x]
           /\ v.error = u.error
  <1> DEFINE x == rt_ipc_list_suspend(u, q, s, flag[q])
  <1>0. Settled(u) /\ WaitersListed(u, at, on, TakePoints) /\ q \in Queues /\ Queues = Mutexes
    BY MutexAssumption DEF Waits
  <1>1. PutToWait(u, x, s, q, flag[q])
    BY <1>0, IpcSuspendSettled
  <1>2. v = IF timed THEN rt_timer_start(x, s) ELSE x
    BY DEF Block
  <1> HIDE DEF x
  <1>3. /\ WaitersListed(x, bt, bn, TakePoints)
        /\ \A y \in Threads : x.stat[y] = IF y = s THEN "suspend" ELSE u.stat[y]
    <2> DEFINE f == flag[q]
               W == TakePoints
    <2>1. PutToWait(u, x, s, q, f) /\ WaitersListed(u, at, on, W) /\ bt[s] \in W /\ bn[s] = q
      BY <1>0, <1>1 DEF TakePoints
    <2>2. \A y \in Threads : y # s => bt[y] = at[y] /\ bn[y] = on[y]
      OBVIOUS
    <2>3. Settled(u) /\ s \in Threads /\ q \in Queues /\ u.stat[s] = "ready"
      BY <1>0
    <2>4. WaitersListed(x, bt, bn, W) /\ \A y \in Threads : x.stat[y] = IF y = s THEN "suspend" ELSE u.stat[y]
      <3> HIDE DEF f, W
      <3> QED BY ONLY <2>1, <2>2, <2>3, BlockedWaiters
    <2> QED BY <2>4
  <1>4. Settled(x) /\ x.stat[s] = "suspend"
    BY <1>1, <1>3 DEF PutToWait
  <1>5. /\ Settled(v) /\ v.timer = IF timed THEN x.timer \cup {s} ELSE x.timer
        /\ v.stat = x.stat /\ v.error = x.error /\ v.queue = x.queue
        /\ v.prio = x.prio /\ v.current = x.current
    <2>1. CASE timed
      <3>1. v = rt_timer_start(x, s)
        BY <1>2, <2>1
      <3> QED BY ONLY <1>4, <2>1, <3>1, s \in Threads, TimerSettled
    <2>2. CASE ~timed
      BY ONLY <1>2, <1>4, <2>2
    <2> QED BY <2>1, <2>2
  <1>6. /\ x.error = u.error /\ x.timer = u.timer /\ x.prio = u.prio /\ x.current = u.current
        /\ \A r \in Queues : r # q => x.queue[r] = u.queue[r]
        /\ \A y : Contains(x.queue[q], y) <=> Contains(u.queue[q], y) \/ y = s
        /\ flag[q] = "RT_IPC_FLAG_PRIO" /\ Ordered(u.queue[q], u.prio) => Ordered(x.queue[q], u.prio)
    BY <1>1 DEF PutToWait
  <1>7. WaitersListed(v, bt, bn, TakePoints)
    BY ONLY <1>3, <1>5 DEF WaitersListed, Queued
  <1>8. u.timer \subseteq Threads /\ s \notin u.timer
    BY <1>0, SettledType DEF Settled
  <1>9. \A y \in v.timer : bt[y] \in TakePoints => bn[y] \notin Deletable
    BY ONLY Waits(u, at, on), <1>5, <1>6, <1>8, timed => q \notin Deletable, bn[s] = q,
            \A y \in Threads : y # s => bt[y] = at[y] /\ bn[y] = on[y] DEF Waits
  <1>10. \A y \in Threads : v.stat[y] = "suspend" =>
            \/ bt[y] \in TakePoints /\ v.error[y] = "RT_EOK"
            \/ bt[y] \in {"schedule", "user"}
    BY <1>3, <1>5, <1>6 DEF Waits, TakePoints
  <1>11. v.stat[Idle] = "ready" /\ bt[Idle] = "user"
    BY <1>3, <1>5, IpcAssumption DEF Waits
  <1>12. Waits(v, bt, bn)
    BY ONLY <1>5, <1>7, <1>9, <1>10, <1>11 DEF Waits
  <1>13. Runs(v, bt) /\ v.current = s
    BY <1>5, <1>6 DEF Runs
  <1>14. /\ \A r \in Mutexes : r # q => v.queue[r] = u.queue[r]
         /\ Joined(u.queue[q], s, v.queue[q])
         /\ flag[q] = "RT_IPC_FLAG_PRIO" /\ Ordered(u.queue[q], u.prio) => Ordered(v.queue[q], u.prio)
         /\ v.prio = u.prio /\ v.error = u.error
         /\ \A y \in Threads : v.stat[y] = IF y = s THEN "suspend" ELSE u.stat[y]
    BY ONLY <1>0, <1>3, <1>5, <1>6 DEF Joined
  <1> QED BY ONLY <1>12, <1>13, <1>14

\* The current thread goes to sleep.
LEMMA SleepWaits ==
    ASSUME NEW u, NEW at, NEW on, Waits(u, at, on), NEW s \in Threads, u.current = s, s # Idle,
           u.stat[s] = "ready",
           NEW bt, \A x \in Threads : x # s => bt[x] = at[x], bt[s] = "schedule",
           NEW v, v = rt_timer_start(rt_thread_suspend(u, s), s)
    PROVE  /\ Waits(v, bt, on) /\ Runs(v, bt)
           /\ v.queue = u.queue /\ v.prio = u.prio /\ v.error = u.error
           /\ \A x \in Threads : v.stat[x] = IF x = s THEN "suspend" ELSE u.stat[x]
  <1> DEFINE x == rt_thread_suspend(u, s)
  <1>1. Settled(u) /\ u.stat \in [Threads -> Stats] /\ u.timer \subseteq Threads
    BY SettledType DEF Waits
  <1>2. /\ Settled(x) /\ x.stat = [u.stat EXCEPT ![s] = "suspend"]
        /\ x.error = u.error /\ x.timer = u.timer /\ x.queue = u.queue
        /\ x.prio = u.prio /\ x.current = u.current
    BY <1>1, SuspendSettled
  <1>3. v = rt_timer_start(x, s)
    OBVIOUS
  <1> HIDE DEF x
  <1>4. x.stat[s] = "suspend"
    BY <1>1, <1>2
  <1>5. /\ Settled(v) /\ v.timer = u.timer \cup {s}
        /\ v.stat = x.stat /\ v.error = u.error /\ v.queue = u.queue
        /\ v.prio = u.prio /\ v.current = s
    <2>1. /\ Settled(v) /\ v.timer = x.timer \cup {s}
          /\ v.stat = x.stat /\ v.error = x.error /\ v.queue = x.queue
          /\ v.prio = x.prio /\ v.current = x.current
      BY ONLY <1>2, <1>3, <1>4, s \in Threads, TimerSettled
    <2> QED BY <1>2, <2>1
  <1>6. \A y \in Threads : v.stat[y] = IF y = s THEN "suspend" ELSE u.stat[y]
    BY <1>1, <1>2, <1>5
  <1>7. WaitersListed(v, bt, on, TakePoints)
    BY ONLY Waits(u, at, on), <1>5, <1>6, u.stat[s] = "ready", bt[s] = "schedule",
            \A y \in Threads : y # s => bt[y] = at[y]
       DEF Waits, WaitersListed, Queued, TakePoints
  <1>8. Waits(v, bt, on)
    BY ONLY Waits(u, at, on), <1>1, <1>5, <1>6, <1>7, s # Idle, bt[s] = "schedule", IpcAssumption,
            \A y \in Threads : y # s => bt[y] = at[y]
       DEF Waits, TakePoints
  <1>9. Runs(v, bt)
    BY <1>5 DEF Runs
  <1> QED BY <1>5, <1>6, <1>8, <1>9

\* Detaching depends on the lists of the dying objects and the threads that
\* detach them only.
LEMMA DetachingKept ==
    ASSUME NEW u, NEW at, NEW on, NEW gone, Detaching(u, at, on, gone),
           NEW v, \A q \in gone : v.queue[q] = u.queue[q],
           NEW bt, NEW bn,
           \A x \in Threads : /\ bt[x] = "resuming" <=> at[x] = "resuming"
                              /\ at[x] = "resuming" => bn[x] = on[x]
    PROVE  Detaching(v, bt, bn, gone)
  BY DEF Detaching

\* Waiters that leave do not disturb the owners.
LEMMA OwnersKept ==
    ASSUME NEW u, NEW val, NEW own, NEW depth, NEW orig, Owners(u, val, own, depth, orig),
           NEW v, \A q \in Mutexes : /\ u.queue[q] = << >> => v.queue[q] = << >>
                                     /\ \A x : Contains(v.queue[q], x) => Contains(u.queue[q], x)
    PROVE  Owners(v, val, own, depth, orig)
  BY DEF Owners

\* A list is empty when nobody is on it, and its first thread is suspended in
\* rt_mutex_take.
LEMMA FirstWaiter ==
    ASSUME NEW u, NEW at, NEW on, Waits(u, at, on), NEW q \in Mutexes
    PROVE  /\ u.queue[q] = << >> <=> \A x : ~Contains(u.queue[q], x)
           /\ \A x : Contains(u.queue[q], x) => x \in Threads
           /\ u.queue[q] # << >> =>
                 /\ Head(u.queue[q]) \in Threads /\ Queued(u, q, Head(u.queue[q]))
                 /\ u.stat[Head(u.queue[q])] = "suspend" /\ on[Head(u.queue[q])] = q
                 /\ at[Head(u.queue[q])] \in TakePoints
                 /\ u.error[Head(u.queue[q])] = "RT_EOK"
  <1>1. Settled(u) /\ WaitersListed(u, at, on, TakePoints) /\ q \in Queues
    BY MutexAssumption DEF Waits
  <1>2. u.queue[q] \in Seq(Threads)
    BY <1>1, SettledType
  <1>3. "schedule" \notin TakePoints /\ "user" \notin TakePoints
    BY DEF TakePoints
  <1> QED BY <1>1, <1>2, <1>3, EmptyList DEF WaitersListed, Queued, Waits

\* What MutexInv says, as the lemmas about parts of steps need it.
LEMMA Parts ==
    ASSUME MutexInv
    PROVE  /\ Waits(k, pc, object) /\ Runs(k, pc) /\ Detaching(k, pc, object, dying)
           /\ Owners(k, value, owner, hold, original_priority)
           /\ value \in [Mutexes -> {0, 1}] /\ owner \in [Mutexes -> Threads \cup {NoThread}]
           /\ hold \in [Mutexes -> 0 .. MaxHold]
           /\ original_priority \in [Mutexes -> Prios \cup {NoPriority}]
           /\ dying \subseteq Deletable /\ Deletable \subseteq Mutexes
           /\ pc \in [Threads -> Points] /\ object \in [Threads -> Mutexes]
  BY MutexAssumption, IpcAssumption DEF MutexInv, TypeOK, Points

\* A step whose parts keep the invariant keeps it.
LEMMA Together ==
    ASSUME Waits(k', pc', object'), Runs(k', pc'), Detaching(k', pc', object', dying'),
           Owners(k', value', owner', hold', original_priority'),
           pc' \in [Threads -> Points], object' \in [Threads -> Mutexes], dying' \subseteq Deletable,
           value' \in [Mutexes -> {0, 1}], owner' \in [Mutexes -> Threads \cup {NoThread}],
           hold' \in [Mutexes -> 0 .. MaxHold],
           original_priority' \in [Mutexes -> Prios \cup {NoPriority}]
    PROVE  MutexInv'
  <1>1. k' \in KernelType
    BY SettledType DEF Waits
  <1>2. TypeOK'
    BY <1>1 DEF TypeOK, Points
  <1> QED BY <1>2 DEF MutexInv

\* The thread that executes a section is ready, unless it has just blocked or
\* gone to sleep.
LEMMA RunningReady ==
    ASSUME MutexInv, NEW s \in Threads, NEW point, Running(s, point)
    PROVE  /\ k.current = s /\ s # Idle /\ pc[s] = point /\ s \in Clients /\ s # NoThread
           /\ point \notin {"blocked", "schedule"} => k.stat[s] = "ready"
  BY KernelAssumption DEF MutexInv, Runs, Running, Clients

\* No mutex changes hands and no priority changes; the lists only get shorter.
Calm ==
    /\ UNCHANGED <<owner, original_priority>> /\ k'.prio = k.prio
    /\ \A q \in Mutexes :
          /\ \A x : Contains(k'.queue[q], x) => Contains(k.queue[q], x)
          /\ Ordered(k.queue[q], k.prio) => Ordered(k'.queue[q], k'.prio)

\* A step that changes neither the mutexes nor the lists.
LEMMA CalmStep ==
    ASSUME MutexInv, UNCHANGED <<mutex, dying>>, k'.queue = k.queue, k'.prio = k.prio,
           Waits(k', pc', object'), Runs(k', pc'),
           pc' \in [Threads -> Points], object' \in [Threads -> Mutexes],
           \A x \in Threads : /\ pc'[x] = "resuming" <=> pc[x] = "resuming"
                              /\ pc[x] = "resuming" => object'[x] = object[x]
    PROVE  MutexInv' /\ Calm
  <1>1. UNCHANGED <<value, owner, hold, original_priority>>
    BY DEF mutex
  <1>2. Detaching(k', pc', object', dying)
    <2>1. Detaching(k, pc, object, dying) /\ \A q \in dying : k'.queue[q] = k.queue[q]
      BY Parts
    <2>2. \A x \in Threads : /\ pc'[x] = "resuming" <=> pc[x] = "resuming"
                             /\ pc[x] = "resuming" => object'[x] = object[x]
      OBVIOUS
    <2> QED BY ONLY <2>1, <2>2, DetachingKept
  <1>3. Owners(k', value, owner, hold, original_priority)
    BY Parts, OwnersKept
  <1>4. MutexInv'
    BY <1>1, <1>2, <1>3, Parts, Together
  <1> QED BY <1>1, <1>4 DEF Calm

\* A suspended thread that becomes ready leaves its list.
LEMMA WakeEffect ==
    ASSUME MutexInv, NEW t \in Threads, k.stat[t] = "suspend", NEW e, NEW v, MadeReady(k, v, t, e)
    PROVE  /\ Waits(v, pc, object) /\ Runs(v, pc) /\ v.current = k.current /\ v.prio = k.prio
           /\ \A q \in Mutexes :
                 /\ Parted(k.queue[q], t, v.queue[q])
                 /\ ~Queued(k, q, t) => v.queue[q] = k.queue[q]
                 /\ k.queue[q] = << >> => v.queue[q] = << >>
                 /\ Ordered(k.queue[q], k.prio) => Ordered(v.queue[q], v.prio)
           /\ \A x \in Threads : v.stat[x] = IF x = t THEN "ready" ELSE k.stat[x]
           /\ \A x \in Threads : v.error[x] = IF x = t THEN e ELSE k.error[x]
  <1>1. Waits(k, pc, object) /\ Runs(k, pc)
    BY Parts
  <1>2. /\ Waits(v, pc, object) /\ Runs(v, pc) /\ v.current = k.current /\ v.prio = k.prio
        /\ \A x \in Threads : v.stat[x] = IF x = t THEN "ready" ELSE k.stat[x]
        /\ \A x \in Threads : v.error[x] = IF x = t THEN e ELSE k.error[x]
    BY ONLY <1>1, k.stat[t] = "suspend", t \in Threads, MadeReady(k, v, t, e), WakeWaits
  <1>3. \A q \in Mutexes :
           /\ Parted(k.queue[q], t, v.queue[q])
           /\ ~Queued(k, q, t) => v.queue[q] = k.queue[q]
           /\ k.queue[q] = << >> => v.queue[q] = << >>
           /\ Ordered(k.queue[q], k.prio) => Ordered(v.queue[q], v.prio)
    BY ONLY <1>1, k.stat[t] = "suspend", t \in Threads, MadeReady(k, v, t, e), WakeWaits
  <1> QED BY <1>2, <1>3

\* A section that ends in rt_schedule, after a change of the thread table in
\* which waiters may have become ready.
LEMMA RescheduleStep ==
    ASSUME MutexInv, NEW v, Waits(v, pc, object), v.prio = k.prio,
           \A r \in dying : v.queue[r] = k.queue[r],
           \A q \in Mutexes : /\ k.queue[q] = << >> => v.queue[q] = << >>
                              /\ \A x : Contains(v.queue[q], x) => Contains(k.queue[q], x)
                              /\ Ordered(k.queue[q], k.prio) => Ordered(v.queue[q], v.prio),
           k' = rt_schedule(v), UNCHANGED <<pc, object, dying, mutex>>
    PROVE  MutexInv' /\ Calm
  <1>1. /\ Waits(k', pc, object) /\ k'.current \in Threads /\ k'.stat[k'.current] = "ready"
        /\ k'.queue = v.queue /\ k'.prio = v.prio
    BY ScheduleWaits
  <1>2. UNCHANGED <<value, owner, hold, original_priority>>
    BY DEF mutex
  <1>3. Detaching(k', pc, object, dying)
    <2>1. \A r \in dying : k'.queue[r] = k.queue[r]
      BY <1>1
    <2>2. Detaching(k, pc, object, dying)
      BY Parts
    <2> QED BY ONLY <2>1, <2>2, DetachingKept
  <1>4. Runs(k', pc)
    BY <1>1 DEF Runs
  <1>5. Owners(k', value, owner, hold, original_priority)
    BY <1>1, Parts, OwnersKept
  <1>6. MutexInv'
    BY <1>1, <1>2, <1>3, <1>4, <1>5, Parts, Together
  <1> QED BY <1>1, <1>2, <1>6 DEF Calm

-----------------------------------------------------------------------------
(* Actions that change no owner and no priority *)

\* All mutexes are free at the start.
LEMMA InitHolds == Init => MutexInv
  <1> SUFFICES ASSUME Init PROVE MutexInv
    OBVIOUS
  <1>1. /\ Settled(k)
        /\ k.stat = [t \in Threads |-> "ready"] /\ k.error = [t \in Threads |-> "RT_EOK"]
        /\ k.timer = {} /\ k.queue = [q \in Queues |-> << >>]
        /\ k.prio = init_priority /\ k.current \in Threads
    BY IpcAssumption, AllStartedSettled DEF Init, InitThreads
  <1>2. /\ pc = [t \in Threads |-> "user"] /\ object = [t \in Threads |-> AnyQueue] /\ dying = {}
        /\ AnyQueue \in Mutexes /\ Queues = Mutexes
        /\ value = [q \in Mutexes |-> 1] /\ owner = [q \in Mutexes |-> NoThread]
        /\ hold = [q \in Mutexes |-> 0]
        /\ original_priority = [q \in Mutexes |-> NoPriority]
    BY MutexAssumption DEF Init, InitThreads, AnyQueue
  <1>3. WaitersListed(k, pc, object, TakePoints)
    BY <1>1, <1>2 DEF WaitersListed, Queued, Contains, TakePoints
  <1>4. Waits(k, pc, object)
    BY <1>1, <1>2, <1>3, IpcAssumption DEF Waits
  <1>5. Runs(k, pc) /\ Detaching(k, pc, object, dying)
    BY <1>1, <1>2 DEF Runs, Detaching
  <1>6. Owners(k, value, owner, hold, original_priority)
    BY <1>1, <1>2, IpcAssumption, KernelAssumption DEF Owners, Contains
  <1>7. TypeOK
    BY <1>1, <1>2, SettledType, MutexAssumption DEF TypeOK
  <1> QED BY <1>4, <1>5, <1>6, <1>7 DEF MutexInv

\* The owner takes the mutex again.
LEMMA TakeAgainStep ==
    ASSUME MutexInv, NEW s \in Threads, NEW q \in Mutexes, Running(s, "user"), UNCHANGED dying,
           take_again(s, q)
    PROVE  MutexInv' /\ Calm
  <1>1. /\ k.stat[s] = "ready" /\ k.current = s /\ s # NoThread
        /\ Waits(k, pc, object) /\ Owners(k, value, owner, hold, original_priority)
    BY RunningReady, Parts
  <1>2. /\ owner[q] = s /\ hold[q] < MaxHold /\ hold' = [hold EXCEPT ![q] = @ + 1]
        /\ k' = [k EXCEPT !.error[s] = "RT_EOK"]
        /\ UNCHANGED <<pc, object, value, owner, original_priority>>
    BY DEF take_again
  <1>3. /\ Waits(k', pc, object)
        /\ k'.stat = k.stat /\ k'.queue = k.queue /\ k'.prio = k.prio /\ k'.current = k.current
    BY <1>1, <1>2, ErrorWaits DEF Errors
  <1>4. /\ hold \in [Mutexes -> 0 .. MaxHold] /\ hold[q] \in 0 .. MaxHold /\ MaxHold \in Nat
        /\ value[q] # 1
    BY <1>1, <1>2, Parts, MutexAssumption DEF Owners
  <1>5. hold[q] + 1 \in 0 .. MaxHold /\ hold[q] + 1 # 0
    BY <1>2, <1>4
  <1>6. hold' \in [Mutexes -> 0 .. MaxHold] /\ \A r \in Mutexes : hold'[r] = 0 <=> hold[r] = 0
    <2>1. hold[q] # 0
      BY <1>1, <1>4 DEF Owners
    <2> QED BY <1>2, <1>4, <1>5, <2>1
  <1>7. Owners(k', value, owner, hold', original_priority)
    BY <1>1, <1>3, <1>6 DEF Owners
  <1>8. Runs(k', pc)
    BY <1>3, Parts DEF Runs
  <1>9. Detaching(k', pc, object, dying)
    BY <1>3, Parts DEF Detaching
  <1>10. MutexInv'
    BY <1>2, <1>3, <1>6, <1>7, <1>8, <1>9, Parts, Together
  <1> QED BY <1>2, <1>3, <1>10 DEF Calm

\* rt_mutex_take without waiting, and a release by one who is not the owner:
\* only the caller's error changes.
LEMMA RefusedStep ==
    ASSUME MutexInv, NEW s \in Threads, Running(s, "user"), UNCHANGED <<pc, object, dying, mutex>>,
           NEW e \in Errors, k' = [k EXCEPT !.error[s] = e]
    PROVE  MutexInv' /\ Calm
  <1>1. k.stat[s] = "ready" /\ k.current = s /\ Waits(k, pc, object) /\ Runs(k, pc)
    BY RunningReady, Parts
  <1>2. /\ Waits(k', pc, object)
        /\ k'.stat = k.stat /\ k'.queue = k.queue /\ k'.prio = k.prio /\ k'.current = k.current
    BY <1>1, ErrorWaits
  <1>3. Runs(k', pc)
    BY <1>1, <1>2 DEF Runs
  <1> QED BY <1>2, <1>3, Parts, CalmStep

\* rt_mutex_take returns.
LEMMA TakeReturnStep ==
    ASSUME MutexInv, NEW s \in Threads, take_return(s)
    PROVE  MutexInv' /\ Calm
  <1>1. k.current = s /\ s # Idle /\ pc[s] = "taking" /\ k.stat[s] = "ready"
    BY RunningReady DEF take_return
  <1>2. /\ pc' = [pc EXCEPT ![s] = "user"] /\ object' = [object EXCEPT ![s] = AnyQueue]
        /\ UNCHANGED <<k, dying, mutex>> /\ AnyQueue \in Mutexes
    BY MutexAssumption DEF take_return, LeaveCall, LeaveTo, Goto, AnyQueue
  <1>3. /\ \A x \in Threads : x # s => pc'[x] = pc[x] /\ object'[x] = object[x]
        /\ pc'[s] = "user"
        /\ pc' \in [Threads -> Points] /\ object' \in [Threads -> Mutexes]
    BY <1>2, Parts DEF Points
  <1>4. Waits(k, pc', object')
    <2>1. Waits(k, pc, object)
      BY Parts
    <2> QED BY ONLY <1>1, <2>1, <1>3, s \in Threads, GoWaits
  <1>5. Runs(k, pc')
    BY <1>1 DEF Runs
  <1>6. \A x \in Threads : /\ pc'[x] = "resuming" <=> pc[x] = "resuming"
                           /\ pc[x] = "resuming" => object'[x] = object[x]
    BY <1>1, <1>3
  <1> QED BY <1>2, <1>3, <1>4, <1>5, <1>6, CalmStep

\* A thread goes to sleep, whatever it owns.
LEMMA SleepStep ==
    ASSUME MutexInv, NEW s \in Threads, rt_thread_sleep(s)
    PROVE  MutexInv' /\ Calm
  <1>1. k.current = s /\ s # Idle /\ pc[s] = "user" /\ k.stat[s] = "ready"
    BY RunningReady DEF rt_thread_sleep
  <1>2. /\ pc' = [pc EXCEPT ![s] = "schedule"] /\ UNCHANGED <<object, dying, mutex>>
        /\ k' = rt_timer_start(rt_thread_suspend(k, s), s)
    BY DEF rt_thread_sleep, Goto
  <1>3. /\ \A x \in Threads : x # s => pc'[x] = pc[x]
        /\ pc'[s] = "schedule" /\ pc' \in [Threads -> Points]
    BY <1>2, Parts DEF Points
  <1>4. Waits(k', pc', object) /\ Runs(k', pc') /\ k'.queue = k.queue /\ k'.prio = k.prio
    <2>1. Waits(k, pc, object)
      BY Parts
    <2>2. k' = rt_timer_start(rt_thread_suspend(k, s), s)
      BY <1>2
    <2>3. s \in Threads /\ k.current = s /\ s # Idle /\ k.stat[s] = "ready"
      BY <1>1
    <2>4. (\A x \in Threads : x # s => pc'[x] = pc[x]) /\ pc'[s] = "schedule"
      BY <1>3
    <2> QED BY ONLY <2>1, <2>2, <2>3, <2>4, SleepWaits
  <1>5. \A x \in Threads : pc'[x] = "resuming" <=> pc[x] = "resuming"
    BY <1>1, <1>3
  <1> QED BY <1>2, <1>3, <1>4, <1>5, Parts, CalmStep

\* The rt_schedule in rt_mutex_take.
LEMMA BlockedStep ==
    ASSUME MutexInv, NEW s \in Threads, ScheduleStep(s, "blocked", "taking"), UNCHANGED mutex
    PROVE  MutexInv' /\ Calm
  <1>1. /\ s # Idle /\ pc[s] = "blocked"
        /\ dying' = dying /\ object' = object /\ k' = rt_schedule(k) /\ pc' = [pc EXCEPT ![s] = "taking"]
    BY RunningReady DEF ScheduleStep, Goto
  <1>2. /\ Waits(k', pc, object) /\ k'.current \in Threads /\ k'.stat[k'.current] = "ready"
        /\ k'.queue = k.queue /\ k'.prio = k.prio
    BY <1>1, Parts, ScheduleWaits
  <1>3. /\ \A x \in Threads : x # s => pc'[x] = pc[x]
        /\ pc'[s] = "taking" /\ pc' \in [Threads -> Points]
    BY <1>1, Parts DEF Points
  <1>4. Waits(k', pc', object)
    <2>1. \A x \in Threads : /\ pc'[x] \in TakePoints <=> pc[x] \in TakePoints
                             /\ pc'[x] \in {"schedule", "user"} <=> pc[x] \in {"schedule", "user"}
      BY <1>1, <1>3 DEF TakePoints
    <2>2. pc'[Idle] = "user"
      BY <1>1, <1>2, <1>3, IpcAssumption DEF Waits
    <2>3. k'.timer \subseteq Threads
      BY <1>2, SettledType DEF Waits
    <2>4. WaitersListed(k', pc', object, TakePoints)
      BY ONLY <1>2, <2>1 DEF Waits, WaitersListed
    <2> QED BY ONLY <1>2, <2>1, <2>2, <2>3, <2>4 DEF Waits
  <1>5. Runs(k', pc')
    BY <1>2 DEF Runs
  <1>6. \A x \in Threads : pc'[x] = "resuming" <=> pc[x] = "resuming"
    BY <1>1, <1>3
  <1> QED BY <1>1, <1>2, <1>3, <1>4, <1>5, <1>6, Parts, CalmStep

\* The rt_schedule at the end of a call, also of one that sleeps.
LEMMA LeaveStep ==
    ASSUME MutexInv, NEW s \in Threads, ScheduleStep(s, "schedule", "user"), UNCHANGED mutex
    PROVE  MutexInv' /\ Calm
  <1>1. /\ s # Idle /\ pc[s] = "schedule"
        /\ dying' = dying /\ object' = object /\ k' = rt_schedule(k) /\ pc' = [pc EXCEPT ![s] = "user"]
    BY RunningReady DEF ScheduleStep, Goto
  <1>2. /\ Waits(k', pc, object) /\ k'.current \in Threads /\ k'.stat[k'.current] = "ready"
        /\ k'.queue = k.queue /\ k'.prio = k.prio
    BY <1>1, Parts, ScheduleWaits
  <1>3. /\ \A x \in Threads : x # s => pc'[x] = pc[x] /\ object'[x] = object[x]
        /\ pc'[s] = "user" /\ pc' \in [Threads -> Points] /\ object' \in [Threads -> Mutexes]
    BY <1>1, Parts DEF Points
  <1>4. Waits(k', pc', object')
    <2>1. pc[s] \notin TakePoints /\ pc'[s] \in {"schedule", "user"}
      BY <1>1, <1>3 DEF TakePoints
    <2> QED BY ONLY <1>1, <1>2, <1>3, <2>1, s \in Threads, GoWaits
  <1>5. Runs(k', pc')
    BY <1>2 DEF Runs
  <1>6. \A x \in Threads : pc'[x] = "resuming" <=> pc[x] = "resuming"
    BY <1>1, <1>3
  <1> QED BY <1>1, <1>2, <1>3, <1>4, <1>5, <1>6, CalmStep

\* The slice of the current thread ends.
LEMMA TickYieldStep ==
    ASSUME MutexInv, tick_yield, UNCHANGED mutex
    PROVE  MutexInv' /\ Calm
  <1> DEFINE v == move_to_tail(k)
  <1>1. k.stat[k.current] = "ready" /\ k' = rt_schedule(v) /\ UNCHANGED <<pc, object, dying>>
    BY DEF tick_yield, MovesToTail
  <1>2. Waits(k, pc, object) /\ k.current \in Threads
    BY Parts DEF Runs
  <1>3. /\ Settled(v) /\ v.stat = k.stat /\ v.error = k.error /\ v.timer = k.timer
        /\ v.queue = k.queue /\ v.prio = k.prio
    BY <1>1, <1>2, MoveSettled DEF Waits
  <1> HIDE DEF v
  <1>4. Waits(v, pc, object)
    BY <1>2, <1>3 DEF Waits, WaitersListed, Queued
  <1> QED BY <1>1, <1>3, <1>4, RescheduleStep

\* A timer runs out, of a waiter or of a thread that sleeps.
LEMMA TimeoutStep ==
    ASSUME MutexInv, NEW t \in Threads, timeout(t), UNCHANGED mutex
    PROVE  MutexInv' /\ Calm
  <1> DEFINE v == rt_thread_timeout(k, t)
  <1>1. t \in k.timer /\ k' = rt_schedule(v) /\ UNCHANGED <<pc, object, dying>>
    BY DEF timeout
  <1>2. /\ Waits(k, pc, object) /\ Settled(k) /\ k.stat[t] = "suspend"
        /\ (pc[t] \in TakePoints => object[t] \notin Deletable)
    BY <1>1, Parts DEF Waits, Settled
  <1>3. MadeReady(k, v, t, "RT_ETIMEOUT")
    BY <1>2, TimeoutSettled
  <1> HIDE DEF v
  <1>4. /\ Waits(v, pc, object) /\ v.prio = k.prio
        /\ \A q \in Mutexes :
              /\ Parted(k.queue[q], t, v.queue[q])
              /\ ~Queued(k, q, t) => v.queue[q] = k.queue[q]
              /\ k.queue[q] = << >> => v.queue[q] = << >>
              /\ Ordered(k.queue[q], k.prio) => Ordered(v.queue[q], v.prio)
    BY <1>2, <1>3, WakeEffect
  <1>5. \A r \in dying : v.queue[r] = k.queue[r]
    <2>1. \A r \in dying : r \in Mutexes /\ r \in Deletable
      BY Parts
    <2>2. \A r \in dying : ~Queued(k, r, t)
      BY <1>2, <2>1, MutexAssumption DEF Waits, WaitersListed
    <2> QED BY <1>4, <2>1, <2>2
  <1>6. \A q \in Mutexes : \A x : Contains(v.queue[q], x) => Contains(k.queue[q], x)
    BY <1>4 DEF Parted
  <1> QED BY <1>1, <1>4, <1>5, <1>6, RescheduleStep

-----------------------------------------------------------------------------
(* Actions that change owners or priorities *)

\* The owner gets the priority of the caller if that is more urgent.
LEMMA InheritWaits ==
    ASSUME NEW u, NEW at, NEW on, Waits(u, at, on), NEW s \in Threads, NEW q \in Mutexes,
           owner[q] \in Threads, NEW v, v = Inherit(u, s, q)
    PROVE  /\ Waits(v, at, on)
           /\ v.stat = u.stat /\ v.error = u.error /\ v.queue = u.queue /\ v.current = u.current
           /\ \A x \in Threads : x # owner[q] => v.prio[x] = u.prio[x]
           /\ v.prio[owner[q]] = IF u.prio[s] < u.prio[owner[q]] THEN u.prio[s] ELSE u.prio[owner[q]]
  <1>1. u.prio \in [Threads -> Prios]
    BY SettledType DEF Waits, KernelType
  <1>2. CASE u.prio[s] < u.prio[owner[q]]
    <2> DEFINE t == owner[q]
               p == u.prio[s]
    <2>1. v = rt_thread_control(u, t, p) /\ p \in Prios /\ t \in Threads
      BY <1>1, <1>2 DEF Inherit
    <2>2. /\ Waits(v, at, on) /\ v.prio = [u.prio EXCEPT ![t] = p]
          /\ v.stat = u.stat /\ v.error = u.error /\ v.queue = u.queue /\ v.current = u.current
      <3> HIDE DEF t, p
      <3> QED BY ONLY Waits(u, at, on), <2>1, PriorityWaits
    <2> QED BY <1>1, <1>2, <2>2
  <1>3. CASE ~(u.prio[s] < u.prio[owner[q]])
    BY <1>3 DEF Inherit
  <1> QED BY <1>2, <1>3

\* The owner goes back to the priority it had when it became the owner.
LEMMA RestoreWaits ==
    ASSUME MutexInv, NEW s \in Threads, NEW q \in Mutexes, owner[q] = s,
           NEW v, v = Restore(s, q)
    PROVE  /\ Waits(v, pc, object)
           /\ v.stat = k.stat /\ v.error = k.error /\ v.queue = k.queue /\ v.current = k.current
           /\ v.prio = [k.prio EXCEPT ![s] = original_priority[q]]
  <1>1. k.prio \in [Threads -> Prios] /\ Waits(k, pc, object)
    BY Parts, SettledType DEF Waits, KernelType
  <1>2. original_priority[q] \in Prios
    BY Parts, KernelAssumption DEF Owners
  <1>3. CASE original_priority[q] # k.prio[s]
    <2> DEFINE p == original_priority[q]
    <2>1. v = rt_thread_control(k, s, p) /\ p \in Prios
      BY <1>2, <1>3 DEF Restore
    <2> HIDE DEF p
    <2>2. /\ Waits(v, pc, object) /\ v.prio = [k.prio EXCEPT ![s] = p]
          /\ v.stat = k.stat /\ v.error = k.error /\ v.queue = k.queue /\ v.current = k.current
      BY ONLY <1>1, <2>1, s \in Threads, PriorityWaits
    <2> QED BY <2>2 DEF p
  <1>4. CASE original_priority[q] = k.prio[s]
    BY <1>1, <1>4 DEF Restore
  <1> QED BY <1>3, <1>4

\* A free mutex is taken.
LEMMA TakeFreeStep ==
    ASSUME MutexInv, NEW s \in Threads, NEW q \in Mutexes, Running(s, "user"), UNCHANGED dying,
           take_free(s, q)
    PROVE  MutexInv'
  <1>1. /\ k.stat[s] = "ready" /\ k.current = s /\ s # NoThread /\ s # Idle
        /\ Waits(k, pc, object) /\ Owners(k, value, owner, hold, original_priority)
    BY RunningReady, Parts
  <1>2. /\ value[q] > 0 /\ value' = [value EXCEPT ![q] = @ - 1]
        /\ owner' = [owner EXCEPT ![q] = s] /\ hold' = [hold EXCEPT ![q] = @ + 1]
        /\ original_priority' = [original_priority EXCEPT ![q] = k.prio[s]]
        /\ k' = [k EXCEPT !.error[s] = "RT_EOK"]
        /\ UNCHANGED <<pc, object>>
    BY DEF take_free
  <1>3. /\ Waits(k', pc, object)
        /\ k'.stat = k.stat /\ k'.queue = k.queue /\ k'.prio = k.prio /\ k'.current = k.current
    BY <1>1, <1>2, ErrorWaits DEF Errors
  <1>4. /\ value \in [Mutexes -> {0, 1}] /\ owner \in [Mutexes -> Threads \cup {NoThread}]
        /\ hold \in [Mutexes -> 0 .. MaxHold]
        /\ original_priority \in [Mutexes -> Prios \cup {NoPriority}]
        /\ k.prio[s] \in Prios
    BY <1>1, Parts, SettledType DEF Waits, KernelType
  <1>5. value[q] = 1 /\ hold[q] = 0 /\ k.queue[q] = << >> /\ ~Contains(k.queue[q], s)
    <2>1. value[q] = 1
      BY <1>2, <1>4
    <2>2. hold[q] = 0 /\ k.queue[q] = << >>
      BY <1>1, <2>1 DEF Owners
    <2>3. \A x : ~Contains(k.queue[q], x)
      BY ONLY <1>1, <2>2, q \in Mutexes, FirstWaiter
    <2> QED BY <2>1, <2>2, <2>3
  <1>6. /\ value' = [value EXCEPT ![q] = 0] /\ hold' = [hold EXCEPT ![q] = 1]
        /\ 1 \in 0 .. MaxHold
    BY <1>2, <1>4, <1>5, MutexAssumption
  <1>7. /\ value' \in [Mutexes -> {0, 1}] /\ owner' \in [Mutexes -> Threads \cup {NoThread}]
        /\ hold' \in [Mutexes -> 0 .. MaxHold]
        /\ original_priority' \in [Mutexes -> Prios \cup {NoPriority}]
    BY <1>2, <1>4, <1>6
  <1>8. Owners(k', value', owner', hold', original_priority')
    BY <1>1, <1>2, <1>3, <1>4, <1>5, <1>6 DEF Owners
  <1>9. Runs(k', pc)
    BY <1>3, Parts DEF Runs
  <1>10. Detaching(k', pc, object, dying)
    BY <1>3, Parts DEF Detaching
  <1> QED BY <1>2, <1>3, <1>7, <1>8, <1>9, <1>10, Parts, Together

\* A mutex that another thread owns is waited for; its owner inherits the
\* priority of the caller first.
LEMMA TakeWaitEffect ==
    ASSUME MutexInv, NEW s \in Threads, NEW q \in Mutexes, NEW timed \in BOOLEAN,
           Running(s, "user"), take_wait(s, q, timed)
    PROVE  /\ Waits(k', pc', object') /\ Runs(k', pc')
           /\ owner[q] \in Threads /\ owner[q] # s /\ s \in Clients /\ pc[s] = "user"
           /\ k.stat[s] = "ready"
           /\ \A r \in Mutexes : r # q => k'.queue[r] = k.queue[r]
           /\ Joined(k.queue[q], s, k'.queue[q])
           /\ \A x \in Threads : k'.stat[x] = IF x = s THEN "suspend" ELSE k.stat[x]
           /\ k'.error[s] = "RT_EOK" /\ \A x \in Threads : x # s => k'.error[x] = k.error[x]
           /\ \A x \in Threads : x # owner[q] => k'.prio[x] = k.prio[x]
           /\ k'.prio[owner[q]] = IF k.prio[s] < k.prio[owner[q]] THEN k.prio[s] ELSE k.prio[owner[q]]
           /\ flag[q] = "RT_IPC_FLAG_PRIO" /\ Ordered(k.queue[q], k'.prio) => Ordered(k'.queue[q], k'.prio)
           /\ \A x \in Threads : x # s => pc'[x] = pc[x] /\ object'[x] = object[x]
           /\ pc'[s] = "blocked" /\ object'[s] = q
           /\ pc' \in [Threads -> Points] /\ object' \in [Threads -> Mutexes]
  <1> DEFINE u == [k EXCEPT !.error[s] = "RT_EOK"]
             v == Inherit(u, s, q)
  <1>1. /\ k.stat[s] = "ready" /\ k.current = s /\ s # Idle /\ s \in Clients /\ pc[s] = "user"
        /\ Waits(k, pc, object) /\ Owners(k, value, owner, hold, original_priority)
    BY RunningReady, Parts
  <1>2. /\ owner[q] # s /\ value[q] = 0 /\ (timed => q \notin Deletable)
        /\ k' = Block(v, q, s, flag[q], timed)
        /\ pc' = [pc EXCEPT ![s] = "blocked"] /\ object' = [object EXCEPT ![s] = q]
    BY DEF take_wait, Goto
  <1>3. owner[q] \in Threads
    BY <1>1, <1>2, Parts DEF Owners
  <1>4. /\ \A x \in Threads : x # s => pc'[x] = pc[x] /\ object'[x] = object[x]
        /\ pc'[s] = "blocked" /\ object'[s] = q
        /\ pc' \in [Threads -> Points] /\ object' \in [Threads -> Mutexes]
    BY <1>2, Parts DEF Points
  <1>5. k.error \in [Threads -> Errors] /\ "RT_EOK" \in Errors /\ k \in KernelType
    BY <1>1, SettledType DEF Waits, Errors
  <1>6. u.error[s] = "RT_EOK"
    BY <1>5 DEF KernelType
  <1>7. /\ Waits(u, pc, object)
        /\ u.stat = k.stat /\ u.queue = k.queue /\ u.prio = k.prio /\ u.current = k.current
        /\ \A x \in Threads : x # s => u.error[x] = k.error[x]
    BY <1>1, <1>5, ErrorWaits
  <1> HIDE DEF u
  <1>8. /\ Waits(v, pc, object)
        /\ v.stat = u.stat /\ v.error = u.error /\ v.queue = u.queue /\ v.current = u.current
        /\ \A x \in Threads : x # owner[q] => v.prio[x] = u.prio[x]
        /\ v.prio[owner[q]] = IF u.prio[s] < u.prio[owner[q]] THEN u.prio[s] ELSE u.prio[owner[q]]
    BY <1>3, <1>7, InheritWaits
  <1> HIDE DEF v
  <1>9. v.current = s /\ v.stat[s] = "ready" /\ v.error[s] = "RT_EOK"
    BY <1>1, <1>6, <1>7, <1>8
  <1>10. /\ Waits(k', pc', object') /\ Runs(k', pc') /\ k'.prio = v.prio
         /\ \A r \in Mutexes : r # q => k'.queue[r] = v.queue[r]
         /\ Joined(v.queue[q], s, k'.queue[q])
         /\ flag[q] = "RT_IPC_FLAG_PRIO" /\ Ordered(v.queue[q], v.prio) => Ordered(k'.queue[q], v.prio)
         /\ \A x \in Threads : k'.stat[x] = IF x = s THEN "suspend" ELSE v.stat[x]
         /\ k'.error = v.error
    <2>1. timed => q \notin Deletable
      BY <1>2
    <2>2. k' = Block(v, q, s, flag[q], timed)
      BY <1>2
    <2>3. Waits(v, pc, object) /\ s # Idle
      BY <1>1, <1>8
    <2> QED BY ONLY <1>4, <1>9, <2>1, <2>2, <2>3, s \in Threads, q \in Mutexes, timed \in BOOLEAN,
                    BlockWaits, SMTT(30)
  <1>11. v.queue = k.queue /\ v.stat = k.stat /\ u.prio = k.prio
    BY <1>7, <1>8
  <1>12. k'.error[s] = "RT_EOK" /\ \A x \in Threads : x # s => k'.error[x] = k.error[x]
    BY <1>7, <1>8, <1>9, <1>10
  <1> QED BY ONLY <1>1, <1>2, <1>3, <1>4, <1>8, <1>10, <1>11, <1>12

\* Blocking leaves the mutex to its owner, who is not the caller.
LEMMA TakeWaitStep ==
    ASSUME MutexInv, NEW s \in Threads, NEW q \in Mutexes, NEW timed \in BOOLEAN,
           Running(s, "user"), Usable(q), UNCHANGED dying, take_wait(s, q, timed)
    PROVE  MutexInv'
  <1>1. /\ Waits(k', pc', object') /\ Runs(k', pc')
        /\ owner[q] \in Threads /\ owner[q] # s /\ s \in Clients /\ pc[s] = "user"
        /\ \A r \in Mutexes : r # q => k'.queue[r] = k.queue[r]
        /\ \A x \in Threads : x # s => pc'[x] = pc[x] /\ object'[x] = object[x]
        /\ pc'[s] = "blocked" /\ object'[s] = q
        /\ pc' \in [Threads -> Points] /\ object' \in [Threads -> Mutexes]
    BY TakeWaitEffect
  <1>2. \A x : Contains(k'.queue[q], x) <=> Contains(k.queue[q], x) \/ x = s
    BY TakeWaitEffect DEF Joined
  <1>3. UNCHANGED <<value, owner, hold, original_priority>> /\ value[q] = 0 /\ q \notin dying
    BY DEF take_wait, mutex, Usable
  <1>4. Detaching(k', pc', object', dying)
    <2>1. Detaching(k, pc, object, dying) /\ \A r \in dying : k'.queue[r] = k.queue[r]
      BY <1>1, <1>3, Parts
    <2>2. \A x \in Threads : /\ pc'[x] = "resuming" <=> pc[x] = "resuming"
                             /\ pc[x] = "resuming" => object'[x] = object[x]
      BY <1>1
    <2> QED BY ONLY <2>1, <2>2, DetachingKept
  <1>5. Owners(k', value, owner, hold, original_priority)
    <2>1. Owners(k, value, owner, hold, original_priority)
      BY Parts
    <2>2. ~Contains(k'.queue[q], owner[q])
      BY <1>1, <1>2, <2>1 DEF Owners
    <2> QED BY <1>1, <1>3, <2>1, <2>2 DEF Owners
  <1> QED BY <1>1, <1>3, <1>4, <1>5, Parts, Together

\* The owner releases a mutex that it has taken several times.
LEMMA ReleaseOneStep ==
    ASSUME MutexInv, NEW s \in Threads, NEW q \in Mutexes, UNCHANGED <<object, dying>>,
           release_one(q)
    PROVE  MutexInv' /\ Calm
  <1>1. /\ hold[q] > 1 /\ hold' = [hold EXCEPT ![q] = @ - 1]
        /\ UNCHANGED <<k, pc, value, owner, original_priority>>
    BY DEF release_one
  <1>2. hold \in [Mutexes -> 0 .. MaxHold] /\ hold[q] \in 0 .. MaxHold /\ MaxHold \in Nat
    BY Parts, MutexAssumption
  <1>3. hold[q] - 1 \in 0 .. MaxHold /\ hold[q] - 1 # 0
    BY <1>1, <1>2
  <1>4. hold' \in [Mutexes -> 0 .. MaxHold] /\ \A r \in Mutexes : hold'[r] = 0 <=> hold[r] = 0
    BY <1>1, <1>2, <1>3
  <1>5. Owners(k, value, owner, hold', original_priority)
    BY <1>4, Parts DEF Owners
  <1>6. MutexInv'
    BY <1>1, <1>4, <1>5, Parts, Together
  <1> QED BY <1>1, <1>6 DEF Calm

\* Nobody waits: the mutex is free.
LEMMA ReleaseFreeStep ==
    ASSUME MutexInv, NEW s \in Threads, NEW q \in Mutexes, Running(s, "user"), owner[q] = s,
           UNCHANGED <<object, dying>>, release_free(s, q)
    PROVE  MutexInv'
  <1>1. /\ hold[q] = 1 /\ k.queue[q] = << >> /\ k' = Restore(s, q)
        /\ value' = [value EXCEPT ![q] = @ + 1] /\ owner' = [owner EXCEPT ![q] = NoThread]
        /\ hold' = [hold EXCEPT ![q] = 0]
        /\ original_priority' = [original_priority EXCEPT ![q] = NoPriority]
        /\ UNCHANGED pc
    BY DEF release_free, NoWaiter
  <1>2. /\ Waits(k', pc, object)
        /\ k'.stat = k.stat /\ k'.queue = k.queue /\ k'.current = k.current
    BY <1>1, RestoreWaits
  <1>3. /\ value \in [Mutexes -> {0, 1}] /\ owner \in [Mutexes -> Threads \cup {NoThread}]
        /\ hold \in [Mutexes -> 0 .. MaxHold]
        /\ original_priority \in [Mutexes -> Prios \cup {NoPriority}]
        /\ Owners(k, value, owner, hold, original_priority)
    BY Parts
  <1>4. value[q] = 0
    BY <1>1, <1>3 DEF Owners
  <1>5. value' = [value EXCEPT ![q] = 1] /\ 0 \in 0 .. MaxHold
    BY <1>1, <1>4, MutexAssumption
  <1>6. /\ value' \in [Mutexes -> {0, 1}] /\ owner' \in [Mutexes -> Threads \cup {NoThread}]
        /\ hold' \in [Mutexes -> 0 .. MaxHold]
        /\ original_priority' \in [Mutexes -> Prios \cup {NoPriority}]
    BY <1>1, <1>3, <1>5
  <1>7. ~Contains(k.queue[q], NoThread) /\ NoThread # Idle
    BY <1>1, KernelAssumption, IpcAssumption DEF Contains
  <1>8. Owners(k', value', owner', hold', original_priority')
    BY <1>1, <1>2, <1>3, <1>5, <1>7 DEF Owners
  <1>9. Runs(k', pc)
    BY <1>2, Parts DEF Runs
  <1>10. Detaching(k', pc, object, dying)
    BY <1>2, Parts DEF Detaching
  <1> QED BY <1>1, <1>2, <1>6, <1>8, <1>9, <1>10, Parts, Together

\* What handing mutex q from its owner s to the waiter t does to the threads.
Handed(s, q, t) ==
    /\ Waits(k', pc, object) /\ k'.current = s /\ pc[s] = "user" /\ s \in Clients
    /\ t \in Clients /\ t # s /\ Queued(k, q, t) /\ object[t] = q /\ pc[t] \in TakePoints
    /\ k.stat[t] = "suspend" /\ k.error[t] = "RT_EOK"
    /\ k'.prio = [k.prio EXCEPT ![s] = original_priority[q]]
    /\ \A r \in Mutexes :
          /\ Parted(k.queue[r], t, k'.queue[r])
          /\ ~Queued(k, r, t) => k'.queue[r] = k.queue[r]
          /\ k.queue[r] = << >> => k'.queue[r] = << >>
          /\ Ordered(k.queue[r], k'.prio) => Ordered(k'.queue[r], k'.prio)
    /\ \A x \in Threads : k'.stat[x] = IF x = t THEN "ready" ELSE k.stat[x]
    /\ k'.error = k.error

\* The mutex is handed to the first waiter, which becomes ready as its owner.
LEMMA ReleasePassEffect ==
    ASSUME MutexInv, NEW s \in Threads, NEW q \in Mutexes, Running(s, "user"), owner[q] = s,
           release_pass(s, q)
    PROVE  Handed(s, q, Head(k.queue[q]))
  <1>0. PICK t : t = Head(k.queue[q])
    OBVIOUS
  <1> DEFINE v == Restore(s, q)
  <1>1. /\ k.current = s /\ s # Idle /\ pc[s] = "user" /\ s \in Clients /\ k.stat[s] = "ready"
        /\ k.queue[q] # << >> /\ Waits(k, pc, object)
    BY RunningReady, Parts DEF release_pass, NoWaiter
  <1>2. k' = rt_ipc_list_resume(v, q)
    BY DEF release_pass
  <1>3. /\ Waits(v, pc, object)
        /\ v.stat = k.stat /\ v.error = k.error /\ v.queue = k.queue /\ v.current = k.current
        /\ v.prio = [k.prio EXCEPT ![s] = original_priority[q]]
    BY RestoreWaits
  <1> HIDE DEF v
  <1>4. /\ t \in Threads /\ Queued(k, q, t) /\ k.stat[t] = "suspend" /\ object[t] = q
        /\ pc[t] \in TakePoints /\ k.error[t] = "RT_EOK"
    BY ONLY <1>0, <1>1, q \in Mutexes, FirstWaiter
  <1>5. t # s /\ t \in Clients
    BY <1>1, <1>4 DEF Waits, Clients
  <1>6. MadeReady(v, k', t, "RT_EOK")
    <2>1. Settled(v) /\ v.stat[t] = "suspend" /\ v.error[t] = "RT_EOK" /\ k' = rt_thread_resume(v, t)
      BY <1>0, <1>2, <1>3, <1>4 DEF Waits, rt_ipc_list_resume
    <2>2. MadeReady(v, rt_thread_resume(v, t), t, v.error[t])
      BY ONLY <1>4, <2>1, ResumeSettled
    <2> QED BY <2>1, <2>2
  <1>7. /\ Waits(k', pc, object) /\ k'.current = v.current /\ k'.prio = v.prio
        /\ \A x \in Threads : k'.stat[x] = IF x = t THEN "ready" ELSE v.stat[x]
        /\ \A x \in Threads : k'.error[x] = IF x = t THEN "RT_EOK" ELSE v.error[x]
    <2>1. v.stat[t] = "suspend"
      BY <1>3, <1>4
    <2> QED BY ONLY <1>3, <1>4, <1>6, <2>1, WakeWaits
  <1>8. \A r \in Mutexes :
           /\ Parted(v.queue[r], t, k'.queue[r])
           /\ ~Queued(v, r, t) => k'.queue[r] = v.queue[r]
           /\ v.queue[r] = << >> => k'.queue[r] = << >>
           /\ Ordered(v.queue[r], v.prio) => Ordered(k'.queue[r], k'.prio)
    <2>1. v.stat[t] = "suspend"
      BY <1>3, <1>4
    <2> QED BY ONLY <1>3, <1>4, <1>6, <2>1, WakeWaits
  <1>9. k'.error = k.error
    <2>1. k'.error \in [Threads -> Errors] /\ k.error \in [Threads -> Errors]
      BY <1>1, <1>7, SettledType DEF Waits
    <2> QED BY <1>3, <1>4, <1>7, <2>1
  <1>10. Handed(s, q, t)
    BY <1>1, <1>3, <1>4, <1>5, <1>7, <1>8, <1>9 DEF Queued, Handed
  <1> QED BY <1>0, <1>10

\* A release with waiters: the new owner is on no list any more.
LEMMA ReleasePassStep ==
    ASSUME MutexInv, NEW s \in Threads, NEW q \in Mutexes, Running(s, "user"), owner[q] = s,
           Usable(q), UNCHANGED <<object, dying>>, release_pass(s, q)
    PROVE  MutexInv'
  <1>0. PICK t : t = Head(k.queue[q])
    OBVIOUS
  <1>1. /\ hold[q] = 1 /\ q \notin dying
        /\ owner' = [owner EXCEPT ![q] = t]
        /\ original_priority' = [original_priority EXCEPT ![q] = k.prio[t]]
        /\ pc' = [pc EXCEPT ![s] = "schedule"] /\ UNCHANGED <<value, hold>>
    BY <1>0 DEF release_pass, Goto, Usable
  <1>2. Handed(s, q, t)
    BY <1>0, ReleasePassEffect
  <1>3. /\ Waits(k', pc, object) /\ k'.current = s /\ pc[s] = "user" /\ s \in Clients
        /\ t \in Clients /\ t # s /\ Queued(k, q, t) /\ object[t] = q /\ pc[t] \in TakePoints
        /\ \A r \in Mutexes : /\ ~Queued(k, r, t) => k'.queue[r] = k.queue[r]
                              /\ k.queue[r] = << >> => k'.queue[r] = << >>
        /\ \A x \in Threads : k'.stat[x] = IF x = t THEN "ready" ELSE k.stat[x]
    BY <1>2 DEF Handed
  <1>4. \A r \in Mutexes : Parted(k.queue[r], t, k'.queue[r])
    BY <1>2 DEF Handed
  <1>5. /\ Waits(k, pc, object) /\ Detaching(k, pc, object, dying)
        /\ Owners(k, value, owner, hold, original_priority) /\ k.stat[s] = "ready"
        /\ value \in [Mutexes -> {0, 1}] /\ owner \in [Mutexes -> Threads \cup {NoThread}]
        /\ original_priority \in [Mutexes -> Prios \cup {NoPriority}]
        /\ dying \subseteq Mutexes
    BY Parts, RunningReady
  <1>6. k.prio[t] \in Prios /\ t \in Threads /\ t # Idle
    BY <1>3, <1>5, SettledType DEF Waits, KernelType, Clients
  <1>7. /\ \A x \in Threads : x # s => pc'[x] = pc[x]
        /\ pc'[s] = "schedule" /\ pc' \in [Threads -> Points]
    BY <1>1, Parts DEF Points
  <1>8. Waits(k', pc', object)
    <2>1. k'.stat[s] = "ready" /\ s # Idle
      BY <1>3, <1>5 DEF Clients
    <2> QED BY ONLY <1>3, <1>7, <2>1, s \in Threads, GoWaits
  <1>9. Runs(k', pc')
    BY <1>3, <1>7 DEF Runs
  <1>10. Detaching(k', pc', object, dying)
    <2>1. \A r \in dying : k'.queue[r] = k.queue[r]
      <3>1. \A r \in Mutexes : r # q => ~Queued(k, r, t)
        BY <1>3, <1>5, <1>6, MutexAssumption DEF Waits, WaitersListed
      <3> QED BY <1>1, <1>3, <1>5, <3>1
    <2>2. \A x \in Threads : /\ pc'[x] = "resuming" <=> pc[x] = "resuming"
                             /\ pc[x] = "resuming" => object[x] = object[x]
      BY <1>3, <1>7
    <2> QED BY ONLY <1>5, <2>1, <2>2, DetachingKept
  <1>11. Owners(k', value, owner', hold, original_priority')
    <2>1. value[q] # 1
      BY <1>1, <1>5 DEF Owners
    <2>2. \A r \in Mutexes : ~Contains(k'.queue[r], t)
      BY <1>4 DEF Parted
    <2>3. \A r \in Mutexes : \A x : Contains(k'.queue[r], x) => Contains(k.queue[r], x)
      BY <1>4 DEF Parted
    <2>4. ASSUME NEW r \in Mutexes, r # q
          PROVE  /\ value[r] = 1 <=> owner'[r] = NoThread
                 /\ value[r] = 1 <=> hold[r] = 0
                 /\ value[r] = 1 => k'.queue[r] = << >>
                 /\ ~Contains(k'.queue[r], owner'[r]) /\ owner'[r] # Idle
                 /\ owner'[r] # NoThread => original_priority'[r] \in Prios
      BY <1>1, <1>3, <1>5, <2>3, <2>4 DEF Owners
    <2>5. /\ owner'[q] = t /\ original_priority'[q] \in Prios /\ t # NoThread /\ hold[q] # 0
      BY <1>1, <1>5, <1>6, KernelAssumption
    <2> QED BY <1>6, <2>1, <2>2, <2>4, <2>5 DEF Owners
  <1>12. /\ owner' \in [Mutexes -> Threads \cup {NoThread}]
         /\ original_priority' \in [Mutexes -> Prios \cup {NoPriority}]
    BY <1>1, <1>5, <1>6
  <1> QED BY <1>1, <1>7, <1>8, <1>9, <1>10, <1>11, <1>12, Parts, Together

-----------------------------------------------------------------------------
(* Detaching *)

\* A mutex is detached: the loop begins, or there is nothing to do.
LEMMA DetachStep ==
    ASSUME MutexInv, NEW s \in Threads, NEW q \in Mutexes, rt_mutex_detach(s, q)
    PROVE  MutexInv' /\ Calm
  <1>1. /\ k.current = s /\ s # Idle /\ pc[s] = "user" /\ k.stat[s] = "ready"
        /\ q \in Deletable /\ q \notin dying /\ dying' = dying \cup {q} /\ k' = k
        /\ UNCHANGED <<value, owner, hold, original_priority>>
    BY RunningReady DEF rt_mutex_detach, detach, Usable, mutex
  <1>2. Waits(k, pc, object) /\ Detaching(k, pc, object, dying)
    BY Parts
  <1>3. dying' \subseteq Deletable
    BY <1>1, Parts
  <1>4. CASE NoWaiter(q)
    <2>1. UNCHANGED <<pc, object>> /\ k.queue[q] = << >>
      BY <1>4 DEF rt_mutex_detach, detach, NoWaiter
    <2>2. Detaching(k, pc, object, dying')
      BY <1>1, <1>2, <2>1 DEF Detaching
    <2>3. MutexInv'
      BY <1>1, <1>3, <2>1, <2>2, Parts, Together
    <2> QED BY <1>1, <2>3 DEF Calm
  <1>5. CASE ~NoWaiter(q)
    <2>1. /\ \A x \in Threads : x # s => pc'[x] = pc[x] /\ object'[x] = object[x]
          /\ pc'[s] = "resuming" /\ object'[s] = q
          /\ pc' \in [Threads -> Points] /\ object' \in [Threads -> Mutexes]
      BY <1>5, Parts DEF rt_mutex_detach, detach, Goto, Points
    <2>2. Waits(k, pc', object')
      BY ONLY <1>1, <1>2, <2>1, s \in Threads, GoWaits
    <2>3. Runs(k, pc')
      BY <1>1 DEF Runs
    <2>4. Detaching(k, pc', object', dying')
      <3>1. \A x \in Threads : pc[x] = "resuming" => object[x] \in dying /\ object[x] # q
        BY <1>1, <1>2 DEF Detaching
      <3>2. \A x \in Threads : pc'[x] = "resuming" => object'[x] \in dying' /\ k.queue[object'[x]] # << >>
        <4>1. k.queue[q] # << >>
          BY <1>5 DEF NoWaiter
        <4> QED BY <1>1, <1>2, <2>1, <4>1 DEF Detaching
      <3>3. \A x, y \in Threads : pc'[x] = "resuming" /\ pc'[y] = "resuming" /\ object'[x] = object'[y] => x = y
        BY <1>2, <2>1, <3>1 DEF Detaching
      <3>4. ASSUME NEW r \in dying', \A x \in Threads : ~(pc'[x] = "resuming" /\ object'[x] = r)
            PROVE  k.queue[r] = << >>
        <4>1. r # q /\ r \in dying
          BY <1>1, <2>1, <3>4
        <4>2. \A x \in Threads : ~(pc[x] = "resuming" /\ object[x] = r)
          BY <1>1, <2>1, <3>4
        <4> QED BY <1>2, <4>1, <4>2 DEF Detaching
      <3> QED BY <3>2, <3>3, <3>4 DEF Detaching
    <2>5. MutexInv'
      BY <1>1, <1>3, <2>1, <2>2, <2>3, <2>4, Parts, Together
    <2> QED BY <1>1, <2>5 DEF Calm
  <1> QED BY <1>4, <1>5

\* One turn of the loop; after the last waiter the detach is through.
LEMMA ResumeOneStep ==
    ASSUME MutexInv, NEW s \in Threads, resume_one(s), UNCHANGED mutex
    PROVE  MutexInv' /\ Calm
  <1>0. PICK q, t : q = object[s] /\ t = Head(k.queue[q])
    OBVIOUS
  <1>1. /\ k.current = s /\ s # Idle /\ pc[s] = "resuming" /\ k.stat[s] = "ready"
        /\ dying' = dying /\ k' = turn_away(k, t) /\ q \in Mutexes
        /\ UNCHANGED <<value, owner, hold, original_priority>>
    BY <1>0, RunningReady, Parts DEF resume_one, mutex
  <1>2. Waits(k, pc, object) /\ Detaching(k, pc, object, dying)
    BY Parts
  <1>3. q \in dying /\ k.queue[q] # << >>
    BY <1>0, <1>1, <1>2 DEF Detaching
  <1>4. t \in Threads /\ k.stat[t] = "suspend" /\ object[t] = q /\ pc[t] \in TakePoints
    BY <1>0, <1>1, <1>2, <1>3, FirstWaiter
  <1>5. IF k'.queue[q] = << >> THEN LeaveCall(s) ELSE UNCHANGED <<pc, object>>
    BY <1>0 DEF resume_one
  <1>6. MadeReady(k, k', t, "RT_ERROR")
    BY <1>1, <1>2, <1>4, TurnAwaySettled DEF Waits
  <1>7. /\ Waits(k', pc, object) /\ Runs(k', pc) /\ k'.current = s /\ k'.prio = k.prio
        /\ \A r \in Mutexes : /\ Parted(k.queue[r], t, k'.queue[r])
                              /\ ~Queued(k, r, t) => k'.queue[r] = k.queue[r]
                              /\ k.queue[r] = << >> => k'.queue[r] = << >>
                              /\ Ordered(k.queue[r], k.prio) => Ordered(k'.queue[r], k'.prio)
        /\ \A x \in Threads : k'.stat[x] = IF x = t THEN "ready" ELSE k.stat[x]
    BY <1>1, <1>4, <1>6, WakeEffect
  <1>8. k'.stat[s] = "ready"
    BY <1>1, <1>4, <1>7
  <1>9. \A x \in Threads : x # s /\ pc[x] = "resuming" => object[x] # q
    BY <1>0, <1>1, <1>2 DEF Detaching
  <1>10. /\ dying \subseteq Mutexes
         /\ \A r \in Mutexes : r # q => k'.queue[r] = k.queue[r]
         /\ \A r \in Mutexes : \A x : Contains(k'.queue[r], x) => Contains(k.queue[r], x)
    <2>1. \A r \in Mutexes : r # q => ~Queued(k, r, t)
      BY <1>2, <1>4, MutexAssumption DEF Waits, WaitersListed
    <2>2. \A r \in Mutexes : \A x : Contains(k'.queue[r], x) => Contains(k.queue[r], x)
      BY <1>7 DEF Parted
    <2> QED BY <1>7, <2>1, <2>2, Parts
  <1>11. Calm
    BY <1>1, <1>7, <1>10 DEF Calm
  <1>12. Owners(k', value, owner, hold, original_priority)
    BY <1>7, <1>10, Parts, OwnersKept
  <1>13. CASE k'.queue[q] = << >>
    <2>1. /\ \A x \in Threads : x # s => pc'[x] = pc[x] /\ object'[x] = object[x]
          /\ pc'[s] = "user" /\ pc' \in [Threads -> Points] /\ object' \in [Threads -> Mutexes]
      BY <1>5, <1>13, Parts, MutexAssumption DEF LeaveCall, LeaveTo, Goto, Points, AnyQueue
    <2>2. Waits(k', pc', object')
      BY ONLY <1>1, <1>7, <1>8, <2>1, s \in Threads, GoWaits
    <2>3. Runs(k', pc')
      BY <1>7, <1>8 DEF Runs
    <2>4. Detaching(k', pc', object', dying)
      <3>1. \A x \in Threads : pc'[x] = "resuming" =>
               x # s /\ pc[x] = "resuming" /\ object'[x] = object[x] /\ object[x] # q
        BY <1>9, <2>1
      <3>2. \A x \in Threads : pc'[x] = "resuming" => object'[x] \in dying /\ k'.queue[object'[x]] # << >>
        BY <1>2, <1>10, <3>1 DEF Detaching
      <3>3. \A x, y \in Threads : pc'[x] = "resuming" /\ pc'[y] = "resuming" /\ object'[x] = object'[y] => x = y
        BY <1>2, <3>1 DEF Detaching
      <3>4. ASSUME NEW r \in dying, \A x \in Threads : ~(pc'[x] = "resuming" /\ object'[x] = r)
            PROVE  k'.queue[r] = << >>
        <4>1. CASE r = q
          BY <1>13, <4>1
        <4>2. CASE r # q
          <5>1. \A x \in Threads : ~(pc[x] = "resuming" /\ object[x] = r)
            BY <1>0, <2>1, <3>4, <4>2
          <5> QED BY <1>2, <1>10, <4>2, <5>1 DEF Detaching
        <4> QED BY <4>1, <4>2
      <3> QED BY <3>2, <3>3, <3>4 DEF Detaching
    <2>5. MutexInv'
      BY <1>1, <1>12, <2>1, <2>2, <2>3, <2>4, Parts, Together
    <2> QED BY <1>11, <2>5
  <1>14. CASE k'.queue[q] # << >>
    <2>1. pc' = pc /\ object' = object
      BY <1>5, <1>14
    <2>2. Detaching(k', pc, object, dying)
      <3>1. \A x \in Threads : pc[x] = "resuming" => object[x] \in dying /\ k'.queue[object[x]] # << >>
        BY <1>2, <1>10, <1>14 DEF Detaching
      <3>2. ASSUME NEW r \in dying, \A x \in Threads : ~(pc[x] = "resuming" /\ object[x] = r)
            PROVE  k'.queue[r] = << >>
        <4>1. k.queue[r] = << >>
          BY <1>2, <3>2 DEF Detaching
        <4> QED BY <1>7, <1>10, <4>1
      <3> QED BY <1>2, <3>1, <3>2 DEF Detaching
    <2>3. MutexInv'
      BY <1>1, <1>7, <1>12, <2>1, <2>2, Parts, Together
    <2> QED BY <1>11, <2>3
  <1> QED BY <1>13, <1>14

-----------------------------------------------------------------------------
(* The invariant *)

\* Every step keeps MutexInv.
LEMMA StepHolds == MutexInv /\ [Next]_vars => MutexInv'
  <1> SUFFICES ASSUME MutexInv, [Next]_vars PROVE MutexInv'
    OBVIOUS
  <1>1. ASSUME NEW s \in Threads, NEW q \in Mutexes, rt_mutex_take(s, q) PROVE MutexInv'
    <2>1. Running(s, "user") /\ Usable(q) /\ UNCHANGED dying
      BY <1>1 DEF rt_mutex_take
    <2>2. CASE take_again(s, q)
      BY <2>1, <2>2, TakeAgainStep
    <2>3. CASE take_free(s, q)
      BY <2>1, <2>3, TakeFreeStep
    <2>4. CASE take_refused(s, q)
      BY <2>1, <2>4, RefusedStep DEF take_refused, Errors
    <2>5. CASE \E timed \in BOOLEAN : take_wait(s, q, timed)
      BY <2>1, <2>5, TakeWaitStep
    <2> QED BY <1>1, <2>2, <2>3, <2>4, <2>5 DEF rt_mutex_take
  <1>2. ASSUME NEW s \in Threads, NEW q \in Mutexes, rt_mutex_release(s, q) PROVE MutexInv'
    <2>1. Running(s, "user") /\ Usable(q) /\ UNCHANGED <<object, dying>>
      BY <1>2 DEF rt_mutex_release
    <2>2. CASE owner[q] = s
      BY <1>2, <2>1, <2>2, ReleaseOneStep, ReleaseFreeStep, ReleasePassStep DEF rt_mutex_release
    <2>3. CASE owner[q] # s
      BY <1>2, <2>1, <2>3, RefusedStep DEF rt_mutex_release, release_refused, Errors
    <2> QED BY <2>2, <2>3
  <1>3. ASSUME NEW s \in Threads, NEW q \in Mutexes, rt_mutex_detach(s, q) PROVE MutexInv'
    BY <1>3, DetachStep
  <1>4. ASSUME NEW s \in Threads,
               \/ take_return(s) \/ rt_thread_sleep(s)
               \/ resume_one(s) /\ UNCHANGED mutex
               \/ ScheduleStep(s, "blocked", "taking") /\ UNCHANGED mutex
               \/ ScheduleStep(s, "schedule", "user") /\ UNCHANGED mutex
        PROVE  MutexInv'
    BY <1>4, TakeReturnStep, SleepStep, ResumeOneStep, BlockedStep, LeaveStep
  <1>5. ASSUME tick_yield, UNCHANGED mutex PROVE MutexInv'
    BY <1>5, TickYieldStep
  <1>6. ASSUME NEW t \in Threads, timeout(t), UNCHANGED mutex PROVE MutexInv'
    BY <1>6, TimeoutStep
  <1>7. ASSUME UNCHANGED vars PROVE MutexInv'
    BY <1>7 DEF vars, MutexInv, TypeOK, Waits, Runs, Detaching, Owners
  <1> QED BY <1>1, <1>2, <1>3, <1>4, <1>5, <1>6, <1>7 DEF Next

\* MutexInv holds throughout.
THEOREM Invariance == Spec => []MutexInv
  BY InitHolds, StepHolds, PTL DEF Spec

\* Every variable of the mutexes has its type, whatever the calls, ticks and
\* timeouts; depth and value stay in their ranges.
THEOREM TypeCorrect == Spec => []TypeOK
  <1>1. MutexInv => TypeOK
    BY DEF MutexInv
  <1> QED BY <1>1, Invariance, PTL

\* The fields of a mutex agree with each other and with its list (ipc.c).
THEOREM MutexFieldsAgree == Spec => []MutexOK
  <1>1. MutexInv => MutexOK
    <2> SUFFICES ASSUME MutexInv, NEW q \in Mutexes
                 PROVE  /\ (value[q] = 1) = (owner[q] = NoThread)
                        /\ (value[q] = 1) = (hold[q] = 0)
                        /\ value[q] = 1 => NoWaiter(q)
                        /\ owner[q] \notin WaitsOn(q)
                        /\ WaitsOn(q) = {t \in Threads : InTake(t, q) /\ k.stat[t] = "suspend"}
      BY DEF MutexOK
    <2>1. Owners(k, value, owner, hold, original_priority) /\ Waits(k, pc, object) /\ q \in Queues
      BY Parts, MutexAssumption
    <2>2. WaitsOn(q) = {t \in Threads : InTake(t, q) /\ k.stat[t] = "suspend"}
      BY <2>1 DEF Waits, WaitersListed, Queued, WaitsOn, InTake, TakePoints
    <2>3. owner[q] \notin WaitsOn(q)
      BY <2>1 DEF Owners, WaitsOn
    <2> QED BY <2>1, <2>2, <2>3 DEF Owners, NoWaiter
  <1> QED BY <1>1, Invariance, PTL

-----------------------------------------------------------------------------
(* Priority inheritance, where a thread owns one mutex at a time *)

\* An owner goes back to the priority it was given, and is at least as urgent
\* as those who wait for it; other threads have the priority they were given.
\* A waiter owns nothing, so its place on a priority list stays right.
Inherits(u, own, orig) ==
    /\ \A q \in Mutexes : own[q] # NoThread => orig[q] = init_priority[own[q]]
    /\ \A q, r \in Mutexes : own[q] = own[r] /\ own[q] # NoThread => q = r
    /\ \A t \in Threads : (\A q \in Mutexes : own[q] # t) => u.prio[t] = init_priority[t]
    /\ \A t \in Threads, q, r \in Mutexes : Queued(u, q, t) => own[r] # t
    /\ \A q \in Mutexes : flag[q] = "RT_IPC_FLAG_PRIO" => Ordered(u.queue[q], u.prio)
    /\ \A q \in Mutexes, t \in Threads :
          flag[q] = "RT_IPC_FLAG_PRIO" /\ own[q] # NoThread /\ Queued(u, q, t) =>
             u.prio[own[q]] <= u.prio[t]

\* The order of a list depends on the priorities of its threads only.
LEMMA SameOrder ==
    ASSUME NEW l \in Seq(Threads), NEW f, NEW g, Ordered(l, f),
           \A x \in Threads : Contains(l, x) => g[x] = f[x]
    PROVE  Ordered(l, g)
  <1>1. \A i \in DOMAIN l : Contains(l, l[i]) /\ l[i] \in Threads
    BY DEF Contains
  <1> QED BY <1>1 DEF Ordered

\* The first thread of an ordered list is the most urgent one.
LEMMA FirstLeast ==
    ASSUME NEW l \in Seq(Threads), NEW f \in [Threads -> Int], Ordered(l, f),
           NEW t \in Threads, Contains(l, t)
    PROVE  f[Head(l)] <= f[t]
  <1>1. PICK i \in 1 .. Len(l) : l[i] = t
    BY DEF Contains
  <1>2. 1 \in DOMAIN l /\ i \in DOMAIN l /\ Head(l) = l[1] /\ f[t] \in Int
    BY <1>1
  <1> QED BY <1>1, <1>2 DEF Ordered

\* A thread that may take one more mutex owns none.
LEMMA OwnsNone ==
    ASSUME MaxOwned = 1, NEW s \in Threads, Cardinality(Owned(s)) < MaxOwned
    PROVE  \A q \in Mutexes : owner[q] # s
  <1>1. IsFiniteSet(Owned(s))
    BY MutexAssumption, FS_Subset DEF Owned
  <1>2. Cardinality(Owned(s)) = 0
    BY <1>1, FS_CardinalityType
  <1>3. Owned(s) = {}
    BY <1>1, <1>2, FS_EmptySet
  <1> QED BY <1>3 DEF Owned

\* Steps that change no owner and no priority.
LEMMA CalmInherits ==
    ASSUME Inherits(k, owner, original_priority), Calm
    PROVE  Inherits(k', owner', original_priority')
  <1>1. /\ owner' = owner /\ original_priority' = original_priority /\ k'.prio = k.prio
        /\ \A q \in Mutexes, t \in Threads : Queued(k', q, t) => Queued(k, q, t)
    BY DEF Calm, Queued
  <1>2. \A q \in Mutexes : flag[q] = "RT_IPC_FLAG_PRIO" => Ordered(k'.queue[q], k'.prio)
    BY DEF Calm, Inherits
  <1> QED BY <1>1, <1>2 DEF Inherits

\* What the priorities and lists of MutexInv are, for the steps that follow.
LEMMA InheritParts ==
    ASSUME MutexInv
    PROVE  /\ k.prio \in [Threads -> Int] /\ owner \in [Mutexes -> Threads \cup {NoThread}]
           /\ original_priority \in [Mutexes -> Prios \cup {NoPriority}]
           /\ \A q \in Mutexes : k.queue[q] \in Seq(Threads)
           /\ \A q \in Mutexes, t \in Threads : Queued(k, q, t) => k.stat[t] = "suspend"
  BY Parts, SettledType, MutexAssumption DEF Waits, WaitersListed

\* The owner of a free mutex owned nothing before.
LEMMA TakeFreeInherits ==
    ASSUME MaxOwned = 1, MutexInv, Inherits(k, owner, original_priority),
           NEW s \in Threads, NEW q \in Mutexes, Running(s, "user"), take_free(s, q)
    PROVE  Inherits(k', owner', original_priority')
  <1>1. /\ k.stat[s] = "ready" /\ s # NoThread /\ \A r \in Mutexes : owner[r] # s
        /\ Waits(k, pc, object) /\ Owners(k, value, owner, hold, original_priority)
        /\ value \in [Mutexes -> {0, 1}]
    BY RunningReady, Parts, OwnsNone DEF take_free
  <1>2. /\ owner' = [owner EXCEPT ![q] = s] /\ value[q] > 0
        /\ original_priority' = [original_priority EXCEPT ![q] = k.prio[s]]
        /\ k' = [k EXCEPT !.error[s] = "RT_EOK"]
    BY DEF take_free
  <1>3. k'.queue = k.queue /\ k'.prio = k.prio
    BY <1>1, <1>2, ErrorWaits DEF Errors
  <1>4. \A t \in Threads : ~Queued(k, q, t)
    <2>1. value[q] = 1
      BY <1>1, <1>2
    <2>2. k.queue[q] = << >>
      BY <1>1, <2>1 DEF Owners
    <2> QED BY <2>2 DEF Queued, Contains
  <1>5. \A r \in Mutexes, t \in Threads : Queued(k', r, t) <=> Queued(k, r, t)
    BY <1>3 DEF Queued
  <1>6. \A r \in Mutexes : ~Queued(k, r, s)
    BY <1>1, InheritParts
  <1>7. /\ owner'[q] = s /\ original_priority'[q] = k.prio[s]
        /\ \A r \in Mutexes : r # q => owner'[r] = owner[r] /\ original_priority'[r] = original_priority[r]
    BY <1>2, InheritParts
  <1>8. k.prio[s] = init_priority[s]
    BY <1>1 DEF Inherits
  <1>9. \A r \in Mutexes : owner'[r] # NoThread => original_priority'[r] = init_priority[owner'[r]]
    BY <1>7, <1>8 DEF Inherits
  <1>10. \A r, p \in Mutexes : owner'[r] = owner'[p] /\ owner'[r] # NoThread => r = p
    BY <1>1, <1>7 DEF Inherits
  <1>11. ASSUME NEW t \in Threads, \A r \in Mutexes : owner'[r] # t
         PROVE  k'.prio[t] = init_priority[t]
    <2>1. t # s
      BY <1>7, <1>11
    <2>2. \A r \in Mutexes : owner[r] # t \/ r = q
      BY <1>7, <1>11
    <2>3. owner[q] = NoThread
      BY <1>1, <1>2 DEF Owners
    <2> QED BY <1>3, <2>2, <2>3, KernelAssumption DEF Inherits
  <1>12. \A t \in Threads, r, p \in Mutexes : Queued(k', r, t) => owner'[p] # t
    BY <1>5, <1>6, <1>7 DEF Inherits
  <1>13. \A r \in Mutexes : flag[r] = "RT_IPC_FLAG_PRIO" => Ordered(k'.queue[r], k'.prio)
    BY <1>3 DEF Inherits
  <1>14. \A r \in Mutexes, t \in Threads :
            flag[r] = "RT_IPC_FLAG_PRIO" /\ owner'[r] # NoThread /\ Queued(k', r, t) =>
               k'.prio[owner'[r]] <= k'.prio[t]
    BY <1>3, <1>4, <1>5, <1>7 DEF Inherits
  <1> QED BY <1>9, <1>10, <1>11, <1>12, <1>13, <1>14 DEF Inherits

\* The owner rises to the priority of the waiter, which owns nothing itself.
LEMMA TakeWaitInherits ==
    ASSUME MaxOwned = 1, MutexInv, Inherits(k, owner, original_priority),
           NEW s \in Threads, NEW q \in Mutexes, NEW timed \in BOOLEAN,
           Running(s, "user"), take_wait(s, q, timed)
    PROVE  Inherits(k', owner', original_priority')
  <1>0. PICK o : o = owner[q]
    OBVIOUS
  <1>1. /\ o \in Threads /\ o # s /\ o # NoThread
        /\ \A r \in Mutexes : r # q => k'.queue[r] = k.queue[r]
        /\ \A x \in Threads : x # o => k'.prio[x] = k.prio[x]
        /\ k'.prio[o] = IF k.prio[s] < k.prio[o] THEN k.prio[s] ELSE k.prio[o]
        /\ flag[q] = "RT_IPC_FLAG_PRIO" /\ Ordered(k.queue[q], k'.prio) => Ordered(k'.queue[q], k'.prio)
    BY <1>0, TakeWaitEffect, KernelAssumption
  <1>2. \A x : Contains(k'.queue[q], x) <=> Contains(k.queue[q], x) \/ x = s
    <2>1. Joined(k.queue[q], s, k'.queue[q])
      BY TakeWaitEffect
    <2> QED BY <2>1 DEF Joined
  <1>3. UNCHANGED <<owner, original_priority>> /\ \A r \in Mutexes : owner[r] # s
    BY OwnsNone DEF take_wait, mutex
  <1>4. \A r \in Mutexes, t \in Threads : Queued(k', r, t) => Queued(k, r, t) \/ (r = q /\ t = s)
    BY <1>1, <1>2 DEF Queued
  <1>5. \A r \in Mutexes, t \in Threads : Queued(k', r, t) => t # o /\ \A p \in Mutexes : owner[p] # t
    BY <1>0, <1>1, <1>3, <1>4 DEF Inherits
  <1>6. k.prio \in [Threads -> Int] /\ owner \in [Mutexes -> Threads \cup {NoThread}]
    BY InheritParts
  <1>7. ASSUME NEW t \in Threads, \A r \in Mutexes : owner[r] # t
        PROVE  k'.prio[t] = init_priority[t]
    BY <1>0, <1>1, <1>7 DEF Inherits
  <1>8. ASSUME NEW r \in Mutexes, flag[r] = "RT_IPC_FLAG_PRIO"
        PROVE  Ordered(k'.queue[r], k'.prio)
    <2>1. Ordered(k.queue[r], k.prio) /\ k.queue[r] \in Seq(Threads)
      BY <1>8, InheritParts DEF Inherits
    <2>2. \A x \in Threads : Contains(k.queue[r], x) => k'.prio[x] = k.prio[x]
      BY <1>0, <1>1 DEF Inherits, Queued
    <2>3. Ordered(k.queue[r], k'.prio)
      BY <2>1, <2>2, SameOrder
    <2> QED BY <1>1, <1>8, <2>3
  <1>9. ASSUME NEW r \in Mutexes, NEW t \in Threads,
               flag[r] = "RT_IPC_FLAG_PRIO", owner[r] # NoThread, Queued(k', r, t)
        PROVE  k'.prio[owner[r]] <= k'.prio[t]
    <2>1. k'.prio[t] = k.prio[t] /\ k.prio[t] \in Int /\ k.prio[s] \in Int /\ k.prio[o] \in Int
      BY <1>1, <1>5, <1>6, <1>9
    <2>2. CASE r = q
      <3>1. k'.prio[o] <= k.prio[s] /\ k'.prio[o] <= k.prio[o] /\ k'.prio[o] \in Int
        BY <1>1, <2>1
      <3>2. t = s \/ k.prio[o] <= k.prio[t]
        BY <1>0, <1>4, <1>9, <2>2 DEF Inherits
      <3> QED BY <1>0, <2>1, <2>2, <3>1, <3>2
    <2>3. CASE r # q
      <3>1. owner[r] # o /\ owner[r] \in Threads /\ Queued(k, r, t)
        BY <1>0, <1>4, <1>6, <1>9, <2>3 DEF Inherits
      <3>2. k.prio[owner[r]] <= k.prio[t]
        BY <1>9, <3>1 DEF Inherits
      <3> QED BY <1>1, <2>1, <3>1, <3>2
    <2> QED BY <2>2, <2>3
  <1> QED BY <1>3, <1>5, <1>7, <1>8, <1>9 DEF Inherits

\* The owner of the mutex that becomes free owns nothing any more.
LEMMA ReleaseFreeInherits ==
    ASSUME MutexInv, Inherits(k, owner, original_priority),
           NEW s \in Threads, NEW q \in Mutexes, owner[q] = s, release_free(s, q)
    PROVE  Inherits(k', owner', original_priority')
  <1>1. /\ k' = Restore(s, q) /\ owner' = [owner EXCEPT ![q] = NoThread]
        /\ original_priority' = [original_priority EXCEPT ![q] = NoPriority]
    BY DEF release_free
  <1>2. k'.queue = k.queue /\ k'.prio = [k.prio EXCEPT ![s] = original_priority[q]]
    BY <1>1, RestoreWaits
  <1>3. s # NoThread /\ original_priority[q] = init_priority[s]
    BY KernelAssumption DEF Inherits
  <1>4. /\ owner'[q] = NoThread
        /\ \A r \in Mutexes : r # q => owner'[r] = owner[r] /\ original_priority'[r] = original_priority[r]
        /\ \A x \in Threads : k'.prio[x] = IF x = s THEN init_priority[s] ELSE k.prio[x]
    BY <1>1, <1>2, <1>3, InheritParts
  <1>5. \A r \in Mutexes, t \in Threads : Queued(k', r, t) <=> Queued(k, r, t)
    BY <1>2 DEF Queued
  <1>6. \A r \in Mutexes, t \in Threads : Queued(k, r, t) => t # s
    BY DEF Inherits
  <1>7. \A r \in Mutexes : r # q => owner[r] # s
    BY <1>3 DEF Inherits
  <1>8. ASSUME NEW t \in Threads, \A r \in Mutexes : owner'[r] # t
        PROVE  k'.prio[t] = init_priority[t]
    BY <1>4, <1>8 DEF Inherits
  <1>9. ASSUME NEW r \in Mutexes, flag[r] = "RT_IPC_FLAG_PRIO"
        PROVE  Ordered(k'.queue[r], k'.prio)
    <2>1. Ordered(k.queue[r], k.prio) /\ k.queue[r] \in Seq(Threads)
      BY <1>9, InheritParts DEF Inherits
    <2>2. \A x \in Threads : Contains(k.queue[r], x) => k'.prio[x] = k.prio[x]
      BY <1>4, <1>6 DEF Queued
    <2>3. Ordered(k.queue[r], k'.prio)
      BY <2>1, <2>2, SameOrder
    <2> QED BY <1>2, <2>3
  <1>10. \A r, p \in Mutexes : owner'[r] = owner'[p] /\ owner'[r] # NoThread => r = p
    BY <1>4 DEF Inherits
  <1>11. \A t \in Threads, r, p \in Mutexes : Queued(k', r, t) => owner'[p] # t
    BY <1>4, <1>5, KernelAssumption DEF Inherits
  <1>12. ASSUME NEW r \in Mutexes, NEW t \in Threads,
                flag[r] = "RT_IPC_FLAG_PRIO", owner'[r] # NoThread, Queued(k', r, t)
         PROVE  k'.prio[owner'[r]] <= k'.prio[t]
    <2>1. r # q /\ owner'[r] = owner[r] /\ owner[r] # s /\ owner[r] \in Threads /\ t # s
      BY <1>4, <1>5, <1>6, <1>7, <1>12, InheritParts
    <2> QED BY <1>4, <1>5, <1>12, <2>1 DEF Inherits
  <1> QED BY <1>4, <1>8, <1>9, <1>10, <1>11, <1>12 DEF Inherits

\* The first waiter is the most urgent one, and owns nothing else.
LEMMA ReleasePassInherits ==
    ASSUME MutexInv, Inherits(k, owner, original_priority),
           NEW s \in Threads, NEW q \in Mutexes, Running(s, "user"), owner[q] = s,
           release_pass(s, q)
    PROVE  Inherits(k', owner', original_priority')
  <1>0. PICK t : t = Head(k.queue[q])
    OBVIOUS
  <1>1. /\ owner' = [owner EXCEPT ![q] = t] /\ ~NoWaiter(q)
        /\ original_priority' = [original_priority EXCEPT ![q] = k.prio[t]]
    BY <1>0 DEF release_pass
  <1>2. Handed(s, q, t)
    BY <1>0, ReleasePassEffect
  <1>3. /\ t \in Threads /\ t # s /\ Queued(k, q, t)
        /\ k'.prio = [k.prio EXCEPT ![s] = original_priority[q]]
        /\ \A r \in Mutexes : Ordered(k.queue[r], k'.prio) => Ordered(k'.queue[r], k'.prio)
    BY <1>2 DEF Handed, Clients
  <1>4. \A r \in Mutexes, x \in Threads : Queued(k', r, x) => Queued(k, r, x) /\ x # t
    BY <1>2 DEF Handed, Parted, Queued
  <1>5. s # NoThread /\ t # NoThread /\ original_priority[q] = init_priority[s]
    BY <1>3, KernelAssumption DEF Inherits
  <1>6. /\ \A r \in Mutexes : owner[r] # t
        /\ \A r \in Mutexes : r # q => owner[r] # s
        /\ \A r \in Mutexes, x \in Threads : Queued(k, r, x) => x # s
    BY <1>3, <1>5 DEF Inherits
  <1>7. /\ owner'[q] = t /\ original_priority'[q] = init_priority[t]
        /\ \A r \in Mutexes : r # q => owner'[r] = owner[r] /\ original_priority'[r] = original_priority[r]
        /\ \A x \in Threads : k'.prio[x] = IF x = s THEN init_priority[s] ELSE k.prio[x]
    BY <1>1, <1>3, <1>5, <1>6, InheritParts DEF Inherits
  <1>8. ASSUME NEW x \in Threads, \A r \in Mutexes : owner'[r] # x
        PROVE  k'.prio[x] = init_priority[x]
    BY <1>7, <1>8 DEF Inherits
  <1>9. ASSUME NEW r \in Mutexes, flag[r] = "RT_IPC_FLAG_PRIO"
        PROVE  Ordered(k.queue[r], k'.prio)
    <2>1. Ordered(k.queue[r], k.prio) /\ k.queue[r] \in Seq(Threads)
      BY <1>9, InheritParts DEF Inherits
    <2>2. \A x \in Threads : Contains(k.queue[r], x) => k'.prio[x] = k.prio[x]
      BY <1>6, <1>7 DEF Queued
    <2> QED BY <2>1, <2>2, SameOrder
  <1>10. \A r, p \in Mutexes : owner'[r] = owner'[p] /\ owner'[r] # NoThread => r = p
    BY <1>6, <1>7 DEF Inherits
  <1>11. \A x \in Threads, r, p \in Mutexes : Queued(k', r, x) => owner'[p] # x
    BY <1>4, <1>7 DEF Inherits
  <1>12. ASSUME NEW r \in Mutexes, NEW x \in Threads,
                flag[r] = "RT_IPC_FLAG_PRIO", owner'[r] # NoThread, Queued(k', r, x)
         PROVE  k'.prio[owner'[r]] <= k'.prio[x]
    <2>1. Queued(k, r, x) /\ x # s /\ k'.prio[x] = k.prio[x]
      BY <1>4, <1>6, <1>7, <1>12
    <2>2. CASE r = q
      <3>1. k.prio[t] <= k.prio[x]
        <4>1. /\ k.queue[q] \in Seq(Threads) /\ k.prio \in [Threads -> Int]
              /\ Ordered(k.queue[q], k.prio) /\ Contains(k.queue[q], x)
          BY <1>12, <2>1, <2>2, InheritParts DEF Inherits, Queued
        <4> QED BY <1>0, <4>1, FirstLeast
      <3> QED BY <1>3, <1>7, <2>1, <2>2, <3>1
    <2>3. CASE r # q
      <3>1. owner'[r] = owner[r] /\ owner[r] # s /\ owner[r] \in Threads
        BY <1>6, <1>7, <1>12, <2>3, InheritParts
      <3>2. k.prio[owner[r]] <= k.prio[x]
        BY <1>12, <2>1, <3>1 DEF Inherits
      <3> QED BY <1>7, <2>1, <3>1, <3>2
    <2> QED BY <2>2, <2>3
  <1>13. \A r \in Mutexes : owner'[r] # NoThread => original_priority'[r] = init_priority[owner'[r]]
    BY <1>7 DEF Inherits
  <1> QED BY <1>3, <1>8, <1>9, <1>10, <1>11, <1>12, <1>13 DEF Inherits

\* Every step keeps Inherits, where a thread owns one mutex at a time.
LEMMA InheritStep ==
    ASSUME MaxOwned = 1, MutexInv, Inherits(k, owner, original_priority), [Next]_vars
    PROVE  Inherits(k', owner', original_priority')
  <1> DEFINE Kept == Inherits(k', owner', original_priority')
  <1>1. ASSUME NEW s \in Threads, NEW q \in Mutexes, rt_mutex_take(s, q) PROVE Kept
    <2>1. Running(s, "user") /\ UNCHANGED dying
      BY <1>1 DEF rt_mutex_take
    <2>2. CASE take_again(s, q)
      BY <2>1, <2>2, TakeAgainStep, CalmInherits
    <2>3. CASE take_free(s, q)
      BY <2>1, <2>3, TakeFreeInherits
    <2>4. CASE take_refused(s, q)
      <3>1. Calm
        BY <2>1, <2>4, RefusedStep DEF take_refused, Errors
      <3> QED BY <3>1, CalmInherits
    <2>5. CASE \E timed \in BOOLEAN : take_wait(s, q, timed)
      BY <2>1, <2>5, TakeWaitInherits
    <2> QED BY <1>1, <2>2, <2>3, <2>4, <2>5 DEF rt_mutex_take
  <1>2. ASSUME NEW s \in Threads, NEW q \in Mutexes, rt_mutex_release(s, q) PROVE Kept
    <2>1. Running(s, "user") /\ UNCHANGED <<object, dying>>
      BY <1>2 DEF rt_mutex_release
    <2>2. CASE owner[q] = s
      <3>1. CASE release_one(q)
        BY <2>1, <3>1, ReleaseOneStep, CalmInherits
      <3> QED BY <1>2, <2>1, <2>2, <3>1, ReleaseFreeInherits, ReleasePassInherits DEF rt_mutex_release
    <2>3. CASE owner[q] # s
      <3>1. Calm
        BY <1>2, <2>1, <2>3, RefusedStep DEF rt_mutex_release, release_refused, Errors
      <3> QED BY <3>1, CalmInherits
    <2> QED BY <2>2, <2>3
  <1>3. ASSUME NEW s \in Threads, NEW q \in Mutexes, rt_mutex_detach(s, q) PROVE Kept
    BY <1>3, DetachStep, CalmInherits
  <1>4. ASSUME NEW s \in Threads,
               \/ take_return(s) \/ rt_thread_sleep(s)
               \/ resume_one(s) /\ UNCHANGED mutex
               \/ ScheduleStep(s, "blocked", "taking") /\ UNCHANGED mutex
               \/ ScheduleStep(s, "schedule", "user") /\ UNCHANGED mutex
        PROVE  Kept
    BY <1>4, TakeReturnStep, SleepStep, ResumeOneStep, BlockedStep, LeaveStep, CalmInherits
  <1>5. ASSUME tick_yield, UNCHANGED mutex PROVE Kept
    BY <1>5, TickYieldStep, CalmInherits
  <1>6. ASSUME NEW t \in Threads, timeout(t), UNCHANGED mutex PROVE Kept
    BY <1>6, TimeoutStep, CalmInherits
  <1>7. ASSUME UNCHANGED vars PROVE Kept
    BY <1>7 DEF vars, Inherits
  <1> QED BY <1>1, <1>2, <1>3, <1>4, <1>5, <1>6, <1>7 DEF Next

\* At the start nobody owns anything.
LEMMA InheritInit ==
    ASSUME Init
    PROVE  Inherits(k, owner, original_priority)
  <1>1. k.queue = [q \in Queues |-> << >>] /\ k.prio = init_priority /\ Queues = Mutexes
    BY IpcAssumption, AllStartedSettled, MutexAssumption DEF Init, InitThreads
  <1>2. \A q \in Mutexes : owner[q] = NoThread
    BY DEF Init
  <1>3. \A q \in Mutexes : Ordered(k.queue[q], k.prio) /\ \A t \in Threads : ~Queued(k, q, t)
    BY <1>1 DEF Ordered, Queued, Contains
  <1> QED BY <1>1, <1>2, <1>3, KernelAssumption DEF Inherits

\* How the priorities follow the owners.
THEOREM Inheritance == MaxOwned = 1 => (Spec => []Inherits(k, owner, original_priority))
  <1> SUFFICES ASSUME MaxOwned = 1 PROVE Spec => []Inherits(k, owner, original_priority)
    OBVIOUS
  <1>1. Init => Inherits(k, owner, original_priority)
    BY InheritInit
  <1>2. MutexInv /\ Inherits(k, owner, original_priority) /\ [Next]_vars =>
           Inherits(k, owner, original_priority)'
    BY InheritStep
  <1> QED BY <1>1, <1>2, Invariance, PTL DEF Spec

\* No priority inversion where a thread owns one mutex at a time: the owner is
\* at least as urgent as all who wait for a priority mutex (rt_mutex_take).
THEOREM NoInversion == MaxOwned = 1 => (Spec => []OwnerInherits)
  <1> SUFFICES ASSUME MaxOwned = 1 PROVE Spec => []OwnerInherits
    OBVIOUS
  <1>1. Inherits(k, owner, original_priority) => OwnerInherits
    BY DEF Inherits, OwnerInherits, WaitsOn, Queued
  <1> QED BY <1>1, Inheritance, PTL

\* A thread that owns no mutex has its own priority again (rt_mutex_release),
\* where it owns one at a time.
THEOREM PrioritiesRestored == MaxOwned = 1 => (Spec => []PriorityRestored)
  <1> SUFFICES ASSUME MaxOwned = 1 PROVE Spec => []PriorityRestored
    OBVIOUS
  <1>1. Inherits(k, owner, original_priority) => PriorityRestored
    BY DEF Inherits, PriorityRestored, Owned
  <1> QED BY <1>1, Inheritance, PTL

-----------------------------------------------------------------------------
(* Each mutex implements a recursive lock *)

Answer(e) == IF e = "RT_EOK" THEN "granted" ELSE "refused"

\* Asking, of a table and the calls the threads are in.
Ask(u, at, on, q) ==
    [t \in Clients |-> IF ~(at[t] \in TakePoints /\ on[t] = q) THEN "none"
                       ELSE IF u.stat[t] = "suspend" THEN "waiting"
                       ELSE Answer(u.error[t])]

\* The mapping before and after a step.
LEMMA Asked ==
    ASSUME NEW q
    PROVE  Asking(q) = Ask(k, pc, object, q) /\ Asking(q)' = Ask(k', pc', object', q)
  BY DEF Asking, Ask, InTake, TakePoints, Answer

\* Nothing becomes of a request while its thread stays as it is.
LEMMA AskSame ==
    ASSUME NEW u, NEW at, NEW on, NEW v, NEW bt, NEW bn, NEW q,
           \A x \in Clients :
               /\ at[x] \in TakePoints /\ on[x] = q <=> bt[x] \in TakePoints /\ bn[x] = q
               /\ at[x] \in TakePoints /\ on[x] = q =>
                     v.stat[x] = u.stat[x] /\ v.error[x] = u.error[x]
    PROVE  Ask(v, bt, bn, q) = Ask(u, at, on, q)
  BY DEF Ask

\* What a step of the system is for mutex q.
Simulated(q) == [Lock(q)!Next]_<<owner[q], hold[q], Asking(q)>>

\* A step that changes no owner and no depth and answers nobody is none for the
\* lock.
LEMMA Stutters ==
    ASSUME NEW q, owner'[q] = owner[q], hold'[q] = hold[q],
           Ask(k', pc', object', q) = Ask(k, pc, object, q)
    PROVE  Simulated(q)
  BY Asked DEF Simulated

\* No thread enters rt_mutex_take or leaves it.
TakersStay ==
    \A x \in Clients :
        /\ pc'[x] \in TakePoints <=> pc[x] \in TakePoints
        /\ pc[x] \in TakePoints => object'[x] = object[x]

\* A suspended thread becomes ready: if it waits for the mutex, its request is
\* answered; a sleeper has asked for none.
LEMMA WakeMaps ==
    ASSUME MutexInv, NEW t \in Threads, k.stat[t] = "suspend", NEW e,
           \A x \in Threads : k'.stat[x] = IF x = t THEN "ready" ELSE k.stat[x],
           \A x \in Threads : k'.error[x] = IF x = t THEN e ELSE k.error[x],
           TakersStay, NEW q \in Mutexes
    PROVE  /\ t \in Clients
           /\ pc[t] \in TakePoints /\ object[t] = q =>
                 /\ Asking(q)[t] = "waiting"
                 /\ Asking(q)' = [Asking(q) EXCEPT ![t] = Answer(e)]
           /\ ~(pc[t] \in TakePoints /\ object[t] = q) => Asking(q)' = Asking(q)
  <1>1. t \in Clients /\ Clients \subseteq Threads
    BY Parts DEF Waits, Clients
  <1>2. \A x \in Clients : pc[x] \in TakePoints /\ object[x] = q <=> pc'[x] \in TakePoints /\ object'[x] = q
    BY DEF TakersStay
  <1>3. ASSUME pc[t] \in TakePoints, object[t] = q
        PROVE  /\ Ask(k, pc, object, q)[t] = "waiting"
               /\ Ask(k', pc', object', q) = [Ask(k, pc, object, q) EXCEPT ![t] = Answer(e)]
    BY <1>1, <1>2, <1>3 DEF Ask
  <1>4. ASSUME ~(pc[t] \in TakePoints /\ object[t] = q)
        PROVE  Ask(k', pc', object', q) = Ask(k, pc, object, q)
    <2>1. \A x \in Clients : pc[x] \in TakePoints /\ object[x] = q =>
             k'.stat[x] = k.stat[x] /\ k'.error[x] = k.error[x]
      BY <1>1, <1>4
    <2> QED BY <1>2, <2>1, AskSame
  <1> QED BY <1>1, <1>3, <1>4, Asked

\* A waiter is turned away or its time runs out.
LEMMA RefuseMaps ==
    ASSUME MutexInv, NEW t \in Threads, k.stat[t] = "suspend", NEW e, e # "RT_EOK",
           \A x \in Threads : k'.stat[x] = IF x = t THEN "ready" ELSE k.stat[x],
           \A x \in Threads : k'.error[x] = IF x = t THEN e ELSE k.error[x],
           TakersStay, UNCHANGED mutex, NEW q \in Mutexes
    PROVE  Simulated(q)
  <1>1. /\ t \in Clients
        /\ pc[t] \in TakePoints /\ object[t] = q =>
              Asking(q)[t] = "waiting" /\ Asking(q)' = [Asking(q) EXCEPT ![t] = Answer(e)]
        /\ ~(pc[t] \in TakePoints /\ object[t] = q) => Asking(q)' = Asking(q)
    BY WakeMaps
  <1>2. owner' = owner /\ hold' = hold /\ Answer(e) = "refused"
    BY DEF mutex, Answer
  <1>3. CASE pc[t] \in TakePoints /\ object[t] = q
    <2>1. Lock(q)!Refuse(t)
      BY <1>1, <1>2, <1>3 DEF Lock!Refuse, Lock!Set
    <2> QED BY <1>1, <2>1 DEF Simulated, Lock!Next
  <1>4. CASE ~(pc[t] \in TakePoints /\ object[t] = q)
    BY <1>1, <1>2, <1>4 DEF Simulated
  <1> QED BY <1>3, <1>4

\* rt_mutex_take of a mutex that is free, or the caller's own.
LEMMA TakeMaps ==
    ASSUME MutexInv, NEW s \in Threads, NEW r \in Mutexes, Running(s, "user"),
           take_again(s, r) \/ take_free(s, r), NEW q \in Mutexes
    PROVE  Simulated(q)
  <1>1. pc[s] = "user" /\ k.stat[s] = "ready" /\ s \in Clients /\ s # NoThread
    BY RunningReady
  <1>2. /\ Waits(k, pc, object) /\ Owners(k, value, owner, hold, original_priority)
        /\ value \in [Mutexes -> {0, 1}] /\ owner \in [Mutexes -> Threads \cup {NoThread}]
        /\ hold \in [Mutexes -> 0 .. MaxHold]
    BY Parts
  <1>3. k' = [k EXCEPT !.error[s] = "RT_EOK"] /\ UNCHANGED <<pc, object>>
    BY DEF take_again, take_free
  <1>4. k'.stat = k.stat /\ \A x \in Threads : x # s => k'.error[x] = k.error[x]
    BY <1>1, <1>2, <1>3, ErrorWaits DEF Errors
  <1>5. Asking(q)' = Asking(q)
    <2>1. \A x \in Clients : x \in Threads /\ (pc[x] \in TakePoints => x # s)
      BY <1>1 DEF TakePoints, Clients
    <2>2. \A x \in Clients :
             /\ pc[x] \in TakePoints /\ object[x] = q <=> pc'[x] \in TakePoints /\ object'[x] = q
             /\ pc[x] \in TakePoints /\ object[x] = q =>
                   k'.stat[x] = k.stat[x] /\ k'.error[x] = k.error[x]
      BY <1>3, <1>4, <2>1
    <2>3. Ask(k', pc', object', q) = Ask(k, pc, object, q)
      BY ONLY <2>2, AskSame
    <2> QED BY <2>3, Asked
  <1>6. CASE q = r
    <2>1. Asking(q)[s] = "none"
      BY <1>1 DEF Asking, InTake
    <2>2. ASSUME take_again(s, r) PROVE Lock(q)!Take(s)
      <3>1. owner[r] = s /\ hold[r] < MaxHold /\ hold' = [hold EXCEPT ![r] = @ + 1] /\ owner' = owner
        BY <2>2 DEF take_again
      <3> QED BY <1>1, <1>2, <1>5, <1>6, <2>1, <3>1 DEF Lock!Take
    <2>3. ASSUME take_free(s, r) PROVE Lock(q)!Take(s)
      <3>1. value[r] > 0 /\ owner' = [owner EXCEPT ![r] = s] /\ hold' = [hold EXCEPT ![r] = @ + 1]
        BY <2>3 DEF take_free
      <3>2. value[r] = 1
        BY <1>2, <3>1
      <3>3. owner[r] = NoThread /\ hold[r] = 0
        BY <1>2, <3>2 DEF Owners
      <3> QED BY <1>1, <1>2, <1>5, <1>6, <2>1, <3>1, <3>3 DEF Lock!Take
    <2> QED BY <1>1, <2>2, <2>3 DEF Simulated, Lock!Next
  <1>7. CASE q # r
    BY <1>2, <1>5, <1>7 DEF Simulated, take_again, take_free
  <1> QED BY <1>6, <1>7

\* rt_mutex_take of a mutex that another thread owns.
LEMMA WaitMaps ==
    ASSUME MutexInv, NEW s \in Threads, NEW r \in Mutexes, NEW timed \in BOOLEAN,
           Running(s, "user"), take_wait(s, r, timed), NEW q \in Mutexes
    PROVE  Simulated(q)
  <1>1. /\ owner[r] \in Threads /\ owner[r] # s /\ s \in Clients /\ pc[s] = "user"
        /\ \A x \in Threads : k'.stat[x] = IF x = s THEN "suspend" ELSE k.stat[x]
        /\ \A x \in Threads : x # s => k'.error[x] = k.error[x]
        /\ \A x \in Threads : x # s => pc'[x] = pc[x] /\ object'[x] = object[x]
        /\ pc'[s] = "blocked" /\ object'[s] = r
    BY TakeWaitEffect
  <1>2. UNCHANGED <<owner, hold>> /\ Clients \subseteq Threads /\ NoThread \notin Threads
    BY KernelAssumption DEF take_wait, mutex, Clients
  <1>3. CASE q = r
    <2>1. Asking(q)[s] = "none"
      BY <1>1 DEF Asking, InTake
    <2>2. Ask(k', pc', object', q) = [Ask(k, pc, object, q) EXCEPT ![s] = "waiting"]
      BY <1>1, <1>3 DEF Ask, TakePoints, Clients
    <2>3. Lock(q)!Wait(s)
      BY <1>1, <1>2, <1>3, <2>1, <2>2, Asked DEF Lock!Wait, Lock!Set
    <2> QED BY <1>1, <2>3 DEF Simulated, Lock!Next
  <1>4. CASE q # r
    <2>1. Ask(k', pc', object', q) = Ask(k, pc, object, q)
      BY <1>1, <1>2, <1>4 DEF Ask, TakePoints
    <2> QED BY <1>2, <2>1, Stutters
  <1> QED BY <1>3, <1>4

\* rt_mutex_take returns with the answer.
LEMMA TakeReturnMaps ==
    ASSUME MutexInv, NEW s \in Threads, take_return(s), NEW q \in Mutexes
    PROVE  Simulated(q)
  <1>1. /\ pc[s] = "taking" /\ k.stat[s] = "ready" /\ s \in Clients
        /\ UNCHANGED <<k, owner, hold>>
    BY RunningReady DEF take_return, mutex
  <1>2. /\ \A x \in Threads : x # s => pc'[x] = pc[x] /\ object'[x] = object[x]
        /\ pc'[s] = "user"
    BY Parts DEF take_return, LeaveCall, LeaveTo, Goto
  <1>3. CASE object[s] = q
    <2>1. Asking(q)[s] \in {"granted", "refused"}
      BY <1>1, <1>3 DEF Asking, InTake
    <2>2. Ask(k', pc', object', q) = [Ask(k, pc, object, q) EXCEPT ![s] = "none"]
      BY <1>1, <1>2, <1>3 DEF Ask, TakePoints, Clients
    <2>3. Lock(q)!Return(s)
      BY <1>1, <2>1, <2>2, Asked DEF Lock!Return, Lock!Set
    <2> QED BY <1>1, <2>3 DEF Simulated, Lock!Next
  <1>4. CASE object[s] # q
    <2>1. Ask(k', pc', object', q) = Ask(k, pc, object, q)
      BY <1>1, <1>2, <1>4 DEF Ask, TakePoints, Clients
    <2> QED BY <1>1, <2>1, Stutters
  <1> QED BY <1>3, <1>4

\* The owner releases the mutex one level, or for good to nobody.
LEMMA ReleaseMaps ==
    ASSUME MutexInv, NEW s \in Threads, NEW r \in Mutexes, Running(s, "user"), owner[r] = s,
           UNCHANGED object, release_one(r) \/ release_free(s, r), NEW q \in Mutexes
    PROVE  Simulated(q)
  <1>1. pc[s] = "user" /\ s \in Clients
    BY RunningReady
  <1>2. /\ Waits(k, pc, object)
        /\ owner \in [Mutexes -> Threads \cup {NoThread}] /\ hold \in [Mutexes -> 0 .. MaxHold]
    BY Parts
  <1>3. k'.stat = k.stat /\ k'.error = k.error /\ UNCHANGED <<pc, object>>
    <2>1. CASE release_one(r)
      BY <2>1 DEF release_one
    <2>2. CASE release_free(s, r)
      <3>1. k' = Restore(s, r) /\ UNCHANGED <<pc, object>>
        BY <2>2 DEF release_free
      <3>2. k' = Restore(s, r) /\ MutexInv /\ owner[r] = s /\ s \in Threads /\ r \in Mutexes
        BY <3>1
      <3>3. /\ Waits(k', pc, object)
            /\ k'.stat = k.stat /\ k'.error = k.error /\ k'.queue = k.queue /\ k'.current = k.current
            /\ k'.prio = [k.prio EXCEPT ![s] = original_priority[r]]
        BY ONLY <3>2, RestoreWaits
      <3> QED BY <3>1, <3>3
    <2> QED BY <2>1, <2>2
  <1>4. Asking(q)' = Asking(q)
    BY <1>3, Asked DEF Ask
  <1>5. CASE q = r
    <2>1. Asking(q)[s] = "none"
      BY <1>1 DEF Asking, InTake
    <2>2. ASSUME release_one(r) PROVE Lock(q)!Release(s)
      BY <1>2, <1>4, <1>5, <2>1, <2>2 DEF release_one, Lock!Release
    <2>3. ASSUME release_free(s, r) PROVE Lock(q)!Release(s)
      <3>1. /\ hold[r] = 1 /\ k.queue[r] = << >>
            /\ owner' = [owner EXCEPT ![r] = NoThread] /\ hold' = [hold EXCEPT ![r] = 0]
        BY <2>3 DEF release_free, NoWaiter
      <3>2. \A x \in Clients : Asking(q)[x] # "waiting"
        <4>1. \A x \in Threads : ~Queued(k, r, x)
          BY <3>1 DEF Queued, Contains
        <4>2. \A x \in Threads : ~(pc[x] \in TakePoints /\ object[x] = r /\ k.stat[x] = "suspend")
          BY <1>2, <4>1, MutexAssumption DEF Waits, WaitersListed
        <4> QED BY <1>5, <4>2 DEF Asking, InTake, TakePoints, Clients
      <3> QED BY <1>2, <1>4, <1>5, <2>1, <3>1, <3>2 DEF Lock!Release
    <2> QED BY <1>1, <2>2, <2>3 DEF Simulated, Lock!Next
  <1>6. CASE q # r
    BY <1>2, <1>4, <1>6 DEF Simulated, release_one, release_free
  <1> QED BY <1>5, <1>6

\* The owner hands the mutex to the first waiter.
LEMMA PassMaps ==
    ASSUME MutexInv, NEW s \in Threads, NEW r \in Mutexes, Running(s, "user"), owner[r] = s,
           UNCHANGED object, release_pass(s, r), NEW q \in Mutexes
    PROVE  Simulated(q)
  <1>0. PICK t : t = Head(k.queue[r])
    OBVIOUS
  <1>1. /\ hold[r] = 1 /\ owner' = [owner EXCEPT ![r] = t] /\ hold' = hold
        /\ pc' = [pc EXCEPT ![s] = "schedule"]
    BY <1>0 DEF release_pass, Goto
  <1>2. Handed(s, r, t)
    BY <1>0, ReleasePassEffect
  <1>3. /\ pc[s] = "user" /\ s \in Clients
        /\ t \in Clients /\ t \in Threads /\ object[t] = r /\ pc[t] \in TakePoints
        /\ k.stat[t] = "suspend" /\ k.error[t] = "RT_EOK"
        /\ \A x \in Threads : k'.stat[x] = IF x = t THEN "ready" ELSE k.stat[x]
        /\ \A x \in Threads : k'.error[x] = IF x = t THEN "RT_EOK" ELSE k.error[x]
    BY <1>2 DEF Handed, Clients
  <1>4. TakersStay
    BY <1>1, <1>3, Parts DEF TakersStay, TakePoints, Clients
  <1>5. /\ object[t] = q => /\ Asking(q)[t] = "waiting"
                            /\ Asking(q)' = [Asking(q) EXCEPT ![t] = "granted"]
        /\ object[t] # q => Asking(q)' = Asking(q)
    BY <1>3, <1>4, WakeMaps DEF Answer
  <1>6. owner \in [Mutexes -> Threads \cup {NoThread}]
    BY Parts
  <1>7. CASE q = r
    <2>1. Asking(q)[s] = "none"
      BY <1>3 DEF Asking, InTake
    <2>2. Lock(q)!Release(s)
      BY <1>1, <1>3, <1>5, <1>6, <1>7, <2>1 DEF Lock!Release, Lock!Set
    <2> QED BY <1>3, <2>2 DEF Simulated, Lock!Next
  <1>8. CASE q # r
    BY <1>1, <1>3, <1>5, <1>6, <1>8 DEF Simulated
  <1> QED BY <1>7, <1>8

\* The loop of the detach turns one waiter away.
LEMMA ResumeOneMaps ==
    ASSUME MutexInv, NEW s \in Threads, resume_one(s), UNCHANGED mutex, NEW q \in Mutexes
    PROVE  Simulated(q)
  <1>0. PICK r, t : r = object[s] /\ t = Head(k.queue[r])
    OBVIOUS
  <1>1. /\ pc[s] = "resuming" /\ k' = turn_away(k, t) /\ r \in Mutexes
        /\ (LeaveCall(s) \/ UNCHANGED <<pc, object>>)
    BY <1>0, RunningReady, Parts DEF resume_one
  <1>2. Waits(k, pc, object) /\ k.queue[r] # << >> /\ pc \in [Threads -> Points]
    BY <1>0, <1>1, Parts DEF Detaching
  <1>3. t \in Threads /\ k.stat[t] = "suspend"
    BY <1>0, <1>1, <1>2, FirstWaiter
  <1>4. MadeReady(k, k', t, "RT_ERROR")
    BY <1>1, <1>2, <1>3, TurnAwaySettled DEF Waits
  <1>5. /\ \A x \in Threads : k'.stat[x] = IF x = t THEN "ready" ELSE k.stat[x]
        /\ \A x \in Threads : k'.error[x] = IF x = t THEN "RT_ERROR" ELSE k.error[x]
    BY <1>3, <1>4, WakeEffect
  <1>6. TakersStay
    BY <1>1, Parts DEF TakersStay, TakePoints, Clients, LeaveCall, LeaveTo, Goto
  <1> QED BY <1>3, <1>5, <1>6, RefuseMaps

\* A timer runs out.
LEMMA TimeoutMaps ==
    ASSUME MutexInv, NEW t \in Threads, timeout(t), UNCHANGED mutex, NEW q \in Mutexes
    PROVE  Simulated(q)
  <1>0. PICK v : v = rt_thread_timeout(k, t)
    OBVIOUS
  <1>1. t \in k.timer /\ k' = rt_schedule(v) /\ UNCHANGED <<pc, object>>
    BY <1>0 DEF timeout
  <1>2. Settled(k) /\ k.stat[t] = "suspend"
    BY <1>1, Parts DEF Waits, Settled
  <1>3. MadeReady(k, v, t, "RT_ETIMEOUT")
    BY <1>0, <1>2, TimeoutSettled
  <1>4. /\ Waits(v, pc, object)
        /\ \A x \in Threads : v.stat[x] = IF x = t THEN "ready" ELSE k.stat[x]
        /\ \A x \in Threads : v.error[x] = IF x = t THEN "RT_ETIMEOUT" ELSE k.error[x]
    BY <1>2, <1>3, WakeEffect
  <1>5. k'.stat = v.stat /\ k'.error = v.error
    BY <1>1, <1>4, ScheduleWaits
  <1>6. TakersStay
    BY <1>1 DEF TakersStay
  <1> QED BY <1>2, <1>4, <1>5, <1>6, RefuseMaps

\* The steps that no user of a mutex sees.
LEMMA HiddenMaps ==
    ASSUME MutexInv, UNCHANGED mutex, NEW s \in Threads, NEW r \in Mutexes,
           \/ ScheduleStep(s, "blocked", "taking") \/ ScheduleStep(s, "schedule", "user")
           \/ tick_yield \/ detach(s, r),
           NEW q \in Mutexes
    PROVE  Simulated(q)
  <1>1. /\ Waits(k, pc, object) /\ Runs(k, pc) /\ pc \in [Threads -> Points] /\ object \in [Threads -> Mutexes]
    BY Parts
  <1>2. k'.stat = k.stat /\ k'.error = k.error
    <2>1. k' = rt_schedule(k) => k'.stat = k.stat /\ k'.error = k.error
      BY <1>1, ScheduleWaits
    <2>2. ASSUME tick_yield PROVE k'.stat = k.stat /\ k'.error = k.error
      <3>0. PICK v : v = move_to_tail(k)
        OBVIOUS
      <3>1. k.stat[k.current] = "ready" /\ k' = rt_schedule(v)
        BY <2>2, <3>0 DEF tick_yield, MovesToTail
      <3>2. /\ Settled(v) /\ v.stat = k.stat /\ v.error = k.error
        BY <1>1, <3>0, <3>1, MoveSettled DEF Waits, Runs
      <3>3. Idle \in Threads /\ v.stat[Idle] = "ready"
        BY <1>1, <3>2, IpcAssumption DEF Waits
      <3> QED BY <3>1, <3>2, <3>3, ScheduleSettled
    <2> QED BY <2>1, <2>2 DEF ScheduleStep, detach
  <1>3. TakersStay
    BY <1>1 DEF TakersStay, TakePoints, Clients, ScheduleStep, tick_yield, detach, Goto, Running
  <1>4. Ask(k', pc', object', q) = Ask(k, pc, object, q)
    <2>1. \A x \in Clients :
             /\ pc[x] \in TakePoints /\ object[x] = q <=> pc'[x] \in TakePoints /\ object'[x] = q
             /\ pc[x] \in TakePoints /\ object[x] = q =>
                   k'.stat[x] = k.stat[x] /\ k'.error[x] = k.error[x]
      BY <1>2, <1>3 DEF TakersStay
    <2> QED BY ONLY <2>1, AskSame
  <1>5. owner' = owner /\ hold' = hold
    BY DEF mutex
  <1> QED BY <1>4, <1>5, Stutters

\* A refusal, a sleep: the caller is at no point of rt_mutex_take.
Unseen(s) ==
    /\ Running(s, "user") /\ UNCHANGED mutex
    /\ \/ \E r \in Mutexes : take_refused(s, r)
       \/ release_refused(s) /\ UNCHANGED object
       \/ rt_thread_sleep(s)

\* Nobody's request is answered by it.
LEMMA UserMaps ==
    ASSUME MutexInv, NEW s \in Threads, Unseen(s), NEW q \in Mutexes
    PROVE  Simulated(q)
  <1>1. /\ pc[s] = "user" /\ k.stat[s] = "ready" /\ k.current = s /\ s # Idle
        /\ Waits(k, pc, object) /\ pc \in [Threads -> Points]
    BY RunningReady, Parts DEF Unseen
  <1>2. ASSUME NEW e \in Errors, k' = [k EXCEPT !.error[s] = e]
        PROVE  k'.stat = k.stat /\ \A x \in Threads : x # s => k'.error[x] = k.error[x]
    BY <1>1, <1>2, ErrorWaits
  <1>3. \A x \in Threads : x # s => k'.stat[x] = k.stat[x] /\ k'.error[x] = k.error[x] /\ pc'[x] = pc[x]
    <2>1. CASE \E r \in Mutexes : take_refused(s, r)
      BY <1>2, <2>1 DEF take_refused, Errors
    <2>2. CASE release_refused(s)
      BY <1>2, <2>2 DEF release_refused, Errors
    <2>3. CASE rt_thread_sleep(s)
      <3>1. /\ k' = rt_timer_start(rt_thread_suspend(k, s), s)
            /\ pc' = [pc EXCEPT ![s] = "schedule"]
        BY <2>3 DEF rt_thread_sleep, Goto
      <3>2. (\A x \in Threads : x # s => pc'[x] = pc[x]) /\ pc'[s] = "schedule"
        BY <1>1, <3>1
      <3>3. /\ Waits(k', pc', object) /\ k'.error = k.error
            /\ \A x \in Threads : k'.stat[x] = IF x = s THEN "suspend" ELSE k.stat[x]
        <4>1. k' = rt_timer_start(rt_thread_suspend(k, s), s)
          BY <3>1
        <4>2. s \in Threads /\ k.current = s /\ s # Idle /\ k.stat[s] = "ready"
          BY <1>1
        <4>3. Waits(k, pc, object)
          BY <1>1
        <4> QED BY ONLY <3>2, <4>1, <4>2, <4>3, SleepWaits
      <3> QED BY <3>2, <3>3
    <2> QED BY <2>1, <2>2, <2>3 DEF Unseen
  <1>4. pc'[s] \notin TakePoints /\ pc[s] \notin TakePoints /\ object' = object
    BY <1>1 DEF Unseen, take_refused, release_refused, rt_thread_sleep, Goto, TakePoints
  <1>5. Ask(k', pc', object', q) = Ask(k, pc, object, q)
    <2>1. \A x \in Clients :
             /\ pc[x] \in TakePoints /\ object[x] = q <=> pc'[x] \in TakePoints /\ object'[x] = q
             /\ pc[x] \in TakePoints /\ object[x] = q =>
                   k'.stat[x] = k.stat[x] /\ k'.error[x] = k.error[x]
      BY <1>3, <1>4 DEF Clients
    <2> QED BY ONLY <2>1, AskSame
  <1>6. owner' = owner /\ hold' = hold
    BY DEF Unseen, mutex
  <1> QED BY <1>5, <1>6, Stutters

\* Every step of the system is a step of each lock, or none.
LEMMA LockStep == MutexInv /\ [Next]_vars => \A q \in Mutexes : Simulated(q)
  <1> SUFFICES ASSUME MutexInv, [Next]_vars, NEW q \in Mutexes PROVE Simulated(q)
    OBVIOUS
  <1>1. ASSUME NEW s \in Threads, NEW r \in Mutexes, rt_mutex_take(s, r) PROVE Simulated(q)
    <2>1. Running(s, "user")
      BY <1>1 DEF rt_mutex_take
    <2>2. CASE take_again(s, r) \/ take_free(s, r)
      BY <2>1, <2>2, TakeMaps
    <2>3. CASE take_refused(s, r)
      <3>1. Unseen(s)
        BY <2>1, <2>3 DEF take_refused, Unseen
      <3> QED BY <3>1, UserMaps
    <2>4. CASE \E timed \in BOOLEAN : take_wait(s, r, timed)
      BY <2>1, <2>4, WaitMaps
    <2> QED BY <1>1, <2>2, <2>3, <2>4 DEF rt_mutex_take
  <1>2. ASSUME NEW s \in Threads, NEW r \in Mutexes, rt_mutex_release(s, r) PROVE Simulated(q)
    <2>1. Running(s, "user") /\ UNCHANGED object
      BY <1>2 DEF rt_mutex_release
    <2>2. CASE owner[r] = s
      BY <1>2, <2>1, <2>2, ReleaseMaps, PassMaps DEF rt_mutex_release
    <2>3. CASE owner[r] # s
      <3>1. Unseen(s)
        BY <1>2, <2>1, <2>3 DEF rt_mutex_release, release_refused, Unseen
      <3> QED BY <3>1, UserMaps
    <2> QED BY <2>2, <2>3
  <1>3. ASSUME NEW s \in Threads, NEW r \in Mutexes,
               \/ rt_mutex_detach(s, r)
               \/ ScheduleStep(s, "blocked", "taking") /\ UNCHANGED mutex
               \/ ScheduleStep(s, "schedule", "user") /\ UNCHANGED mutex
               \/ tick_yield /\ UNCHANGED mutex
        PROVE  Simulated(q)
    BY <1>3, HiddenMaps DEF rt_mutex_detach
  <1>4. ASSUME NEW s \in Threads,
               take_return(s) \/ rt_thread_sleep(s) \/ (resume_one(s) /\ UNCHANGED mutex)
        PROVE  Simulated(q)
    <2>1. CASE rt_thread_sleep(s)
      <3>1. Unseen(s)
        BY <2>1 DEF rt_thread_sleep, Unseen
      <3> QED BY <3>1, UserMaps
    <2> QED BY <1>4, <2>1, TakeReturnMaps, ResumeOneMaps
  <1>5. ASSUME NEW t \in Threads, timeout(t), UNCHANGED mutex PROVE Simulated(q)
    BY <1>5, TimeoutMaps
  <1>6. ASSUME UNCHANGED vars PROVE Simulated(q)
    BY <1>6, AskSame, Stutters DEF vars
  <1>7. CASE tick_yield /\ UNCHANGED mutex
    BY <1>3, <1>7, IpcAssumption
  <1>8. ASSUME NEW s \in Threads,
               \/ ScheduleStep(s, "blocked", "taking") /\ UNCHANGED mutex
               \/ ScheduleStep(s, "schedule", "user") /\ UNCHANGED mutex
        PROVE  Simulated(q)
    BY <1>3, <1>8
  <1>9. ASSUME Next PROVE Simulated(q)
    <2>0. Next
      BY <1>9
    <2>1. CASE \E s \in Threads, r \in Mutexes :
                  rt_mutex_take(s, r) \/ rt_mutex_release(s, r) \/ rt_mutex_detach(s, r)
      <3>1. ASSUME NEW s \in Threads, NEW r \in Mutexes, rt_mutex_detach(s, r) PROVE Simulated(q)
        BY <1>3, <3>1
      <3> QED BY <1>1, <1>2, <2>1, <3>1
    <2>2. CASE \E s \in Threads :
                  \/ take_return(s) \/ rt_thread_sleep(s) \/ (resume_one(s) /\ UNCHANGED mutex)
                  \/ ScheduleStep(s, "blocked", "taking") /\ UNCHANGED mutex
                  \/ ScheduleStep(s, "schedule", "user") /\ UNCHANGED mutex
      <3>1. PICK s \in Threads :
                  \/ take_return(s) \/ rt_thread_sleep(s) \/ (resume_one(s) /\ UNCHANGED mutex)
                  \/ ScheduleStep(s, "blocked", "taking") /\ UNCHANGED mutex
                  \/ ScheduleStep(s, "schedule", "user") /\ UNCHANGED mutex
        BY <2>2
      <3>2. CASE take_return(s) \/ rt_thread_sleep(s) \/ (resume_one(s) /\ UNCHANGED mutex)
        BY <1>4, <3>2
      <3>3. CASE \/ ScheduleStep(s, "blocked", "taking") /\ UNCHANGED mutex
                 \/ ScheduleStep(s, "schedule", "user") /\ UNCHANGED mutex
        BY <1>8, <3>3
      <3> QED BY <3>1, <3>2, <3>3
    <2>3. CASE \E t \in Threads : timeout(t) /\ UNCHANGED mutex
      BY <1>5, <2>3
    <2>4. CASE tick_yield /\ UNCHANGED mutex
      BY <1>7, <2>4
    <2> QED BY ONLY <2>0, <2>1, <2>2, <2>3, <2>4 DEF Next
  <1> QED BY <1>6, <1>9

\* At the start a lock has no holder and nothing is asked.
LEMMA LockInit ==
    ASSUME Init, NEW q \in Mutexes
    PROVE  Lock(q)!Init
  <1>1. owner[q] = NoThread /\ hold[q] = 0
    BY DEF Init
  <1>2. pc = [t \in Threads |-> "user"]
    BY DEF Init, InitThreads
  <1>3. Asking(q) = [t \in Clients |-> "none"]
    BY <1>2 DEF Asking, InTake, Clients
  <1> QED BY <1>1, <1>3 DEF Lock!Init

\* Every mutex implements a recursive lock: no caller of rt_mutex_take returns
\* RT_EOK without being the owner, and only the owner passes the mutex on.
THEOREM MutexesLock == Spec => Implements
  <1>1. Init => \A q \in Mutexes : Lock(q)!Init
    BY LockInit
  <1>2. MutexInv /\ [Next]_vars =>
           [\A q \in Mutexes : [Lock(q)!Next]_<<owner[q], hold[q], Asking(q)>>]_vars
    BY LockStep DEF Simulated
  <1> QED BY <1>1, <1>2, Invariance, PTL DEF Spec, Implements

\* The same as the specification of the abstract module.
THEOREM MutexesImplement == Spec => \A q \in Mutexes : Lock(q)!Spec
  <1>1. ASSUME NEW q \in Mutexes PROVE Spec => Lock(q)!Spec
    <2>1. Init => Lock(q)!Init
      BY LockInit
    <2>2. MutexInv /\ [Next]_vars => [Lock(q)!Next]_<<owner[q], hold[q], Asking(q)>>
      BY LockStep DEF Simulated
    <2> QED BY <2>1, <2>2, Invariance, PTL DEF Spec, Lock!Spec
  <1> QED BY <1>1
=============================================================================
