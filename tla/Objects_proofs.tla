--------------------------- MODULE Objects_proofs ----------------------------
(***************************************************************************)
(* The safety of Objects for every number of threads, priorities and       *)
(* objects and every size: what the threads of the kernel objects wait     *)
(* for, that no wakeup is lost, and what the objects hold meanwhile.       *)
(*                                                                         *)
(* Calm is what all the kinds of objects have in common: who waits, who    *)
(* runs and who detaches. Its parts speak of a table u and of the calls    *)
(* at[t], on[t] the threads are in, so that they can be stated between the *)
(* wake-up of a thread and the rt_schedule after it. A lemma per part of a *)
(* section (a thread wakes, blocks, goes on; rt_schedule) comes first, the *)
(* actions of each kind of object follow, and the theorems are at the end. *)
(***************************************************************************)
EXTENDS Objects, Kernel_proofs

WaitPoints == {"blocked", "woken"}
Outside    == {"user", "schedule"}

\* The lists that calls may be on, when o is what a behaviour is about
Scope(o) == IF o \in Completions THEN Completions ELSE SubjectLists(o)

\* Objects that nobody waits for with a timeout
Untimed(o) == o \in Pipes \cup (Deletable \ Completions)

\* Who waits: exactly the threads suspended in the loop of a call are on the
\* lists, with no error yet; the idle thread never is. In a pipe no call ever
\* ends with an error.
Waits(u, at, on, o) ==
    /\ Settled(u)
    /\ at \in [Threads -> Points] /\ on \in [Threads -> Queues]
    /\ WaitersListed(u, at, on, WaitPoints)
    /\ \A t \in Threads : u.stat[t] = "suspend" => at[t] \in WaitPoints /\ u.error[t] = "RT_EOK"
    /\ \A t \in Threads : at[t] \notin Outside => on[t] \in Scope(o)
    /\ o \in Pipes => \A t \in Threads : u.error[t] = "RT_EOK"
    /\ Untimed(o) => u.timer = {}
    /\ u.stat[Idle] = "ready" /\ at[Idle] = "user"

\* Who runs: a READY thread, or one that has just blocked and still owes the
\* rt_schedule.
Runs(u, at) ==
    u.current \in Threads /\ (u.stat[u.current] = "ready" \/ at[u.current] = "blocked")

\* A thread inside a call on an object that is gone: it is suspended, or has
\* been turned away.
OutOfIt(u, at, t) ==
    u.stat[t] = "suspend" \/ (at[t] \in WaitPoints /\ u.error[t] # "RT_EOK")

\* Only the object o exists. It is detached once, by one thread, which is not
\* through while somebody waits; and of a pool only the callers are then still
\* on their way.
Detaching(u, at, on, gone, o) ==
    /\ Queues \ SubjectLists(o) \subseteq gone /\ gone \subseteq Queues
    /\ o \in gone => o \in Deletable \ UNION {Completions, DataQueues, Pipes}
    /\ \A s \in Threads : at[s] = "resuming" => o \in gone /\ u.queue[on[s]] # << >>
    /\ \A s, r \in Threads : at[s] = "resuming" /\ at[r] = "resuming" => s = r
    /\ o \in gone \ Pools =>
          \A t \in Threads : at[t] \notin Outside \cup {"resuming"} => OutOfIt(u, at, t)

\* Nobody resets a data queue.
Calm(u, at, on, gone, o) ==
    /\ Waits(u, at, on, o) /\ Runs(u, at) /\ Detaching(u, at, on, gone, o)
    /\ \A t \in Threads : at[t] # "dq_reset"

\* While rt_data_queue_reset has locked the scheduler the caller stays the
\* current thread, and all is as it would be with the scheduler unlocked.
Unlocked(u) == [u EXCEPT !.lock_nest = 0]
Locked(u, at, on, gone, o) ==
    /\ o \in DataQueues \cap Deletable /\ u.lock_nest = 1 /\ u \in KernelType
    /\ u.current \in Threads /\ u.stat[u.current] = "ready"
    /\ \A t \in Threads : at[t] = "dq_reset" <=> t = u.current
    /\ Waits(Unlocked(u), at, on, o) /\ Detaching(u, at, on, gone, o)

\* The threads woken in the loop of a call on q that are on their way, and the
\* form of the invariants against lost wakeups: while somebody waits, as many
\* are on their way as there are things to be had.
Way(u, at, on, q) ==
    {t \in Clients : /\ at[t] \in WaitPoints /\ on[t] = q
                     /\ u.stat[t] # "suspend" /\ u.error[t] = "RT_EOK"}
Served(u, at, on, q, n) == u.queue[q] # << >> => n <= Cardinality(Way(u, at, on, q))

\* Table and calls went from u, at, on to v, bt, bn, and where n things are
\* provided for on list q, n + d are afterwards.
Gains(u, at, on, v, bt, bn, q, d) ==
    \A n \in Int : Served(u, at, on, q, n) => Served(v, bt, bn, q, n + d)

-----------------------------------------------------------------------------
(* Parts of steps *)

\* From table u to v thread t was woken with error e.
WokenUp(u, v, at, on, t, e, o) ==
    /\ Waits(v, at, on, o) /\ (Runs(u, at) => Runs(v, at)) /\ v.current = u.current
    /\ \A q \in Queues : /\ \A x : Contains(v.queue[q], x) <=> Contains(u.queue[q], x) /\ x # t
                         /\ on[t] # q => v.queue[q] = u.queue[q]
    /\ \A x \in Threads : v.stat[x] = IF x = t THEN "ready" ELSE u.stat[x]
    /\ \A x \in Threads : v.error[x] = IF x = t THEN e ELSE u.error[x]

\* A suspended thread is woken, by a wakeup, a timeout or the end of the object.
LEMMA WakeWaits ==
    ASSUME NEW u, NEW at, NEW on, NEW o, Waits(u, at, on, o), NEW t \in Threads,
           u.stat[t] = "suspend", NEW e, o \in Pipes => e = "RT_EOK",
           NEW v, MadeReady(u, v, t, e)
    PROVE  WokenUp(u, v, at, on, t, e, o)
  <1>1. /\ WaitersListed(v, at, on, WaitPoints)
        /\ \A q \in Queues : /\ \A x : Contains(v.queue[q], x) <=> Contains(u.queue[q], x) /\ x # t
                             /\ on[t] # q => v.queue[q] = u.queue[q]
                             /\ Ordered(u.queue[q], u.prio) => Ordered(v.queue[q], v.prio)
        /\ \A x \in Threads : v.stat[x] = IF x = t THEN "ready" ELSE u.stat[x]
        /\ \A x \in Threads : v.error[x] = IF x = t THEN e ELSE u.error[x]
        /\ v.timer \subseteq u.timer
    <2>1. Settled(u) /\ WaitersListed(u, at, on, WaitPoints)
      BY DEF Waits
    <2> QED BY <2>1, ReadyWaiters
  <1>2. Settled(v) /\ v.current = u.current
    BY DEF MadeReady
  <1>3. Waits(v, at, on, o)
    BY <1>1, <1>2, IpcAssumption DEF Waits
  <1>4. Runs(u, at) => Runs(v, at)
    BY <1>1, <1>2 DEF Runs
  <1> QED BY <1>1, <1>2, <1>3, <1>4 DEF WokenUp

\* rt_schedule finds a ready thread.
LEMMA ScheduleWaits ==
    ASSUME NEW u, NEW at, NEW on, NEW o, Waits(u, at, on, o)
    PROVE  LET v == rt_schedule(u)
           IN  /\ Waits(v, at, on, o) /\ Runs(v, at) /\ v.stat[v.current] = "ready"
               /\ v.stat = u.stat /\ v.error = u.error /\ v.queue = u.queue
  <1> DEFINE v == rt_schedule(u)
  <1>1. Settled(u) /\ Idle \in Threads /\ u.stat[Idle] = "ready"
    BY IpcAssumption DEF Waits
  <1>2. /\ Settled(v) /\ v.current \in Threads /\ v.stat[v.current] = "ready"
        /\ v.stat = u.stat /\ v.error = u.error /\ v.timer = u.timer
        /\ v.queue = u.queue /\ v.prio = u.prio
    BY <1>1, ScheduleSettled
  <1> HIDE DEF v
  <1>3. Waits(v, at, on, o) /\ Runs(v, at)
    BY <1>2 DEF Waits, WaitersListed, Queued, Runs
  <1> QED BY <1>2, <1>3 DEF v

\* A ready thread, not the idle one, goes from one point of its calls to
\* another.
LEMMA GoWaits ==
    ASSUME NEW u, NEW at, NEW on, NEW o, Waits(u, at, on, o), NEW s \in Threads,
           u.stat[s] = "ready", s # Idle,
           NEW bt \in [Threads -> Points], NEW bn \in [Threads -> Queues],
           \A x \in Threads : x # s => bt[x] = at[x] /\ bn[x] = on[x],
           bt[s] \notin Outside => bn[s] \in Scope(o)
    PROVE  Waits(u, bt, bn, o)
  <1>1. WaitersListed(u, bt, bn, WaitPoints)
    BY DEF Waits, WaitersListed
  <1>2. \A t \in Threads : bt[t] \notin Outside => bn[t] \in Scope(o)
    BY DEF Waits
  <1> QED BY <1>1, <1>2, IpcAssumption DEF Waits

\* Table v after u, where thread s has blocked on q
HasBlocked(u, v, bt, bn, s, q, o) ==
    /\ Waits(v, bt, bn, o) /\ Runs(v, bt)
    /\ \A r \in Queues : r # q => v.queue[r] = u.queue[r]
    /\ \A x \in Threads : v.stat[x] = IF x = s THEN "suspend" ELSE u.stat[x]
    /\ \A x \in Threads : x # s => v.error[x] = u.error[x]

\* Table w is u with the error of s cleared, and v is x, perhaps with the timer
\* of s started.
Cleared(u, w, s) == w = [u EXCEPT !.error[s] = "RT_EOK"]
MayStart(x, v, s, o) == v = x \/ (v = rt_timer_start(x, s) /\ ~Untimed(o))

\* Of the calls only that of thread s changed: it blocks on q.
MovesTo(at, on, bt, bn, s, q) ==
    /\ bt \in [Threads -> Points] /\ bn \in [Threads -> Queues]
    /\ \A y \in Threads : y # s => bt[y] = at[y] /\ bn[y] = on[y]
    /\ bt[s] = "blocked" /\ bn[s] = q

\* The current thread has joined list q, at any place, and its timer is started
\* or not.
LEMMA BlockWaits ==
    ASSUME NEW u, NEW at, NEW on, NEW o, Waits(u, at, on, o), NEW s \in Threads,
           u.current = s, s # Idle, u.stat[s] = "ready", NEW q \in Queues, q \in Scope(o),
           NEW w, Cleared(u, w, s), NEW x, NEW f, PutToWait(w, x, s, q, f),
           NEW v, MayStart(x, v, s, o), NEW bt, NEW bn, MovesTo(at, on, bt, bn, s, q)
    PROVE  HasBlocked(u, v, bt, bn, s, q, o)
  <1> USE DEF MovesTo
  <1>0. Settled(u) /\ WaitersListed(u, at, on, WaitPoints)
    BY DEF Waits
  <1>1. /\ Settled(w) /\ w.error = [u.error EXCEPT ![s] = "RT_EOK"]
        /\ w.stat = u.stat /\ w.timer = u.timer /\ w.queue = u.queue
        /\ w.prio = u.prio /\ w.current = u.current
    <2>1. w = [u EXCEPT !.error[s] = "RT_EOK"] /\ "RT_EOK" \in Errors
      BY DEF Cleared, Errors
    <2> QED BY ONLY <1>0, <2>1, s \in Threads, ErrorSettled
  <1>4. WaitersListed(w, at, on, WaitPoints)
    BY <1>0, <1>1 DEF WaitersListed, Queued
  <1>5. /\ WaitersListed(x, bt, bn, WaitPoints)
        /\ \A y \in Threads : x.stat[y] = IF y = s THEN "suspend" ELSE w.stat[y]
    <2>1. w.stat[s] = "ready" /\ bt[s] \in WaitPoints
      BY <1>1 DEF WaitPoints
    <2>2. \A y \in Threads : y # s => bt[y] = at[y] /\ bn[y] = on[y]
      OBVIOUS
    <2>3. Settled(w) /\ PutToWait(w, x, s, q, f) /\ WaitersListed(w, at, on, WaitPoints)
      BY <1>1, <1>4
    <2>4. s \in Threads /\ q \in Queues /\ bn[s] = q
      OBVIOUS
    <2>5. WaitersListed(x, bt, bn, WaitPoints) /\ \A y \in Threads : x.stat[y] = IF y = s THEN "suspend" ELSE w.stat[y]
      BY ONLY <2>1, <2>2, <2>3, <2>4, BlockedWaiters
    <2> QED BY <2>5
  <1>6. Settled(x) /\ x.stat[s] = "suspend"
    BY <1>5 DEF PutToWait
  <1>7. /\ Settled(v) /\ (Untimed(o) => v.timer = x.timer)
        /\ v.stat = x.stat /\ v.error = x.error /\ v.queue = x.queue
        /\ v.prio = x.prio /\ v.current = x.current
    <2>1. CASE v = rt_timer_start(x, s) /\ ~Untimed(o)
      BY ONLY <1>6, <2>1, s \in Threads, TimerSettled
    <2>2. CASE v = x
      BY ONLY <1>6, <2>2
    <2> QED BY <2>1, <2>2 DEF MayStart
  <1>8. /\ x.error = w.error /\ x.timer = w.timer /\ x.prio = w.prio /\ x.current = w.current
        /\ \A r \in Queues : r # q => x.queue[r] = w.queue[r]
    BY DEF PutToWait
  <1>9. u.error \in [Threads -> Errors]
    BY <1>0, SettledType
  <1>10. /\ \A y \in Threads : v.stat[y] = IF y = s THEN "suspend" ELSE u.stat[y]
         /\ \A y \in Threads : v.error[y] = IF y = s THEN "RT_EOK" ELSE u.error[y]
    BY <1>1, <1>5, <1>7, <1>8, <1>9
  <1>12. WaitersListed(v, bt, bn, WaitPoints)
    BY <1>5, <1>7 DEF WaitersListed, Queued
  <1>13. Untimed(o) => v.timer = {}
    BY <1>1, <1>7, <1>8 DEF Waits
  <1>14. \A y \in Threads : v.stat[y] = "suspend" => bt[y] \in WaitPoints /\ v.error[y] = "RT_EOK"
    BY <1>10 DEF Waits, WaitPoints
  <1>15. v.stat[Idle] = "ready" /\ bt[Idle] = "user"
    BY <1>10, IpcAssumption DEF Waits
  <1>16. /\ \A t \in Threads : bt[t] \notin Outside => bn[t] \in Scope(o)
         /\ o \in Pipes => \A t \in Threads : v.error[t] = "RT_EOK"
    BY <1>10 DEF Waits
  <1>17. Waits(v, bt, bn, o)
    BY <1>7, <1>12, <1>13, <1>14, <1>15, <1>16 DEF Waits
  <1>18. Runs(v, bt)
    BY <1>1, <1>7, <1>8 DEF Runs
  <1>19. \A r \in Queues : r # q => v.queue[r] = u.queue[r]
    BY <1>1, <1>7, <1>8
  <1> QED BY ONLY <1>10, <1>17, <1>18, <1>19 DEF HasBlocked

\* From table u to v the waiters of list q were turned away.
HasReset(u, v, at, on, q, o) ==
    /\ Waits(v, at, on, o) /\ Runs(v, at) /\ v.current = u.current /\ v.queue[q] = << >>
    /\ \A r \in Queues : r # q => v.queue[r] = u.queue[r]
    /\ \A x \in Threads : v.stat[x] = IF Queued(u, q, x) THEN "ready" ELSE u.stat[x]
    /\ \A x \in Threads : v.error[x] = IF Queued(u, q, x) THEN "RT_ERROR" ELSE u.error[x]

\* RT_IPC_CMD_RESET turns the waiters of one list away.
LEMMA ResetWaits ==
    ASSUME NEW u, NEW at, NEW on, NEW o, Waits(u, at, on, o), Runs(u, at), o \notin Pipes,
           NEW q \in Queues
    PROVE  HasReset(u, resume_all(u, q), at, on, q, o)
  <1> DEFINE v == resume_all(u, q)
  <1>0. Settled(u) /\ WaitersListed(u, at, on, WaitPoints)
    BY DEF Waits
  <1>1. /\ Settled(v) /\ v.prio = u.prio /\ v.current = u.current
        /\ \A x \in Threads : v.stat[x] = IF Queued(u, q, x) THEN "ready" ELSE u.stat[x]
        /\ \A x \in Threads : v.error[x] = IF Queued(u, q, x) THEN "RT_ERROR" ELSE u.error[x]
        /\ \A x \in Threads : x \in v.timer <=> x \in u.timer /\ ~Queued(u, q, x)
        /\ \A r \in Queues, x \in Threads :
              Queued(v, r, x) <=> Queued(u, r, x) /\ ~Queued(u, q, x)
        /\ \A r \in Queues : (\A x \in Threads : ~(Queued(u, q, x) /\ Queued(u, r, x))) =>
              v.queue[r] = u.queue[r]
    BY <1>0, ResumeAllSettled
  <1> HIDE DEF v
  <1>2. \A r \in Queues : r # q => v.queue[r] = u.queue[r]
    BY <1>0, <1>1 DEF WaitersListed
  <1>3. v.queue[q] = << >>
    <2>1. v.queue[q] \in Seq(Threads)
      BY <1>0, <1>1, SettledType
    <2>2. \A x \in Threads : ~Contains(v.queue[q], x)
      BY <1>0, <1>1 DEF Queued
    <2> QED BY <2>1, <2>2, EmptyList
  <1>4. WaitersListed(v, at, on, WaitPoints)
    BY <1>0, <1>1 DEF WaitersListed
  <1>6. v.timer \subseteq u.timer
    <2>1. v.timer \subseteq Threads
      BY <1>1, SettledType
    <2> QED BY <2>1, <1>1
  <1>7. Waits(v, at, on, o)
    BY <1>1, <1>4, <1>6, IpcAssumption DEF Waits
  <1>8. Runs(v, at)
    BY <1>1 DEF Runs
  <1> QED BY <1>1, <1>2, <1>3, <1>7, <1>8 DEF v, HasReset

\* A list is empty when nobody is on it, and its first thread is suspended in
\* the loop of a call on it.
LEMMA FirstWaiter ==
    ASSUME NEW u, NEW at, NEW on, NEW o, Waits(u, at, on, o), NEW q \in Queues
    PROVE  /\ u.queue[q] = << >> <=> \A x : ~Contains(u.queue[q], x)
           /\ u.queue[q] # << >> =>
                 /\ Head(u.queue[q]) \in Threads /\ Queued(u, q, Head(u.queue[q]))
                 /\ u.stat[Head(u.queue[q])] = "suspend" /\ on[Head(u.queue[q])] = q
                 /\ at[Head(u.queue[q])] \in WaitPoints
  <1>1. Settled(u) /\ WaitersListed(u, at, on, WaitPoints)
    BY DEF Waits
  <1>2. u.queue[q] \in Seq(Threads)
    BY <1>1, SettledType
  <1> QED BY <1>1, <1>2, EmptyList DEF WaitersListed, Queued

\* While its object exists nobody detaches anything.
LEMMA NotDetached ==
    ASSUME NEW u, NEW at, NEW on, NEW gone, NEW o, Detaching(u, at, on, gone, o), o \notin gone,
           NEW v, NEW bt, NEW bn,
           \A x \in Threads : bt[x] = "resuming" => at[x] = "resuming"
    PROVE  Detaching(v, bt, bn, gone, o)
  BY DEF Detaching

\* Threads other than s keep their calls, and s leaves one or stays in its
\* loop.
OnlyLeaves(at, on, bt, bn, s) ==
    /\ \A x \in Threads : x # s => bt[x] = at[x] /\ bn[x] = on[x]
    /\ at[s] # "resuming"
    /\ bt[s] \in Outside \/ (at[s] \in WaitPoints /\ bt[s] \in WaitPoints)

\* A detach goes on while threads leave their calls.
LEMMA StillDetaching ==
    ASSUME NEW u, NEW at, NEW on, NEW gone, NEW o, Detaching(u, at, on, gone, o),
           NEW v, v.queue = u.queue, v.stat = u.stat, v.error = u.error,
           NEW s \in Threads, NEW bt, NEW bn, OnlyLeaves(at, on, bt, bn, s)
    PROVE  Detaching(v, bt, bn, gone, o)
  <1>1. \A x \in Threads : bt[x] = "resuming" => x # s /\ at[x] = "resuming" /\ bn[x] = on[x]
    BY DEF OnlyLeaves, Outside, WaitPoints
  <1>2. ASSUME NEW t \in Threads, bt[t] \notin Outside \cup {"resuming"}, o \in gone \ Pools
        PROVE  OutOfIt(v, bt, t)
    <2>1. at[t] \notin Outside \cup {"resuming"}
      BY <1>2 DEF OnlyLeaves, Outside, WaitPoints
    <2>2. OutOfIt(u, at, t)
      BY <1>2, <2>1 DEF Detaching
    <2>3. at[t] \in WaitPoints => bt[t] \in WaitPoints
      BY <1>2 DEF OnlyLeaves
    <2> QED BY <2>2, <2>3 DEF OutOfIt
  <1>3. \A t \in Threads : bt[t] = "resuming" => o \in gone /\ v.queue[bn[t]] # << >>
    BY <1>1 DEF Detaching
  <1>4. \A t, r \in Threads : bt[t] = "resuming" /\ bt[r] = "resuming" => t = r
    BY <1>1 DEF Detaching
  <1> QED BY <1>2, <1>3, <1>4 DEF Detaching

-----------------------------------------------------------------------------
(* Who is on the way                                                       *)

\* The sets of threads on their way are finite.
LEMMA WayFinite ==
    ASSUME NEW u, NEW at, NEW on, NEW q
    PROVE  /\ IsFiniteSet(Way(u, at, on, q)) /\ Cardinality(Way(u, at, on, q)) \in Nat
           /\ Way(u, at, on, q) \subseteq Threads
  <1>1. Way(u, at, on, q) \subseteq Threads
    BY DEF Way, Clients
  <1> QED BY <1>1, IpcAssumption, FS_Subset, FS_CardinalityType

\* Nobody who is on the way gives up.
LEMMA KeepsWay ==
    ASSUME NEW u, NEW at, NEW on, NEW v, NEW bt, NEW bn, NEW q,
           v.queue[q] # << >> => u.queue[q] # << >>,
           v.queue[q] # << >> => Way(u, at, on, q) \subseteq Way(v, bt, bn, q)
    PROVE  Gains(u, at, on, v, bt, bn, q, 0)
  <1> SUFFICES ASSUME NEW n \in Int, Served(u, at, on, q, n), v.queue[q] # << >>
               PROVE  n + 0 <= Cardinality(Way(v, bt, bn, q))
    BY DEF Gains, Served
  <1>1. n <= Cardinality(Way(u, at, on, q))
    BY DEF Served
  <1>2. Cardinality(Way(u, at, on, q)) <= Cardinality(Way(v, bt, bn, q))
    BY WayFinite, FS_Subset
  <1> QED BY <1>1, <1>2, WayFinite

\* One thread that was on the way may be so no more.
LEMMA LeavesWay ==
    ASSUME NEW u, NEW at, NEW on, NEW v, NEW bt, NEW bn, NEW q, NEW s,
           v.queue[q] # << >> => u.queue[q] # << >>,
           Way(u, at, on, q) \ {s} \subseteq Way(v, bt, bn, q)
    PROVE  Gains(u, at, on, v, bt, bn, q, -1)
  <1> SUFFICES ASSUME NEW n \in Int, Served(u, at, on, q, n), v.queue[q] # << >>
               PROVE  n - 1 <= Cardinality(Way(v, bt, bn, q))
    BY DEF Gains, Served
  <1> DEFINE A == Way(u, at, on, q)
             B == Way(v, bt, bn, q)
  <1>1. n <= Cardinality(A)
    BY DEF Served
  <1>2. IsFiniteSet(A) /\ Cardinality(A) \in Nat /\ IsFiniteSet(B) /\ Cardinality(B) \in Nat /\ A \ {s} \subseteq B
    BY WayFinite
  <1> HIDE DEF A, B
  <1>3. IsFiniteSet(A \ {s}) /\ Cardinality(A) - 1 <= Cardinality(A \ {s})
    <2>1. CASE s \in A
      <3>1. IsFiniteSet(A \ {s}) /\ Cardinality(A \ {s}) = Cardinality(A) - 1
        BY ONLY <1>2, <2>1, FS_RemoveElement
      <3> QED BY <1>2, <3>1
    <2>2. CASE s \notin A
      <3>1. A \ {s} = A
        BY ONLY <2>2
      <3>2. Cardinality(A) - 1 <= Cardinality(A)
        BY ONLY <1>2
      <3> QED BY ONLY <1>2, <3>1, <3>2
    <2> QED BY <2>1, <2>2
  <1>4. Cardinality(A \ {s}) <= Cardinality(B) /\ Cardinality(A \ {s}) \in Nat
    BY <1>2, <1>3, FS_Subset, FS_CardinalityType
  <1>5. n - 1 <= Cardinality(B)
    BY <1>1, <1>2, <1>3, <1>4
  <1> QED BY <1>5 DEF B

\* One more thread is on the way, if somebody waits.
LEMMA JoinsWay ==
    ASSUME NEW u, NEW at, NEW on, NEW v, NEW bt, NEW bn, NEW q, NEW t,
           v.queue[q] # << >> =>
              /\ u.queue[q] # << >> /\ t \notin Way(u, at, on, q)
              /\ Way(u, at, on, q) \cup {t} \subseteq Way(v, bt, bn, q)
    PROVE  Gains(u, at, on, v, bt, bn, q, 1)
  <1> SUFFICES ASSUME NEW n \in Int, Served(u, at, on, q, n), v.queue[q] # << >>
               PROVE  n + 1 <= Cardinality(Way(v, bt, bn, q))
    BY DEF Gains, Served
  <1> DEFINE A == Way(u, at, on, q)
             B == Way(v, bt, bn, q)
  <1>1. n <= Cardinality(A) /\ t \notin A /\ A \cup {t} \subseteq B
    BY DEF Served
  <1>2. IsFiniteSet(A) /\ Cardinality(A) \in Nat /\ IsFiniteSet(B) /\ Cardinality(B) \in Nat
    BY WayFinite
  <1> HIDE DEF A, B
  <1>3. IsFiniteSet(A \cup {t}) /\ Cardinality(A \cup {t}) = Cardinality(A) + 1
    BY <1>1, <1>2, FS_AddElement
  <1>4. Cardinality(A \cup {t}) <= Cardinality(B)
    BY <1>1, <1>2, <1>3, FS_Subset
  <1>5. n + 1 <= Cardinality(B)
    BY <1>1, <1>2, <1>3, <1>4
  <1> QED BY <1>5 DEF B

\* What happens one after the other.
LEMMA GainsThen ==
    ASSUME NEW u, NEW at, NEW on, NEW v, NEW bt, NEW bn, NEW w, NEW ct, NEW cn, NEW q,
           NEW d \in Int, NEW e \in Int,
           Gains(u, at, on, v, bt, bn, q, d), Gains(v, bt, bn, w, ct, cn, q, e)
    PROVE  Gains(u, at, on, w, ct, cn, q, d + e)
  <1> SUFFICES ASSUME NEW n \in Int, Served(u, at, on, q, n)
               PROVE  Served(w, ct, cn, q, n + (d + e))
    BY DEF Gains
  <1>1. Served(v, bt, bn, q, n + d)
    BY DEF Gains
  <1>2. Served(w, ct, cn, q, (n + d) + e) /\ (n + d) + e = n + (d + e)
    <2>1. n + d \in Int
      OBVIOUS
    <2>2. Served(w, ct, cn, q, (n + d) + e)
      BY <1>1, <2>1 DEF Gains
    <2> QED BY <2>2
  <1> QED BY <1>2

-----------------------------------------------------------------------------
(* Calm threads                                                            *)

\* From table u to v the first thread of list q was woken.
HasWoken(u, v, at, on, gone, q, o) ==
    /\ Calm(v, at, on, gone, o) /\ v.current = u.current /\ v.error = u.error
    /\ \A x \in Threads : u.stat[x] = "ready" => v.stat[x] = "ready"
    /\ Gains(u, at, on, v, at, on, q, 1)
    /\ \A r \in Queues : r # q => /\ Gains(u, at, on, v, at, on, r, 0)
                                  /\ v.queue[r] = u.queue[r] /\ Way(v, at, on, r) = Way(u, at, on, r)

\* rt_ipc_list_resume: one thread more is on its way.
LEMMA CalmWake ==
    ASSUME NEW u, NEW at, NEW on, NEW gone, NEW o, Calm(u, at, on, gone, o), o \notin gone,
           NEW q \in Queues, u.queue[q] # << >>
    PROVE  HasWoken(u, rt_ipc_list_resume(u, q), at, on, gone, q, o)
  <1> DEFINE t == Head(u.queue[q])
             v == rt_ipc_list_resume(u, q)
  <1>1. Waits(u, at, on, o) /\ Runs(u, at) /\ Detaching(u, at, on, gone, o)
    BY DEF Calm
  <1>2. t \in Threads /\ u.stat[t] = "suspend" /\ on[t] = q /\ at[t] \in WaitPoints /\ Queued(u, q, t)
    BY <1>1, FirstWaiter
  <1>3. Settled(u) /\ MadeReady(u, v, t, u.error[t])
    BY <1>1, <1>2, ResumeSettled DEF rt_ipc_list_resume, Waits
  <1> HIDE DEF t, v
  <1>4. u.error[t] = "RT_EOK" /\ t # Idle
    BY <1>1, <1>2 DEF Waits
  <1>5. WokenUp(u, v, at, on, t, u.error[t], o)
    BY <1>1, <1>2, <1>3, <1>4, WakeWaits
  <1>6. /\ Waits(v, at, on, o) /\ Runs(v, at) /\ v.current = u.current
        /\ \A r \in Queues : r # q => v.queue[r] = u.queue[r]
        /\ \A x \in Threads : v.stat[x] = IF x = t THEN "ready" ELSE u.stat[x]
        /\ \A x \in Threads : v.error[x] = u.error[x]
    BY <1>1, <1>2, <1>5 DEF WokenUp
  <1>7. v.error = u.error
    <2>1. u.error \in [Threads -> Errors] /\ v.error \in [Threads -> Errors]
      BY <1>1, <1>6, SettledType DEF Waits
    <2> QED BY <1>6, <2>1
  <1>8. Calm(v, at, on, gone, o)
    <2>1. Detaching(v, at, on, gone, o)
      BY <1>1, NotDetached
    <2> QED BY <1>6, <2>1 DEF Calm
  <1>9. Gains(u, at, on, v, at, on, q, 1)
    <2>1. t \notin Way(u, at, on, q) /\ Way(u, at, on, q) \cup {t} \subseteq Way(v, at, on, q)
      BY <1>2, <1>4, <1>6, <1>7 DEF Way, Clients
    <2> QED BY <2>1, JoinsWay
  <1>10. ASSUME NEW r \in Queues, r # q
         PROVE  /\ Gains(u, at, on, v, at, on, r, 0) /\ v.queue[r] = u.queue[r]
                /\ Way(v, at, on, r) = Way(u, at, on, r)
    <2>1. Way(v, at, on, r) = Way(u, at, on, r) /\ v.queue[r] = u.queue[r]
      BY <1>2, <1>6, <1>7, <1>10 DEF Way, Clients
    <2> QED BY <2>1, KeepsWay
  <1>11. \A x \in Threads : u.stat[x] = "ready" => v.stat[x] = "ready"
    BY <1>6
  <1> QED BY <1>6, <1>7, <1>8, <1>9, <1>10, <1>11 DEF v, HasWoken

\* From table u to v rt_schedule ran; the calls went on to bt and bn.
HasSwitched(u, v, at, on, bt, bn, gone, o) ==
    /\ Calm(v, bt, bn, gone, o) /\ v.stat = u.stat /\ v.queue = u.queue /\ v.error = u.error
    /\ \A r \in Queues : /\ Gains(u, at, on, v, bt, bn, r, 0)
                         /\ Way(v, bt, bn, r) = Way(u, at, on, r)

\* rt_schedule in a calm table. The thread that called it may go on from the
\* point where it blocked.
LEMMA CalmSwitch ==
    ASSUME NEW u, NEW at, NEW on, NEW gone, NEW o,
           Waits(u, at, on, o), Detaching(u, at, on, gone, o), \A t \in Threads : at[t] # "dq_reset",
           NEW bt \in [Threads -> Points],
           \A x \in Threads : bt[x] = at[x] \/ (at[x] = "blocked" /\ bt[x] = "woken")
                                            \/ (at[x] = "schedule" /\ bt[x] = "user")
    PROVE  HasSwitched(u, rt_schedule(u), at, on, bt, on, gone, o)
  <1> DEFINE v == rt_schedule(u)
  <1>1. /\ Waits(v, at, on, o) /\ Runs(v, at) /\ v.stat[v.current] = "ready"
        /\ v.stat = u.stat /\ v.error = u.error /\ v.queue = u.queue
    BY ScheduleWaits
  <1> HIDE DEF v
  <1>2. \A x \in Threads : /\ bt[x] \in WaitPoints <=> at[x] \in WaitPoints
                           /\ bt[x] \in Outside <=> at[x] \in Outside
                           /\ bt[x] = "resuming" <=> at[x] = "resuming"
                           /\ bt[x] # "dq_reset"
    BY DEF WaitPoints, Outside
  <1>3. bt[Idle] = "user" /\ Idle \in Threads
    BY <1>1, IpcAssumption DEF Waits
  <1>4. Waits(v, bt, on, o)
    BY <1>1, <1>2, <1>3 DEF Waits, WaitersListed
  <1>5. Runs(v, bt)
    BY <1>1 DEF Runs
  <1>6. Detaching(v, bt, on, gone, o)
    BY <1>1, <1>2 DEF Detaching, OutOfIt
  <1>7. \A r \in Queues : /\ Gains(u, at, on, v, bt, on, r, 0)
                          /\ Way(v, bt, on, r) = Way(u, at, on, r)
    <2> TAKE r \in Queues
    <2>1. Way(v, bt, on, r) = Way(u, at, on, r) /\ v.queue[r] = u.queue[r]
      BY <1>1, <1>2 DEF Way, Clients
    <2> QED BY <2>1, KeepsWay
  <1> QED BY <1>1, <1>2, <1>4, <1>5, <1>6, <1>7 DEF Calm, v, HasSwitched

\* Thread s has gone on to another point of its calls, not to wait there.
HasGone(u, at, on, bt, bn, gone, s, o) ==
    /\ Calm(u, bt, bn, gone, o)
    /\ \A r \in Queues : /\ Gains(u, at, on, u, bt, bn, r, -1)
                         /\ s \notin Way(u, at, on, r) => Gains(u, at, on, u, bt, bn, r, 0)
                         /\ Way(u, bt, bn, r) = Way(u, at, on, r) \ {s}

\* A thread goes on. When the object is gone it can only leave.
LEMMA CalmGo ==
    ASSUME NEW u, NEW at, NEW on, NEW gone, NEW o, Calm(u, at, on, gone, o),
           NEW s \in Threads, u.stat[s] = "ready", s # Idle, at[s] # "resuming",
           NEW bt \in [Threads -> Points], NEW bn \in [Threads -> Queues],
           \A x \in Threads : x # s => bt[x] = at[x] /\ bn[x] = on[x],
           bt[s] \notin WaitPoints \cup {"resuming", "dq_reset"},
           bt[s] \notin Outside => bn[s] \in Scope(o) /\ o \notin gone
    PROVE  HasGone(u, at, on, bt, bn, gone, s, o)
  <1>1. Waits(u, at, on, o) /\ Runs(u, at) /\ Detaching(u, at, on, gone, o)
    BY DEF Calm
  <1>2. Waits(u, bt, bn, o)
    BY <1>1, GoWaits
  <1>3. Runs(u, bt)
    BY <1>1 DEF Runs
  <1>4. Detaching(u, bt, bn, gone, o)
    <2>1. CASE o \in gone
      <3>1. OnlyLeaves(at, on, bt, bn, s)
        BY <2>1 DEF OnlyLeaves
      <3> QED BY <1>1, <3>1, StillDetaching
    <2>2. CASE o \notin gone
      <3>1. \A x \in Threads : bt[x] = "resuming" => at[x] = "resuming"
        OBVIOUS
      <3> QED BY <1>1, <2>2, <3>1, NotDetached
    <2> QED BY <2>1, <2>2
  <1>5. \A t \in Threads : bt[t] # "dq_reset"
    BY DEF Calm
  <1>6. ASSUME NEW r \in Queues
        PROVE  /\ Gains(u, at, on, u, bt, bn, r, -1)
               /\ s \notin Way(u, at, on, r) => Gains(u, at, on, u, bt, bn, r, 0)
               /\ Way(u, bt, bn, r) = Way(u, at, on, r) \ {s}
    <2>1. Way(u, bt, bn, r) = Way(u, at, on, r) \ {s}
      BY DEF Way, Clients
    <2>2. Gains(u, at, on, u, bt, bn, r, -1)
      BY <2>1, LeavesWay
    <2>3. s \notin Way(u, at, on, r) => Gains(u, at, on, u, bt, bn, r, 0)
      BY <2>1, KeepsWay
    <2> QED BY <2>1, <2>2, <2>3
  <1> QED BY <1>2, <1>3, <1>4, <1>5, <1>6 DEF Calm, HasGone

\* Thread s has blocked on list q.
NowBlocked(u, at, on, v, bt, bn, gone, s, q, o) ==
    /\ Calm(v, bt, bn, gone, o)
    /\ \A r \in Queues : r # q /\ s \notin Way(u, at, on, r) => Gains(u, at, on, v, bt, bn, r, 0)
    /\ \A r \in Queues : r # q => v.queue[r] = u.queue[r]
    /\ \A r \in Queues : Way(v, bt, bn, r) = Way(u, at, on, r) \ {s}

\* A thread blocks. When the object is gone this happens in a pool only.
LEMMA CalmBlock ==
    ASSUME NEW u, NEW at, NEW on, NEW gone, NEW o, Calm(u, at, on, gone, o),
           NEW s \in Threads, at[s] # "resuming", NEW q \in Queues, o \in gone => o \in Pools,
           NEW v, NEW bt, NEW bn, HasBlocked(u, v, bt, bn, s, q, o),
           \A x \in Threads : x # s => bt[x] = at[x] /\ bn[x] = on[x],
           bt[s] = "blocked", bn[s] = q
    PROVE  NowBlocked(u, at, on, v, bt, bn, gone, s, q, o)
  <1>1. Waits(u, at, on, o) /\ Runs(u, at) /\ Detaching(u, at, on, gone, o)
    BY DEF Calm
  <1>2. /\ Waits(v, bt, bn, o) /\ Runs(v, bt)
        /\ \A r \in Queues : r # q => v.queue[r] = u.queue[r]
        /\ \A x \in Threads : v.stat[x] = IF x = s THEN "suspend" ELSE u.stat[x]
        /\ \A x \in Threads : x # s => v.error[x] = u.error[x]
    BY DEF HasBlocked
  <1>3. v.queue[q] # << >>
    <2>1. Contains(v.queue[q], s)
      BY <1>2 DEF Waits, WaitersListed, Queued, WaitPoints
    <2> QED BY <1>2, <2>1, FirstWaiter
  <1>4. \A x \in Threads : bt[x] = "resuming" => x # s /\ at[x] = "resuming" /\ bn[x] = on[x]
    OBVIOUS
  <1>5. Detaching(v, bt, bn, gone, o)
    <2>1. \A x \in Threads : bt[x] = "resuming" => o \in gone /\ v.queue[bn[x]] # << >>
      <3> TAKE x \in Threads
      <3> HAVE bt[x] = "resuming"
      <3>1. o \in gone /\ u.queue[on[x]] # << >> /\ bn[x] = on[x]
        BY <1>1, <1>4 DEF Detaching
      <3>2. on[x] \in Queues
        BY <1>1 DEF Waits
      <3> QED BY <1>2, <1>3, <3>1, <3>2
    <2>2. \A x, r \in Threads : bt[x] = "resuming" /\ bt[r] = "resuming" => x = r
      BY <1>1, <1>4 DEF Detaching
    <2> QED BY <1>1, <2>1, <2>2 DEF Detaching
  <1>6. \A r \in Queues : Way(v, bt, bn, r) = Way(u, at, on, r) \ {s}
    BY <1>2 DEF Way, Clients
  <1>7. ASSUME NEW r \in Queues, r # q, s \notin Way(u, at, on, r)
        PROVE  Gains(u, at, on, v, bt, bn, r, 0)
    <2>1. Way(v, bt, bn, r) = Way(u, at, on, r) /\ v.queue[r] = u.queue[r]
      BY <1>2, <1>6, <1>7
    <2> QED BY <2>1, KeepsWay
  <1>8. \A t \in Threads : bt[t] # "dq_reset"
    BY DEF Calm
  <1> QED BY <1>2, <1>5, <1>6, <1>7, <1>8 DEF Calm, NowBlocked

-----------------------------------------------------------------------------
(* Sections that all kinds of objects have                                 *)

Now == Calm(k, pc, object, dying, subject)
Change(q, d) == Gains(k, pc, object, k', pc', object', q, d)
IsOnWay(s, q) == s \in Way(k, pc, object, q)

\* The thread that executes a section is ready, unless it has just blocked.
LEMMA RunningReady ==
    ASSUME Now, NEW s \in Threads, NEW point, Running(s, point)
    PROVE  /\ k.current = s /\ s # Idle /\ pc[s] = point
           /\ point # "blocked" => k.stat[s] = "ready"
           /\ pc \in [Threads -> Points] /\ object \in [Threads -> Queues]
           /\ Waits(k, pc, object, subject) /\ Runs(k, pc)
           /\ Detaching(k, pc, object, dying, subject)
  BY DEF Now, Calm, Runs, Running, Waits

\* A thread that goes on inside its call finds the object still there, unless
\* the object is a pool or the call fails.
LEMMA StillThere ==
    ASSUME Now, NEW s \in Threads, NEW point, Running(s, point), subject \notin Pools,
           point \notin Outside \cup {"resuming", "blocked"},
           point = "woken" => k.error[s] = "RT_EOK"
    PROVE  subject \notin dying
  <1>1. /\ k.stat[s] = "ready" /\ pc[s] = point
        /\ Detaching(k, pc, object, dying, subject)
    BY RunningReady
  <1>2. subject \in dying => OutOfIt(k, pc, s)
    BY <1>1 DEF Detaching
  <1>3. ~OutOfIt(k, pc, s)
    BY <1>1 DEF OutOfIt, WaitPoints
  <1> QED BY <1>2, <1>3

\* What a call is on.
LEMMA InScope ==
    ASSUME Now, NEW s \in Threads, pc[s] \notin Outside
    PROVE  object[s] \in Scope(subject) /\ object[s] \in Queues
  BY DEF Now, Calm, Waits

\* A thread that is not in the loop of a call on q is not on its way to q.
LEMMA NotOnWay ==
    ASSUME NEW s, NEW q, pc[s] \notin WaitPoints \/ object[s] # q \/ k.error[s] # "RT_EOK"
    PROVE  ~IsOnWay(s, q)
  BY DEF IsOnWay, Way

\* Thread s has left its call, and nobody was woken.
Gone(s) ==
    /\ Now'
    /\ \A r \in Queues : Change(r, -1) /\ (~IsOnWay(s, r) => Change(r, 0))

\* A section after which the call goes on elsewhere.
LEMMA GoStep ==
    ASSUME Now, NEW s \in Threads, k.stat[s] = "ready", s # Idle, pc[s] # "resuming",
           NEW point \in Points \ (WaitPoints \cup {"resuming", "dq_reset"}),
           Goto(s, point), NEW q \in Queues,
           object' \in {object, [object EXCEPT ![s] = q]},
           point \notin Outside => object'[s] \in Scope(subject) /\ subject \notin dying,
           UNCHANGED <<k, dying, subject>>
    PROVE  Gone(s)
  <1>1. /\ pc \in [Threads -> Points] /\ object \in [Threads -> Queues]
        /\ Calm(k, pc, object, dying, subject)
    BY DEF Now, Calm, Waits
  <1>2. /\ pc' \in [Threads -> Points] /\ object' \in [Threads -> Queues] /\ pc'[s] = point
        /\ \A x \in Threads : x # s => pc'[x] = pc[x] /\ object'[x] = object[x]
    BY <1>1 DEF Goto
  <1>3. HasGone(k, pc, object, pc', object', dying, s, subject)
    <2>1. /\ pc'[s] \notin WaitPoints \cup {"resuming", "dq_reset"}
          /\ pc'[s] \notin Outside => object'[s] \in Scope(subject) /\ subject \notin dying
      BY <1>2
    <2>2. k.stat[s] = "ready" /\ s # Idle /\ pc[s] # "resuming" /\ s \in Threads
      OBVIOUS
    <2> QED BY ONLY <1>1, <1>2, <2>1, <2>2, CalmGo
  <1>4. k' = k /\ dying' = dying /\ subject' = subject
    OBVIOUS
  <1> QED BY ONLY <1>3, <1>4 DEF HasGone, Gone, Now, Change, IsOnWay

\* A call ends.
LEMMA LeaveStep ==
    ASSUME Now, NEW s \in Threads, k.stat[s] = "ready", s # Idle, pc[s] # "resuming",
           NEW point \in Outside, LeaveTo(s, point), UNCHANGED <<k, dying, subject>>
    PROVE  Gone(s)
  <1>1. AnyQueue \in Queues
    BY ObjectsAssumption DEF AnyQueue
  <1>2. /\ point \in Points \ (WaitPoints \cup {"resuming", "dq_reset"})
        /\ ~(point \notin Outside)
    BY DEF Outside, Points, WaitPoints
  <1>3. Goto(s, point) /\ object' \in {object, [object EXCEPT ![s] = AnyQueue]}
    BY DEF LeaveTo
  <1> QED BY ONLY Now, s \in Threads, k.stat[s] = "ready", s # Idle, pc[s] # "resuming",
             UNCHANGED <<k, dying, subject>>, <1>1, <1>2, <1>3, GoStep

\* A thread has given to list q: the first waiter was woken.
Gave(s, q) ==
    /\ Now'
    /\ ~IsOnWay(s, q) => Change(q, 1)
    /\ \A r \in Queues : r # q => Change(r, -1) /\ (~IsOnWay(s, r) => Change(r, 0))

\* A thread wakes the first waiter of list q and goes on to its rt_schedule.
LEMMA WakeStep ==
    ASSUME Now, NEW s \in Threads, k.stat[s] = "ready", s # Idle, pc[s] # "resuming",
           subject \notin dying, NEW q \in Queues, k.queue[q] # << >>,
           k' = rt_ipc_list_resume(k, q), Goto(s, "schedule"), NEW a \in Queues,
           object' \in {object, [object EXCEPT ![s] = a]}, UNCHANGED <<dying, subject>>
    PROVE  Gave(s, q)
  <1>1. HasWoken(k, k', pc, object, dying, q, subject)
    BY CalmWake DEF Now
  <1>2. /\ Calm(k', pc, object, dying, subject) /\ k'.stat[s] = "ready"
        /\ Gains(k, pc, object, k', pc, object, q, 1)
        /\ \A r \in Queues : r # q => /\ Gains(k, pc, object, k', pc, object, r, 0)
                                      /\ Way(k', pc, object, r) = Way(k, pc, object, r)
    BY <1>1 DEF HasWoken
  <1>3. pc \in [Threads -> Points] /\ object \in [Threads -> Queues]
    BY DEF Now, Calm, Waits
  <1>4. /\ pc' \in [Threads -> Points] /\ object' \in [Threads -> Queues] /\ pc'[s] = "schedule"
        /\ \A x \in Threads : x # s => pc'[x] = pc[x] /\ object'[x] = object[x]
    BY <1>3 DEF Goto, Points
  <1>5. pc'[s] \notin WaitPoints \cup {"resuming", "dq_reset"} /\ ~(pc'[s] \notin Outside)
    BY <1>4 DEF WaitPoints, Outside
  <1>6. HasGone(k', pc, object, pc', object', dying, s, subject)
    BY ONLY <1>2, <1>4, <1>5, s \in Threads, s # Idle, pc[s] # "resuming", CalmGo
  <1>7. /\ Calm(k', pc', object', dying, subject)
        /\ \A r \in Queues : /\ Gains(k', pc, object, k', pc', object', r, -1)
                             /\ s \notin Way(k', pc, object, r) =>
                                   Gains(k', pc, object, k', pc', object', r, 0)
    BY <1>6 DEF HasGone
  <1>8. ~IsOnWay(s, q) => Change(q, 1)
    <2> HAVE ~IsOnWay(s, q)
    <2>1. s \notin Way(k', pc, object, q)
      <3>1. k'.error = k.error
        BY <1>1 DEF HasWoken
      <3>2. k.stat[s] # "suspend"
        OBVIOUS
      <3> QED BY <3>1, <3>2 DEF Way, IsOnWay
    <2>2. Gains(k', pc, object, k', pc', object', q, 0)
      BY <1>7, <2>1
    <2>3. Gains(k, pc, object, k', pc', object', q, 1 + 0)
      BY <1>2, <2>2, GainsThen
    <2> QED BY <2>3 DEF Change
  <1>9. ASSUME NEW r \in Queues, r # q
         PROVE  Change(r, -1) /\ (~IsOnWay(s, r) => Change(r, 0))
    <2>1. Gains(k, pc, object, k', pc, object, r, 0) /\ Way(k', pc, object, r) = Way(k, pc, object, r)
      BY <1>2, <1>9
    <2>2. Gains(k, pc, object, k', pc', object', r, 0 + (-1))
      BY <1>7, <2>1, GainsThen
    <2>3. ~IsOnWay(s, r) => Gains(k, pc, object, k', pc', object', r, 0 + 0)
      BY <1>7, <2>1, GainsThen DEF IsOnWay
    <2> QED BY <2>2, <2>3 DEF Change
  <1>10. Now'
    BY <1>7 DEF Now
  <1> QED BY <1>8, <1>9, <1>10 DEF Gave

\* A call ends, and the first waiter of list q is woken.
LEMMA LeaveWakingStep ==
    ASSUME Now, NEW s \in Threads, k.stat[s] = "ready", s # Idle, pc[s] # "resuming",
           subject \notin dying, NEW q \in Queues, LeaveWaking(s, q), UNCHANGED <<dying, subject>>
    PROVE  Gave(s, q)
  <1>1. CASE NoWaiter(q)
    <2>1. LeaveTo(s, "user") /\ "user" \in Outside /\ k' = k
      BY <1>1 DEF LeaveWaking, LeaveCall, Outside
    <2>2. Gone(s)
      BY <2>1, LeaveStep
    <2>3. Change(q, 1)
      BY <1>1, <2>1 DEF Change, Gains, Served, NoWaiter
    <2> QED BY <2>2, <2>3 DEF Gone, Gave
  <1>2. CASE ~NoWaiter(q)
    <2>1. k' = rt_ipc_list_resume(k, q) /\ Goto(s, "schedule") /\ k.queue[q] # << >>
          /\ object' = [object EXCEPT ![s] = AnyQueue]
      BY <1>2 DEF LeaveWaking, NoWaiter, LeaveTo
    <2>2. AnyQueue \in Queues
      BY ObjectsAssumption DEF AnyQueue
    <2> QED BY <2>1, <2>2, WakeStep
  <1> QED BY <1>1, <1>2

\* A handler has given to list q, and rescheduled; v is the table then.
HandlerGave(v, q) ==
    /\ Calm(v, pc, object, dying, subject)
    /\ \A x \in Threads : k.stat[x] = "ready" => v.stat[x] = "ready"
    /\ v.error = k.error
    /\ Gains(k, pc, object, v, pc, object, q, 1)
    /\ \A r \in Queues : r # q => /\ Gains(k, pc, object, v, pc, object, r, 0)
                                  /\ v.queue[r] = k.queue[r]
                                  /\ Way(v, pc, object, r) = Way(k, pc, object, r)

\* The first waiter of list q is woken, and rt_schedule follows.
LEMMA WakeAndSwitch ==
    ASSUME Now, subject \notin dying, NEW q \in Queues, k.queue[q] # << >>
    PROVE  HandlerGave(rt_schedule(rt_ipc_list_resume(k, q)), q)
  <1> DEFINE u == rt_ipc_list_resume(k, q)
             v == rt_schedule(u)
  <1>1. HasWoken(k, u, pc, object, dying, q, subject)
    BY CalmWake DEF Now
  <1> HIDE DEF u
  <1>2. /\ Calm(u, pc, object, dying, subject) /\ u.error = k.error
        /\ \A x \in Threads : k.stat[x] = "ready" => u.stat[x] = "ready"
        /\ Gains(k, pc, object, u, pc, object, q, 1)
        /\ \A r \in Queues : r # q => /\ Gains(k, pc, object, u, pc, object, r, 0)
                                      /\ u.queue[r] = k.queue[r]
                                      /\ Way(u, pc, object, r) = Way(k, pc, object, r)
    BY <1>1 DEF HasWoken
  <1>3. HasSwitched(u, v, pc, object, pc, object, dying, subject)
    <2>1. /\ Waits(u, pc, object, subject) /\ Detaching(u, pc, object, dying, subject)
          /\ \A t \in Threads : pc[t] # "dq_reset"
          /\ pc \in [Threads -> Points]
      BY <1>2 DEF Calm, Waits
    <2>2. \A x \in Threads : pc[x] = pc[x] \/ (pc[x] = "blocked" /\ pc[x] = "woken")
                                           \/ (pc[x] = "schedule" /\ pc[x] = "user")
      OBVIOUS
    <2> QED BY ONLY <2>1, <2>2, CalmSwitch
  <1> HIDE DEF v
  <1>4. /\ Calm(v, pc, object, dying, subject) /\ v.stat = u.stat /\ v.queue = u.queue /\ v.error = u.error
        /\ \A r \in Queues : /\ Gains(u, pc, object, v, pc, object, r, 0)
                             /\ Way(v, pc, object, r) = Way(u, pc, object, r)
    BY <1>3 DEF HasSwitched
  <1>5. Gains(k, pc, object, v, pc, object, q, 1 + 0)
    BY <1>2, <1>4, GainsThen
  <1>6. ASSUME NEW r \in Queues, r # q
        PROVE  Gains(k, pc, object, v, pc, object, r, 0 + 0)
    BY <1>2, <1>4, <1>6, GainsThen
  <1> QED BY <1>2, <1>4, <1>5, <1>6 DEF HandlerGave, u, v

\* IsrWaking, where more may follow in the section.
LEMMA IsrWakingEffect ==
    ASSUME Now, subject \notin dying, NEW q \in Queues, IsrWaking(q)
    PROVE  HandlerGave(k', q)
  <1>1. CASE NoWaiter(q)
    <2>1. k' = k /\ k.queue[q] = << >>
      BY <1>1 DEF IsrWaking, NoWaiter
    <2>2. Gains(k, pc, object, k', pc, object, q, 1)
      BY <2>1 DEF Gains, Served
    <2>3. \A r \in Queues : Gains(k, pc, object, k', pc, object, r, 0)
      BY <2>1, KeepsWay
    <2> QED BY <2>1, <2>2, <2>3 DEF HandlerGave, Now
  <1>2. CASE ~NoWaiter(q)
    <2>1. k' = rt_schedule(rt_ipc_list_resume(k, q)) /\ k.queue[q] # << >>
      BY <1>2 DEF IsrWaking, NoWaiter
    <2> QED BY <2>1, WakeAndSwitch
  <1> QED BY <1>1, <1>2

\* Something was given to list q, and no call has gone on.
Given(q) == Now' /\ Change(q, 1) /\ \A r \in Queues : r # q => Change(r, 0)

\* A handler gives.
LEMMA HandlerStep ==
    ASSUME Now, subject \notin dying, NEW q \in Queues, HandlerGave(k', q),
           UNCHANGED <<pc, object, dying, subject>>
    PROVE  Given(q)
  BY DEF HandlerGave, Given, Now, Change

\* A thread gives as a handler does and leaves its call.
LEMMA GiveAndLeaveStep ==
    ASSUME Now, NEW s \in Threads, k.stat[s] = "ready", s # Idle, pc[s] # "resuming",
           subject \notin dying, NEW q \in Queues, HandlerGave(k', q),
           LeaveCall(s), UNCHANGED <<dying, subject>>
    PROVE  Gave(s, q)
  <1>1. /\ Calm(k', pc, object, dying, subject) /\ k'.stat[s] = "ready" /\ k'.error = k.error
        /\ Gains(k, pc, object, k', pc, object, q, 1)
        /\ \A r \in Queues : r # q => /\ Gains(k, pc, object, k', pc, object, r, 0)
                                      /\ Way(k', pc, object, r) = Way(k, pc, object, r)
    BY DEF HandlerGave
  <1>2. AnyQueue \in Queues /\ pc \in [Threads -> Points] /\ object \in [Threads -> Queues]
    BY ObjectsAssumption DEF AnyQueue, Now, Calm, Waits
  <1>3. /\ pc' \in [Threads -> Points] /\ object' \in [Threads -> Queues] /\ pc'[s] = "user"
        /\ \A x \in Threads : x # s => pc'[x] = pc[x] /\ object'[x] = object[x]
    BY <1>2 DEF LeaveCall, LeaveTo, Goto, Points
  <1>4. pc'[s] \notin WaitPoints \cup {"resuming", "dq_reset"} /\ ~(pc'[s] \notin Outside)
    BY <1>3 DEF WaitPoints, Outside
  <1>5. HasGone(k', pc, object, pc', object', dying, s, subject)
    BY ONLY <1>1, <1>3, <1>4, s \in Threads, s # Idle, pc[s] # "resuming", CalmGo
  <1>6. /\ Calm(k', pc', object', dying, subject)
        /\ \A r \in Queues : /\ Gains(k', pc, object, k', pc', object', r, -1)
                             /\ s \notin Way(k', pc, object, r) =>
                                   Gains(k', pc, object, k', pc', object', r, 0)
    BY <1>5 DEF HasGone
  <1>7. ~IsOnWay(s, q) => Change(q, 1)
    <2> HAVE ~IsOnWay(s, q)
    <2>1. s \notin Way(k', pc, object, q)
      <3>1. k.stat[s] # "suspend"
        OBVIOUS
      <3> QED BY <1>1, <3>1 DEF Way, IsOnWay
    <2>2. Gains(k, pc, object, k', pc', object', q, 1 + 0)
      BY <1>1, <1>6, <2>1, GainsThen
    <2> QED BY <2>2 DEF Change
  <1>8. ASSUME NEW r \in Queues, r # q
        PROVE  Change(r, -1) /\ (~IsOnWay(s, r) => Change(r, 0))
    <2>1. Gains(k, pc, object, k', pc, object, r, 0) /\ Way(k', pc, object, r) = Way(k, pc, object, r)
      BY <1>1, <1>8
    <2>2. Gains(k, pc, object, k', pc', object', r, 0 + (-1))
      BY <1>6, <2>1, GainsThen
    <2>3. ~IsOnWay(s, r) => Gains(k, pc, object, k', pc', object', r, 0 + 0)
      BY <1>6, <2>1, GainsThen DEF IsOnWay
    <2> QED BY <2>2, <2>3 DEF Change
  <1> QED BY <1>6, <1>7, <1>8 DEF Gave, Now

\* Thread s has blocked on list q.
Parked(s, q) ==
    /\ Now'
    /\ \A r \in Queues : r # q /\ ~IsOnWay(s, r) => Change(r, 0)
    /\ \A r \in Queues : Way(k', pc', object', r) = Way(k, pc, object, r) \ {s}
    /\ \A r \in Queues : r # q => k'.queue[r] = k.queue[r]
    /\ \A r \in Queues, x \in Threads :
          x # s => (Contains(k'.queue[r], x) <=> Contains(k.queue[r], x))

\* A call blocks: the thread has joined list q, at any place.
LEMMA ParkStep ==
    ASSUME Now, NEW s \in Threads, k.current = s, k.stat[s] = "ready", s # Idle, pc[s] # "resuming",
           NEW q \in Queues, q \in Scope(subject), subject \in dying => subject \in Pools,
           NEW w, Cleared(k, w, s), NEW x, NEW f, PutToWait(w, x, s, q, f),
           MayStart(x, k', s, subject),
           Goto(s, "blocked"), object' = [object EXCEPT ![s] = q], UNCHANGED <<dying, subject>>
    PROVE  Parked(s, q)
  <1>1. Waits(k, pc, object, subject) /\ pc \in [Threads -> Points] /\ object \in [Threads -> Queues]
    BY DEF Now, Calm, Waits
  <1>2. /\ pc' \in [Threads -> Points] /\ object' \in [Threads -> Queues]
        /\ pc'[s] = "blocked" /\ object'[s] = q
        /\ \A y \in Threads : y # s => pc'[y] = pc[y] /\ object'[y] = object[y]
    BY <1>1 DEF Goto, Points
  <1>3. PICK v : v = k'
    OBVIOUS
  <1>4. HasBlocked(k, v, pc', object', s, q, subject)
    <2>1. MovesTo(pc, object, pc', object', s, q)
      BY <1>2 DEF MovesTo
    <2>2. MayStart(x, v, s, subject)
      BY <1>3
    <2> QED BY ONLY s \in Threads, k.current = s, s # Idle, k.stat[s] = "ready",
               q \in Queues, q \in Scope(subject), Cleared(k, w, s),
               PutToWait(w, x, s, q, f), <1>1, <2>1, <2>2, BlockWaits
  <1>5. NowBlocked(k, pc, object, v, pc', object', dying, s, q, subject)
    BY <1>2, <1>4, CalmBlock DEF Now
  <1>6. v = k'
    BY <1>3
  <1>7. ASSUME NEW r \in Queues, NEW y \in Threads, y # s
        PROVE  Contains(v.queue[r], y) <=> Contains(k.queue[r], y)
    <2>1. WaitersListed(k, pc, object, WaitPoints) /\ WaitersListed(v, pc', object', WaitPoints)
      BY <1>1, <1>4 DEF Waits, HasBlocked
    <2>2. v.stat[y] = k.stat[y]
      BY <1>4, <1>7 DEF HasBlocked
    <2> QED BY <1>2, <1>7, <2>1, <2>2 DEF WaitersListed, Queued
  <1> QED BY <1>5, <1>6, <1>7 DEF NowBlocked, Parked, Now, Change, IsOnWay

\* WaitOn, for ever or with a timeout.
LEMMA WaitOnStep ==
    ASSUME Now, NEW s \in Threads, k.current = s, k.stat[s] = "ready", s # Idle, pc[s] # "resuming",
           NEW q \in Queues, q \in Scope(subject), subject \notin dying,
           NEW f, NEW timed \in BOOLEAN, timed => ~Untimed(subject),
           WaitOn(s, q, f, timed), UNCHANGED <<dying, subject>>
    PROVE  Parked(s, q)
  <1>1. PICK w : Cleared(k, w, s)
    BY DEF Cleared
  <1>2. PICK x : x = rt_ipc_list_suspend(w, q, s, f)
    OBVIOUS
  <1>3. MayStart(x, k', s, subject)
    BY <1>1, <1>2 DEF WaitOn, Block, Cleared, MayStart
  <1>4. Settled(k)
    BY DEF Now, Calm, Waits
  <1>5. Settled(w) /\ w.stat[s] = "ready"
    BY <1>1, <1>4, ErrorSettled DEF Errors, Cleared
  <1>6. PutToWait(w, x, s, q, f)
    BY <1>2, <1>5, IpcSuspendSettled
  <1>7. Goto(s, "blocked") /\ object' = [object EXCEPT ![s] = q]
    BY DEF WaitOn
  <1>8. subject \in dying => subject \in Pools
    OBVIOUS
  <1> QED BY <1>1, <1>3, <1>6, <1>7, <1>8, ParkStep

-----------------------------------------------------------------------------
(* What goes on in the background                                          *)

\* From table u to v thread t has left its list, with an error.
HasFailed(u, v, at, on, t) ==
    \A r \in Queues : /\ Gains(u, at, on, v, at, on, r, 0)
                      /\ Way(v, at, on, r) = Way(u, at, on, r)

\* A waiter that is turned away, or whose time is up, is not on the way.
LEMMA FailsOutsideWay ==
    ASSUME NEW u, NEW at, NEW on, NEW o, Waits(u, at, on, o), NEW t \in Threads,
           u.stat[t] = "suspend", NEW e, e # "RT_EOK", NEW v, WokenUp(u, v, at, on, t, e, o)
    PROVE  HasFailed(u, v, at, on, t)
  <1> SUFFICES ASSUME NEW r \in Queues
               PROVE  /\ Gains(u, at, on, v, at, on, r, 0)
                      /\ Way(v, at, on, r) = Way(u, at, on, r)
    BY DEF HasFailed
  <1>1. Way(v, at, on, r) = Way(u, at, on, r)
    BY DEF WokenUp, Way, Clients
  <1>2. v.queue[r] # << >> => u.queue[r] # << >>
    <2>1. Waits(v, at, on, o) /\ \A x : Contains(v.queue[r], x) => Contains(u.queue[r], x)
      BY DEF WokenUp
    <2>2. v.queue[r] = << >> <=> \A x : ~Contains(v.queue[r], x)
      BY <2>1, FirstWaiter
    <2>3. u.queue[r] = << >> <=> \A x : ~Contains(u.queue[r], x)
      BY FirstWaiter
    <2> QED BY <2>1, <2>2, <2>3
  <1>3. Gains(u, at, on, v, at, on, r, 0)
    BY <1>1, <1>2, KeepsWay
  <1> QED BY <1>1, <1>3

\* Where a thread goes on after a rt_schedule of its own
GoesOn(x) ==
    pc'[x] = pc[x] \/ (pc[x] = "blocked" /\ pc'[x] = "woken") \/ (pc[x] = "schedule" /\ pc'[x] = "user")

\* Nobody was woken but with an error, and no call went on but over its
\* rt_schedule.
Idled ==
    /\ Now' /\ object' = object /\ \A x \in Threads : GoesOn(x)
    /\ \A r \in Queues : Change(r, 0) /\ Way(k', pc', object', r) = Way(k, pc, object, r)
    /\ \A r \in Queues : k'.queue[r] = k.queue[r] \/ \E t \in Threads : k'.queue[r] = RemoveFirst(k.queue[r], t)
    /\ \A r \in Queues : \A x : Contains(k'.queue[r], x) => Contains(k.queue[r], x)
    /\ \A r \in Queues, x \in Threads :
          Contains(k.queue[r], x) /\ ~Contains(k'.queue[r], x) => k'.error[x] # "RT_EOK"
    /\ Untimed(subject) => k'.queue = k.queue

\* rt_schedule, from a table that has the lists and errors of the present one.
LEMMA SwitchIdles ==
    ASSUME Now, NEW u, Waits(u, pc, object, subject),
           u.stat = k.stat, u.queue = k.queue, u.error = k.error,
           k' = rt_schedule(u), pc' \in [Threads -> Points], \A x \in Threads : GoesOn(x),
           UNCHANGED <<object, dying, subject>>
    PROVE  Idled
  <1>1. Waits(k, pc, object, subject) /\ Detaching(k, pc, object, dying, subject)
        /\ \A t \in Threads : pc[t] # "dq_reset"
    BY DEF Now, Calm
  <1>2. Detaching(u, pc, object, dying, subject)
    BY <1>1 DEF Detaching, OutOfIt
  <1>3. PICK v : v = k'
    OBVIOUS
  <1>4. HasSwitched(u, v, pc, object, pc', object, dying, subject)
    <2>1. \A x \in Threads : pc'[x] = pc[x] \/ (pc[x] = "blocked" /\ pc'[x] = "woken")
                                            \/ (pc[x] = "schedule" /\ pc'[x] = "user")
      BY DEF GoesOn
    <2>2. v = rt_schedule(u) /\ pc' \in [Threads -> Points]
      BY <1>3
    <2>3. Waits(u, pc, object, subject)
      OBVIOUS
    <2>4. HasSwitched(u, rt_schedule(u), pc, object, pc', object, dying, subject)
      BY ONLY <1>1, <1>2, <2>1, <2>2, <2>3, CalmSwitch
    <2> QED BY <2>2, <2>4
  <1>5. /\ Calm(k', pc', object', dying', subject') /\ k'.queue = k.queue
        /\ \A r \in Queues : /\ Gains(u, pc, object, k', pc', object', r, 0)
                             /\ Way(k', pc', object', r) = Way(u, pc, object, r)
    BY <1>3, <1>4 DEF HasSwitched
  <1>6. \A r \in Queues : Way(u, pc, object, r) = Way(k, pc, object, r)
    BY DEF Way
  <1>7. \A r \in Queues : Change(r, 0)
    BY <1>5, <1>6 DEF Change, Gains, Served
  <1> QED BY <1>5, <1>6, <1>7 DEF Idled, Now

\* SysTick and the rt_schedule that end sections.
LEMMA BackgroundStep ==
    ASSUME Now, Background, UNCHANGED subject
    PROVE  Idled
  <1>1. /\ Waits(k, pc, object, subject) /\ Runs(k, pc) /\ Detaching(k, pc, object, dying, subject)
        /\ \A t \in Threads : pc[t] # "dq_reset"
        /\ pc \in [Threads -> Points]
    BY DEF Now, Calm, Waits
  <1>2. ASSUME NEW s \in Threads,
               ScheduleStep(s, "blocked", "woken") \/ ScheduleStep(s, "schedule", "user")
        PROVE  Idled
    <2>1. k' = rt_schedule(k) /\ UNCHANGED <<object, dying, subject>>
      BY <1>2 DEF ScheduleStep
    <2>2. pc' \in [Threads -> Points] /\ \A x \in Threads : GoesOn(x)
      BY <1>1, <1>2 DEF ScheduleStep, Running, Goto, Points, GoesOn
    <2> QED BY <1>1, <2>1, <2>2, SwitchIdles
  <1>3. CASE tick_yield
    <2>1. PICK u : u = move_to_tail(k)
      OBVIOUS
    <2>2. k' = rt_schedule(u) /\ UNCHANGED <<pc, object, dying, subject>>
      BY <1>3, <2>1 DEF tick_yield
    <2>3. Settled(k) /\ k.current \in Threads /\ k.stat[k.current] = "ready"
      BY <1>1, <1>3 DEF tick_yield, MovesToTail, Waits, Runs
    <2>4. Settled(u) /\ u.stat = k.stat /\ u.error = k.error /\ u.timer = k.timer /\ u.queue = k.queue
      BY <2>1, <2>3, MoveSettled
    <2>5. Waits(u, pc, object, subject)
      BY <1>1, <2>4 DEF Waits, WaitersListed, Queued
    <2>6. pc' \in [Threads -> Points] /\ \A x \in Threads : GoesOn(x)
      BY <1>1, <2>2 DEF GoesOn
    <2> QED BY <2>2, <2>4, <2>5, <2>6, SwitchIdles
  <1>4. ASSUME NEW t \in Threads, timeout(t)
        PROVE  Idled
    <2>1. PICK u : u = rt_thread_timeout(k, t)
      OBVIOUS
    <2>2. k' = rt_schedule(u) /\ UNCHANGED <<pc, object, dying, subject>> /\ t \in k.timer
      BY <1>4, <2>1 DEF timeout
    <2>3. ~Untimed(subject) /\ subject \notin dying /\ subject \notin Pipes
      BY <1>1, <2>2 DEF Waits, Detaching, Untimed
    <2>4. Settled(k) /\ k.stat[t] = "suspend"
      BY <1>1, <2>2 DEF Waits, Settled
    <2>5. MadeReady(k, u, t, "RT_ETIMEOUT")
      BY <2>1, <2>4, TimeoutSettled
    <2>6. PICK e : e = "RT_ETIMEOUT"
      OBVIOUS
    <2>7. WokenUp(k, u, pc, object, t, e, subject)
      <3>1. subject \in Pipes => e = "RT_EOK"
        BY <2>3
      <3>2. MadeReady(k, u, t, e)
        BY <2>5, <2>6
      <3> QED BY <1>1, <2>4, <3>1, <3>2, WakeWaits
    <2>8. HasFailed(k, u, pc, object, t)
      <3>1. e # "RT_EOK"
        BY <2>6
      <3> QED BY <1>1, <2>4, <2>7, <3>1, FailsOutsideWay
    <2>9. Waits(u, pc, object, subject)
      BY <2>7 DEF WokenUp
    <2>10. Detaching(u, pc, object, dying, subject)
      <3>1. \A x \in Threads : pc[x] = "resuming" => pc[x] = "resuming"
        OBVIOUS
      <3> QED BY <1>1, <2>3, <3>1, NotDetached
    <2>11. PICK v : v = k'
      OBVIOUS
    <2>12. HasSwitched(u, v, pc, object, pc, object, dying, subject)
      <3>1. \A x \in Threads : pc[x] = pc[x] \/ (pc[x] = "blocked" /\ pc[x] = "woken")
                                             \/ (pc[x] = "schedule" /\ pc[x] = "user")
        OBVIOUS
      <3>2. HasSwitched(u, rt_schedule(u), pc, object, pc, object, dying, subject)
        BY ONLY <1>1, <2>9, <2>10, <3>1, CalmSwitch
      <3> QED BY <2>2, <2>11, <3>2
    <2>13. /\ Now' /\ k'.queue = u.queue /\ k'.error = u.error
           /\ \A r \in Queues : /\ Gains(u, pc, object, k', pc', object', r, 0)
                                /\ Way(k', pc', object', r) = Way(u, pc, object, r)
      BY <2>2, <2>11, <2>12 DEF HasSwitched, Now
    <2>14. ASSUME NEW r \in Queues
           PROVE  Change(r, 0) /\ Way(k', pc', object', r) = Way(k, pc, object, r)
      <3>1. Gains(k, pc, object, u, pc, object, r, 0) /\ Way(u, pc, object, r) = Way(k, pc, object, r)
        BY <2>8 DEF HasFailed
      <3>2. Gains(k, pc, object, k', pc', object', r, 0 + 0)
        BY <2>13, <3>1, GainsThen
      <3> QED BY <2>13, <3>1, <3>2 DEF Change
    <2>15. ASSUME NEW r \in Queues
           PROVE  /\ k'.queue[r] = RemoveFirst(k.queue[r], t)
                  /\ \A x : Contains(k'.queue[r], x) <=> Contains(k.queue[r], x) /\ x # t
      BY <2>5, <2>7, <2>13 DEF MadeReady, WokenUp
    <2>16. k'.error[t] # "RT_EOK"
      BY <2>6, <2>7, <2>13 DEF WokenUp
    <2>17. object' = object /\ \A x \in Threads : GoesOn(x)
      BY <2>2 DEF GoesOn
    <2>18. \A r \in Queues, x \in Threads :
              Contains(k.queue[r], x) /\ ~Contains(k'.queue[r], x) => k'.error[x] # "RT_EOK"
      BY <2>15, <2>16
    <2> QED BY <2>3, <2>13, <2>14, <2>15, <2>17, <2>18 DEF Idled
  <1> QED BY <1>2, <1>3, <1>4 DEF Background

-----------------------------------------------------------------------------
(* Reset and detach                                                        *)

\* A handler or a thread at the start of a call has changed the table to v.
LEMMA AfterReset ==
    ASSUME Now, NEW s \in Threads, Running(s, "user"), subject \notin dying,
           NEW v, Waits(v, pc, object, subject), Runs(v, pc), v.stat[s] = "ready",
           k' = v, Goto(s, "schedule"), UNCHANGED <<object, dying, subject>>
    PROVE  Now'
  <1>1. /\ s # Idle /\ pc[s] = "user" /\ pc \in [Threads -> Points] /\ object \in [Threads -> Queues]
        /\ Detaching(k, pc, object, dying, subject)
    BY RunningReady
  <1>2. Calm(v, pc, object, dying, subject)
    <2>1. \A x \in Threads : pc[x] = "resuming" => pc[x] = "resuming"
      OBVIOUS
    <2>2. Detaching(v, pc, object, dying, subject)
      BY <1>1, <2>1, NotDetached
    <2> QED BY <2>2 DEF Calm, Now
  <1>3. /\ pc' \in [Threads -> Points] /\ object' \in [Threads -> Queues] /\ pc[s] # "resuming"
        /\ \A x \in Threads : x # s => pc'[x] = pc[x] /\ object'[x] = object[x]
        /\ pc'[s] \notin WaitPoints \cup {"resuming", "dq_reset"}
        /\ pc'[s] \notin Outside => object'[s] \in Scope(subject) /\ subject \notin dying
    BY <1>1 DEF Goto, Points, WaitPoints, Outside
  <1>4. HasGone(v, pc, object, pc', object', dying, s, subject)
    BY ONLY <1>1, <1>2, <1>3, s \in Threads, v.stat[s] = "ready", CalmGo
  <1> QED BY <1>4 DEF HasGone, Now

\* The waiters of list q were turned away.
Emptied(q) ==
    /\ Now' /\ k'.queue[q] = << >> /\ object' = object
    /\ \A r \in Queues : r # q => k'.queue[r] = k.queue[r]
    /\ \A x \in Threads : Contains(k.queue[q], x) => k'.error[x] = "RT_ERROR"

\* RT_IPC_CMD_RESET of an object with one list.
LEMMA ResetStep ==
    ASSUME Now, NEW s \in Threads, Running(s, "user"), subject \notin dying, subject \notin Pipes,
           NEW q \in Queues, k' = resume_all(k, q),
           Goto(s, "schedule"), UNCHANGED <<object, dying, subject>>
    PROVE  Emptied(q)
  <1>1. k.stat[s] = "ready" /\ Waits(k, pc, object, subject) /\ Runs(k, pc)
    BY RunningReady
  <1>2. HasReset(k, resume_all(k, q), pc, object, q, subject)
    BY <1>1, ResetWaits
  <1>3. PICK v : v = resume_all(k, q)
    OBVIOUS
  <1>4. /\ Waits(v, pc, object, subject) /\ Runs(v, pc) /\ v.queue[q] = << >>
        /\ \A r \in Queues : r # q => v.queue[r] = k.queue[r]
        /\ \A x \in Threads : v.stat[x] = IF Queued(k, q, x) THEN "ready" ELSE k.stat[x]
        /\ \A x \in Threads : v.error[x] = IF Queued(k, q, x) THEN "RT_ERROR" ELSE k.error[x]
    BY <1>2, <1>3 DEF HasReset
  <1>5. Now'
    BY <1>1, <1>3, <1>4, AfterReset
  <1> QED BY <1>3, <1>4, <1>5 DEF Emptied, Queued

\* RT_IPC_CMD_RESET of an object with two lists.
LEMMA ResetBothStep ==
    ASSUME Now, NEW s \in Threads, Running(s, "user"), subject \notin dying, subject \notin Pipes,
           NEW q \in Queues, NEW r \in Queues, k' = resume_all(resume_all(k, q), r),
           Goto(s, "schedule"), UNCHANGED <<object, dying, subject>>
    PROVE  Now' /\ k'.queue[q] = << >> /\ k'.queue[r] = << >>
  <1>1. k.stat[s] = "ready" /\ Waits(k, pc, object, subject) /\ Runs(k, pc)
    BY RunningReady
  <1>2. PICK u : u = resume_all(k, q)
    OBVIOUS
  <1>3. HasReset(k, resume_all(k, q), pc, object, q, subject)
    BY <1>1, ResetWaits
  <1>4. /\ Waits(u, pc, object, subject) /\ Runs(u, pc) /\ u.queue[q] = << >> /\ u.stat[s] = "ready"
    BY <1>1, <1>2, <1>3 DEF HasReset
  <1>5. PICK v : v = resume_all(u, r)
    OBVIOUS
  <1>6. HasReset(u, resume_all(u, r), pc, object, r, subject)
    BY <1>4, ResetWaits
  <1>7. /\ Waits(v, pc, object, subject) /\ Runs(v, pc) /\ v.queue[r] = << >> /\ v.queue[q] = << >>
        /\ v.stat[s] = "ready"
    BY <1>4, <1>5, <1>6 DEF HasReset
  <1>8. k' = v
    BY <1>2, <1>5
  <1>9. Now'
    BY <1>7, <1>8, AfterReset
  <1> QED BY <1>7, <1>8, <1>9

\* A detach looks at the lists of the object in table u: it goes on while one of
\* them is not empty.
Looks(s, u) ==
    \/ LeaveCall(s)
    \/ \E q \in SubjectLists(subject) : /\ u.queue[q] # << >> /\ Goto(s, "resuming")
                                        /\ object' = [object EXCEPT ![s] = q]

\* Objects that can be detached
Detachable == Deletable \ UNION {Completions, DataQueues, Pipes}

\* The lists of an object that can be detached.
LEMMA ListsAreQueues ==
    subject \in Detachable =>
        SubjectLists(subject) \subseteq Queues /\ Scope(subject) = SubjectLists(subject)
  <1>1. \A m \in Mailboxes : suspend_sender_thread[m] \in Queues /\ m \in Queues
    BY MailboxAssumption DEF Senders
  <1>2. \A m \in DataQueues : suspended_push_list[m] \in Queues /\ m \in Queues
    BY DataQueueAssumption DEF Pushers
  <1>3. \A m \in Pipes : suspended_write_list[m] \in Queues /\ m \in Queues
    BY PipeAssumption DEF PipeWriters
  <1> QED BY <1>1, <1>2, <1>3, IpcAssumption DEF SubjectLists, Scope, Detachable

\* The calls of others stay as they are.
LEMMA LooksCalls ==
    ASSUME Now, NEW s \in Threads, NEW u, Looks(s, u), SubjectLists(subject) \subseteq Queues
    PROVE  /\ pc' \in [Threads -> Points] /\ object' \in [Threads -> Queues]
           /\ \A x \in Threads : x # s => pc'[x] = pc[x] /\ object'[x] = object[x]
           /\ \/ pc'[s] = "user"
              \/ pc'[s] = "resuming" /\ object'[s] \in SubjectLists(subject) /\ u.queue[object'[s]] # << >>
  <1>1. pc \in [Threads -> Points] /\ object \in [Threads -> Queues] /\ AnyQueue \in Queues
    BY ObjectsAssumption DEF Now, Calm, Waits, AnyQueue
  <1> QED BY <1>1 DEF Looks, LeaveCall, LeaveTo, Goto, Points

\* Nobody was woken, and the object is being detached.
Detached ==
    /\ Now' /\ \A r \in Queues : Change(r, 0) /\ Way(k', pc', object', r) = Way(k, pc, object, r)

\* The start of a detach.
LEMMA DetachStep ==
    ASSUME Now, NEW s \in Threads, Running(s, "user"), subject \notin dying,
           subject \in Detachable,
           subject \notin Pools => OnlyWaiters(SubjectLists(subject)),
           Looks(s, k), dying' = dying \cup {subject}, UNCHANGED <<k, subject>>
    PROVE  Detached
  <1>1. /\ k.stat[s] = "ready" /\ s # Idle /\ pc[s] = "user" /\ k.current = s
        /\ Waits(k, pc, object, subject) /\ Runs(k, pc) /\ Detaching(k, pc, object, dying, subject)
    BY RunningReady
  <1>2. Scope(subject) = SubjectLists(subject) /\ SubjectLists(subject) \subseteq Queues
    BY ListsAreQueues
  <1>3. /\ pc' \in [Threads -> Points] /\ object' \in [Threads -> Queues]
        /\ \A x \in Threads : x # s => pc'[x] = pc[x] /\ object'[x] = object[x]
        /\ \/ pc'[s] = "user"
           \/ pc'[s] = "resuming" /\ object'[s] \in SubjectLists(subject) /\ k.queue[object'[s]] # << >>
    BY <1>2, LooksCalls
  <1>4. Waits(k, pc', object', subject)
    <2>1. pc'[s] \notin Outside => object'[s] \in Scope(subject)
      BY <1>3, <1>2 DEF Outside
    <2> QED BY <1>1, <1>3, <2>1, GoWaits
  <1>5. Runs(k, pc')
    BY <1>1 DEF Runs
  <1>6. \A x \in Threads : pc[x] # "resuming"
    BY <1>1 DEF Detaching
  <1>7. Detaching(k, pc', object', dying', subject)
    <2>1. Queues \ SubjectLists(subject) \subseteq dying' /\ dying' \subseteq Queues
      BY <1>1, IpcAssumption DEF Detaching, Detachable
    <2>2. \A x \in Threads : pc'[x] = "resuming" => subject \in dying' /\ k.queue[object'[x]] # << >>
      BY <1>3, <1>6
    <2>3. \A x, r \in Threads : pc'[x] = "resuming" /\ pc'[r] = "resuming" => x = r
      BY <1>3, <1>6
    <2>4. ASSUME NEW t \in Threads, subject \notin Pools, pc'[t] \notin Outside \cup {"resuming"}
          PROVE  OutOfIt(k, pc', t)
      <3>1. t # s
        BY <1>3, <2>4 DEF Outside
      <3>2. pc[t] \notin {"user", "schedule"} /\ object[t] \in SubjectLists(subject)
        BY <1>1, <1>3, <1>2, <2>4, <3>1 DEF Outside, Waits
      <3> QED BY <2>4, <3>2 DEF OnlyWaiters, OutOfIt
    <2> QED BY <2>1, <2>2, <2>3, <2>4 DEF Detaching, Detachable
  <1>8. \A t \in Threads : pc'[t] # "dq_reset"
    BY <1>3 DEF Now, Calm
  <1>9. Now'
    BY <1>4, <1>5, <1>7, <1>8 DEF Now, Calm
  <1>10. ASSUME NEW r \in Queues
         PROVE  Change(r, 0) /\ Way(k', pc', object', r) = Way(k, pc, object, r)
    <2>1. Way(k', pc', object', r) = Way(k, pc, object, r)
      BY <1>1, <1>3 DEF Way, WaitPoints, Clients
    <2> QED BY <2>1 DEF Change, Gains, Served
  <1> QED BY <1>9, <1>10 DEF Detached

\* One turn of a detach: the first thread of the list is turned away.
LEMMA ResumeOneStep ==
    ASSUME Now, NEW s \in Threads, Running(s, "resuming"),
           k' = turn_away(k, Head(k.queue[object[s]])),
           Looks(s, k'), UNCHANGED <<dying, subject>>
    PROVE  /\ Detached /\ subject \in dying
           /\ k.queue[object[s]] # << >> /\ object[s] \in SubjectLists(subject)
           /\ k'.queue[object[s]] = RemoveFirst(k.queue[object[s]], Head(k.queue[object[s]]))
           /\ \A r \in Queues : r # object[s] => k'.queue[r] = k.queue[r]
           /\ k'.error[Head(k.queue[object[s]])] = "RT_ERROR"
           /\ \A r \in Queues : \A x : Contains(k'.queue[r], x) <=>
                 Contains(k.queue[r], x) /\ x # Head(k.queue[object[s]])
  <1> DEFINE q == object[s]
             t == Head(k.queue[object[s]])
  <1>1. /\ k.stat[s] = "ready" /\ s # Idle /\ pc[s] = "resuming"
        /\ Waits(k, pc, object, subject) /\ Runs(k, pc) /\ Detaching(k, pc, object, dying, subject)
    BY RunningReady
  <1>2. subject \in dying /\ k.queue[q] # << >> /\ subject \in Detachable /\ q \in Queues
    BY <1>1 DEF Detaching, Detachable, Waits
  <1>3. q \in SubjectLists(subject)
    BY <1>1, <1>2, ListsAreQueues DEF Waits, Outside
  <1>4. t \in Threads /\ k.stat[t] = "suspend" /\ object[t] = q /\ pc[t] \in WaitPoints
    BY <1>1, <1>2, FirstWaiter
  <1>5. PICK e : e = "RT_ERROR"
    OBVIOUS
  <1>6. PICK v : v = k'
    OBVIOUS
  <1>7. MadeReady(k, v, t, e)
    <2>1. Settled(k)
      BY <1>1 DEF Waits
    <2> QED BY <1>4, <1>5, <1>6, <2>1, TurnAwaySettled
  <1> HIDE DEF t, q
  <1>8. WokenUp(k, v, pc, object, t, e, subject)
    <2>1. subject \in Pipes => e = "RT_EOK"
      BY <1>2 DEF Detachable
    <2> QED BY <1>1, <1>4, <1>7, <2>1, WakeWaits
  <1>9. HasFailed(k, v, pc, object, t)
    <2>1. e # "RT_EOK"
      BY <1>5
    <2> QED BY <1>1, <1>4, <1>8, <2>1, FailsOutsideWay
  <1>10. /\ Waits(v, pc, object, subject) /\ Runs(v, pc) /\ v.current = k.current
         /\ \A r \in Queues : \A x : Contains(v.queue[r], x) <=> Contains(k.queue[r], x) /\ x # t
         /\ \A r \in Queues : q # r => v.queue[r] = k.queue[r]
         /\ \A x \in Threads : v.stat[x] = IF x = t THEN "ready" ELSE k.stat[x]
         /\ \A x \in Threads : v.error[x] = IF x = t THEN e ELSE k.error[x]
    BY <1>1, <1>4, <1>8 DEF WokenUp
  <1>11. /\ pc' \in [Threads -> Points] /\ object' \in [Threads -> Queues]
         /\ \A x \in Threads : x # s => pc'[x] = pc[x] /\ object'[x] = object[x]
         /\ \/ pc'[s] = "user"
            \/ pc'[s] = "resuming" /\ object'[s] \in SubjectLists(subject) /\ v.queue[object'[s]] # << >>
    BY <1>2, <1>6, ListsAreQueues, LooksCalls
  <1>12. Waits(v, pc', object', subject)
    <2>1. pc'[s] \notin Outside => object'[s] \in Scope(subject)
      BY <1>2, <1>11, ListsAreQueues DEF Outside
    <2>2. v.stat[s] = "ready"
      BY <1>1, <1>10
    <2> QED BY <1>1, <1>10, <1>11, <2>1, <2>2, GoWaits
  <1>13. Runs(v, pc')
    BY <1>1, <1>10, <1>11 DEF Runs
  <1>14. \A x \in Threads : x # s => pc[x] # "resuming"
    BY <1>1 DEF Detaching
  <1>15. Detaching(v, pc', object', dying, subject)
    <2>1. \A x \in Threads : pc'[x] = "resuming" => subject \in dying /\ v.queue[object'[x]] # << >>
      BY <1>2, <1>11, <1>14
    <2>2. \A x, r \in Threads : pc'[x] = "resuming" /\ pc'[r] = "resuming" => x = r
      BY <1>11, <1>14
    <2>3. ASSUME NEW x \in Threads, subject \notin Pools, pc'[x] \notin Outside \cup {"resuming"}
          PROVE  OutOfIt(v, pc', x)
      <3>1. x # s
        BY <1>11, <2>3 DEF Outside
      <3>2. pc[x] = pc'[x]
        BY <1>11, <3>1
      <3>3. OutOfIt(k, pc, x)
        BY <1>1, <1>2, <2>3, <3>2 DEF Detaching
      <3> QED BY <1>4, <1>5, <1>10, <3>2, <3>3 DEF OutOfIt
    <2> QED BY <1>1, <2>1, <2>2, <2>3 DEF Detaching
  <1>16. \A x \in Threads : pc'[x] # "dq_reset"
    BY <1>11 DEF Now, Calm
  <1>17. Now'
    BY <1>6, <1>12, <1>13, <1>15, <1>16 DEF Now, Calm
  <1>18. ASSUME NEW r \in Queues
         PROVE  Change(r, 0) /\ Way(k', pc', object', r) = Way(k, pc, object, r)
    <2>1. Gains(k, pc, object, v, pc, object, r, 0) /\ Way(v, pc, object, r) = Way(k, pc, object, r)
      BY <1>9 DEF HasFailed
    <2>2. Way(v, pc', object', r) = Way(v, pc, object, r)
      BY <1>1, <1>11 DEF Way, WaitPoints, Clients
    <2>3. Gains(v, pc, object, v, pc', object', r, 0)
      BY <2>2, KeepsWay
    <2>4. Gains(k, pc, object, v, pc', object', r, 0 + 0)
      BY <2>1, <2>3, GainsThen
    <2> QED BY <1>6, <2>1, <2>2, <2>4 DEF Change
  <1>19. k'.queue[q] = RemoveFirst(k.queue[q], t)
    BY <1>2, <1>6, <1>7 DEF MadeReady
  <1>20. k'.error[t] = "RT_ERROR"
    BY <1>4, <1>5, <1>6, <1>10
  <1> QED BY <1>2, <1>3, <1>6, <1>10, <1>17, <1>18, <1>19, <1>20 DEF Detached, q, t

-----------------------------------------------------------------------------
(* Kinds of objects                                                        *)

\* An object, and a list, is of one kind.
LEMMA KindsApart ==
    ASSUME NEW q
    PROVE  /\ q \in Pools =>
                 q \notin UNION {Mailboxes, Senders, Events, MsgQueues, DataQueues, Pushers,
                                 Completions, Pipes, PipeWriters}
           /\ q \in Mailboxes \cup Senders =>
                 q \notin UNION {Events, MsgQueues, DataQueues, Pushers, Completions, Pipes, PipeWriters}
           /\ q \in Events =>
                 q \notin UNION {MsgQueues, DataQueues, Pushers, Completions, Pipes, PipeWriters}
           /\ q \in MsgQueues => q \notin UNION {DataQueues, Pushers, Completions, Pipes, PipeWriters}
           /\ q \in DataQueues \cup Pushers => q \notin UNION {Completions, Pipes, PipeWriters}
           /\ q \in Completions => q \notin UNION {Pipes, PipeWriters}
  <1>1. \A i, j \in 1 .. 7 : i # j => Kinds[i] \cap Kinds[j] = {}
    BY ObjectsAssumption DEF Kinds
  <1>2. /\ Kinds[1] = Pools /\ Kinds[2] = Mailboxes \cup Senders /\ Kinds[3] = Events
        /\ Kinds[4] = MsgQueues /\ Kinds[5] = DataQueues \cup Pushers /\ Kinds[6] = Completions
        /\ Kinds[7] = Pipes \cup PipeWriters
    BY DEF Kinds
  <1>3. \A i, j \in 1 .. 7 : q \in Kinds[i] /\ q \in Kinds[j] => i = j
    BY <1>1
  <1> HIDE DEF Kinds
  <1>4. q \in Kinds[1] => /\ q \notin Kinds[2] /\ q \notin Kinds[3] /\ q \notin Kinds[4]
                          /\ q \notin Kinds[5] /\ q \notin Kinds[6] /\ q \notin Kinds[7]
    BY <1>3
  <1>5. q \in Kinds[2] => /\ q \notin Kinds[3] /\ q \notin Kinds[4]
                          /\ q \notin Kinds[5] /\ q \notin Kinds[6] /\ q \notin Kinds[7]
    BY <1>3
  <1>6. q \in Kinds[3] => /\ q \notin Kinds[4] /\ q \notin Kinds[5] /\ q \notin Kinds[6] /\ q \notin Kinds[7]
    BY <1>3
  <1>7. q \in Kinds[4] => q \notin Kinds[5] /\ q \notin Kinds[6] /\ q \notin Kinds[7]
    BY <1>3
  <1>8. q \in Kinds[5] => q \notin Kinds[6] /\ q \notin Kinds[7]
    BY <1>3
  <1>9. q \in Kinds[6] => q \notin Kinds[7]
    BY <1>3
  <1> QED BY <1>2, <1>4, <1>5, <1>6, <1>7, <1>8, <1>9

\* A call can only start on a list of the subject.
LEMMA OnlySubject ==
    ASSUME NEW u, NEW at, NEW on, NEW gone, NEW o, Detaching(u, at, on, gone, o),
           NEW q \in Queues, q \notin gone
    PROVE  q \in SubjectLists(o)
  BY DEF Detaching

\* Objects with one list that can be detached
Singles == UNION {Pools, Events, MsgQueues}

\* Such an object is alone.
LEMMA SingleAlone ==
    ASSUME Now, subject \in Singles
    PROVE  /\ SubjectLists(subject) = {subject} /\ Scope(subject) = {subject} /\ subject \in Queues
           /\ \A q \in Queues : Usable(q) => q = subject /\ subject \notin dying
           /\ \A q \in Queues : q # subject => k.queue[q] = << >>
           /\ subject \notin UNION {Mailboxes, DataQueues, Pipes, Completions}
           /\ subject \in Deletable => subject \in Detachable
           /\ Untimed(subject) <=> subject \in Deletable
  <1>1. subject \in Queues /\ subject \notin UNION {Mailboxes, DataQueues, Pipes, Completions}
    BY KindsApart, MemPoolAssumption, EventAssumption, MessageQueueAssumption DEF Singles
  <1>2. SubjectLists(subject) = {subject}
    BY <1>1 DEF SubjectLists
  <1>3. Scope(subject) = {subject}
    BY <1>1, <1>2 DEF Scope
  <1>4. \A q \in Queues : Usable(q) => q = subject /\ subject \notin dying
    BY <1>2 DEF Now, Calm, Detaching, Usable
  <1>5. ASSUME NEW q \in Queues, q # subject PROVE k.queue[q] = << >>
    <2>1. Waits(k, pc, object, subject)
      BY DEF Now, Calm
    <2>2. k.queue[q] # << >> => object[Head(k.queue[q])] = q /\ Head(k.queue[q]) \in Threads
                                /\ pc[Head(k.queue[q])] \in WaitPoints
      BY <2>1, FirstWaiter
    <2> QED BY <1>3, <1>5, <2>1, <2>2 DEF Waits, WaitPoints, Outside
  <1> QED BY <1>1, <1>2, <1>3, <1>4, <1>5 DEF Detachable, Untimed

-----------------------------------------------------------------------------
(* Memory pools                                                            *)

\* The blocks and the counters of the pools.
PoolData ==
    /\ MemPoolType /\ DOMAIN block_list = Pools /\ DOMAIN used = Pools
    /\ BlocksConserved
    /\ \A q \in Pools : q # subject => suspend_thread_count[q] = 0

\* The count of the waiters is never too low, which rt_mp_free rests on; and
\* for each free block somebody is on the way to it.
PoolInv ==
    /\ PoolData
    /\ subject \in Pools =>
          /\ Len(k.queue[subject]) <= suspend_thread_count[subject]
          /\ subject \in Deletable => CountsWaiters(subject)
          /\ subject \notin dying => Served(k, pc, object, subject, block_free_count[subject])

\* The first free block goes to a caller.
LEMMA TakeBlockData ==
    ASSUME PoolData, NEW s, NEW q \in Pools, take_block(s, q), UNCHANGED subject
    PROVE  /\ PoolData' /\ suspend_thread_count' = suspend_thread_count
           /\ block_free_count[q] \in Nat /\ block_free_count'[q] = block_free_count[q] - 1
  <1> DEFINE b == Head(block_list[q])
  <1>1. /\ block_free_count[q] > 0 /\ suspend_thread_count' = suspend_thread_count
        /\ block_free_count' = [block_free_count EXCEPT ![q] = @ - 1]
        /\ block_list' = [block_list EXCEPT ![q] = Tail(@)]
        /\ used' = [used EXCEPT ![q] = @ \cup {b}]
    BY DEF take_block
  <1>2. /\ block_free_count \in [Pools -> Nat] /\ suspend_thread_count \in [Pools -> Nat]
        /\ \A r \in Pools : block_list[r] \in Seq(Blocks[r]) /\ used[r] \subseteq Blocks[r]
        /\ \A r \in Pools : /\ IsInjective(block_list[r]) /\ Range(block_list[r]) = Blocks[r] \ used[r]
                            /\ block_free_count[r] = Len(block_list[r])
    BY DEF PoolData, MemPoolType, BlocksConserved
  <1>3. block_list[q] # << >>
    BY <1>1, <1>2
  <1>4. /\ Tail(block_list[q]) \in Seq(Blocks[q]) /\ IsInjective(Tail(block_list[q]))
        /\ Len(Tail(block_list[q])) = Len(block_list[q]) - 1
        /\ b \in Blocks[q] /\ Contains(block_list[q], b)
        /\ \A x : Contains(Tail(block_list[q]), x) <=> Contains(block_list[q], x) /\ x # b
    BY <1>2, <1>3, TailList
  <1>5. /\ \A x : x \in Range(block_list[q]) <=> Contains(block_list[q], x)
        /\ \A x : x \in Range(Tail(block_list[q])) <=> Contains(Tail(block_list[q]), x)
    BY <1>2, <1>4, RangeList
  <1> HIDE DEF b
  <1>6. Range(Tail(block_list[q])) = Blocks[q] \ (used[q] \cup {b})
    BY <1>2, <1>4, <1>5
  <1>7. block_free_count' \in [Pools -> Nat] /\ block_free_count'[q] = block_free_count[q] - 1
    BY <1>1, <1>2
  <1>8. ASSUME NEW r \in Pools
        PROVE  /\ block_list'[r] \in Seq(Blocks[r]) /\ used'[r] \subseteq Blocks[r]
               /\ IsInjective(block_list'[r]) /\ Range(block_list'[r]) = Blocks[r] \ used'[r]
               /\ block_free_count'[r] = Len(block_list'[r])
    <2>0. DOMAIN block_list = Pools /\ DOMAIN used = Pools
      BY DEF PoolData
    <2>1. CASE r = q
      <3>1. block_list'[r] = Tail(block_list[q]) /\ used'[r] = used[q] \cup {b}
        BY <1>1, <2>0, <2>1
      <3> QED BY <1>2, <1>4, <1>6, <1>7, <2>1, <3>1
    <2>2. CASE r # q
      <3>1. block_list'[r] = block_list[r] /\ used'[r] = used[r] /\ block_free_count'[r] = block_free_count[r]
        BY <1>1, <1>2, <2>0, <2>2
      <3> QED BY <1>2, <3>1
    <2> QED BY <2>1, <2>2
  <1>9. MemPoolType'
    BY <1>1, <1>2, <1>7, <1>8 DEF MemPoolType
  <1>10. BlocksConserved'
    BY <1>8 DEF BlocksConserved
  <1>11. /\ \A r \in Pools : r # subject' => suspend_thread_count'[r] = 0
         /\ DOMAIN block_list' = Pools /\ DOMAIN used' = Pools
    BY <1>1 DEF PoolData
  <1> QED BY <1>1, <1>2, <1>7, <1>9, <1>10, <1>11 DEF PoolData

\* A block comes back to the head of the free list.
LEMMA FreeData ==
    ASSUME PoolData, NEW q \in Pools, NEW b \in used[q], free(q, b), q = subject, UNCHANGED subject
    PROVE  /\ PoolData' /\ block_free_count[q] \in Nat /\ block_free_count'[q] = block_free_count[q] + 1
           /\ suspend_thread_count[q] \in Nat
           /\ suspend_thread_count'[q] =
                 IF HasSuspended(q) THEN suspend_thread_count[q] - 1 ELSE suspend_thread_count[q]
  <1>1. /\ block_free_count' = [block_free_count EXCEPT ![q] = @ + 1]
        /\ block_list' = [block_list EXCEPT ![q] = <<b>> \o @]
        /\ used' = [used EXCEPT ![q] = @ \ {b}]
        /\ suspend_thread_count' =
              [suspend_thread_count EXCEPT ![q] = IF HasSuspended(q) THEN @ - 1 ELSE @]
    BY DEF free
  <1>2. /\ block_free_count \in [Pools -> Nat] /\ suspend_thread_count \in [Pools -> Nat]
        /\ \A r \in Pools : block_list[r] \in Seq(Blocks[r]) /\ used[r] \subseteq Blocks[r]
        /\ \A r \in Pools : /\ IsInjective(block_list[r]) /\ Range(block_list[r]) = Blocks[r] \ used[r]
                            /\ block_free_count[r] = Len(block_list[r])
    BY DEF PoolData, MemPoolType, BlocksConserved
  <1>3. /\ b \in Blocks[q] /\ \A x : x \in Range(block_list[q]) <=> Contains(block_list[q], x)
    BY <1>2, RangeList
  <1>4. ~Contains(block_list[q], b)
    BY <1>2, <1>3
  <1>5. PICK l : l = <<b>> \o block_list[q]
    OBVIOUS
  <1>6. /\ l \in Seq(Blocks[q]) /\ IsInjective(l)
        /\ \A x : Contains(l, x) <=> Contains(block_list[q], x) \/ x = b
    <2>1. block_list[q] \in Seq(Blocks[q]) /\ IsInjective(block_list[q]) /\ b \in Blocks[q]
      BY <1>2, <1>3
    <2>2. /\ <<b>> \o block_list[q] \in Seq(Blocks[q]) /\ IsInjective(<<b>> \o block_list[q])
          /\ \A x : Contains(<<b>> \o block_list[q], x) <=> Contains(block_list[q], x) \/ x = b
      BY ONLY <1>4, <2>1, PushList
    <2> QED BY <1>5, <2>2
  <1>7. Len(l) = Len(block_list[q]) + 1
    BY <1>2, <1>3, <1>5
  <1>8. Range(l) = Blocks[q] \ (used[q] \ {b})
    <2>1. \A x : x \in Range(l) <=> Contains(l, x)
      BY <1>6, RangeList
    <2> QED BY <1>2, <1>3, <1>6, <2>1
  <1>9. block_free_count' \in [Pools -> Nat] /\ block_free_count'[q] = block_free_count[q] + 1
    BY <1>1, <1>2
  <1>10. /\ suspend_thread_count' \in [Pools -> Nat]
         /\ suspend_thread_count'[q] =
               IF HasSuspended(q) THEN suspend_thread_count[q] - 1 ELSE suspend_thread_count[q]
    BY <1>1, <1>2 DEF HasSuspended
  <1>11. ASSUME NEW r \in Pools
        PROVE  /\ block_list'[r] \in Seq(Blocks[r]) /\ used'[r] \subseteq Blocks[r]
               /\ IsInjective(block_list'[r]) /\ Range(block_list'[r]) = Blocks[r] \ used'[r]
               /\ block_free_count'[r] = Len(block_list'[r])
    <2>0. DOMAIN block_list = Pools /\ DOMAIN used = Pools
      BY DEF PoolData
    <2>1. CASE r = q
      <3>1. block_list'[r] = l /\ used'[r] = used[q] \ {b}
        BY <1>1, <1>5, <2>0, <2>1
      <3> QED BY <1>2, <1>6, <1>7, <1>8, <1>9, <2>1, <3>1
    <2>2. CASE r # q
      <3>1. block_list'[r] = block_list[r] /\ used'[r] = used[r] /\ block_free_count'[r] = block_free_count[r]
        BY <1>1, <1>2, <2>0, <2>2
      <3> QED BY <1>2, <3>1
    <2> QED BY <2>1, <2>2
  <1>12. MemPoolType'
    BY <1>9, <1>10, <1>11 DEF MemPoolType
  <1>13. BlocksConserved'
    BY <1>11 DEF BlocksConserved
  <1>14. /\ \A r \in Pools : r # subject' => suspend_thread_count'[r] = 0
         /\ DOMAIN block_list' = Pools /\ DOMAIN used' = Pools
    BY <1>1, <1>2 DEF PoolData
  <1> QED BY <1>2, <1>9, <1>10, <1>12, <1>13, <1>14 DEF PoolData

\* What the numbers of things and of threads on the way are after a step.
LEMMA ServedThen ==
    ASSUME NEW q, NEW d \in Int, Change(q, d), NEW n \in Int, Served(k, pc, object, q, n),
           NEW m \in Int, m <= n + d
    PROVE  Served(k', pc', object', q, m)
  <1>1. Served(k', pc', object', q, n + d)
    BY DEF Change, Gains
  <1>2. Cardinality(Way(k', pc', object', q)) \in Nat
    BY WayFinite
  <1> QED BY <1>1, <1>2 DEF Served

\* Nobody need be on the way to nothing.
LEMMA ServedNone ==
    ASSUME NEW q, NEW n \in Int, n <= 0
    PROVE  Served(k', pc', object', q, n)
  <1>1. Cardinality(Way(k', pc', object', q)) \in Nat
    BY WayFinite
  <1> QED BY <1>1 DEF Served

\* A caller takes a block: in the first section of rt_mp_alloc, or on its way.
LEMMA TakeBlockStep ==
    ASSUME Now, PoolInv, subject \in Pools, NEW s \in Threads, NEW q \in Pools, q = subject,
           k.stat[s] = "ready", s # Idle, pc[s] # "resuming",
           take_block(s, q), UNCHANGED <<dying, subject>>
    PROVE  Now' /\ PoolInv'
  <1>1. LeaveTo(s, "user") /\ "user" \in Outside /\ k' = k
    BY DEF take_block, LeaveCall, Outside
  <1>2. Gone(s)
    BY <1>1, LeaveStep
  <1>3. q \in Queues
    BY MemPoolAssumption
  <1>4. /\ PoolData' /\ suspend_thread_count' = suspend_thread_count
        /\ block_free_count[q] \in Nat /\ block_free_count'[q] = block_free_count[q] - 1
    BY TakeBlockData DEF PoolInv
  <1>5. subject \notin dying => Served(k', pc', object', q, block_free_count'[q])
    <2> HAVE subject \notin dying
    <2>1. Change(q, -1) /\ Served(k, pc, object, q, block_free_count[q])
      BY <1>2, <1>3 DEF Gone, PoolInv
    <2>2. block_free_count[q] \in Int /\ block_free_count'[q] \in Int /\ -1 \in Int
          /\ block_free_count'[q] <= block_free_count[q] + (-1)
      BY <1>4
    <2> QED BY ONLY <2>1, <2>2, ServedThen
  <1>6. /\ Len(k'.queue[subject']) <= suspend_thread_count'[subject']
        /\ subject' \in Deletable => suspend_thread_count'[subject'] = Len(k'.queue[subject'])
    BY <1>1, <1>4 DEF PoolInv, CountsWaiters
  <1> QED BY <1>2, <1>4, <1>5, <1>6 DEF PoolInv, Gone, CountsWaiters

\* The caller of rt_mp_alloc goes to the head of the list.
LEMMA HeadSuspend ==
    ASSUME NEW w, Settled(w), NEW s \in Threads, w.stat[s] = "ready", NEW q \in Queues,
           NEW x, x = rt_list_insert_after(rt_thread_suspend(w, s), q, s)
    PROVE  PutToWait(w, x, s, q, "RT_IPC_FLAG_FIFO") /\ Len(x.queue[q]) = Len(w.queue[q]) + 1
  <1>1. PICK v : v = rt_thread_suspend(w, s)
    OBVIOUS
  <1>2. /\ Settled(v) /\ v.stat = [w.stat EXCEPT ![s] = "suspend"]
        /\ v.error = w.error /\ v.timer = w.timer /\ v.queue = w.queue
        /\ v.prio = w.prio /\ v.current = w.current
    BY <1>1, SuspendSettled
  <1>3. v.queue[q] \in Seq(Threads) /\ IsInjective(v.queue[q]) /\ v \in KernelType /\ v.queue \in [Queues -> Seq(Threads)]
    BY <1>2, SettledType
  <1>4. ~Contains(v.queue[q], s)
    BY <1>2 DEF Settled, Queued
  <1>5. PICK l : l = <<s>> \o v.queue[q]
    OBVIOUS
  <1>6. /\ l \in Seq(Threads) /\ IsInjective(l) /\ Len(l) = Len(v.queue[q]) + 1
        /\ \A y : Contains(l, y) <=> Contains(v.queue[q], y) \/ y = s
    <2>1. /\ <<s>> \o v.queue[q] \in Seq(Threads) /\ IsInjective(<<s>> \o v.queue[q])
          /\ \A y : Contains(<<s>> \o v.queue[q], y) <=> Contains(v.queue[q], y) \/ y = s
      BY ONLY <1>3, <1>4, s \in Threads, PushList
    <2>2. Len(<<s>> \o v.queue[q]) = Len(v.queue[q]) + 1
      BY <1>3
    <2> QED BY <1>5, <2>1, <2>2
  <1>7. x = [v EXCEPT !.queue[q] = l]
    BY <1>1, <1>5 DEF rt_list_insert_after
  <1>8. /\ Lists(x)
        /\ \A y \in Threads : Listed(x, y) <=> Listed(v, y)
        /\ \A r \in Queues, y \in Threads : Queued(x, r, y) <=> Queued(v, r, y) \/ (r = q /\ y = s)
        /\ x.stat = v.stat /\ x.prio = v.prio /\ x.timer = v.timer /\ x.error = v.error
        /\ x.current = v.current /\ x.lock_nest = v.lock_nest
    <2>1. Lists(v) /\ ~Queued(v, q, s)
      BY <1>2, <1>4 DEF Settled, Queued
    <2>2. l \in Seq(Threads) /\ IsInjective(l) /\ s \in Threads /\ q \in Queues
          /\ \A y : Contains(l, y) <=> Contains(v.queue[q], y) \/ y = s
      BY <1>6
    <2> DEFINE n == [v EXCEPT !.queue[q] = l]
    <2>3. /\ Lists(n)
          /\ \A y \in Threads : Listed(n, y) <=> Listed(v, y)
          /\ \A r \in Queues, y \in Threads : Queued(n, r, y) <=> Queued(v, r, y) \/ (r = q /\ y = s)
          /\ n.stat = v.stat /\ n.prio = v.prio /\ n.timer = v.timer /\ n.error = v.error
          /\ n.current = v.current /\ n.lock_nest = v.lock_nest
      BY ONLY <2>1, <2>2, EnqueueEffect
    <2>4. x = n
      BY <1>7
    <2> HIDE DEF n
    <2> QED BY <2>3, <2>4
  <1>9. \A r \in Queues : x.queue[r] = IF r = q THEN l ELSE v.queue[r]
    BY <1>3, <1>7 DEF KernelType
  <1>10. v.stat[s] = "suspend"
    <2>1. w.stat \in [Threads -> Stats]
      BY SettledType
    <2> QED BY <1>2, <2>1
  <1>11. Settled(x)
    <2>1. x.lock_nest = 0 /\ \A y \in Threads : x.stat[y] \in {"ready", "suspend"}
      BY <1>2, <1>8 DEF Settled
    <2>2. \A y \in Threads : Listed(x, y) <=> x.stat[y] = "ready"
      BY <1>2, <1>8 DEF Settled
    <2>3. \A r \in Queues, y \in Threads : Queued(x, r, y) => x.stat[y] = "suspend"
      BY <1>2, <1>8, <1>10 DEF Settled
    <2>4. \A y \in x.timer : x.stat[y] = "suspend"
      BY <1>2, <1>8 DEF Settled
    <2> QED BY <1>8, <2>1, <2>2, <2>3, <2>4 DEF Settled
  <1>12. /\ \A r \in Queues : r # q => x.queue[r] = w.queue[r]
         /\ \A y : Contains(x.queue[q], y) <=> Contains(w.queue[q], y) \/ y = s
         /\ Len(x.queue[q]) = Len(w.queue[q]) + 1
    BY <1>2, <1>6, <1>9
  <1> QED BY <1>2, <1>8, <1>11, <1>12 DEF PutToWait

\* rt_schedule keeps the lists.
LEMMA SwitchQueues ==
    ASSUME NEW u \in KernelType
    PROVE  rt_schedule(u).queue = u.queue /\ rt_schedule(u).error = u.error
  BY DEF rt_schedule, KernelType

\* The list is one shorter after a wakeup.
LEMMA WakeLength ==
    ASSUME NEW u, NEW at, NEW on, NEW o, Waits(u, at, on, o), NEW q \in Queues, u.queue[q] # << >>
    PROVE  /\ Len(rt_ipc_list_resume(u, q).queue[q]) = Len(u.queue[q]) - 1
           /\ rt_ipc_list_resume(u, q) \in KernelType
  <1>1. PICK v : v = rt_ipc_list_resume(u, q)
    OBVIOUS
  <1>2. PICK t : t = Head(u.queue[q])
    OBVIOUS
  <1>3. t \in Threads /\ u.stat[t] = "suspend" /\ Contains(u.queue[q], t) /\ Settled(u)
    BY <1>2, FirstWaiter DEF Queued, Waits
  <1>4. MadeReady(u, v, t, u.error[t])
    BY <1>1, <1>2, <1>3, ResumeSettled DEF rt_ipc_list_resume
  <1>5. v.queue[q] = RemoveFirst(u.queue[q], t) /\ Settled(v)
    BY <1>4 DEF MadeReady
  <1>6. u.queue[q] \in Seq(Threads) /\ IsInjective(u.queue[q])
    BY <1>3, SettledType
  <1>7. Len(RemoveFirst(u.queue[q], t)) = Len(u.queue[q]) - 1
    BY <1>3, <1>6, UnlinkLength
  <1>8. v \in KernelType
    BY <1>5, SettledType
  <1> QED BY <1>1, <1>5, <1>7, <1>8

\* A caller waits.
LEMMA WaitBlockStep ==
    ASSUME Now, PoolInv, subject \in Pools, NEW s \in Threads, NEW q \in Pools, q = subject,
           k.current = s, k.stat[s] = "ready", s # Idle, pc[s] # "resuming",
           wait_block(s, q), UNCHANGED <<dying, subject>>
    PROVE  Now' /\ PoolInv'
  <1>0. q \in Queues /\ Scope(subject) = {subject} /\ (Untimed(subject) <=> subject \in Deletable)
        /\ Settled(k)
    BY MemPoolAssumption, SingleAlone DEF Singles, Now, Calm, Waits
  <1>1. PICK w : Cleared(k, w, s)
    BY DEF Cleared
  <1>2. PICK x : x = rt_list_insert_after(rt_thread_suspend(w, s), q, s)
    OBVIOUS
  <1>3. Settled(w) /\ w.stat[s] = "ready" /\ w.queue = k.queue
    <2>1. w = [k EXCEPT !.error[s] = "RT_EOK"] /\ "RT_EOK" \in Errors
      BY <1>1 DEF Cleared, Errors
    <2>2. Settled(w) /\ w.stat = k.stat /\ w.queue = k.queue
      BY ONLY <1>0, <2>1, s \in Threads, ErrorSettled
    <2> QED BY <2>2
  <1>4. PutToWait(w, x, s, q, "RT_IPC_FLAG_FIFO") /\ Len(x.queue[q]) = Len(w.queue[q]) + 1
    BY <1>0, <1>2, <1>3, HeadSuspend
  <1>5. MayStart(x, k', s, subject)
    BY <1>0, <1>1, <1>2 DEF wait_block, Cleared, MayStart
  <1>6. PICK f : f = "RT_IPC_FLAG_FIFO"
    OBVIOUS
  <1>7. Parked(s, q)
    <2>1. PutToWait(w, x, s, q, f)
      BY <1>4, <1>6
    <2>2. Goto(s, "blocked") /\ object' = [object EXCEPT ![s] = q] /\ q \in Scope(subject)
          /\ (subject \in dying => subject \in Pools)
      BY <1>0 DEF wait_block
    <2> QED BY <1>0, <1>1, <1>5, <2>1, <2>2, ParkStep
  <1>8. Len(k'.queue[q]) = Len(k.queue[q]) + 1
    <2>1. k'.queue = x.queue
      <3>1. Settled(x) /\ x \in KernelType
        BY <1>4, SettledType DEF PutToWait
      <3> QED BY <1>5, <3>1 DEF MayStart, rt_timer_start, KernelType
    <2> QED BY <1>3, <1>4, <2>1
  <1>9. /\ block_free_count[q] = 0 /\ UNCHANGED <<block_free_count, block_list, used>>
        /\ suspend_thread_count' = [suspend_thread_count EXCEPT ![q] = @ + 1]
    BY DEF wait_block
  <1>10. /\ suspend_thread_count' \in [Pools -> Nat]
         /\ suspend_thread_count'[q] = suspend_thread_count[q] + 1 /\ suspend_thread_count[q] \in Nat
         /\ \A r \in Pools : r # q => suspend_thread_count'[r] = suspend_thread_count[r]
    BY <1>9 DEF PoolInv, PoolData, MemPoolType
  <1>11. PoolData'
    BY <1>9, <1>10 DEF PoolInv, PoolData, MemPoolType, BlocksConserved
  <1>12. k.queue[q] \in Seq(Threads)
    BY <1>0, SettledType
  <1>13. /\ Len(k'.queue[subject']) <= suspend_thread_count'[subject']
         /\ subject' \in Deletable => suspend_thread_count'[subject'] = Len(k'.queue[subject'])
    BY <1>8, <1>10, <1>12 DEF PoolInv, CountsWaiters
  <1>14. Served(k', pc', object', q, block_free_count'[q])
    BY <1>9, ServedNone
  <1> QED BY <1>7, <1>11, <1>13, <1>14 DEF PoolInv, CountsWaiters, Parked

\* rt_mp_alloc, from its start or after a rt_schedule.
LEMMA AllocStep ==
    ASSUME Now, PoolInv, subject \in Pools, NEW s \in Threads,
           (\E q \in Pools : rt_mp_alloc(s, q)) \/ alloc_again(s), UNCHANGED subject
    PROVE  Now' /\ PoolInv'
  <1>0. Pools \subseteq Queues /\ \A q \in Queues : Usable(q) => q = subject
    BY MemPoolAssumption, SingleAlone DEF Singles
  <1>1. ASSUME NEW q \in Pools, rt_mp_alloc(s, q)
        PROVE  Now' /\ PoolInv'
    <2>1. Running(s, "user") /\ Usable(q) /\ UNCHANGED dying /\ (take_block(s, q) \/ wait_block(s, q))
      BY <1>1 DEF rt_mp_alloc
    <2>2. k.current = s /\ k.stat[s] = "ready" /\ s # Idle /\ pc[s] # "resuming" /\ q = subject
      BY <1>0, <2>1, RunningReady
    <2> QED BY <2>1, <2>2, TakeBlockStep, WaitBlockStep
  <1>2. CASE alloc_again(s)
    <2>1. Running(s, "woken") /\ UNCHANGED dying
      BY <1>2 DEF alloc_again
    <2>2. k.current = s /\ k.stat[s] = "ready" /\ s # Idle /\ pc[s] = "woken" /\ Waits(k, pc, object, subject)
      BY <2>1, RunningReady
    <2>3. object[s] = subject
      BY <2>2, SingleAlone DEF Waits, Outside, Singles
    <2>4. \/ LeaveCall(s) /\ UNCHANGED <<k, pool>>
             /\ (k.error[s] # "RT_EOK" \/ block_free_count[subject] = 0)
          \/ take_block(s, subject)
          \/ wait_block(s, subject)
      BY <1>2, <2>3 DEF alloc_again
    <2>5. ASSUME LeaveCall(s), UNCHANGED <<k, pool>>,
                 k.error[s] # "RT_EOK" \/ block_free_count[subject] = 0
          PROVE  Now' /\ PoolInv'
      <3>1. LeaveTo(s, "user") /\ "user" \in Outside
        BY <2>5 DEF LeaveCall, Outside
      <3>2. Gone(s)
        BY <2>1, <2>2, <2>5, <3>1, LeaveStep
      <3>3. PoolData'
        BY <2>5 DEF PoolInv, PoolData, pool, MemPoolType, BlocksConserved
      <3>4. block_free_count[subject] \in Nat /\ subject \in Queues
        BY <1>0 DEF PoolInv, PoolData, MemPoolType
      <3>5. subject \notin dying => Served(k', pc', object', subject, block_free_count[subject])
        <4>1. CASE k.error[s] # "RT_EOK"
          <5>1. Change(subject, 0)
            BY <3>2, <3>4, <4>1, NotOnWay DEF Gone
          <5>2. subject \notin dying => Served(k, pc, object, subject, block_free_count[subject])
            BY DEF PoolInv
          <5> QED BY <3>4, <5>1, <5>2, ServedThen
        <4>2. CASE block_free_count[subject] = 0
          BY <4>2, ServedNone
        <4> QED BY <2>5, <4>1, <4>2
      <3> QED BY <2>1, <2>5, <3>2, <3>3, <3>5 DEF PoolInv, Gone, CountsWaiters, pool
    <2> QED BY <2>1, <2>2, <2>4, <2>5, TakeBlockStep, WaitBlockStep
  <1> QED BY <1>1, <1>2

\* What rt_mp_free finds on the list: a waiter, who has no error; the counter
\* may speak of one that is gone.
LEMMA ResumeFirst ==
    ASSUME Now, NEW q \in Queues
    PROVE  Resume(q) = IF HasSuspended(q) /\ k.queue[q] # << >> THEN rt_ipc_list_resume(k, q) ELSE k
  <1>1. CASE HasSuspended(q) /\ k.queue[q] # << >>
    <2>1. PICK t : t = Head(k.queue[q])
      OBVIOUS
    <2>2. Waits(k, pc, object, subject) /\ Settled(k)
      BY DEF Now, Calm, Waits
    <2>3. t \in Threads /\ k.stat[t] = "suspend"
      BY <1>1, <2>1, <2>2, FirstWaiter
    <2>4. k.error[t] = "RT_EOK" /\ k.error \in [Threads -> Errors] /\ k \in KernelType
      BY <2>2, <2>3, SettledType DEF Waits
    <2>5. [k.error EXCEPT ![t] = "RT_EOK"] = k.error
      BY <2>4
    <2>6. [k EXCEPT !.error = k.error] = k
      BY <2>4 DEF KernelType
    <2>7. [k EXCEPT !.error[t] = "RT_EOK"] = k
      BY <2>5, <2>6
    <2> QED BY <1>1, <2>1, <2>7 DEF Resume, rt_ipc_list_resume, NoWaiter
  <1>2. CASE ~(HasSuspended(q) /\ k.queue[q] # << >>)
    BY <1>2 DEF Resume, NoWaiter
  <1> QED BY <1>1, <1>2

\* The invariant after rt_mp_free: the list is one shorter if somebody was
\* woken.
LEMMA FreedPool ==
    ASSUME Now, PoolInv, subject \in Pools, NEW b \in used[subject], free(subject, b), UNCHANGED subject,
           Now', k.queue[subject] # << >> => Len(k'.queue[subject]) = Len(k.queue[subject]) - 1,
           k.queue[subject] = << >> => k'.queue[subject] = << >>,
           subject \notin dying' => subject \notin dying /\ Change(subject, 1)
    PROVE  PoolInv'
  <1>1. /\ PoolData' /\ block_free_count[subject] \in Nat
        /\ block_free_count'[subject] = block_free_count[subject] + 1
        /\ suspend_thread_count[subject] \in Nat
        /\ suspend_thread_count'[subject] =
              IF HasSuspended(subject) THEN suspend_thread_count[subject] - 1
              ELSE suspend_thread_count[subject]
    BY FreeData DEF PoolInv
  <1>2. k.queue[subject] \in Seq(Threads)
    BY SettledType, MemPoolAssumption DEF Now, Calm, Waits
  <1>3. /\ Len(k.queue[subject]) <= suspend_thread_count[subject]
        /\ subject \in Deletable => suspend_thread_count[subject] = Len(k.queue[subject])
        /\ subject \notin dying => Served(k, pc, object, subject, block_free_count[subject])
    BY DEF PoolInv, CountsWaiters
  <1>4. /\ Len(k'.queue[subject]) <= suspend_thread_count'[subject]
        /\ subject \in Deletable => suspend_thread_count'[subject] = Len(k'.queue[subject])
    <2>1. CASE k.queue[subject] # << >>
      <3>1. Len(k.queue[subject]) > 0 /\ Len(k'.queue[subject]) = Len(k.queue[subject]) - 1
        BY <1>2, <2>1
      <3>2. HasSuspended(subject)
        BY <1>1, <1>2, <1>3, <3>1 DEF HasSuspended
      <3> QED BY <1>1, <1>2, <1>3, <3>1, <3>2
    <2>2. CASE k.queue[subject] = << >>
      <3>1. Len(k.queue[subject]) = 0 /\ Len(k'.queue[subject]) = 0
        BY <2>2
      <3> QED BY <1>1, <1>3, <3>1 DEF HasSuspended
    <2> QED BY <2>1, <2>2
  <1>5. ASSUME subject \notin dying'
        PROVE  Served(k', pc', object', subject, block_free_count'[subject])
    <2>1. Change(subject, 1) /\ Served(k, pc, object, subject, block_free_count[subject])
      BY <1>3, <1>5
    <2>2. block_free_count[subject] \in Int /\ block_free_count'[subject] \in Int /\ 1 \in Int
          /\ block_free_count'[subject] <= block_free_count[subject] + 1
      BY <1>1
    <2> QED BY ONLY <2>1, <2>2, ServedThen
  <1> QED BY <1>1, <1>4, <1>5 DEF PoolInv, CountsWaiters

\* What is to be had on an empty list is nobody's concern.
LEMMA NobodyWaits ==
    ASSUME NEW q, NEW d, k'.queue[q] = << >>
    PROVE  Change(q, d)
  BY DEF Change, Gains, Served

\* rt_mp_free by a thread.
LEMMA FreeStep ==
    ASSUME Now, PoolInv, subject \in Pools, NEW s \in Threads, NEW q \in Pools, NEW b \in Blocks[q],
           rt_mp_free(s, q, b), UNCHANGED subject
    PROVE  Now' /\ PoolInv'
  <1>1. /\ Running(s, "user") /\ Usable(q) /\ b \in used[q] /\ free(q, b) /\ k' = Resume(q)
        /\ HasSuspended(q) => Goto(s, "schedule")
        /\ ~HasSuspended(q) => UNCHANGED pc
        /\ UNCHANGED <<object, dying>>
    BY DEF rt_mp_free
  <1>2. q \in Queues /\ q = subject /\ subject \notin dying
    BY <1>1, SingleAlone, MemPoolAssumption DEF Singles
  <1>3. /\ k.stat[s] = "ready" /\ s # Idle /\ pc[s] = "user" /\ Waits(k, pc, object, subject)
        /\ ~IsOnWay(s, q)
    BY <1>1, RunningReady, NotOnWay DEF WaitPoints
  <1>4. PICK a \in Queues : a = q
    BY <1>2
  <1>5. CASE HasSuspended(q) /\ k.queue[q] # << >>
    <2>1. k' = rt_ipc_list_resume(k, q) /\ Goto(s, "schedule")
      BY <1>1, <1>2, <1>5, ResumeFirst
    <2>2. Gave(s, q)
      <3>1. pc[s] # "resuming" /\ object' \in {object, [object EXCEPT ![s] = a]}
        BY <1>1, <1>3
      <3> QED BY <1>1, <1>2, <1>3, <1>5, <2>1, <3>1, WakeStep
    <2>3. Len(k'.queue[q]) = Len(k.queue[q]) - 1
      BY <1>2, <1>3, <1>5, <2>1, WakeLength
    <2> QED BY <1>1, <1>2, <1>3, <1>5, <2>2, <2>3, FreedPool DEF Gave
  <1>6. CASE HasSuspended(q) /\ k.queue[q] = << >>
    <2>1. k' = k /\ Goto(s, "schedule")
      BY <1>1, <1>2, <1>6, ResumeFirst
    <2>2. "schedule" \in Points \ (WaitPoints \cup {"resuming", "dq_reset"}) /\ ~("schedule" \notin Outside)
      BY DEF Points, WaitPoints, Outside
    <2>3. Gone(s)
      <3>1. pc[s] # "resuming" /\ object' \in {object, [object EXCEPT ![s] = a]} /\ UNCHANGED <<k, dying, subject>>
        BY <1>1, <1>3, <2>1
      <3> QED BY ONLY Now, s \in Threads, a \in Queues, <1>3, <2>1, <2>2, <3>1, GoStep
    <2> QED BY <1>1, <1>2, <1>6, <2>1, <2>3, FreedPool, NobodyWaits DEF Gone
  <1>7. CASE ~HasSuspended(q)
    <2>1. k' = k /\ UNCHANGED <<pc, object, dying>>
      BY <1>1, <1>2, <1>7, ResumeFirst
    <2>2. Now'
      BY <2>1 DEF Now
    <2>3. k.queue[q] = << >>
      <3>1. suspend_thread_count[q] = 0 /\ Len(k.queue[q]) <= suspend_thread_count[q]
        BY <1>2, <1>7 DEF PoolInv, PoolData, MemPoolType, HasSuspended
      <3>2. k.queue[q] \in Seq(Threads)
        BY <1>2, <1>3, SettledType DEF Waits
      <3> QED BY <3>1, <3>2
    <2> QED BY <1>1, <1>2, <2>1, <2>2, <2>3, FreedPool, NobodyWaits
  <1> QED BY <1>5, <1>6, <1>7

\* rt_mp_free by a handler.
LEMMA IsrFreeStep ==
    ASSUME Now, PoolInv, subject \in Pools, NEW q \in Pools, NEW b \in Blocks[q],
           isr_free(q, b), UNCHANGED subject
    PROVE  Now' /\ PoolInv'
  <1>1. /\ Usable(q) /\ b \in used[q] /\ free(q, b)
        /\ k' = IF HasSuspended(q) THEN rt_schedule(Resume(q)) ELSE k
        /\ UNCHANGED <<pc, object, dying>>
    BY DEF isr_free
  <1>2. q \in Queues /\ q = subject /\ subject \notin dying
    BY <1>1, SingleAlone, MemPoolAssumption DEF Singles
  <1>3. Waits(k, pc, object, subject) /\ k \in KernelType /\ pc \in [Threads -> Points]
    BY SettledType DEF Now, Calm, Waits
  <1>5. CASE HasSuspended(q) /\ k.queue[q] # << >>
    <2>1. k' = rt_schedule(rt_ipc_list_resume(k, q))
      BY <1>1, <1>2, <1>5, ResumeFirst
    <2>2. Given(q)
      <3>1. HandlerGave(rt_schedule(rt_ipc_list_resume(k, q)), q)
        BY <1>2, <1>5, WakeAndSwitch
      <3> QED BY <1>1, <1>2, <2>1, <3>1, HandlerStep
    <2>3. Len(k'.queue[q]) = Len(k.queue[q]) - 1
      BY <1>2, <1>3, <1>5, <2>1, WakeLength, SwitchQueues
    <2> QED BY <1>1, <1>2, <1>3, <1>5, <2>2, <2>3, FreedPool DEF Given
  <1>6. CASE HasSuspended(q) /\ k.queue[q] = << >>
    <2>1. k' = rt_schedule(k)
      BY <1>1, <1>2, <1>6, ResumeFirst
    <2>2. pc' \in [Threads -> Points] /\ \A x \in Threads : GoesOn(x)
      BY <1>1, <1>3 DEF GoesOn
    <2>3. Idled
      BY <1>1, <1>3, <2>1, <2>2, SwitchIdles
    <2>4. k'.queue[q] = << >>
      BY <1>3, <1>6, <2>1, SwitchQueues
    <2> QED BY <1>1, <1>2, <1>6, <2>3, <2>4, FreedPool, NobodyWaits DEF Idled
  <1>7. CASE ~HasSuspended(q)
    <2>1. k' = k
      BY <1>1, <1>7
    <2>2. Now'
      BY <1>1, <2>1 DEF Now
    <2>3. k.queue[q] = << >>
      <3>1. suspend_thread_count[q] = 0 /\ Len(k.queue[q]) <= suspend_thread_count[q]
        BY <1>2, <1>7 DEF PoolInv, PoolData, MemPoolType, HasSuspended
      <3>2. k.queue[q] \in Seq(Threads)
        BY <1>2, <1>3, SettledType DEF Waits
      <3> QED BY <3>1, <3>2
    <2> QED BY <1>1, <1>2, <2>1, <2>2, <2>3, FreedPool, NobodyWaits
  <1> QED BY <1>5, <1>6, <1>7

\* The start of the detach of an object with one list.
LEMMA SingleDetach ==
    ASSUME Now, subject \in Singles, NEW s \in Threads, NEW q \in Queues, detach(s, q),
           subject \notin Pools => OnlyWaiters({q}), UNCHANGED subject
    PROVE  Detached /\ q = subject /\ subject \in dying' /\ k' = k
  <1>1. /\ Running(s, "user") /\ q \in Deletable /\ Usable(q) /\ dying' = dying \cup {q} /\ k' = k
        /\ IF k.queue[q] = << >> THEN UNCHANGED <<pc, object>>
           ELSE Goto(s, "resuming") /\ object' = [object EXCEPT ![s] = q]
    BY DEF detach, NoWaiter
  <1>2. q = subject /\ SubjectLists(subject) = {subject} /\ subject \in Detachable /\ subject \notin dying
    BY <1>1, SingleAlone
  <1>3. CASE k.queue[q] # << >>
    <2>1. Looks(s, k)
      BY <1>1, <1>2, <1>3 DEF Looks
    <2>2. Detached
      <3>1. subject \notin Pools => OnlyWaiters(SubjectLists(subject))
        BY <1>2
      <3> QED BY <1>1, <1>2, <2>1, <3>1, DetachStep
    <2> QED BY <1>1, <1>2, <2>2
  <1>4. CASE k.queue[q] = << >>
    <2>1. UNCHANGED <<k, pc, object, subject>> /\ dying' = dying \cup {subject}
      BY <1>1, <1>2, <1>4
    <2>2. /\ Waits(k, pc, object, subject) /\ Runs(k, pc) /\ Detaching(k, pc, object, dying, subject)
          /\ \A t \in Threads : pc[t] # "dq_reset"
      BY DEF Now, Calm
    <2>3. Detaching(k, pc, object, dying', subject)
      <3>1. Queues \ SubjectLists(subject) \subseteq dying' /\ dying' \subseteq Queues
        BY <1>2, <2>1, <2>2 DEF Detaching
      <3>2. \A t \in Threads : pc[t] # "resuming"
        BY <1>2, <2>2 DEF Detaching
      <3>3. ASSUME NEW t \in Threads, subject \notin Pools, pc[t] \notin Outside \cup {"resuming"}
            PROVE  OutOfIt(k, pc, t)
        <4>1. pc[t] \notin {"user", "schedule"} /\ object[t] \in {q}
          BY <1>2, <2>2, <3>3, SingleAlone DEF Waits, Outside
        <4> QED BY <3>3, <4>1 DEF OnlyWaiters, OutOfIt
      <3> QED BY <1>2, <3>1, <3>2, <3>3 DEF Detaching, Detachable
    <2>4. Now'
      BY <2>1, <2>2, <2>3 DEF Now, Calm
    <2>5. \A r \in Queues : Change(r, 0) /\ Way(k', pc', object', r) = Way(k, pc, object, r)
      BY <2>1 DEF Change, Gains, Served
    <2> QED BY <1>1, <1>2, <2>4, <2>5 DEF Detached
  <1> QED BY <1>3, <1>4

\* From now to then the head of the list of q was turned away.
OneLess(q) ==
    /\ Detached /\ q \in dying' /\ k.queue[q] # << >>
    /\ k'.queue[q] = RemoveFirst(k.queue[q], Head(k.queue[q]))
    /\ k'.error[Head(k.queue[q])] = "RT_ERROR"
    /\ \A r \in Queues : \A x : Contains(k'.queue[r], x) <=>
          Contains(k.queue[r], x) /\ x # Head(k.queue[q])

\* One turn of the detach of an object with one list.
LEMMA SingleResumeOne ==
    ASSUME Now, subject \in Singles, NEW s \in Threads, resume_one(s), UNCHANGED subject
    PROVE  object[s] = subject /\ OneLess(subject) /\ UNCHANGED dying
  <1>1. /\ Running(s, "resuming") /\ k' = turn_away(k, Head(k.queue[object[s]]))
        /\ IF k'.queue[object[s]] = << >> THEN LeaveCall(s) ELSE UNCHANGED <<pc, object>>
        /\ UNCHANGED dying
    BY DEF resume_one
  <1>2. SubjectLists(subject) = {subject} /\ Scope(subject) = {subject}
    BY SingleAlone
  <1>3. /\ pc[s] = "resuming" /\ Waits(k, pc, object, subject)
        /\ pc \in [Threads -> Points] /\ object \in [Threads -> Queues]
    BY <1>1, RunningReady
  <1>4. object[s] = subject
    BY <1>2, <1>3 DEF Waits, Outside
  <1>5. Looks(s, k')
    <2>1. CASE k'.queue[subject] = << >>
      BY <1>1, <1>4, <2>1 DEF Looks
    <2>2. CASE k'.queue[subject] # << >>
      <3>1. pc' = [pc EXCEPT ![s] = "resuming"] /\ object' = [object EXCEPT ![s] = subject]
        BY <1>1, <1>3, <1>4, <2>2
      <3> QED BY <1>2, <2>2, <3>1 DEF Looks, Goto
    <2> QED BY <2>1, <2>2
  <1>6. /\ Detached /\ subject \in dying
        /\ k.queue[object[s]] # << >>
        /\ k'.queue[object[s]] = RemoveFirst(k.queue[object[s]], Head(k.queue[object[s]]))
        /\ k'.error[Head(k.queue[object[s]])] = "RT_ERROR"
        /\ \A r \in Queues : \A x : Contains(k'.queue[r], x) <=>
              Contains(k.queue[r], x) /\ x # Head(k.queue[object[s]])
    BY <1>1, <1>5, ResumeOneStep
  <1> QED BY <1>1, <1>4, <1>6 DEF OneLess

-----------------------------------------------------------------------------
(* The steps of memory pools                                               *)

\* rt_mp_detach.
LEMMA PoolDetachStep ==
    ASSUME Now, PoolInv, subject \in Pools, NEW s \in Threads, UNCHANGED subject,
           (\E q \in Pools : rt_mp_detach(s, q)) \/ detach_one(s)
    PROVE  Now' /\ PoolInv'
  <1>0. subject \in Singles /\ Pools \subseteq Queues
    BY MemPoolAssumption DEF Singles
  <1>1. ASSUME NEW q \in Pools, rt_mp_detach(s, q)
        PROVE  Now' /\ PoolInv'
    <2>1. detach(s, q) /\ UNCHANGED pool
      BY <1>1 DEF rt_mp_detach
    <2>2. Detached /\ subject \in dying' /\ k' = k
      BY <1>0, <2>1, SingleDetach
    <2>3. PoolData'
      BY <2>1 DEF PoolInv, PoolData, pool, MemPoolType, BlocksConserved
    <2> QED BY <2>1, <2>2, <2>3 DEF PoolInv, Detached, pool, CountsWaiters
  <1>2. CASE detach_one(s)
    <2>1. /\ resume_one(s) /\ object[s] \in Pools /\ UNCHANGED <<block_free_count, block_list, used>>
          /\ suspend_thread_count' = [suspend_thread_count EXCEPT ![object[s]] = @ - 1]
      BY <1>2 DEF detach_one
    <2>2. object[s] = subject /\ OneLess(subject)
      BY <1>0, <2>1, SingleResumeOne
    <2>3. k.queue[subject] \in Seq(Threads) /\ IsInjective(k.queue[subject])
      BY <1>0, SettledType DEF Now, Calm, Waits
    <2>4. Len(k'.queue[subject]) = Len(k.queue[subject]) - 1 /\ Len(k.queue[subject]) \in Nat \ {0}
      <3>1. Contains(k.queue[subject], Head(k.queue[subject])) /\ k.queue[subject] # << >>
        BY <2>2, <2>3, EmptyList DEF OneLess
      <3>2. Len(RemoveFirst(k.queue[subject], Head(k.queue[subject]))) = Len(k.queue[subject]) - 1
        BY <2>3, <3>1, UnlinkLength
      <3> QED BY <2>2, <2>3, <3>1, <3>2 DEF OneLess
    <2>5. /\ Len(k.queue[subject]) <= suspend_thread_count[subject]
          /\ subject \in Deletable => suspend_thread_count[subject] = Len(k.queue[subject])
          /\ suspend_thread_count \in [Pools -> Nat]
      BY DEF PoolInv, PoolData, CountsWaiters, MemPoolType
    <2>6. /\ suspend_thread_count' \in [Pools -> Nat]
          /\ suspend_thread_count'[subject] = suspend_thread_count[subject] - 1
          /\ \A r \in Pools : r # subject => suspend_thread_count'[r] = suspend_thread_count[r]
      BY <2>1, <2>2, <2>4, <2>5
    <2>7. PoolData'
      BY <2>1, <2>6 DEF PoolInv, PoolData, MemPoolType, BlocksConserved
    <2>8. Now' /\ subject \in dying'
      BY <2>2 DEF OneLess, Detached
    <2> QED BY <2>4, <2>5, <2>6, <2>7, <2>8 DEF PoolInv, CountsWaiters
  <1> QED BY <1>1, <1>2

\* The background of pools.
LEMMA PoolBackgroundStep ==
    ASSUME Now, PoolInv, subject \in Pools, Background, UNCHANGED <<pool, subject>>
    PROVE  Now' /\ PoolInv'
  <1>1. Idled
    BY BackgroundStep
  <1>2. subject \in Queues /\ (Untimed(subject) <=> subject \in Deletable) /\ (subject \notin dying' => subject \notin dying)
    BY SingleAlone DEF Singles, Background, ScheduleStep, tick_yield, timeout
  <1>3. PoolData'
    BY DEF PoolInv, PoolData, pool, MemPoolType, BlocksConserved
  <1>4. k.queue[subject] \in Seq(Threads) /\ IsInjective(k.queue[subject])
    BY <1>2, SettledType DEF Now, Calm, Waits
  <1>5. Len(k'.queue[subject]) <= Len(k.queue[subject]) /\ Len(k'.queue[subject]) \in Nat
    <2>1. CASE k'.queue[subject] = k.queue[subject]
      BY <1>4, <2>1
    <2>2. ASSUME NEW t \in Threads, k'.queue[subject] = RemoveFirst(k.queue[subject], t)
          PROVE  Len(k'.queue[subject]) <= Len(k.queue[subject]) /\ Len(k'.queue[subject]) \in Nat
      <3>1. Len(RemoveFirst(k.queue[subject], t)) =
               IF Contains(k.queue[subject], t) THEN Len(k.queue[subject]) - 1 ELSE Len(k.queue[subject])
        BY <1>4, UnlinkLength
      <3>2. Contains(k.queue[subject], t) => Len(k.queue[subject]) > 0
        BY <1>4 DEF Contains
      <3>3. Len(k.queue[subject]) \in Nat
        BY <1>4
      <3> QED BY <2>2, <3>1, <3>2, <3>3
    <2> QED BY <1>1, <1>2, <2>1, <2>2 DEF Idled
  <1>6. suspend_thread_count[subject] \in Nat /\ block_free_count[subject] \in Nat
        /\ Len(k.queue[subject]) <= suspend_thread_count[subject] /\ Len(k.queue[subject]) \in Nat
    BY <1>4 DEF PoolInv, PoolData, MemPoolType
  <1>7. Len(k'.queue[subject]) <= suspend_thread_count[subject]
    BY <1>5, <1>6
  <1>8. subject \in Deletable => suspend_thread_count[subject] = Len(k'.queue[subject])
    BY <1>1, <1>2 DEF Idled, PoolInv, CountsWaiters
  <1>9. subject \notin dying' => Served(k', pc', object', subject, block_free_count[subject])
    <2> HAVE subject \notin dying'
    <2>1. Change(subject, 0) /\ Served(k, pc, object, subject, block_free_count[subject])
      BY <1>1, <1>2 DEF Idled, PoolInv
    <2> QED BY <1>6, <2>1, ServedThen
  <1> QED BY <1>1, <1>3, <1>7, <1>8, <1>9 DEF Idled, PoolInv, pool, CountsWaiters

\* Every step of a pool.
LEMMA PoolStep ==
    ASSUME Now, PoolInv, subject \in Pools, MemPoolNext, UNCHANGED subject
    PROVE  Now' /\ PoolInv'
  BY AllocStep, FreeStep, IsrFreeStep, PoolDetachStep, PoolBackgroundStep DEF MemPoolNext
-----------------------------------------------------------------------------
(* Mailboxes                                                               *)

\* The lists of the mailbox that exists are those of the calls.
LEMMA MailboxAlone ==
    ASSUME Now, subject \in Mailboxes
    PROVE  /\ subject \in Queues /\ suspend_sender_thread[subject] \in Queues \ {subject}
           /\ SubjectLists(subject) = {subject, suspend_sender_thread[subject]}
           /\ Scope(subject) = {subject, suspend_sender_thread[subject]}
           /\ \A m \in Mailboxes : Usable(m) => m = subject /\ subject \notin dying
           /\ \A m \in Mailboxes : m \in Scope(subject) => m = subject
           /\ \A m \in Mailboxes : suspend_sender_thread[m] \in Scope(subject) => m = subject
           /\ subject \notin UNION {Pools, DataQueues, Pipes, Completions}
           /\ subject \in Deletable => subject \in Detachable
           /\ Untimed(subject) <=> subject \in Deletable
  <1>1. subject \notin UNION {Pools, DataQueues, Pipes, Completions}
    BY KindsApart
  <1>2. /\ suspend_sender_thread \in [Mailboxes -> Queues] /\ Mailboxes \subseteq Queues
        /\ \A m \in Mailboxes : suspend_sender_thread[m] \notin Mailboxes
        /\ \A m, n \in Mailboxes : suspend_sender_thread[m] = suspend_sender_thread[n] => m = n
    <2>1. \A m \in Mailboxes : suspend_sender_thread[m] \in Senders
      BY DEF Senders
    <2>2. DOMAIN suspend_sender_thread = Mailboxes /\ IsInjective(suspend_sender_thread)
      BY MailboxAssumption
    <2>3. \A m, n \in Mailboxes : suspend_sender_thread[m] = suspend_sender_thread[n] => m = n
      BY ONLY <2>2 DEF IsInjective
    <2> QED BY <2>1, <2>3, MailboxAssumption
  <1>3. SubjectLists(subject) = {subject, suspend_sender_thread[subject]}
    BY <1>1 DEF SubjectLists
  <1>4. Scope(subject) = {subject, suspend_sender_thread[subject]}
    BY <1>1, <1>3 DEF Scope
  <1>5. ASSUME NEW m \in Mailboxes, Usable(m)
        PROVE  m = subject /\ subject \notin dying
    <2>1. m \in SubjectLists(subject)
      BY <1>2, <1>5, OnlySubject DEF Now, Calm, Usable
    <2> QED BY <1>2, <1>3, <1>5, <2>1 DEF Usable
  <1> QED BY <1>1, <1>2, <1>3, <1>4, <1>5 DEF Detachable, Untimed

\* The fields of a mailbox. The mails lie between the two offsets.
MailRecord(m) ==
    [msg_pool   : [0 .. mb_size[m] - 1 -> Range(mail)],
     entry      : 0 .. mb_size[m],
     in_offset  : 0 .. mb_size[m] - 1,
     out_offset : 0 .. mb_size[m] - 1]
Placed(r, size) ==
    r.in_offset = IF r.out_offset + r.entry < size THEN r.out_offset + r.entry
                  ELSE r.out_offset + r.entry - size
MailData ==
    /\ DOMAIN mb = Mailboxes
    /\ \A m \in Mailboxes : mb[m] \in MailRecord(m) /\ Placed(mb[m], mb_size[m])

\* For each mail a receiver is on its way while some wait, and for each free
\* place a sender.
MailInv ==
    /\ MailData
    /\ subject \in Mailboxes /\ subject \notin dying =>
          /\ Served(k, pc, object, subject, mb[subject].entry)
          /\ Served(k, pc, object, suspend_sender_thread[subject],
                    mb_size[subject] - mb[subject].entry)

\* One mailbox changed.
MailChanged(m, pool_, e, i, o) ==
    /\ DOMAIN mb' = Mailboxes
    /\ mb'[m] = [msg_pool |-> pool_, entry |-> e, in_offset |-> i, out_offset |-> o]
    /\ \A n \in Mailboxes : n # m => mb'[n] = mb[n]

\* What put_mail and get_mail do to the fields.
LEMMA PutMailData ==
    ASSUME MailData, NEW m \in Mailboxes, NEW value \in Range(mail), ~IsFull(m), put_mail(m, value)
    PROVE  /\ MailData'
           /\ MailChanged(m, [mb[m].msg_pool EXCEPT ![mb[m].in_offset] = value],
                          mb[m].entry + 1, Next_offset(m, mb[m].in_offset), mb[m].out_offset)
           /\ mb[m] \in MailRecord(m) /\ mb_size[m] \in Nat \ {0}
  <1>1. mb[m] \in MailRecord(m) /\ DOMAIN mb = Mailboxes /\ Placed(mb[m], mb_size[m])
        /\ mb_size[m] \in Nat \ {0}
    BY MailboxAssumption DEF MailData
  <1>2. mb' = [mb EXCEPT ![m] = [msg_pool   |-> [mb[m].msg_pool EXCEPT ![mb[m].in_offset] = value],
                                 entry      |-> mb[m].entry + 1,
                                 in_offset  |-> Next_offset(m, mb[m].in_offset),
                                 out_offset |-> mb[m].out_offset]]
    BY <1>1 DEF put_mail, MailRecord
  <1>3. MailChanged(m, [mb[m].msg_pool EXCEPT ![mb[m].in_offset] = value],
                    mb[m].entry + 1, Next_offset(m, mb[m].in_offset), mb[m].out_offset)
    BY <1>1, <1>2 DEF MailChanged
  <1>4. mb'[m] \in MailRecord(m) /\ Placed(mb'[m], mb_size[m])
    <2>1. [mb[m].msg_pool EXCEPT ![mb[m].in_offset] = value] \in [0 .. mb_size[m] - 1 -> Range(mail)]
      BY <1>1 DEF MailRecord
    <2>2. mb[m].entry + 1 \in 0 .. mb_size[m]
      BY <1>1 DEF MailRecord, IsFull
    <2>3. Next_offset(m, mb[m].in_offset) \in 0 .. mb_size[m] - 1 /\ mb[m].out_offset \in 0 .. mb_size[m] - 1
      BY <1>1 DEF MailRecord, Next_offset
    <2>4. mb'[m] \in MailRecord(m)
      BY <1>3, <2>1, <2>2, <2>3 DEF MailChanged, MailRecord
    <2>5. Placed(mb'[m], mb_size[m])
      <3>1. PICK z, e, i, x : z = mb_size[m] /\ e = mb[m].entry /\ i = mb[m].in_offset
                              /\ x = mb[m].out_offset
        OBVIOUS
      <3>2. e \in Nat /\ i \in Nat /\ x \in Nat /\ z \in Nat /\ e < z /\ x < z
        BY <1>1, <3>1 DEF MailRecord, IsFull
      <3>3. i = IF x + e < z THEN x + e ELSE x + e - z
        BY <1>1, <3>1 DEF Placed
      <3>4. PICK n : n = Next_offset(m, i)
        OBVIOUS
      <3>5. n = IF i + 1 >= z THEN 0 ELSE i + 1
        BY <3>1, <3>4 DEF Next_offset
      <3>6. n = IF x + (e + 1) < z THEN x + (e + 1) ELSE x + (e + 1) - z
        BY ONLY <3>2, <3>3, <3>5
      <3>7. mb'[m].entry = e + 1 /\ mb'[m].in_offset = n /\ mb'[m].out_offset = x
        BY <1>3, <3>1, <3>4 DEF MailChanged
      <3> QED BY ONLY <3>1, <3>6, <3>7 DEF Placed
    <2> QED BY <2>4, <2>5
  <1>5. MailData'
    BY <1>1, <1>3, <1>4 DEF MailData, MailChanged
  <1> QED BY <1>1, <1>3, <1>5

LEMMA GetMailData ==
    ASSUME MailData, NEW m \in Mailboxes, ~IsEmpty(m), get_mail(m)
    PROVE  /\ MailData'
           /\ MailChanged(m, mb[m].msg_pool, mb[m].entry - 1, mb[m].in_offset,
                          Next_offset(m, mb[m].out_offset))
           /\ mb[m] \in MailRecord(m) /\ mb_size[m] \in Nat \ {0}
  <1>1. mb[m] \in MailRecord(m) /\ DOMAIN mb = Mailboxes /\ Placed(mb[m], mb_size[m])
        /\ mb_size[m] \in Nat \ {0}
    BY MailboxAssumption DEF MailData
  <1>2. mb' = [mb EXCEPT ![m] = [msg_pool   |-> mb[m].msg_pool,
                                 entry      |-> mb[m].entry - 1,
                                 in_offset  |-> mb[m].in_offset,
                                 out_offset |-> Next_offset(m, mb[m].out_offset)]]
    BY <1>1 DEF get_mail, MailRecord
  <1>3. MailChanged(m, mb[m].msg_pool, mb[m].entry - 1, mb[m].in_offset,
                    Next_offset(m, mb[m].out_offset))
    BY <1>1, <1>2 DEF MailChanged
  <1>4. mb'[m] \in MailRecord(m) /\ Placed(mb'[m], mb_size[m])
    <2>1. mb[m].entry - 1 \in 0 .. mb_size[m]
      BY <1>1 DEF MailRecord, IsEmpty
    <2>2. Next_offset(m, mb[m].out_offset) \in 0 .. mb_size[m] - 1 /\ mb[m].in_offset \in 0 .. mb_size[m] - 1
      BY <1>1 DEF MailRecord, Next_offset
    <2>3. mb'[m] \in MailRecord(m)
      BY <1>1, <1>3, <2>1, <2>2 DEF MailChanged, MailRecord
    <2>4. Placed(mb'[m], mb_size[m])
      <3>1. PICK z, e, i, x : z = mb_size[m] /\ e = mb[m].entry /\ i = mb[m].in_offset
                              /\ x = mb[m].out_offset
        OBVIOUS
      <3>2. e \in Nat /\ i \in Nat /\ x \in Nat /\ z \in Nat /\ e # 0 /\ x < z /\ e <= z
        BY <1>1, <3>1 DEF MailRecord, IsEmpty
      <3>3. i = IF x + e < z THEN x + e ELSE x + e - z
        BY <1>1, <3>1 DEF Placed
      <3>4. PICK n : n = Next_offset(m, x)
        OBVIOUS
      <3>5. n = IF x + 1 >= z THEN 0 ELSE x + 1
        BY <3>1, <3>4 DEF Next_offset
      <3>6. i = IF n + (e - 1) < z THEN n + (e - 1) ELSE n + (e - 1) - z
        BY ONLY <3>2, <3>3, <3>5
      <3>7. mb'[m].entry = e - 1 /\ mb'[m].in_offset = i /\ mb'[m].out_offset = n
        BY <1>3, <3>1, <3>4 DEF MailChanged
      <3> QED BY ONLY <3>1, <3>6, <3>7 DEF Placed
    <2> QED BY <2>3, <2>4
  <1>5. MailData'
    BY <1>1, <1>3, <1>4 DEF MailData, MailChanged
  <1> QED BY <1>1, <1>3, <1>5
\* The invariant from what the two lists gained.
LEMMA MailServed ==
    ASSUME Now, MailInv, subject \in Mailboxes, MailData', Now', UNCHANGED <<dying, subject>>,
           NEW d \in Int, Change(subject, d), mb'[subject].entry <= mb[subject].entry + d,
           NEW e \in Int, Change(suspend_sender_thread[subject], e),
           mb[subject].entry <= mb'[subject].entry + e
    PROVE  MailInv'
  <1>1. /\ mb[subject].entry \in Int /\ mb'[subject].entry \in Int /\ mb_size[subject] \in Int
        /\ mb_size[subject] - mb[subject].entry \in Int /\ mb_size[subject] - mb'[subject].entry \in Int
        /\ mb_size[subject] - mb'[subject].entry <= (mb_size[subject] - mb[subject].entry) + e
    BY MailboxAssumption DEF MailInv, MailData, MailRecord
  <1>2. ASSUME subject \notin dying
        PROVE  /\ Served(k', pc', object', subject, mb'[subject].entry)
               /\ Served(k', pc', object', suspend_sender_thread[subject],
                         mb_size[subject] - mb'[subject].entry)
    <2>1. /\ Served(k, pc, object, subject, mb[subject].entry)
          /\ Served(k, pc, object, suspend_sender_thread[subject], mb_size[subject] - mb[subject].entry)
      BY <1>2 DEF MailInv
    <2>2. Served(k', pc', object', subject, mb'[subject].entry)
      BY <1>1, <2>1, ServedThen
    <2>3. Served(k', pc', object', suspend_sender_thread[subject], mb_size[subject] - mb'[subject].entry)
      BY <1>1, <2>1, ServedThen
    <2> QED BY <2>2, <2>3
  <1> QED BY <1>2 DEF MailInv

\* A mail is sent or received, or the call waits.
LEMMA SendMailStep ==
    ASSUME Now, MailInv, subject \in Mailboxes, NEW s \in Threads, subject \notin dying,
           k.stat[s] = "ready", s # Idle, pc[s] # "resuming", ~IsOnWay(s, subject),
           send_mail(s, subject), UNCHANGED <<dying, subject>>
    PROVE  Now' /\ MailInv'
  <1>1. /\ subject \in Queues /\ suspend_sender_thread[subject] \in Queues
        /\ suspend_sender_thread[subject] # subject
    BY MailboxAlone
  <1>2. mail[s] \in Range(mail)
    BY MailboxAssumption DEF Range
  <1>3. MailData' /\ mb'[subject].entry = mb[subject].entry + 1
        /\ mb[subject].entry \in Int
    <2>1. MailData /\ ~IsFull(subject) /\ put_mail(subject, mail[s])
      BY DEF send_mail, MailInv
    <2>2. /\ MailData'
          /\ MailChanged(subject, [mb[subject].msg_pool EXCEPT ![mb[subject].in_offset] = mail[s]],
                         mb[subject].entry + 1, Next_offset(subject, mb[subject].in_offset),
                         mb[subject].out_offset)
          /\ mb[subject] \in MailRecord(subject)
      BY <1>2, <2>1, PutMailData
    <2> QED BY <2>2 DEF MailChanged, MailRecord
  <1>4. Gave(s, subject)
    BY <1>1, LeaveWakingStep DEF send_mail
  <1>5. Now' /\ Change(subject, 1) /\ Change(suspend_sender_thread[subject], -1)
    BY <1>1, <1>4 DEF Gave
  <1>6. mb'[subject].entry <= mb[subject].entry + 1 /\ mb[subject].entry <= mb'[subject].entry + (-1)
        /\ 1 \in Int /\ -1 \in Int
    BY <1>3
  <1> QED BY <1>3, <1>5, <1>6, MailServed

LEMMA RecvMailStep ==
    ASSUME Now, MailInv, subject \in Mailboxes, NEW s \in Threads, subject \notin dying,
           k.stat[s] = "ready", s # Idle, pc[s] # "resuming",
           ~IsOnWay(s, suspend_sender_thread[subject]),
           recv_mail(s, subject), UNCHANGED <<dying, subject>>
    PROVE  Now' /\ MailInv'
  <1>1. /\ subject \in Queues /\ suspend_sender_thread[subject] \in Queues
        /\ suspend_sender_thread[subject] # subject
    BY MailboxAlone
  <1>3. MailData' /\ mb'[subject].entry = mb[subject].entry - 1
        /\ mb[subject].entry \in Int
    <2>1. MailData /\ ~IsEmpty(subject) /\ get_mail(subject)
      BY DEF recv_mail, MailInv
    <2>2. /\ MailData'
          /\ MailChanged(subject, mb[subject].msg_pool, mb[subject].entry - 1,
                         mb[subject].in_offset, Next_offset(subject, mb[subject].out_offset))
          /\ mb[subject] \in MailRecord(subject)
      BY <2>1, GetMailData
    <2> QED BY <2>2 DEF MailChanged, MailRecord
  <1>4. Gave(s, suspend_sender_thread[subject])
    BY <1>1, LeaveWakingStep DEF recv_mail
  <1>5. Now' /\ Change(subject, -1) /\ Change(suspend_sender_thread[subject], 1)
    BY <1>1, <1>4 DEF Gave
  <1>6. mb'[subject].entry <= mb[subject].entry + (-1) /\ mb[subject].entry <= mb'[subject].entry + 1
        /\ 1 \in Int /\ -1 \in Int
    BY <1>3
  <1> QED BY <1>3, <1>5, <1>6, MailServed

\* The call waits on list q; on the other one nobody is lost.
LEMMA WaitMailStep ==
    ASSUME Now, MailInv, subject \in Mailboxes, NEW s \in Threads, subject \notin dying,
           k.current = s, k.stat[s] = "ready", s # Idle, pc[s] # "resuming",
           \/ ~IsOnWay(s, subject) /\ wait_room(s, subject)
           \/ ~IsOnWay(s, suspend_sender_thread[subject]) /\ wait_mail(s, subject),
           UNCHANGED <<dying, subject>>
    PROVE  Now' /\ MailInv'
  <1>1. /\ subject \in Queues /\ suspend_sender_thread[subject] \in Queues
        /\ suspend_sender_thread[subject] # subject
        /\ Scope(subject) = {subject, suspend_sender_thread[subject]}
        /\ Untimed(subject) <=> subject \in Deletable
    BY MailboxAlone
  <1>2. mb' = mb
    BY DEF wait_room, wait_mail
  <1>3. MailData' /\ mb[subject].entry \in Int /\ mb_size[subject] \in Int
    BY <1>2, MailboxAssumption DEF MailInv, MailData, MailRecord
  <1>4. PICK f : f = mb_flag[subject]
    OBVIOUS
  <1>5. PICK timed \in BOOLEAN : timed = (subject \notin Deletable)
    OBVIOUS
  <1>6. timed => ~Untimed(subject)
    BY <1>1, <1>5
  <1>7. ASSUME ~IsOnWay(s, subject), wait_room(s, subject)
        PROVE  Now' /\ MailInv'
    <2>1. IsFull(subject) /\ WaitOn(s, suspend_sender_thread[subject], f, timed)
      BY <1>4, <1>5, <1>7 DEF wait_room
    <2>2. Parked(s, suspend_sender_thread[subject])
      BY <1>1, <1>6, <2>1, WaitOnStep
    <2>3. Now' /\ Change(subject, 0)
      BY <1>1, <1>7, <2>2 DEF Parked
    <2>4. Served(k', pc', object', suspend_sender_thread[subject], mb_size[subject] - mb'[subject].entry)
      BY <1>2, <1>3, <2>1, ServedNone DEF IsFull
    <2>5. Served(k', pc', object', subject, mb'[subject].entry)
      <3>1. Served(k, pc, object, subject, mb[subject].entry)
        BY DEF MailInv
      <3> QED BY <1>2, <1>3, <2>3, <3>1, ServedThen
    <2> QED BY <1>3, <2>3, <2>4, <2>5 DEF MailInv
  <1>8. ASSUME ~IsOnWay(s, suspend_sender_thread[subject]), wait_mail(s, subject)
        PROVE  Now' /\ MailInv'
    <2>1. IsEmpty(subject) /\ WaitOn(s, subject, f, timed)
      BY <1>4, <1>5, <1>8 DEF wait_mail
    <2>2. Parked(s, subject)
      BY <1>1, <1>6, <2>1, WaitOnStep
    <2>3. Now' /\ Change(suspend_sender_thread[subject], 0)
      BY <1>1, <1>8, <2>2 DEF Parked
    <2>4. Served(k', pc', object', subject, mb'[subject].entry)
      BY <1>2, <1>3, <2>1, ServedNone DEF IsEmpty
    <2>5. Served(k', pc', object', suspend_sender_thread[subject], mb_size[subject] - mb'[subject].entry)
      <3>1. Served(k, pc, object, suspend_sender_thread[subject], mb_size[subject] - mb[subject].entry)
            /\ mb_size[subject] - mb[subject].entry \in Int
        BY <1>3 DEF MailInv
      <3> QED BY <1>2, <2>3, <3>1, ServedThen
    <2> QED BY <1>3, <2>3, <2>4, <2>5 DEF MailInv
  <1> QED BY <1>7, <1>8

\* A call ends without having sent or received anything: it has an error, or
\* nothing to be had is left.
LEMMA QuitStep ==
    ASSUME Now, NEW s \in Threads, Running(s, "woken"), LeaveCall(s), UNCHANGED <<k, dying, subject>>
    PROVE  /\ Gone(s)
           /\ \A r \in Queues : k.error[s] # "RT_EOK" \/ object[s] # r => Change(r, 0)
  <1>1. k.stat[s] = "ready" /\ s # Idle /\ pc[s] # "resuming"
    BY RunningReady
  <1>2. LeaveTo(s, "user") /\ "user" \in Outside
    BY DEF LeaveCall, Outside
  <1>3. Gone(s)
    BY <1>1, <1>2, LeaveStep
  <1> QED BY <1>3, NotOnWay DEF Gone

LEMMA QuitMailStep ==
    ASSUME Now, MailInv, subject \in Mailboxes, NEW s \in Threads, Running(s, "woken"),
           LeaveCall(s), UNCHANGED <<k, dying, subject, mb>>,
           \/ k.error[s] # "RT_EOK"
           \/ object[s] = subject /\ IsEmpty(subject)
           \/ object[s] = suspend_sender_thread[subject] /\ IsFull(subject)
    PROVE  Now' /\ MailInv'
  <1>1. /\ subject \in Queues /\ suspend_sender_thread[subject] \in Queues
        /\ suspend_sender_thread[subject] # subject
    BY MailboxAlone
  <1>2. /\ Now'
        /\ \A r \in Queues : k.error[s] # "RT_EOK" \/ object[s] # r => Change(r, 0)
    BY QuitStep DEF Gone
  <1>3. MailData' /\ mb[subject].entry \in Int /\ mb_size[subject] \in Int
        /\ mb_size[subject] - mb[subject].entry \in Int
    BY MailboxAssumption DEF MailInv, MailData, MailRecord
  <1>4. ASSUME subject \notin dying
        PROVE  /\ Served(k', pc', object', subject, mb[subject].entry)
               /\ Served(k', pc', object', suspend_sender_thread[subject], mb_size[subject] - mb[subject].entry)
    <2>1. /\ Served(k, pc, object, subject, mb[subject].entry)
          /\ Served(k, pc, object, suspend_sender_thread[subject], mb_size[subject] - mb[subject].entry)
      BY <1>4 DEF MailInv
    <2>2. Change(subject, 0) => Served(k', pc', object', subject, mb[subject].entry)
      BY <1>3, <2>1, ServedThen
    <2>3. Change(suspend_sender_thread[subject], 0) =>
             Served(k', pc', object', suspend_sender_thread[subject], mb_size[subject] - mb[subject].entry)
      BY <1>3, <2>1, ServedThen
    <2>4. IsEmpty(subject) => Served(k', pc', object', subject, mb[subject].entry)
      BY <1>3, ServedNone DEF IsEmpty
    <2>5. IsFull(subject) =>
             Served(k', pc', object', suspend_sender_thread[subject], mb_size[subject] - mb[subject].entry)
      BY <1>3, ServedNone DEF IsFull
    <2> QED BY <1>1, <1>2, <2>2, <2>3, <2>4, <2>5
  <1> QED BY <1>2, <1>3, <1>4 DEF MailInv
\* rt_mb_send_wait and rt_mb_recv, from their start or after a rt_schedule.
LEMMA MailCallStep ==
    ASSUME Now, MailInv, subject \in Mailboxes, NEW s \in Threads, NEW m \in Mailboxes,
           \/ rt_mb_send_wait(s, m) \/ mb_send_again(s, m)
           \/ rt_mb_recv(s, m) \/ mb_recv_again(s, m),
           UNCHANGED subject
    PROVE  Now' /\ MailInv'
  <1>1. /\ suspend_sender_thread[subject] # subject
        /\ Usable(m) => m = subject /\ subject \notin dying
        /\ m \in Scope(subject) => m = subject
        /\ suspend_sender_thread[m] \in Scope(subject) => m = subject
        /\ subject \notin Pools
    BY MailboxAlone
  <1>2. ASSUME rt_mb_send_wait(s, m) \/ rt_mb_recv(s, m)
        PROVE  Now' /\ MailInv'
    <2>1. /\ Running(s, "user") /\ Usable(m) /\ UNCHANGED dying
          /\ send_mail(s, m) \/ wait_room(s, m) \/ recv_mail(s, m) \/ wait_mail(s, m)
      BY <1>2 DEF rt_mb_send_wait, rt_mb_recv
    <2>2. m = subject /\ subject \notin dying
      BY <1>1, <2>1
    <2>3. k.current = s /\ k.stat[s] = "ready" /\ s # Idle /\ pc[s] # "resuming"
          /\ ~IsOnWay(s, subject) /\ ~IsOnWay(s, suspend_sender_thread[subject])
      BY <2>1, RunningReady, NotOnWay DEF WaitPoints
    <2> QED BY <2>1, <2>2, <2>3, SendMailStep, RecvMailStep, WaitMailStep
  <1>3. ASSUME mb_send_again(s, m)
        PROVE  Now' /\ MailInv'
    <2>1. /\ Running(s, "woken") /\ object[s] = suspend_sender_thread[m] /\ UNCHANGED dying
          /\ \/ k.error[s] # "RT_EOK" /\ LeaveCall(s) /\ UNCHANGED <<k, mb>>
             \/ k.error[s] = "RT_EOK" /\ (send_mail(s, m) \/ wait_room(s, m))
             \/ IsFull(m) /\ LeaveCall(s) /\ UNCHANGED <<k, mb>>
      BY <1>3 DEF mb_send_again, give_up
    <2>2. k.current = s /\ k.stat[s] = "ready" /\ s # Idle /\ pc[s] = "woken"
      BY <2>1, RunningReady
    <2>3. m = subject
      BY <1>1, <2>1, <2>2, InScope DEF Outside
    <2>4. ~IsOnWay(s, subject)
      BY <1>1, <2>1, <2>3, NotOnWay
    <2>5. ASSUME k.error[s] = "RT_EOK", send_mail(s, m) \/ wait_room(s, m)
          PROVE  Now' /\ MailInv'
      <3>1. subject \notin dying
        BY <1>1, <2>1, <2>5, StillThere DEF Outside
      <3> QED BY <2>1, <2>2, <2>3, <2>4, <2>5, <3>1, SendMailStep, WaitMailStep
    <2>6. ASSUME k.error[s] # "RT_EOK" \/ IsFull(m), LeaveCall(s), UNCHANGED <<k, mb>>
          PROVE  Now' /\ MailInv'
      BY <2>1, <2>3, <2>6, QuitMailStep
    <2> QED BY <2>1, <2>5, <2>6
  <1>4. ASSUME mb_recv_again(s, m)
        PROVE  Now' /\ MailInv'
    <2>1. /\ Running(s, "woken") /\ object[s] = m /\ UNCHANGED dying
          /\ \/ k.error[s] # "RT_EOK" /\ LeaveCall(s) /\ UNCHANGED <<k, mb>>
             \/ k.error[s] = "RT_EOK" /\ (recv_mail(s, m) \/ wait_mail(s, m))
             \/ IsEmpty(m) /\ LeaveCall(s) /\ UNCHANGED <<k, mb>>
      BY <1>4 DEF mb_recv_again, give_up
    <2>2. k.current = s /\ k.stat[s] = "ready" /\ s # Idle /\ pc[s] = "woken"
      BY <2>1, RunningReady
    <2>3. m = subject
      BY <1>1, <2>1, <2>2, InScope DEF Outside
    <2>4. ~IsOnWay(s, suspend_sender_thread[subject])
      BY <1>1, <2>1, <2>3, NotOnWay
    <2>5. ASSUME k.error[s] = "RT_EOK", recv_mail(s, m) \/ wait_mail(s, m)
          PROVE  Now' /\ MailInv'
      <3>1. subject \notin dying
        BY <1>1, <2>1, <2>5, StillThere DEF Outside
      <3> QED BY <2>1, <2>2, <2>3, <2>4, <2>5, <3>1, RecvMailStep, WaitMailStep
    <2>6. ASSUME k.error[s] # "RT_EOK" \/ IsEmpty(m), LeaveCall(s), UNCHANGED <<k, mb>>
          PROVE  Now' /\ MailInv'
      BY <2>1, <2>3, <2>6, QuitMailStep
    <2> QED BY <2>1, <2>5, <2>6
  <1> QED BY <1>2, <1>3, <1>4

\* rt_mb_send by a handler.
LEMMA IsrMailStep ==
    ASSUME Now, MailInv, subject \in Mailboxes, NEW m \in Mailboxes, isr_mb_send(m), UNCHANGED subject
    PROVE  Now' /\ MailInv'
  <1>1. /\ Usable(m) /\ ~IsFull(m) /\ put_mail(m, mail[Idle]) /\ IsrWaking(m)
        /\ UNCHANGED <<pc, object, dying>>
    BY DEF isr_mb_send
  <1>2. /\ subject \in Queues /\ suspend_sender_thread[subject] \in Queues \ {subject}
        /\ m = subject /\ subject \notin dying
    BY <1>1, MailboxAlone
  <1>3. mail[Idle] \in Range(mail)
    BY MailboxAssumption, IpcAssumption DEF Range
  <1>4. MailData' /\ mb'[subject].entry = mb[subject].entry + 1 /\ mb[subject].entry \in Int
    <2>1. MailData /\ ~IsFull(subject) /\ put_mail(subject, mail[Idle])
      BY <1>1, <1>2 DEF MailInv
    <2>2. /\ MailData'
          /\ MailChanged(subject, [mb[subject].msg_pool EXCEPT ![mb[subject].in_offset] = mail[Idle]],
                         mb[subject].entry + 1, Next_offset(subject, mb[subject].in_offset),
                         mb[subject].out_offset)
          /\ mb[subject] \in MailRecord(subject)
      BY <1>3, <2>1, PutMailData
    <2> QED BY <2>2 DEF MailChanged, MailRecord
  <1>5. Given(subject)
    <2>1. HandlerGave(k', subject)
      BY <1>1, <1>2, IsrWakingEffect
    <2> QED BY <1>1, <1>2, <2>1, HandlerStep
  <1>6. Now' /\ Change(subject, 1) /\ Change(suspend_sender_thread[subject], 0)
    BY <1>2, <1>5 DEF Given
  <1>7. mb'[subject].entry <= mb[subject].entry + 1 /\ mb[subject].entry <= mb'[subject].entry + 0
        /\ 1 \in Int /\ 0 \in Int
    BY <1>4
  <1> QED BY <1>1, <1>4, <1>6, <1>7, MailServed

\* RT_IPC_CMD_RESET.
LEMMA ResetMailStep ==
    ASSUME Now, MailInv, subject \in Mailboxes, NEW s \in Threads, NEW m \in Mailboxes,
           rt_mb_control(s, m), UNCHANGED subject
    PROVE  Now' /\ MailInv'
  <1>1. /\ Running(s, "user") /\ Usable(m) /\ Goto(s, "schedule") /\ UNCHANGED <<object, dying>>
        /\ k' = resume_all(resume_all(k, m), suspend_sender_thread[m])
        /\ mb' = [mb EXCEPT ![m].entry = 0, ![m].in_offset = 0, ![m].out_offset = 0]
    BY DEF rt_mb_control
  <1>2. /\ subject \in Queues /\ suspend_sender_thread[subject] \in Queues
        /\ m = subject /\ subject \notin dying /\ subject \notin Pipes
    BY <1>1, MailboxAlone
  <1>3. /\ Now' /\ k'.queue[subject] = << >> /\ k'.queue[suspend_sender_thread[subject]] = << >>
    BY <1>1, <1>2, ResetBothStep
  <1>4. MailData'
    <2>1. DOMAIN mb = Mailboxes /\ mb[m] \in MailRecord(m) /\ mb_size[m] \in Nat \ {0}
      BY MailboxAssumption DEF MailInv, MailData
    <2>2. MailChanged(m, mb[m].msg_pool, 0, 0, 0)
      <3>1. /\ DOMAIN mb' = Mailboxes /\ \A n \in Mailboxes : n # m => mb'[n] = mb[n]
            /\ mb'[m] = [mb[m] EXCEPT !.entry = 0, !.in_offset = 0, !.out_offset = 0]
        BY <1>1, <2>1
      <3>2. mb'[m] = [msg_pool |-> mb[m].msg_pool, entry |-> 0, in_offset |-> 0, out_offset |-> 0]
        BY <2>1, <3>1 DEF MailRecord
      <3> QED BY <3>1, <3>2 DEF MailChanged
    <2>3. mb'[m] \in MailRecord(m) /\ Placed(mb'[m], mb_size[m])
      BY <2>1, <2>2 DEF MailRecord, Placed, MailChanged
    <2> QED BY <2>1, <2>2, <2>3 DEF MailInv, MailData, MailChanged
  <1> QED BY <1>1, <1>3, <1>4 DEF MailInv, Served

\* rt_mb_detach.
LEMMA DetachMailStep ==
    ASSUME Now, MailInv, subject \in Mailboxes, NEW s \in Threads, NEW m \in Mailboxes,
           rt_mb_detach(s, m) \/ mb_detach_one(s, m), UNCHANGED subject
    PROVE  Now' /\ MailInv'
  <1>0. /\ suspend_sender_thread[subject] # subject /\ subject \notin Pools
        /\ SubjectLists(subject) = {subject, suspend_sender_thread[subject]}
        /\ Usable(m) => m = subject /\ subject \notin dying
        /\ m \in Scope(subject) => m = subject
        /\ suspend_sender_thread[m] \in Scope(subject) => m = subject
        /\ subject \in Deletable => subject \in Detachable
    BY MailboxAlone
  <1>1. MailData' /\ mb' = mb
    BY DEF rt_mb_detach, mb_detach_one, MailInv, MailData
  <1>2. ASSUME m = subject, NEW u, detach_turn(s, u, m)
        PROVE  Looks(s, u)
    <2>1. PICK lists : lists = {q \in {m, suspend_sender_thread[m]} : u.queue[q] # << >>}
      OBVIOUS
    <2>2. CASE lists = {}
      BY <1>2, <2>1, <2>2 DEF detach_turn, Looks
    <2>3. CASE lists # {}
      <3>1. PICK q : q = IF m \in lists THEN m ELSE suspend_sender_thread[m]
        OBVIOUS
      <3>2. q \in SubjectLists(subject) /\ u.queue[q] # << >>
        BY <1>0, <1>2, <2>1, <2>3, <3>1
      <3>3. Goto(s, "resuming") /\ object' = [object EXCEPT ![s] = q]
        BY <1>2, <2>1, <2>3, <3>1 DEF detach_turn
      <3> QED BY <3>2, <3>3 DEF Looks
    <2> QED BY <2>2, <2>3
  <1>3. ASSUME rt_mb_detach(s, m)
        PROVE  Now' /\ subject \in dying'
    <2>1. /\ Running(s, "user") /\ m \in Deletable /\ Usable(m) /\ dying' = dying \cup {m}
          /\ OnlyWaiters({m, suspend_sender_thread[m]}) /\ detach_turn(s, k, m) /\ UNCHANGED k
      BY <1>3 DEF rt_mb_detach
    <2>2. Looks(s, k) /\ OnlyWaiters(SubjectLists(subject)) /\ subject \in Detachable
          /\ m = subject /\ subject \notin dying
      BY <1>0, <1>2, <2>1
    <2>3. Detached
      BY <2>1, <2>2, DetachStep
    <2> QED BY <2>1, <2>2, <2>3 DEF Detached
  <1>4. ASSUME mb_detach_one(s, m)
        PROVE  Now' /\ subject \in dying'
    <2>1. /\ Running(s, "resuming") /\ object[s] \in {m, suspend_sender_thread[m]}
          /\ k' = turn_away(k, Head(k.queue[object[s]])) /\ detach_turn(s, k', m) /\ UNCHANGED dying
      BY <1>4 DEF mb_detach_one
    <2>2. pc[s] = "resuming"
      BY <2>1 DEF Running
    <2>3. m = subject
      BY <1>0, <2>1, <2>2, InScope DEF Outside
    <2>4. Looks(s, k')
      BY <1>2, <2>1, <2>3
    <2>5. Detached /\ subject \in dying
      BY <2>1, <2>4, ResumeOneStep
    <2> QED BY <2>1, <2>5 DEF Detached
  <1> QED BY <1>1, <1>3, <1>4 DEF MailInv

\* Every step of a mailbox.
LEMMA MailStep ==
    ASSUME Now, MailInv, subject \in Mailboxes, MailboxNext, UNCHANGED subject
    PROVE  Now' /\ MailInv'
  <1>1. ASSUME Background, UNCHANGED mb
        PROVE  Now' /\ MailInv'
    <2>1. Idled
      BY <1>1, BackgroundStep
    <2>2. subject \in Queues /\ suspend_sender_thread[subject] \in Queues
      BY MailboxAlone
    <2>3. Now' /\ Change(subject, 0) /\ Change(suspend_sender_thread[subject], 0)
      BY <2>1, <2>2 DEF Idled
    <2>4. MailData' /\ mb[subject].entry \in Int
      BY <1>1 DEF MailInv, MailData, MailRecord
    <2>5. mb'[subject].entry <= mb[subject].entry + 0 /\ mb[subject].entry <= mb'[subject].entry + 0
          /\ 0 \in Int
      BY <1>1, <2>4
    <2>6. UNCHANGED dying
      BY <1>1 DEF Background, ScheduleStep, tick_yield, timeout
    <2> QED BY <2>3, <2>4, <2>5, <2>6, MailServed
  <1> QED BY <1>1, MailCallStep, IsrMailStep, ResetMailStep, DetachMailStep DEF MailboxNext
-----------------------------------------------------------------------------
(* Message queues                                                          *)

\* The blocks M of a queue lie on its free list f, on its list l of messages,
\* or in the hands of one call; h[t] is what the call of thread t holds.
Shared(f, l, h, M) ==
    /\ f \in Seq(M) /\ IsInjective(f) /\ l \in Seq(M) /\ IsInjective(l)
    /\ \A i : ~(Contains(f, i) /\ Contains(l, i))
    /\ \A t \in Threads : h[t] \in M => ~Contains(f, h[t]) /\ ~Contains(l, h[t])
    /\ \A i \in M : Contains(f, i) \/ Contains(l, i) \/ \E t \in Threads : h[t] = i
QueueRecord(q) ==
    [msg_queue_free : Seq(Messages[q]), msg_queue : Seq(Messages[q]), entry : Nat]
MsgData ==
    /\ DOMAIN mq = MsgQueues
    /\ \A q \in MsgQueues : /\ mq[q] \in QueueRecord(q) /\ mq[q].entry = Len(mq[q].msg_queue)
                            /\ Shared(mq[q].msg_queue_free, mq[q].msg_queue, msg, Messages[q])
    /\ msg \in [Threads -> AllMessages \cup {NoMsg}]
    /\ holds \in [AllMessages -> Range(content)]
    /\ \A s, t \in Threads : msg[s] = msg[t] /\ msg[s] # NoMsg => s = t

\* Taking the first block of list f, and the last or first place on list l.
LEMMA TakeShared ==
    ASSUME NEW M, NEW f, NEW l, NEW h \in [Threads -> M \cup {NoMsg}], NoMsg \notin M, Shared(f, l, h, M),
           f # << >>, NEW s \in Threads, h[s] = NoMsg, NEW g, g = [h EXCEPT ![s] = Head(f)]
    PROVE  /\ Shared(Tail(f), l, g, M) /\ Head(f) \in M /\ Contains(f, Head(f))
           /\ \A t \in Threads : h[t] # Head(f)
  <1>1. /\ Tail(f) \in Seq(M) /\ IsInjective(Tail(f)) /\ Head(f) \in M /\ Contains(f, Head(f))
        /\ \A x : Contains(Tail(f), x) <=> Contains(f, x) /\ x # Head(f)
    BY TailList DEF Shared
  <1>2. \A t \in Threads : h[t] # Head(f)
    BY <1>1 DEF Shared
  <1>3. \A t \in Threads : g[t] = IF t = s THEN Head(f) ELSE h[t]
    OBVIOUS
  <1>4. \A t \in Threads : g[t] \in M => ~Contains(Tail(f), g[t]) /\ ~Contains(l, g[t])
    BY <1>1, <1>3 DEF Shared
  <1>5. ASSUME NEW i \in M
        PROVE  Contains(Tail(f), i) \/ Contains(l, i) \/ \E t \in Threads : g[t] = i
    BY <1>1, <1>3 DEF Shared
  <1> QED BY <1>1, <1>2, <1>4, <1>5 DEF Shared

LEMMA GiveShared ==
    ASSUME NEW M, NEW f, NEW l, NEW h \in [Threads -> M \cup {NoMsg}], NoMsg \notin M, Shared(f, l, h, M),
           NEW s \in Threads, h[s] \in M, \A t \in Threads : h[t] = h[s] => t = s,
           NEW g, g = [h EXCEPT ![s] = NoMsg]
    PROVE  /\ Shared(<<h[s]>> \o f, l, g, M) /\ Shared(f, <<h[s]>> \o l, g, M)
           /\ Shared(f, Append(l, h[s]), g, M)
  <1>1. ~Contains(f, h[s]) /\ ~Contains(l, h[s]) /\ f \in Seq(M) /\ l \in Seq(M)
        /\ IsInjective(f) /\ IsInjective(l)
    BY DEF Shared
  <1>2. \A t \in Threads : g[t] = IF t = s THEN NoMsg ELSE h[t]
    OBVIOUS
  <1>3. /\ <<h[s]>> \o f \in Seq(M) /\ IsInjective(<<h[s]>> \o f)
        /\ \A x : Contains(<<h[s]>> \o f, x) <=> Contains(f, x) \/ x = h[s]
    BY ONLY <1>1, h[s] \in M, PushList
  <1>4. /\ <<h[s]>> \o l \in Seq(M) /\ IsInjective(<<h[s]>> \o l)
        /\ \A x : Contains(<<h[s]>> \o l, x) <=> Contains(l, x) \/ x = h[s]
    BY ONLY <1>1, h[s] \in M, PushList
  <1>5. /\ Append(l, h[s]) \in Seq(M) /\ IsInjective(Append(l, h[s]))
        /\ \A x : Contains(Append(l, h[s]), x) <=> Contains(l, x) \/ x = h[s]
    BY ONLY <1>1, h[s] \in M, AppendList
  <1>6. /\ \A i : ~(Contains(f, i) /\ Contains(l, i))
        /\ \A t \in Threads : g[t] \in M => ~Contains(f, g[t]) /\ ~Contains(l, g[t]) /\ g[t] # h[s]
    BY <1>2 DEF Shared
  <1>7. \A i \in M : Contains(f, i) \/ Contains(l, i) \/ i = h[s] \/ \E t \in Threads : g[t] = i
    BY <1>2 DEF Shared
  <1>8. Shared(<<h[s]>> \o f, l, g, M)
    BY ONLY <1>1, <1>3, <1>6, <1>7 DEF Shared
  <1>9. Shared(f, <<h[s]>> \o l, g, M)
    BY ONLY <1>1, <1>4, <1>6, <1>7 DEF Shared
  <1>10. Shared(f, Append(l, h[s]), g, M)
    BY ONLY <1>1, <1>5, <1>6, <1>7 DEF Shared
  <1> QED BY <1>8, <1>9, <1>10

\* The same the other way round: a block is taken off the list of messages.
LEMMA SharedSwap ==
    ASSUME NEW M, NEW f, NEW l, NEW h
    PROVE  Shared(f, l, h, M) <=> Shared(l, f, h, M)
  BY DEF Shared

\* The reset gives all messages back.
LEMMA DropShared ==
    ASSUME NEW M, NEW f, NEW l, NEW h, Shared(f, l, h, M)
    PROVE  Shared(Reverse(l) \o f, << >>, h, M)
  <1>1. /\ Reverse(l) \in Seq(M) /\ IsInjective(Reverse(l))
        /\ \A x : Contains(Reverse(l), x) <=> Contains(l, x)
    BY ReverseList DEF Shared
  <1>2. f \in Seq(M) /\ IsInjective(f)
    BY DEF Shared
  <1>3. \A x : ~(Contains(Reverse(l), x) /\ Contains(f, x))
    BY <1>1 DEF Shared
  <1>4. /\ Reverse(l) \o f \in Seq(M) /\ IsInjective(Reverse(l) \o f)
        /\ \A x : Contains(Reverse(l) \o f, x) <=> Contains(l, x) \/ Contains(f, x)
    BY <1>1, <1>2, <1>3, JoinLists
  <1>5. << >> \in Seq(M) /\ IsInjective(<< >>) /\ \A x : ~Contains(<< >>, x)
    BY DEF IsInjective, Contains
  <1> QED BY <1>4, <1>5 DEF Shared

\* A handler moves a block from list f to list l in one step.
LEMMA PassShared ==
    ASSUME NEW M, NEW f, NEW l, NEW h, Shared(f, l, h, M), f # << >>
    PROVE  Shared(Tail(f), Append(l, Head(f)), h, M) /\ Head(f) \in M
  <1>1. /\ Tail(f) \in Seq(M) /\ IsInjective(Tail(f)) /\ Head(f) \in M /\ Contains(f, Head(f))
        /\ \A x : Contains(Tail(f), x) <=> Contains(f, x) /\ x # Head(f)
    BY TailList DEF Shared
  <1>2. ~Contains(l, Head(f)) /\ l \in Seq(M) /\ IsInjective(l)
    BY <1>1 DEF Shared
  <1>3. /\ Append(l, Head(f)) \in Seq(M) /\ IsInjective(Append(l, Head(f)))
        /\ \A x : Contains(Append(l, Head(f)), x) <=> Contains(l, x) \/ x = Head(f)
    BY ONLY <1>1, <1>2, AppendList
  <1>4. \A i : ~(Contains(Tail(f), i) /\ Contains(Append(l, Head(f)), i))
    BY <1>1, <1>3 DEF Shared
  <1>5. \A t \in Threads : h[t] \in M => ~Contains(Tail(f), h[t]) /\ ~Contains(Append(l, Head(f)), h[t])
    BY <1>1, <1>3 DEF Shared
  <1>6. \A i \in M : Contains(Tail(f), i) \/ Contains(Append(l, Head(f)), i) \/ \E t \in Threads : h[t] = i
    BY <1>1, <1>3 DEF Shared
  <1> QED BY <1>1, <1>3, <1>4, <1>5, <1>6 DEF Shared

\* No block is lost and none is in two hands, and there are never more messages
\* than blocks.
LEMMA SharedCounts ==
    ASSUME NEW M, IsFiniteSet(M), NEW f, NEW l, NEW h, Shared(f, l, h, M),
           \A s, t \in Threads : h[s] = h[t] /\ h[s] \in M => s = t,
           NEW held, held = {t \in Threads : h[t] \in M}
    PROVE  /\ IsInjective(f \o l)
           /\ M = Range(f \o l) \cup {h[t] : t \in held}
           /\ Cardinality(M) = Len(f \o l) + Cardinality(held)
           /\ Len(l) <= Cardinality(M)
  <1>1. f \in Seq(M) /\ l \in Seq(M) /\ IsInjective(f) /\ IsInjective(l)
        /\ \A x : ~(Contains(f, x) /\ Contains(l, x))
    BY DEF Shared
  <1>2. PICK j : j = f \o l
    OBVIOUS
  <1>3. /\ j \in Seq(M) /\ Len(j) = Len(f) + Len(l) /\ IsInjective(j)
        /\ \A x : Contains(j, x) <=> Contains(f, x) \/ Contains(l, x)
    BY <1>1, <1>2, JoinLists
  <1>4. \A x : x \in Range(j) <=> Contains(j, x)
    BY <1>3, RangeList
  <1>5. \A x : Contains(j, x) => x \in M
    BY <1>3, EmptyList
  <1>6. PICK B : B = {h[t] : t \in held}
    OBVIOUS
  <1>7. M = Range(j) \cup B
    BY <1>3, <1>4, <1>5, <1>6 DEF Shared
  <1>8. Range(j) \cap B = {}
    BY <1>3, <1>4, <1>6 DEF Shared
  <1>9. IsFiniteSet(Range(j)) /\ IsFiniteSet(B) /\ IsFiniteSet(held)
    <2>1. Range(j) \in SUBSET M /\ B \in SUBSET M
      BY <1>7
    <2>2. held \in SUBSET Threads /\ IsFiniteSet(Threads)
      BY IpcAssumption
    <2> QED BY <2>1, <2>2, FS_Subset
  <1>10. Cardinality(M) = Cardinality(Range(j)) + Cardinality(B)
    <2>1. Cardinality(Range(j) \cup B) =
             Cardinality(Range(j)) + Cardinality(B) - Cardinality(Range(j) \cap B)
      BY <1>9, FS_Union
    <2>2. Cardinality(Range(j) \cap B) = 0
      BY <1>8, FS_EmptySet
    <2>3. Cardinality(Range(j)) \in Nat /\ Cardinality(B) \in Nat
      BY <1>9, FS_CardinalityType
    <2> QED BY <1>7, <2>1, <2>2, <2>3
  <1>11. Cardinality(Range(j)) = Len(j)
    <2>1. 1 .. Len(j) = DOMAIN j /\ Len(j) \in Nat
      BY <1>3
    <2>2. j \in Bijection(1 .. Len(j), Range(j))
      <3>1. j \in [1 .. Len(j) -> Range(j)] /\ \A y \in Range(j) : \E i \in 1 .. Len(j) : j[i] = y
        BY <1>3, <2>1 DEF Range
      <3> QED BY <1>3, <3>1 DEF Bijection, Injection, Surjection
    <2>3. ExistsBijection(1 .. Len(j), Range(j))
      BY <2>2 DEF ExistsBijection
    <2>4. IsFiniteSet(1 .. Len(j)) /\ Cardinality(1 .. Len(j)) = Len(j)
      <3>1. 1 \in Int /\ Len(j) \in Int /\ Len(j) >= 0
        BY <2>1
      <3>2. /\ IsFiniteSet(1 .. Len(j))
            /\ Cardinality(1 .. Len(j)) = IF 1 > Len(j) THEN 0 ELSE Len(j) - 1 + 1
        BY ONLY <3>1, FS_Interval
      <3> QED BY <3>1, <3>2
    <2> QED BY <2>3, <2>4, FS_Bijection
  <1>12. Cardinality(B) = Cardinality(held)
    <2>1. PICK g : g = [t \in held |-> h[t]]
      OBVIOUS
    <2>2. g \in Bijection(held, B)
      <3>1. g \in [held -> B] /\ \A y \in B : \E t \in held : g[t] = y
        BY <1>6, <2>1
      <3>2. IsInjective(g)
        BY <2>1 DEF IsInjective
      <3> QED BY <3>1, <3>2 DEF Bijection, Injection, Surjection
    <2>3. ExistsBijection(held, B)
      BY <2>2 DEF ExistsBijection
    <2> QED BY <1>9, <2>3, FS_Bijection
  <1>13. Cardinality(held) \in Nat /\ Len(f) \in Nat /\ Len(l) \in Nat
    BY <1>1, <1>9, FS_CardinalityType
  <1> QED BY <1>2, <1>3, <1>6, <1>7, <1>10, <1>11, <1>12, <1>13
HoldPoints == {"sending", "sending_urgent", "receiving"}
\* A call holds a block exactly between its two sections, and one of queue M.
HoldsBlocks(at, h, M) ==
    \A t \in Threads : (h[t] # NoMsg <=> at[t] \in HoldPoints) /\ h[t] \in M \cup {NoMsg}
MsgInv ==
    /\ MsgData
    /\ subject \notin MsgQueues => \A t \in Threads : msg[t] = NoMsg
    /\ subject \in MsgQueues =>
          /\ HoldsBlocks(pc, msg, Messages[subject])
          /\ subject \notin dying => Served(k, pc, object, subject, mq[subject].entry)

\* The sections on the record of a queue.
LEMMA QueueSections ==
    ASSUME NEW q, NEW r \in QueueRecord(q), NEW i, NEW v
    PROVE  /\ v = take_free(r) => v = [msg_queue_free |-> Tail(r.msg_queue_free),
                                      msg_queue |-> r.msg_queue, entry |-> r.entry]
           /\ v = link_last(r, i) => v = [msg_queue_free |-> r.msg_queue_free,
                                         msg_queue |-> Append(r.msg_queue, i), entry |-> r.entry + 1]
           /\ v = link_first(r, i) => v = [msg_queue_free |-> r.msg_queue_free,
                                          msg_queue |-> <<i>> \o r.msg_queue, entry |-> r.entry + 1]
           /\ v = take_first(r) => v = [msg_queue_free |-> r.msg_queue_free,
                                       msg_queue |-> Tail(r.msg_queue), entry |-> r.entry - 1]
           /\ v = give_back(r, i) => v = [msg_queue_free |-> <<i>> \o r.msg_queue_free,
                                         msg_queue |-> r.msg_queue, entry |-> r.entry]
           /\ v = link_last(take_free(r), i) =>
                 v = [msg_queue_free |-> Tail(r.msg_queue_free),
                      msg_queue |-> Append(r.msg_queue, i), entry |-> r.entry + 1]
  <1>1. v = take_free(r) => v = [msg_queue_free |-> Tail(r.msg_queue_free),
                                 msg_queue |-> r.msg_queue, entry |-> r.entry]
    BY DEF take_free, QueueRecord
  <1>2. v = link_last(r, i) => v = [msg_queue_free |-> r.msg_queue_free,
                                    msg_queue |-> Append(r.msg_queue, i), entry |-> r.entry + 1]
    BY DEF link_last, QueueRecord
  <1>3. v = link_first(r, i) => v = [msg_queue_free |-> r.msg_queue_free,
                                     msg_queue |-> <<i>> \o r.msg_queue, entry |-> r.entry + 1]
    BY DEF link_first, QueueRecord
  <1>4. v = take_first(r) => v = [msg_queue_free |-> r.msg_queue_free,
                                  msg_queue |-> Tail(r.msg_queue), entry |-> r.entry - 1]
    BY DEF take_first, QueueRecord
  <1>5. v = give_back(r, i) => v = [msg_queue_free |-> <<i>> \o r.msg_queue_free,
                                    msg_queue |-> r.msg_queue, entry |-> r.entry]
    BY DEF give_back, QueueRecord
  <1>6. v = link_last(take_free(r), i) =>
           v = [msg_queue_free |-> Tail(r.msg_queue_free),
                msg_queue |-> Append(r.msg_queue, i), entry |-> r.entry + 1]
    BY DEF link_last, take_free, QueueRecord
  <1> QED BY <1>1, <1>2, <1>3, <1>4, <1>5, <1>6

\* One message queue changed.
QueueChanged(q, f, l, n) ==
    /\ DOMAIN mq' = MsgQueues
    /\ mq'[q] = [msg_queue_free |-> f, msg_queue |-> l, entry |-> n]
    /\ \A r \in MsgQueues : r # q => mq'[r] = mq[r]

LEMMA MsgMoved ==
    ASSUME MsgData, NEW q \in MsgQueues, NEW f, NEW l, NEW n, QueueChanged(q, f, l, n), n = Len(l),
           msg \in [Threads -> Messages[q] \cup {NoMsg}], msg' \in [Threads -> Messages[q] \cup {NoMsg}],
           \A s, t \in Threads : msg'[s] = msg'[t] /\ msg'[s] # NoMsg => s = t,
           Shared(f, l, msg', Messages[q]), holds' \in [AllMessages -> Range(content)]
    PROVE  MsgData'
  <1>1. ASSUME NEW r \in MsgQueues
        PROVE  /\ mq'[r] \in QueueRecord(r) /\ mq'[r].entry = Len(mq'[r].msg_queue)
               /\ Shared(mq'[r].msg_queue_free, mq'[r].msg_queue, msg', Messages[r])
    <2>1. CASE r = q
      <3>1. f \in Seq(Messages[q]) /\ l \in Seq(Messages[q]) /\ n \in Nat
        BY DEF Shared
      <3> QED BY <2>1, <3>1 DEF QueueChanged, QueueRecord
    <2>2. CASE r # q
      <3>1. mq'[r] = mq[r]
        BY <2>2 DEF QueueChanged
      <3>2. mq[r] \in QueueRecord(r) /\ mq[r].entry = Len(mq[r].msg_queue)
            /\ Shared(mq[r].msg_queue_free, mq[r].msg_queue, msg, Messages[r])
        BY DEF MsgData
      <3>3. Messages[q] \cap Messages[r] = {} /\ NoMsg \notin Messages[r]
        BY <2>2, MessageQueueAssumption DEF AllMessages
      <3>4. \A t \in Threads : msg[t] \notin Messages[r] /\ msg'[t] \notin Messages[r]
        BY <3>3
      <3>5. Shared(mq[r].msg_queue_free, mq[r].msg_queue, msg', Messages[r])
        BY <3>2, <3>4 DEF Shared
      <3> QED BY <3>1, <3>2, <3>5
    <2> QED BY <2>1, <2>2
  <1>2. msg' \in [Threads -> AllMessages \cup {NoMsg}]
    BY DEF AllMessages
  <1> QED BY <1>1, <1>2 DEF MsgData, QueueChanged

\* What holds of the queue that a behaviour is about.
LEMMA SubjectBlocks ==
    ASSUME MsgInv, subject \in MsgQueues, NEW M, M = Messages[subject]
    PROVE  /\ mq[subject] \in QueueRecord(subject) /\ DOMAIN mq = MsgQueues
           /\ mq[subject].entry = Len(mq[subject].msg_queue) /\ mq[subject].entry \in Nat
           /\ Shared(mq[subject].msg_queue_free, mq[subject].msg_queue, msg, M)
           /\ msg \in [Threads -> M \cup {NoMsg}] /\ NoMsg \notin M /\ M \subseteq AllMessages
           /\ \A s, t \in Threads : msg[s] = msg[t] /\ msg[s] # NoMsg => s = t
           /\ holds \in [AllMessages -> Range(content)]
           /\ \A t \in Threads : msg[t] # NoMsg <=> pc[t] \in HoldPoints
           /\ mq[subject].entry # 0 => mq[subject].msg_queue # << >>
  <1>1. M \subseteq AllMessages /\ NoMsg \notin M
    BY MessageQueueAssumption DEF AllMessages
  <1>2. mq[subject] \in QueueRecord(subject) /\ mq[subject].entry = Len(mq[subject].msg_queue)
    BY DEF MsgInv, MsgData
  <1>3. msg \in [Threads -> M \cup {NoMsg}] /\ \A t \in Threads : msg[t] # NoMsg <=> pc[t] \in HoldPoints
    BY DEF MsgInv, MsgData, HoldsBlocks
  <1> QED BY <1>1, <1>2, <1>3 DEF MsgInv, MsgData, QueueRecord

\* The invariant after a section of thread s that leaves it at a point.
LEMMA MsgAfter ==
    ASSUME MsgInv, subject \in MsgQueues, MsgData', UNCHANGED <<dying, subject>>, NEW s \in Threads,
           pc \in [Threads -> Points],
           NEW point, pc' = [pc EXCEPT ![s] = point],
           NEW i, msg' = [msg EXCEPT ![s] = i], i \in Messages[subject] \cup {NoMsg},
           i # NoMsg <=> point \in HoldPoints,
           subject \notin dying => Served(k', pc', object', subject, mq'[subject].entry)
    PROVE  MsgInv'
  <1>1. \A t \in Threads : /\ pc'[t] = IF t = s THEN point ELSE pc[t]
                           /\ msg'[t] = IF t = s THEN i ELSE msg[t]
    BY DEF MsgInv, MsgData
  <1>2. HoldsBlocks(pc', msg', Messages[subject])
    BY <1>1 DEF MsgInv, HoldsBlocks
  <1> QED BY <1>2 DEF MsgInv

\* First section of rt_mq_send and rt_mq_urgent.
LEMMA SendTakeStep ==
    ASSUME Now, MsgInv, subject \in MsgQueues, NEW s \in Threads, NEW q \in MsgQueues,
           NEW point \in {"sending", "sending_urgent"}, send_take(s, q, point), UNCHANGED subject
    PROVE  Now' /\ MsgInv'
  <1>1. /\ Running(s, "user") /\ Usable(q) /\ mq[q].msg_queue_free # << >> /\ UNCHANGED <<k, dying, holds>>
        /\ mq' = [mq EXCEPT ![q] = take_free(mq[q])]
        /\ msg' = [msg EXCEPT ![s] = Head(mq[q].msg_queue_free)]
        /\ Goto(s, point) /\ object' = [object EXCEPT ![s] = q]
    BY DEF send_take, HasFree
  <1>2. /\ q = subject /\ subject \notin dying /\ q \in Queues /\ q \in Scope(subject)
    BY <1>1, SingleAlone, MessageQueueAssumption DEF Singles
  <1>3. /\ k.stat[s] = "ready" /\ s # Idle /\ pc[s] = "user" /\ ~IsOnWay(s, q)
        /\ pc \in [Threads -> Points] /\ object \in [Threads -> Queues]
    BY <1>1, RunningReady, NotOnWay DEF WaitPoints
  <1>4. point \in Points \ (WaitPoints \cup {"resuming", "dq_reset"})
    BY DEF Points, WaitPoints
  <1>5. Gone(s)
    <2>1. /\ object' \in {object, [object EXCEPT ![s] = q]} /\ pc[s] # "resuming"
          /\ point \notin Outside => object'[s] \in Scope(subject) /\ subject \notin dying
      BY <1>1, <1>2, <1>3
    <2> QED BY <1>1, <1>2, <1>3, <1>4, <2>1, GoStep
  <1>6. PICK M : M = Messages[q]
    OBVIOUS
  <1>7. /\ mq[q] \in QueueRecord(q) /\ DOMAIN mq = MsgQueues
        /\ mq[q].entry = Len(mq[q].msg_queue) /\ mq[q].entry \in Nat
        /\ Shared(mq[q].msg_queue_free, mq[q].msg_queue, msg, M)
        /\ msg \in [Threads -> M \cup {NoMsg}] /\ NoMsg \notin M
        /\ \A x, t \in Threads : msg[x] = msg[t] /\ msg[x] # NoMsg => x = t
        /\ holds \in [AllMessages -> Range(content)]
        /\ msg[s] = NoMsg
    BY <1>2, <1>3, <1>6, SubjectBlocks DEF HoldPoints
  <1>8. /\ Shared(Tail(mq[q].msg_queue_free), mq[q].msg_queue, msg', M)
        /\ Head(mq[q].msg_queue_free) \in M
        /\ \A t \in Threads : msg[t] # Head(mq[q].msg_queue_free)
    <2>1. PICK f : f = mq[q].msg_queue_free
      OBVIOUS
    <2>2. PICK l : l = mq[q].msg_queue
      OBVIOUS
    <2>3. /\ msg \in [Threads -> M \cup {NoMsg}] /\ NoMsg \notin M /\ Shared(f, l, msg, M)
          /\ f # << >> /\ msg[s] = NoMsg /\ msg' = [msg EXCEPT ![s] = Head(f)]
      BY <1>1, <1>7, <2>1, <2>2
    <2>4. /\ Shared(Tail(f), l, msg', M) /\ Head(f) \in M
          /\ \A t \in Threads : msg[t] # Head(f)
      BY ONLY <2>3, s \in Threads, TakeShared
    <2> QED BY <2>1, <2>2, <2>4
  <1>9. QueueChanged(q, Tail(mq[q].msg_queue_free), mq[q].msg_queue, mq[q].entry)
    <2>1. PICK v : v = take_free(mq[q])
      OBVIOUS
    <2>2. v = [msg_queue_free |-> Tail(mq[q].msg_queue_free), msg_queue |-> mq[q].msg_queue,
               entry |-> mq[q].entry]
      BY <1>7, <2>1, QueueSections
    <2> QED BY <1>1, <1>7, <2>1, <2>2 DEF QueueChanged
  <1>10. MsgData'
    <2>1. msg' \in [Threads -> M \cup {NoMsg}]
      BY <1>1, <1>7, <1>8
    <2>2. \A x, t \in Threads : msg'[x] = msg'[t] /\ msg'[x] # NoMsg => x = t
      BY <1>1, <1>7, <1>8
    <2> QED BY <1>1, <1>6, <1>7, <1>8, <1>9, <2>1, <2>2, MsgMoved DEF MsgInv
  <1>11. Served(k', pc', object', subject, mq'[subject].entry)
    <2>1. Change(q, 0) /\ Served(k, pc, object, q, mq[q].entry)
      BY <1>2, <1>3, <1>5 DEF Gone, MsgInv
    <2>2. mq'[q].entry = mq[q].entry
      BY <1>9 DEF QueueChanged
    <2> QED BY <1>2, <1>7, <2>1, <2>2, ServedThen
  <1>12. Head(mq[q].msg_queue_free) \in Messages[subject] \cup {NoMsg}
         /\ (Head(mq[q].msg_queue_free) # NoMsg <=> point \in HoldPoints)
    BY <1>2, <1>6, <1>7, <1>8 DEF HoldPoints
  <1>13. MsgInv'
    BY <1>1, <1>3, <1>10, <1>11, <1>12, MsgAfter DEF Goto
  <1> QED BY <1>5, <1>13 DEF Gone
\* The block of a call goes back to one of the lists.
LEMMA GiveMsgData ==
    ASSUME MsgInv, subject \in MsgQueues, NEW s \in Threads, pc[s] \in HoldPoints,
           msg' = [msg EXCEPT ![s] = NoMsg], holds' \in [AllMessages -> Range(content)],
           NEW v, mq' = [mq EXCEPT ![subject] = v]
    PROVE  /\ v \in {link_last(mq[subject], msg[s]), link_first(mq[subject], msg[s])} =>
                 MsgData' /\ mq'[subject].entry = mq[subject].entry + 1
           /\ v = give_back(mq[subject], msg[s]) => MsgData' /\ mq'[subject].entry = mq[subject].entry
           /\ mq[subject].entry \in Int
  <1>1. PICK q : q = subject
    OBVIOUS
  <1>2. PICK M : M = Messages[q]
    OBVIOUS
  <1>3. PICK f : f = mq[q].msg_queue_free
    OBVIOUS
  <1>4. PICK l : l = mq[q].msg_queue
    OBVIOUS
  <1>5. PICK i : i = msg[s]
    OBVIOUS
  <1>6. /\ mq[q] \in QueueRecord(q) /\ DOMAIN mq = MsgQueues
        /\ mq[q].entry = Len(l) /\ mq[q].entry \in Nat /\ Shared(f, l, msg, M)
        /\ msg \in [Threads -> M \cup {NoMsg}] /\ NoMsg \notin M
        /\ \A x, t \in Threads : msg[x] = msg[t] /\ msg[x] # NoMsg => x = t
        /\ i \in M
    BY <1>1, <1>2, <1>3, <1>4, <1>5, SubjectBlocks
  <1>7. \A t \in Threads : msg[t] = msg[s] => t = s
    BY <1>5, <1>6
  <1>8. /\ Shared(<<i>> \o f, l, msg', M) /\ Shared(f, <<i>> \o l, msg', M)
        /\ Shared(f, Append(l, i), msg', M)
    BY <1>5, <1>6, <1>7, GiveShared
  <1>9. /\ msg' \in [Threads -> M \cup {NoMsg}]
        /\ \A x, t \in Threads : msg'[x] = msg'[t] /\ msg'[x] # NoMsg => x = t
    BY <1>6
  <1>10. MsgData /\ q \in MsgQueues
    BY <1>1 DEF MsgInv
  <1>11. ASSUME NEW g, NEW h, NEW n, v = [msg_queue_free |-> g, msg_queue |-> h, entry |-> n],
                n = Len(h), Shared(g, h, msg', M)
         PROVE  MsgData' /\ mq'[q].entry = n
    <2>1. QueueChanged(q, g, h, n)
      BY <1>1, <1>6, <1>10, <1>11 DEF QueueChanged
    <2>2. MsgData'
      BY <1>2, <1>6, <1>9, <1>10, <1>11, <2>1, MsgMoved
    <2> QED BY <2>1, <2>2 DEF QueueChanged
  <1>12. l \in Seq(M)
    BY <1>6 DEF Shared
  <1>13. ASSUME v = link_last(mq[q], i)
         PROVE  MsgData' /\ mq'[q].entry = mq[q].entry + 1
    <2>1. v = [msg_queue_free |-> f, msg_queue |-> Append(l, i), entry |-> mq[q].entry + 1]
      BY <1>3, <1>4, <1>6, <1>13, QueueSections
    <2>2. mq[q].entry + 1 = Len(Append(l, i))
      BY <1>6, <1>12
    <2> QED BY <1>8, <1>11, <2>1, <2>2
  <1>14. ASSUME v = link_first(mq[q], i)
         PROVE  MsgData' /\ mq'[q].entry = mq[q].entry + 1
    <2>1. v = [msg_queue_free |-> f, msg_queue |-> <<i>> \o l, entry |-> mq[q].entry + 1]
      BY <1>3, <1>4, <1>6, <1>14, QueueSections
    <2>2. mq[q].entry + 1 = Len(<<i>> \o l)
      BY <1>6, <1>12
    <2> QED BY <1>8, <1>11, <2>1, <2>2
  <1>15. ASSUME v = give_back(mq[q], i)
         PROVE  MsgData' /\ mq'[q].entry = mq[q].entry
    <2>1. v = [msg_queue_free |-> <<i>> \o f, msg_queue |-> l, entry |-> mq[q].entry]
      BY <1>3, <1>4, <1>6, <1>15, QueueSections
    <2> QED BY <1>6, <1>8, <1>11, <2>1
  <1> QED BY <1>1, <1>5, <1>6, <1>13, <1>14, <1>15

\* Second section of rt_mq_send and rt_mq_urgent.
LEMMA SendLinkStep ==
    ASSUME Now, MsgInv, subject \in MsgQueues, NEW s \in Threads, NEW q \in MsgQueues,
           send_link(s, q), UNCHANGED subject
    PROVE  Now' /\ MsgInv'
  <1>1. PICK point \in {"sending", "sending_urgent"} : Running(s, point)
    BY DEF send_link
  <1>2. /\ object[s] = q /\ LeaveWaking(s, q) /\ UNCHANGED dying
        /\ mq' = [mq EXCEPT ![q] = IF pc[s] = "sending" THEN link_last(mq[q], msg[s])
                                   ELSE link_first(mq[q], msg[s])]
        /\ holds' = [holds EXCEPT ![msg[s]] = content[s]]
        /\ msg' = [msg EXCEPT ![s] = NoMsg]
    BY DEF send_link
  <1>3. /\ k.stat[s] = "ready" /\ s # Idle /\ pc[s] = point /\ ~IsOnWay(s, q)
        /\ pc \in [Threads -> Points] /\ object \in [Threads -> Queues] /\ Waits(k, pc, object, subject)
    BY <1>1, RunningReady, NotOnWay DEF WaitPoints
  <1>4. q = subject /\ q \in Queues
    BY <1>1, <1>2, <1>3, SingleAlone, MessageQueueAssumption DEF Singles, Waits, Outside
  <1>5. subject \notin dying
    <2>1. subject \notin Pools
      BY KindsApart
    <2> QED BY <1>1, <2>1, StillThere DEF Outside
  <1>6. Gave(s, q)
    BY <1>2, <1>3, <1>4, <1>5, LeaveWakingStep
  <1>7. holds' \in [AllMessages -> Range(content)]
    <2>1. holds \in [AllMessages -> Range(content)] /\ content[s] \in Range(content)
      BY MessageQueueAssumption DEF Range, MsgInv, MsgData
    <2> QED BY <1>2, <2>1
  <1>8. pc[s] \in HoldPoints
    BY <1>3 DEF HoldPoints
  <1>9. MsgData' /\ mq'[subject].entry = mq[subject].entry + 1 /\ mq[subject].entry \in Int
    <2>1. PICK v : v = IF pc[s] = "sending" THEN link_last(mq[subject], msg[s])
                       ELSE link_first(mq[subject], msg[s])
      OBVIOUS
    <2>2. mq' = [mq EXCEPT ![subject] = v]
      BY <1>2, <1>4, <2>1
    <2>3. v \in {link_last(mq[subject], msg[s]), link_first(mq[subject], msg[s])}
      BY <2>1
    <2>4. /\ v \in {link_last(mq[subject], msg[s]), link_first(mq[subject], msg[s])} =>
                MsgData' /\ mq'[subject].entry = mq[subject].entry + 1
          /\ mq[subject].entry \in Int
      BY <1>2, <1>7, <1>8, <2>2, GiveMsgData
    <2> QED BY <2>3, <2>4
  <1>10. Served(k', pc', object', subject, mq'[subject].entry)
    <2>1. Change(subject, 1) /\ Served(k, pc, object, subject, mq[subject].entry)
      BY <1>3, <1>4, <1>5, <1>6 DEF Gave, MsgInv
    <2>2. mq'[subject].entry \in Int /\ mq'[subject].entry <= mq[subject].entry + 1 /\ 1 \in Int
      BY <1>9
    <2> QED BY <1>9, <2>1, <2>2, ServedThen
  <1>11. PICK to \in {"user", "schedule"} : pc' = [pc EXCEPT ![s] = to]
    BY <1>2 DEF LeaveWaking, LeaveCall, LeaveTo, Goto
  <1>12. NoMsg \in Messages[subject] \cup {NoMsg} /\ (NoMsg # NoMsg <=> to \in HoldPoints)
    BY <1>11 DEF HoldPoints
  <1>13. MsgInv'
    BY <1>2, <1>3, <1>9, <1>10, <1>11, <1>12, MsgAfter
  <1> QED BY <1>6, <1>13 DEF Gave

\* rt_mq_send by a handler.
LEMMA IsrSendStep ==
    ASSUME Now, MsgInv, subject \in MsgQueues, NEW q \in MsgQueues, isr_mq_send(q), UNCHANGED subject
    PROVE  Now' /\ MsgInv'
  <1>1. /\ Usable(q) /\ mq[q].msg_queue_free # << >> /\ IsrWaking(q) /\ UNCHANGED <<pc, object, dying, msg>>
        /\ mq' = [mq EXCEPT ![q] = link_last(take_free(mq[q]), Head(mq[q].msg_queue_free))]
        /\ holds' = [holds EXCEPT ![Head(mq[q].msg_queue_free)] = content[Idle]]
    BY DEF isr_mq_send, HasFree
  <1>2. q = subject /\ subject \notin dying /\ q \in Queues
    BY <1>1, SingleAlone, MessageQueueAssumption DEF Singles
  <1>3. Given(q)
    <2>1. HandlerGave(k', q)
      BY <1>1, <1>2, IsrWakingEffect
    <2> QED BY <1>1, <1>2, <2>1, HandlerStep
  <1>4. PICK M : M = Messages[q]
    OBVIOUS
  <1>5. PICK f : f = mq[q].msg_queue_free
    OBVIOUS
  <1>6. PICK l : l = mq[q].msg_queue
    OBVIOUS
  <1>7. /\ mq[q] \in QueueRecord(q) /\ DOMAIN mq = MsgQueues
        /\ mq[q].entry = Len(l) /\ mq[q].entry \in Nat /\ Shared(f, l, msg, M)
        /\ msg \in [Threads -> M \cup {NoMsg}] /\ M \subseteq AllMessages
        /\ \A x, t \in Threads : msg[x] = msg[t] /\ msg[x] # NoMsg => x = t
        /\ holds \in [AllMessages -> Range(content)]
    BY <1>2, <1>4, <1>5, <1>6, SubjectBlocks
  <1>8. Shared(Tail(f), Append(l, Head(f)), msg, M) /\ Head(f) \in M
    BY <1>1, <1>5, <1>7, PassShared
  <1>9. QueueChanged(q, Tail(f), Append(l, Head(f)), mq[q].entry + 1)
    <2>1. PICK i : i = Head(f)
      OBVIOUS
    <2>2. PICK v : v = link_last(take_free(mq[q]), i)
      OBVIOUS
    <2>3. v = [msg_queue_free |-> Tail(f), msg_queue |-> Append(l, i), entry |-> mq[q].entry + 1]
      BY <1>5, <1>6, <1>7, <2>2, QueueSections
    <2> QED BY <1>1, <1>5, <1>7, <2>1, <2>2, <2>3 DEF QueueChanged
  <1>10. MsgData'
    <2>1. mq[q].entry + 1 = Len(Append(l, Head(f)))
      BY <1>7 DEF Shared
    <2>2. holds' \in [AllMessages -> Range(content)]
      <3>1. content[Idle] \in Range(content)
        BY MessageQueueAssumption, IpcAssumption DEF Range
      <3> QED BY <1>1, <1>5, <1>7, <1>8, <3>1
    <2>3. MsgData /\ msg' = msg
      BY <1>1 DEF MsgInv
    <2> QED BY <1>4, <1>7, <1>8, <1>9, <2>1, <2>2, <2>3, MsgMoved
  <1>11. Served(k', pc', object', subject, mq'[subject].entry)
    <2>1. Change(subject, 1) /\ Served(k, pc, object, subject, mq[subject].entry)
      BY <1>2, <1>3 DEF Given, MsgInv
    <2>2. mq[subject].entry \in Int /\ mq'[subject].entry = mq[subject].entry + 1
      BY <1>2, <1>7, <1>9 DEF QueueChanged
    <2>3. mq'[subject].entry \in Int /\ mq'[subject].entry <= mq[subject].entry + 1 /\ 1 \in Int
      BY <2>2
    <2> QED BY <2>1, <2>2, <2>3, ServedThen
  <1>12. Now'
    BY <1>3 DEF Given
  <1> QED BY <1>1, <1>10, <1>11, <1>12 DEF MsgInv
\* The first message is taken, from the start of rt_mq_recv or in its loop.
LEMMA RecvTakeStep ==
    ASSUME Now, MsgInv, subject \in MsgQueues, NEW s \in Threads, subject \notin dying,
           k.stat[s] = "ready", s # Idle, pc[s] # "resuming", pc[s] \notin HoldPoints,
           recv_take(s, subject), UNCHANGED <<dying, subject>>
    PROVE  Now' /\ MsgInv'
  <1>1. /\ mq[subject].entry # 0 /\ UNCHANGED <<k, holds>>
        /\ mq' = [mq EXCEPT ![subject] = take_first(mq[subject])]
        /\ msg' = [msg EXCEPT ![s] = Head(mq[subject].msg_queue)]
        /\ Goto(s, "receiving") /\ object' = [object EXCEPT ![s] = subject]
    BY DEF recv_take
  <1>2. subject \in Queues /\ subject \in Scope(subject)
    BY SingleAlone DEF Singles
  <1>3. pc \in [Threads -> Points] /\ object \in [Threads -> Queues]
    BY DEF Now, Calm, Waits
  <1>4. "receiving" \in Points \ (WaitPoints \cup {"resuming", "dq_reset"})
    BY DEF Points, WaitPoints
  <1>5. Gone(s)
    <2>1. /\ object' \in {object, [object EXCEPT ![s] = subject]} /\ object'[s] = subject
      BY <1>1, <1>3
    <2> QED BY <1>1, <1>2, <1>4, <2>1, GoStep
  <1>6. PICK q : q = subject
    OBVIOUS
  <1>7. PICK M : M = Messages[q]
    OBVIOUS
  <1>8. PICK f : f = mq[q].msg_queue_free
    OBVIOUS
  <1>9. PICK l : l = mq[q].msg_queue
    OBVIOUS
  <1>10. /\ mq[q] \in QueueRecord(q) /\ DOMAIN mq = MsgQueues
         /\ mq[q].entry = Len(l) /\ mq[q].entry \in Nat /\ Shared(f, l, msg, M)
         /\ msg \in [Threads -> M \cup {NoMsg}] /\ NoMsg \notin M
         /\ \A x, t \in Threads : msg[x] = msg[t] /\ msg[x] # NoMsg => x = t
         /\ holds \in [AllMessages -> Range(content)]
         /\ msg[s] = NoMsg /\ l # << >>
    BY <1>1, <1>6, <1>7, <1>8, <1>9, SubjectBlocks
  <1>11. /\ Shared(f, Tail(l), msg', M) /\ Head(l) \in M /\ \A t \in Threads : msg[t] # Head(l)
    <2>1. /\ Shared(l, f, msg, M) /\ msg' = [msg EXCEPT ![s] = Head(l)]
          /\ msg \in [Threads -> M \cup {NoMsg}] /\ NoMsg \notin M
          /\ msg[s] = NoMsg /\ l # << >>
      BY <1>1, <1>6, <1>9, <1>10, SharedSwap
    <2>2. /\ Shared(Tail(l), f, msg', M) /\ Head(l) \in M /\ Contains(l, Head(l))
          /\ \A t \in Threads : msg[t] # Head(l)
      BY ONLY <2>1, s \in Threads, TakeShared
    <2> QED BY <2>2, SharedSwap
  <1>12. QueueChanged(q, f, Tail(l), mq[q].entry - 1)
    <2>1. PICK v : v = take_first(mq[q])
      OBVIOUS
    <2>2. v = [msg_queue_free |-> f, msg_queue |-> Tail(l), entry |-> mq[q].entry - 1]
      BY <1>8, <1>9, <1>10, <2>1, QueueSections
    <2> QED BY <1>1, <1>6, <1>10, <2>1, <2>2 DEF QueueChanged
  <1>13. MsgData'
    <2>1. mq[q].entry - 1 = Len(Tail(l))
      BY <1>10 DEF Shared
    <2>2. /\ msg' \in [Threads -> M \cup {NoMsg}]
          /\ \A x, t \in Threads : msg'[x] = msg'[t] /\ msg'[x] # NoMsg => x = t
      BY <1>1, <1>6, <1>9, <1>10, <1>11
    <2>3. MsgData /\ holds' = holds /\ q \in MsgQueues
      BY <1>1, <1>6 DEF MsgInv
    <2> QED BY <1>7, <1>10, <1>11, <1>12, <2>1, <2>2, <2>3, MsgMoved
  <1>14. Served(k', pc', object', subject, mq'[subject].entry)
    <2>1. Change(subject, -1) /\ Served(k, pc, object, subject, mq[subject].entry)
      BY <1>2, <1>5 DEF Gone, MsgInv
    <2>2. mq'[subject].entry = mq[subject].entry - 1 /\ mq[subject].entry \in Int
      BY <1>6, <1>10, <1>12 DEF QueueChanged
    <2>3. mq'[subject].entry \in Int /\ mq'[subject].entry <= mq[subject].entry + (-1) /\ -1 \in Int
      BY <2>2
    <2> QED BY <2>1, <2>2, <2>3, ServedThen
  <1>15. Head(l) \in Messages[subject] \cup {NoMsg} /\ (Head(l) # NoMsg <=> "receiving" \in HoldPoints)
    BY <1>6, <1>7, <1>10, <1>11 DEF HoldPoints
  <1>16. pc' = [pc EXCEPT ![s] = "receiving"] /\ msg' = [msg EXCEPT ![s] = Head(l)]
    BY <1>1, <1>6, <1>9 DEF Goto
  <1>17. MsgInv'
    BY <1>3, <1>13, <1>14, <1>15, <1>16, MsgAfter
  <1> QED BY <1>5, <1>17 DEF Gone

\* The call that holds no block goes to another such point.
LEMMA MsgUntouched ==
    ASSUME MsgInv, subject \in MsgQueues, UNCHANGED <<messages, subject>>, pc \in [Threads -> Points],
           NEW s \in Threads, pc[s] \notin HoldPoints, NEW to, to \notin HoldPoints,
           pc' = [pc EXCEPT ![s] = to],
           subject \notin dying' => Served(k', pc', object', subject, mq[subject].entry)
    PROVE  MsgInv'
  <1>1. MsgData' /\ msg' = msg /\ mq' = mq
    BY DEF MsgInv, MsgData, messages
  <1>2. \A t \in Threads : pc'[t] = IF t = s THEN to ELSE pc[t]
    OBVIOUS
  <1>3. HoldsBlocks(pc', msg', Messages[subject])
    BY <1>1, <1>2 DEF MsgInv, HoldsBlocks
  <1> QED BY <1>1, <1>3 DEF MsgInv

\* The caller waits for a message.
LEMMA WaitMessageStep ==
    ASSUME Now, MsgInv, subject \in MsgQueues, NEW s \in Threads, subject \notin dying,
           k.current = s, k.stat[s] = "ready", s # Idle, pc[s] # "resuming", pc[s] \notin HoldPoints,
           wait_message(s, subject), UNCHANGED <<dying, subject>>
    PROVE  Now' /\ MsgInv'
  <1>1. subject \in Queues /\ subject \in Scope(subject) /\ (Untimed(subject) <=> subject \in Deletable)
    BY SingleAlone DEF Singles
  <1>2. PICK f : f = mq_flag[subject]
    OBVIOUS
  <1>3. PICK timed \in BOOLEAN : timed = (subject \notin Deletable)
    OBVIOUS
  <1>4. mq[subject].entry = 0 /\ WaitOn(s, subject, f, timed) /\ UNCHANGED messages
    BY <1>2, <1>3 DEF wait_message
  <1>5. timed => ~Untimed(subject)
    BY <1>1, <1>3
  <1>6. Parked(s, subject)
    BY <1>1, <1>4, <1>5, WaitOnStep
  <1>7. Served(k', pc', object', subject, mq[subject].entry)
    BY <1>4, ServedNone
  <1>8. pc' = [pc EXCEPT ![s] = "blocked"] /\ "blocked" \notin HoldPoints /\ pc \in [Threads -> Points]
    BY <1>4 DEF WaitOn, Goto, HoldPoints, Now, Calm, Waits
  <1>9. MsgInv'
    BY <1>4, <1>7, <1>8, MsgUntouched
  <1> QED BY <1>6, <1>9 DEF Parked

\* rt_mq_recv, from its start or after a rt_schedule.
LEMMA MsgRecvStep ==
    ASSUME Now, MsgInv, subject \in MsgQueues, NEW s \in Threads, NEW q \in MsgQueues,
           rt_mq_recv(s, q) \/ mq_recv_again(s, q), UNCHANGED subject
    PROVE  Now' /\ MsgInv'
  <1>0. MsgQueues \subseteq Queues /\ (\A x \in Queues : Usable(x) => x = subject /\ subject \notin dying)
        /\ Scope(subject) = {subject} /\ subject \notin Pools /\ subject \in Queues
    BY SingleAlone, MessageQueueAssumption, KindsApart DEF Singles
  <1>1. ASSUME rt_mq_recv(s, q)
        PROVE  Now' /\ MsgInv'
    <2>1. Running(s, "user") /\ Usable(q) /\ UNCHANGED dying /\ (recv_take(s, q) \/ wait_message(s, q))
      BY <1>1 DEF rt_mq_recv
    <2>2. q = subject /\ subject \notin dying
      BY <1>0, <2>1
    <2>3. k.current = s /\ k.stat[s] = "ready" /\ s # Idle /\ pc[s] # "resuming" /\ pc[s] \notin HoldPoints
      BY <2>1, RunningReady DEF HoldPoints
    <2> QED BY <2>1, <2>2, <2>3, RecvTakeStep, WaitMessageStep
  <1>2. ASSUME mq_recv_again(s, q)
        PROVE  Now' /\ MsgInv'
    <2>1. /\ Running(s, "woken") /\ object[s] = q /\ UNCHANGED dying
          /\ \/ k.error[s] = "RT_EOK" /\ (recv_take(s, q) \/ wait_message(s, q))
             \/ /\ k.error[s] # "RT_EOK" \/ mq[q].entry = 0
                /\ LeaveCall(s) /\ UNCHANGED <<k, messages>>
      BY <1>2 DEF mq_recv_again
    <2>2. k.current = s /\ k.stat[s] = "ready" /\ s # Idle /\ pc[s] # "resuming" /\ pc[s] = "woken"
          /\ pc[s] \notin HoldPoints /\ pc \in [Threads -> Points]
      BY <2>1, RunningReady DEF HoldPoints
    <2>3. q = subject
      BY <1>0, <2>1, <2>2, InScope DEF Outside
    <2>4. ASSUME k.error[s] = "RT_EOK", recv_take(s, q) \/ wait_message(s, q)
          PROVE  Now' /\ MsgInv'
      <3>1. subject \notin dying
        BY <1>0, <2>1, <2>4, StillThere DEF Outside
      <3> QED BY <2>1, <2>2, <2>3, <2>4, <3>1, RecvTakeStep, WaitMessageStep
    <2>5. ASSUME k.error[s] # "RT_EOK" \/ mq[q].entry = 0, LeaveCall(s), UNCHANGED <<k, messages>>
          PROVE  Now' /\ MsgInv'
      <3>1. Now' /\ (k.error[s] # "RT_EOK" => Change(subject, 0))
        BY <1>0, <2>1, <2>5, QuitStep DEF Gone
      <3>2. mq[subject].entry \in Int
        BY SubjectBlocks
      <3>3. subject \notin dying => Served(k', pc', object', subject, mq[subject].entry)
        <4> HAVE subject \notin dying
        <4>1. Served(k, pc, object, subject, mq[subject].entry)
          BY DEF MsgInv
        <4>2. Change(subject, 0) => Served(k', pc', object', subject, mq[subject].entry)
          BY <3>2, <4>1, ServedThen
        <4>3. mq[subject].entry = 0 => Served(k', pc', object', subject, mq[subject].entry)
          BY ServedNone
        <4> QED BY <2>3, <2>5, <3>1, <4>2, <4>3
      <3>4. pc' = [pc EXCEPT ![s] = "user"] /\ "user" \notin HoldPoints
        BY <2>5 DEF LeaveCall, LeaveTo, Goto, HoldPoints
      <3>5. MsgInv'
        BY <2>1, <2>2, <2>5, <3>3, <3>4, MsgUntouched
      <3> QED BY <3>1, <3>5
    <2> QED BY <2>1, <2>4, <2>5
  <1> QED BY <1>1, <1>2

\* Second section of rt_mq_recv.
LEMMA GiveBackStep ==
    ASSUME Now, MsgInv, subject \in MsgQueues, NEW s \in Threads, NEW q \in MsgQueues,
           recv_give_back(s, q), UNCHANGED subject
    PROVE  Now' /\ MsgInv'
  <1>1. /\ Running(s, "receiving") /\ object[s] = q /\ LeaveCall(s) /\ UNCHANGED <<k, dying, holds>>
        /\ mq' = [mq EXCEPT ![q] = give_back(mq[q], msg[s])] /\ msg' = [msg EXCEPT ![s] = NoMsg]
    BY DEF recv_give_back
  <1>2. /\ k.stat[s] = "ready" /\ s # Idle /\ pc[s] = "receiving" /\ pc \in [Threads -> Points]
        /\ \A r \in Queues : ~IsOnWay(s, r)
    BY <1>1, RunningReady, NotOnWay DEF WaitPoints
  <1>3. q = subject /\ subject \in Queues
    BY <1>1, <1>2, SingleAlone, InScope DEF Singles, Outside
  <1>4. Gone(s)
    <2>1. LeaveTo(s, "user") /\ "user" \in Outside /\ pc[s] # "resuming"
      BY <1>1, <1>2 DEF LeaveCall, Outside
    <2> QED BY <1>1, <1>2, <2>1, LeaveStep
  <1>5. MsgData' /\ mq'[subject].entry = mq[subject].entry /\ mq[subject].entry \in Int
    <2>1. PICK v : v = give_back(mq[subject], msg[s])
      OBVIOUS
    <2>2. mq' = [mq EXCEPT ![subject] = v] /\ pc[s] \in HoldPoints
          /\ holds' \in [AllMessages -> Range(content)]
      BY <1>1, <1>2, <1>3, <2>1 DEF HoldPoints, MsgInv, MsgData
    <2>3. /\ v = give_back(mq[subject], msg[s]) => MsgData' /\ mq'[subject].entry = mq[subject].entry
          /\ mq[subject].entry \in Int
      BY <1>1, <2>2, GiveMsgData
    <2> QED BY <2>1, <2>3
  <1>6. subject \notin dying => Served(k', pc', object', subject, mq'[subject].entry)
    <2> HAVE subject \notin dying
    <2>1. Change(subject, 0) /\ Served(k, pc, object, subject, mq[subject].entry)
      BY <1>2, <1>3, <1>4 DEF Gone, MsgInv
    <2> QED BY <1>5, <2>1, ServedThen
  <1>7. pc' = [pc EXCEPT ![s] = "user"] /\ NoMsg \in Messages[subject] \cup {NoMsg}
        /\ (NoMsg # NoMsg <=> "user" \in HoldPoints)
    BY <1>1 DEF LeaveCall, LeaveTo, Goto, HoldPoints
  <1>8. MsgInv'
    BY <1>1, <1>2, <1>5, <1>6, <1>7, MsgAfter
  <1> QED BY <1>4, <1>8 DEF Gone

\* RT_IPC_CMD_RESET.
LEMMA ResetMsgStep ==
    ASSUME Now, MsgInv, subject \in MsgQueues, NEW s \in Threads, NEW q \in MsgQueues,
           rt_mq_control(s, q), UNCHANGED subject
    PROVE  Now' /\ MsgInv'
  <1>1. /\ Running(s, "user") /\ Usable(q) /\ k' = resume_all(k, q) /\ Goto(s, "schedule")
        /\ mq' = [mq EXCEPT ![q] = [msg_queue_free |-> Reverse(mq[q].msg_queue) \o mq[q].msg_queue_free,
                                    msg_queue |-> << >>, entry |-> 0]]
        /\ UNCHANGED <<object, dying, msg, holds>>
    BY DEF rt_mq_control
  <1>2. q = subject /\ subject \notin dying /\ q \in Queues /\ subject \notin Pipes
    BY <1>1, SingleAlone, MessageQueueAssumption DEF Singles
  <1>3. Emptied(q)
    BY <1>1, <1>2, ResetStep
  <1>4. PICK M : M = Messages[q]
    OBVIOUS
  <1>5. /\ DOMAIN mq = MsgQueues /\ Shared(mq[q].msg_queue_free, mq[q].msg_queue, msg, M)
        /\ msg \in [Threads -> M \cup {NoMsg}]
        /\ \A x, t \in Threads : msg[x] = msg[t] /\ msg[x] # NoMsg => x = t
        /\ holds \in [AllMessages -> Range(content)]
        /\ \A t \in Threads : msg[t] # NoMsg <=> pc[t] \in HoldPoints
    BY <1>2, <1>4, SubjectBlocks
  <1>6. PICK f : f = Reverse(mq[q].msg_queue) \o mq[q].msg_queue_free
    OBVIOUS
  <1>7. Shared(f, << >>, msg, M)
    BY <1>5, <1>6, DropShared
  <1>8. QueueChanged(q, f, << >>, 0)
    BY <1>1, <1>5, <1>6 DEF QueueChanged
  <1>9. MsgData'
    <2>1. MsgData /\ msg' = msg /\ holds' = holds /\ Len(<< >>) = 0
      BY <1>1 DEF MsgInv
    <2> QED BY <1>4, <1>5, <1>7, <1>8, <2>1, MsgMoved
  <1>10. HoldsBlocks(pc', msg', Messages[subject])
    <2>1. pc[s] = "user" /\ pc \in [Threads -> Points]
      BY <1>1, RunningReady
    <2>2. \A t \in Threads : pc'[t] = IF t = s THEN "schedule" ELSE pc[t]
      BY <1>1, <2>1 DEF Goto
    <2> QED BY <1>1, <1>2, <1>4, <1>5, <2>1, <2>2 DEF HoldsBlocks, HoldPoints
  <1> QED BY <1>1, <1>2, <1>3, <1>9, <1>10 DEF Emptied, MsgInv, Served

\* rt_mq_detach.
LEMMA DetachMsgStep ==
    ASSUME Now, MsgInv, subject \in MsgQueues, NEW s \in Threads, UNCHANGED subject,
           (\E q \in MsgQueues : rt_mq_detach(s, q)) \/ mq_detach_one(s)
    PROVE  Now' /\ MsgInv'
  <1>0. subject \in Singles /\ MsgQueues \subseteq Queues
    BY MessageQueueAssumption DEF Singles
  <1>1. ASSUME NEW q \in MsgQueues, rt_mq_detach(s, q)
        PROVE  Now' /\ MsgInv'
    <2>1. detach(s, q) /\ OnlyWaiters({q}) /\ UNCHANGED messages
      BY <1>1 DEF rt_mq_detach
    <2>2. Detached /\ subject \in dying'
      BY <1>0, <2>1, SingleDetach
    <2>3. Running(s, "user")
      BY <2>1 DEF detach
    <2>4. pc[s] = "user" /\ pc \in [Threads -> Points]
      BY <2>3, RunningReady
    <2>5. PICK to \in {"user", "resuming"} : pc' = [pc EXCEPT ![s] = to]
      <3>1. CASE NoWaiter(q)
        <4>1. pc' = [pc EXCEPT ![s] = "user"]
          BY <2>1, <2>4, <3>1 DEF detach
        <4> QED BY <4>1
      <3>2. CASE ~NoWaiter(q)
        BY <2>1, <3>2 DEF detach, Goto
      <3> QED BY <3>1, <3>2
    <2>6. MsgInv'
      BY <2>1, <2>2, <2>4, <2>5, MsgUntouched DEF HoldPoints
    <2> QED BY <2>2, <2>6 DEF Detached
  <1>2. ASSUME mq_detach_one(s)
        PROVE  Now' /\ MsgInv'
    <2>1. resume_one(s) /\ UNCHANGED messages
      BY <1>2 DEF mq_detach_one
    <2>2. OneLess(subject) /\ UNCHANGED dying
      BY <1>0, <2>1, SingleResumeOne
    <2>3. Running(s, "resuming")
      BY <2>1 DEF resume_one
    <2>4. pc[s] = "resuming" /\ pc \in [Threads -> Points]
      BY <2>3, RunningReady
    <2>5. PICK to \in {"user", "resuming"} : pc' = [pc EXCEPT ![s] = to]
      <3>1. LeaveCall(s) \/ pc' = pc
        BY <2>1 DEF resume_one
      <3>2. [pc EXCEPT ![s] = "resuming"] = pc
        BY <2>4
      <3> QED BY <3>1, <3>2 DEF LeaveCall, LeaveTo, Goto
    <2>6. Now' /\ subject \in dying'
      BY <2>2 DEF OneLess, Detached
    <2>7. MsgInv'
      BY <2>1, <2>4, <2>5, <2>6, MsgUntouched DEF HoldPoints
    <2> QED BY <2>6, <2>7
  <1> QED BY <1>1, <1>2

\* Every step of a message queue.
LEMMA MsgStep ==
    ASSUME Now, MsgInv, subject \in MsgQueues, MessageQueueNext, UNCHANGED subject
    PROVE  Now' /\ MsgInv'
  <1>1. ASSUME Background, UNCHANGED messages
        PROVE  Now' /\ MsgInv'
    <2>1. Idled
      BY <1>1, BackgroundStep
    <2>2. subject \in Queues /\ mq[subject].entry \in Int
      BY SingleAlone, SubjectBlocks DEF Singles
    <2>3. Now' /\ Change(subject, 0) /\ \A x \in Threads : GoesOn(x)
      BY <2>1, <2>2 DEF Idled
    <2>4. UNCHANGED dying
      BY <1>1 DEF Background, ScheduleStep, tick_yield, timeout
    <2>5. MsgData' /\ msg' = msg /\ mq' = mq
      BY <1>1 DEF MsgInv, MsgData, messages
    <2>6. HoldsBlocks(pc', msg', Messages[subject])
      BY <2>3, <2>5 DEF MsgInv, HoldsBlocks, GoesOn, HoldPoints
    <2>7. subject \notin dying => Served(k', pc', object', subject, mq[subject].entry)
      <3> HAVE subject \notin dying
      <3>1. Served(k, pc, object, subject, mq[subject].entry)
        BY DEF MsgInv
      <3> QED BY <2>2, <2>3, <3>1, ServedThen
    <2> QED BY <2>3, <2>4, <2>5, <2>6, <2>7 DEF MsgInv
  <1>2. ASSUME NEW s \in Threads, NEW q \in MsgQueues, rt_mq_send(s, q) \/ rt_mq_urgent(s, q)
        PROVE  Now' /\ MsgInv'
    <2>1. PICK point \in {"sending", "sending_urgent"} : send_take(s, q, point)
      BY <1>2 DEF rt_mq_send, rt_mq_urgent
    <2> QED BY <2>1, SendTakeStep
  <1> QED BY <1>1, <1>2, SendLinkStep, IsrSendStep, MsgRecvStep, GiveBackStep, ResetMsgStep, DetachMsgStep
          DEF MessageQueueNext
-----------------------------------------------------------------------------
(* Data queues                                                             *)

\* The lists of the data queue that exists are those of the calls.
LEMMA DataQueueAlone ==
    ASSUME Detaching(k, pc, object, dying, subject), subject \in DataQueues
    PROVE  /\ subject \in Queues /\ suspended_push_list[subject] \in Queues \ {subject}
           /\ Scope(subject) = {subject, suspended_push_list[subject]}
           /\ \A q \in DataQueues : Usable(q) => q = subject
           /\ \A q \in DataQueues : q \in Scope(subject) => q = subject
           /\ \A q \in DataQueues : suspended_push_list[q] \in Scope(subject) => q = subject
           /\ subject \notin UNION {Pools, Pipes, Completions}
           /\ subject \notin dying
           /\ Untimed(subject) <=> subject \in Deletable
  <1>1. subject \notin UNION {Pools, Mailboxes, Pipes, Completions}
    BY KindsApart
  <1>2. /\ suspended_push_list \in [DataQueues -> Queues] /\ DataQueues \subseteq Queues
        /\ \A q \in DataQueues : suspended_push_list[q] \notin DataQueues
        /\ \A q, r \in DataQueues : suspended_push_list[q] = suspended_push_list[r] => q = r
    <2>1. \A q \in DataQueues : suspended_push_list[q] \in Pushers
      BY DEF Pushers
    <2>2. DOMAIN suspended_push_list = DataQueues /\ IsInjective(suspended_push_list)
      BY DataQueueAssumption
    <2>3. \A q, r \in DataQueues : suspended_push_list[q] = suspended_push_list[r] => q = r
      BY ONLY <2>2 DEF IsInjective
    <2> QED BY <2>1, <2>3, DataQueueAssumption
  <1>3. SubjectLists(subject) = {subject, suspended_push_list[subject]}
    BY <1>1 DEF SubjectLists
  <1>4. Scope(subject) = {subject, suspended_push_list[subject]}
    BY <1>1, <1>3 DEF Scope
  <1>5. ASSUME NEW q \in DataQueues, Usable(q)
        PROVE  q = subject
    <2>1. q \in SubjectLists(subject)
      BY <1>2, <1>5, OnlySubject DEF Usable
    <2> QED BY <1>2, <1>3, <1>5, <2>1
  <1>6. subject \notin dying
    BY DEF Detaching
  <1> QED BY <1>1, <1>2, <1>4, <1>5, <1>6 DEF Untimed

\* The fields of a data queue: the items lie between the two indices.
Fill(r) == r.put_index - r.get_index
DataRecord(q) ==
    [queue     : [0 .. dq_size[q] - 1 -> Range(data)],
     put_index : 0 .. MaxIndex,
     get_index : 0 .. MaxIndex]
DataData ==
    /\ DOMAIN dq = DataQueues
    /\ \A q \in DataQueues : dq[q] \in DataRecord(q) /\ Fill(dq[q]) \in 0 .. dq_size[q]

\* For each item a popper is on its way while some wait, and for each place
\* below the low water mark a pusher.
DataInv ==
    /\ DataData
    /\ subject \in DataQueues =>
          /\ Served(k, pc, object, subject, Fill(dq[subject]))
          /\ Served(k, pc, object, suspended_push_list[subject],
                    dq_lwm[subject] + 1 - Fill(dq[subject]))

\* One data queue changed.
QueueGot(q, queue_, put, get) ==
    /\ DOMAIN dq' = DataQueues
    /\ dq'[q] = [queue |-> queue_, put_index |-> put, get_index |-> get]
    /\ \A r \in DataQueues : r # q => dq'[r] = dq[r]

\* What put_data and get_data do to the fields.
LEMMA PutDataData ==
    ASSUME DataData, NEW q \in DataQueues, NEW item \in Range(data), ~QueueFull(q), put_data(q, item)
    PROVE  /\ DataData' /\ dq[q] \in DataRecord(q) /\ dq'[q] \in DataRecord(q)
           /\ Fill(dq'[q]) = Fill(dq[q]) + 1 /\ Fill(dq[q]) \in Int /\ Fill(dq[q]) \in 0 .. dq_size[q]
           /\ QueueGot(q, [dq[q].queue EXCEPT ![dq[q].put_index % dq_size[q]] = item],
                       dq[q].put_index + 1, dq[q].get_index)
  <1>1. dq[q] \in DataRecord(q) /\ Fill(dq[q]) \in 0 .. dq_size[q] /\ DOMAIN dq = DataQueues
        /\ dq_size[q] \in Nat \ {0} /\ MaxIndex \in Nat
    BY DataQueueAssumption DEF DataData
  <1>2. dq' = [dq EXCEPT ![q] = [queue     |-> [dq[q].queue EXCEPT ![dq[q].put_index % dq_size[q]] = item],
                                 put_index |-> dq[q].put_index + 1,
                                 get_index |-> dq[q].get_index]]
    BY <1>1 DEF put_data, DataRecord
  <1>3. QueueGot(q, [dq[q].queue EXCEPT ![dq[q].put_index % dq_size[q]] = item],
                 dq[q].put_index + 1, dq[q].get_index)
    BY <1>1, <1>2 DEF QueueGot
  <1>4. dq[q].put_index < MaxIndex /\ Fill(dq[q]) # dq_size[q]
    BY DEF put_data, QueueFull, Length, Fill
  <1>5. dq'[q] \in DataRecord(q)
    <2>1. [dq[q].queue EXCEPT ![dq[q].put_index % dq_size[q]] = item] \in [0 .. dq_size[q] - 1 -> Range(data)]
      BY <1>1 DEF DataRecord
    <2>2. dq[q].put_index + 1 \in 0 .. MaxIndex /\ dq[q].get_index \in 0 .. MaxIndex
      BY <1>1, <1>4 DEF DataRecord
    <2> QED BY <1>3, <2>1, <2>2 DEF QueueGot, DataRecord
  <1>6. Fill(dq'[q]) = Fill(dq[q]) + 1 /\ Fill(dq[q]) \in Int
    BY <1>1, <1>3 DEF QueueGot, DataRecord, Fill
  <1>7. Fill(dq'[q]) \in 0 .. dq_size[q]
    BY <1>1, <1>4, <1>6
  <1>8. DataData'
    <2>1. \A r \in DataQueues : dq'[r] \in DataRecord(r) /\ Fill(dq'[r]) \in 0 .. dq_size[r]
      BY <1>3, <1>5, <1>7 DEF DataData, QueueGot
    <2> QED BY <1>3, <2>1 DEF DataData, QueueGot, Fill, DataRecord
  <1> QED BY <1>1, <1>3, <1>5, <1>6, <1>8

LEMMA GetDataData ==
    ASSUME DataData, NEW q \in DataQueues, ~QueueEmpty(q), get_data(q)
    PROVE  /\ DataData' /\ dq[q] \in DataRecord(q) /\ dq'[q] \in DataRecord(q)
           /\ Fill(dq'[q]) = Fill(dq[q]) - 1 /\ Fill(dq[q]) \in Int /\ Fill(dq[q]) \in 0 .. dq_size[q]
           /\ QueueGot(q, dq[q].queue, dq[q].put_index, dq[q].get_index + 1)
  <1>1. dq[q] \in DataRecord(q) /\ Fill(dq[q]) \in 0 .. dq_size[q] /\ DOMAIN dq = DataQueues
        /\ dq_size[q] \in Nat \ {0} /\ MaxIndex \in Nat
    BY DataQueueAssumption DEF DataData
  <1>2. dq' = [dq EXCEPT ![q] = [queue     |-> dq[q].queue,
                                 put_index |-> dq[q].put_index,
                                 get_index |-> dq[q].get_index + 1]]
    <2>1. PICK r : r = dq[q]
      OBVIOUS
    <2>2. dq' = [dq EXCEPT ![q] = [r EXCEPT !.get_index = r.get_index + 1]]
      BY <1>1, <2>1 DEF get_data
    <2>3. [r EXCEPT !.get_index = r.get_index + 1] =
             [queue |-> r.queue, put_index |-> r.put_index, get_index |-> r.get_index + 1]
      BY <1>1, <2>1 DEF DataRecord
    <2> QED BY <2>1, <2>2, <2>3
  <1>3. QueueGot(q, dq[q].queue, dq[q].put_index, dq[q].get_index + 1)
    BY <1>1, <1>2 DEF QueueGot
  <1>4. dq[q].get_index + 1 \in 0 .. MaxIndex /\ Fill(dq[q]) - 1 \in 0 .. dq_size[q]
    BY <1>1 DEF QueueEmpty, Fill, DataRecord
  <1>5. dq'[q] \in DataRecord(q)
    BY <1>1, <1>3, <1>4 DEF QueueGot, DataRecord
  <1>6. Fill(dq'[q]) = Fill(dq[q]) - 1 /\ Fill(dq[q]) \in Int
    BY <1>1, <1>3 DEF QueueGot, DataRecord, Fill
  <1>8. DataData'
    <2>1. \A r \in DataQueues : dq'[r] \in DataRecord(r) /\ Fill(dq'[r]) \in 0 .. dq_size[r]
      BY <1>3, <1>4, <1>5, <1>6 DEF DataData, QueueGot
    <2> QED BY <1>3, <2>1 DEF DataData, QueueGot, Fill, DataRecord
  <1> QED BY <1>1, <1>3, <1>5, <1>6, <1>8

\* The invariant from what the two lists gained.
LEMMA DataServed ==
    ASSUME DataInv, subject \in DataQueues, DataData', UNCHANGED subject,
           NEW d \in Int, Change(subject, d), Fill(dq'[subject]) <= Fill(dq[subject]) + d,
           NEW e \in Int, Change(suspended_push_list[subject], e),
           Fill(dq[subject]) <= Fill(dq'[subject]) + e
    PROVE  DataInv'
  <1>1. /\ Fill(dq[subject]) \in Int /\ Fill(dq'[subject]) \in Int /\ dq_lwm[subject] \in Int
    BY DataQueueAssumption DEF DataInv, DataData
  <1>2. /\ dq_lwm[subject] + 1 - Fill(dq[subject]) \in Int /\ dq_lwm[subject] + 1 - Fill(dq'[subject]) \in Int
        /\ dq_lwm[subject] + 1 - Fill(dq'[subject]) <= (dq_lwm[subject] + 1 - Fill(dq[subject])) + e
    BY <1>1
  <1>3. /\ Served(k, pc, object, subject, Fill(dq[subject]))
        /\ Served(k, pc, object, suspended_push_list[subject], dq_lwm[subject] + 1 - Fill(dq[subject]))
    BY DEF DataInv
  <1>4. Served(k', pc', object', subject, Fill(dq'[subject]))
    BY <1>1, <1>3, ServedThen
  <1>5. Served(k', pc', object', suspended_push_list[subject], dq_lwm[subject] + 1 - Fill(dq'[subject]))
    BY <1>2, <1>3, ServedThen
  <1> QED BY <1>4, <1>5 DEF DataInv, Fill

\* An item is pushed or popped, or the call waits.
LEMMA PushDataStep ==
    ASSUME Now, DataInv, subject \in DataQueues, NEW s \in Threads,
           k.stat[s] = "ready", s # Idle, pc[s] # "resuming", ~IsOnWay(s, subject),
           push_data(s, subject), UNCHANGED <<dying, subject>>
    PROVE  Now' /\ DataInv'
  <1>1. /\ subject \in Queues /\ suspended_push_list[subject] \in Queues \ {subject}
        /\ subject \notin dying
    BY DataQueueAlone DEF Now, Calm
  <1>2. data[s] \in Range(data)
    BY DataQueueAssumption DEF Range
  <1>3. DataData' /\ Fill(dq'[subject]) = Fill(dq[subject]) + 1 /\ Fill(dq[subject]) \in Int
    <2>1. DataData /\ ~QueueFull(subject) /\ put_data(subject, data[s])
      BY DEF push_data, DataInv
    <2> QED BY <1>2, <2>1, PutDataData
  <1>4. Gave(s, subject)
    BY <1>1, LeaveWakingStep DEF push_data
  <1>5. Now' /\ Change(subject, 1) /\ Change(suspended_push_list[subject], -1)
    BY <1>1, <1>4 DEF Gave
  <1>6. Fill(dq'[subject]) <= Fill(dq[subject]) + 1 /\ Fill(dq[subject]) <= Fill(dq'[subject]) + (-1)
        /\ 1 \in Int /\ -1 \in Int
    BY <1>3
  <1> QED BY <1>3, <1>5, <1>6, DataServed

\* Above the low water mark no pusher need be on its way.
LEMMA HighWater ==
    ASSUME DataInv, subject \in DataQueues, DataData', UNCHANGED subject, ~AtLowWater(subject),
           Fill(dq'[subject]) = Fill(dq[subject]) - 1, Change(subject, -1)
    PROVE  DataInv'
  <1>1. /\ Fill(dq[subject]) \in Int /\ dq_lwm[subject] \in Int
    BY DataQueueAssumption DEF DataInv, DataData
  <1>2. dq_lwm[subject] + 1 - Fill(dq'[subject]) \in Int /\ dq_lwm[subject] + 1 - Fill(dq'[subject]) <= 0
    BY <1>1 DEF AtLowWater, Length, Fill
  <1>3. Served(k', pc', object', suspended_push_list[subject], dq_lwm[subject] + 1 - Fill(dq'[subject]))
    BY <1>2, ServedNone
  <1>4. Served(k', pc', object', subject, Fill(dq'[subject]))
    <2>1. Served(k, pc, object, subject, Fill(dq[subject])) /\ Fill(dq'[subject]) \in Int /\ -1 \in Int
          /\ Fill(dq'[subject]) <= Fill(dq[subject]) + (-1)
      BY <1>1 DEF DataInv
    <2> QED BY <1>1, <2>1, ServedThen
  <1> QED BY <1>3, <1>4 DEF DataInv, Fill

LEMMA PopDataStep ==
    ASSUME Now, DataInv, subject \in DataQueues, NEW s \in Threads,
           k.stat[s] = "ready", s # Idle, pc[s] # "resuming",
           ~IsOnWay(s, suspended_push_list[subject]),
           pop_data(s, subject), UNCHANGED <<dying, subject>>
    PROVE  Now' /\ DataInv'
  <1>1. /\ subject \in Queues /\ suspended_push_list[subject] \in Queues \ {subject}
        /\ subject \notin dying
    BY DataQueueAlone DEF Now, Calm
  <1>3. DataData' /\ Fill(dq'[subject]) = Fill(dq[subject]) - 1 /\ Fill(dq[subject]) \in Int
    <2>1. DataData /\ ~QueueEmpty(subject) /\ get_data(subject)
      BY DEF pop_data, DataInv
    <2> QED BY <2>1, GetDataData
  <1>4. CASE AtLowWater(subject)
    <2>1. Gave(s, suspended_push_list[subject])
      <3>1. LeaveWaking(s, suspended_push_list[subject])
        BY <1>4 DEF pop_data
      <3> QED BY <1>1, <3>1, LeaveWakingStep
    <2>2. Now' /\ Change(subject, -1) /\ Change(suspended_push_list[subject], 1)
      BY <1>1, <2>1 DEF Gave
    <2>3. Fill(dq'[subject]) <= Fill(dq[subject]) + (-1) /\ Fill(dq[subject]) <= Fill(dq'[subject]) + 1
          /\ 1 \in Int /\ -1 \in Int
      BY <1>3
    <2> QED BY <1>3, <2>2, <2>3, DataServed
  <1>5. CASE ~AtLowWater(subject)
    <2>1. LeaveTo(s, "user") /\ "user" \in Outside /\ UNCHANGED <<k, dying, subject>>
      BY <1>5 DEF pop_data, LeaveCall, Outside
    <2>2. Gone(s)
      BY <2>1, LeaveStep
    <2> QED BY <1>1, <1>3, <1>5, <2>2, HighWater DEF Gone
  <1> QED BY <1>4, <1>5

\* The call waits on one list; on the other one nobody is lost.
LEMMA WaitDataStep ==
    ASSUME Now, DataInv, subject \in DataQueues, NEW s \in Threads,
           k.current = s, k.stat[s] = "ready", s # Idle, pc[s] # "resuming",
           \/ ~IsOnWay(s, subject) /\ wait_push(s, subject)
           \/ ~IsOnWay(s, suspended_push_list[subject]) /\ wait_pop(s, subject),
           UNCHANGED <<dying, subject>>
    PROVE  Now' /\ DataInv'
  <1>1. /\ subject \in Queues /\ suspended_push_list[subject] \in Queues /\ subject \notin dying
        /\ suspended_push_list[subject] # subject
        /\ Scope(subject) = {subject, suspended_push_list[subject]}
        /\ Untimed(subject) <=> subject \in Deletable
    BY DataQueueAlone DEF Now, Calm
  <1>2. dq' = dq
    BY DEF wait_push, wait_pop
  <1>3. DataData' /\ Fill(dq[subject]) \in Int /\ dq_lwm[subject] \in Int /\ dq_size[subject] \in Int
        /\ dq_lwm[subject] + 1 <= dq_size[subject]
    BY <1>2, DataQueueAssumption DEF DataInv, DataData, Fill, DataRecord
  <1>4. PICK f : f = "RT_IPC_FLAG_FIFO"
    OBVIOUS
  <1>5. PICK timed \in BOOLEAN : timed = (subject \notin Deletable)
    OBVIOUS
  <1>6. timed => ~Untimed(subject)
    BY <1>1, <1>5
  <1>7. ASSUME ~IsOnWay(s, subject), wait_push(s, subject)
        PROVE  Now' /\ DataInv'
    <2>1. QueueFull(subject) /\ WaitOn(s, suspended_push_list[subject], f, timed)
      BY <1>4, <1>5, <1>7 DEF wait_push
    <2>2. Parked(s, suspended_push_list[subject])
      BY <1>1, <1>6, <2>1, WaitOnStep
    <2>3. Now' /\ Change(subject, 0)
      BY <1>1, <1>7, <2>2 DEF Parked
    <2>4. Served(k', pc', object', suspended_push_list[subject], dq_lwm[subject] + 1 - Fill(dq[subject]))
      <3>1. dq_lwm[subject] + 1 - Fill(dq[subject]) \in Int /\ dq_lwm[subject] + 1 - Fill(dq[subject]) <= 0
        BY <1>3, <2>1 DEF QueueFull, Length, Fill
      <3> QED BY <3>1, ServedNone
    <2>5. Served(k', pc', object', subject, Fill(dq[subject]))
      <3>1. Served(k, pc, object, subject, Fill(dq[subject]))
        BY DEF DataInv
      <3> QED BY <1>3, <2>3, <3>1, ServedThen
    <2> QED BY <1>2, <1>3, <2>3, <2>4, <2>5 DEF DataInv, Fill
  <1>8. ASSUME ~IsOnWay(s, suspended_push_list[subject]), wait_pop(s, subject)
        PROVE  Now' /\ DataInv'
    <2>1. QueueEmpty(subject) /\ WaitOn(s, subject, f, timed)
      BY <1>4, <1>5, <1>8 DEF wait_pop
    <2>2. Parked(s, subject)
      BY <1>1, <1>6, <2>1, WaitOnStep
    <2>3. Now' /\ Change(suspended_push_list[subject], 0)
      BY <1>1, <1>8, <2>2 DEF Parked
    <2>4. Served(k', pc', object', subject, Fill(dq[subject]))
      <3>1. Fill(dq[subject]) <= 0
        <4>1. dq[subject] \in DataRecord(subject)
          BY DEF DataInv, DataData
        <4> QED BY <2>1, <4>1 DEF QueueEmpty, Fill, DataRecord
      <3> QED BY <1>3, <3>1, ServedNone
    <2>5. Served(k', pc', object', suspended_push_list[subject], dq_lwm[subject] + 1 - Fill(dq[subject]))
      <3>1. Served(k, pc, object, suspended_push_list[subject], dq_lwm[subject] + 1 - Fill(dq[subject]))
            /\ dq_lwm[subject] + 1 - Fill(dq[subject]) \in Int
        BY <1>3 DEF DataInv
      <3> QED BY <1>3, <2>3, <3>1, ServedThen
    <2> QED BY <1>2, <1>3, <2>3, <2>4, <2>5 DEF DataInv, Fill
  <1> QED BY <1>7, <1>8

\* A call that was turned away or came too late ends.
LEMMA QuitDataStep ==
    ASSUME Now, DataInv, subject \in DataQueues, NEW s \in Threads, Running(s, "woken"),
           LeaveCall(s), UNCHANGED <<k, dying, subject, dq>>, k.error[s] # "RT_EOK"
    PROVE  Now' /\ DataInv'
  <1>1. subject \in Queues /\ suspended_push_list[subject] \in Queues
    BY DataQueueAlone DEF Now, Calm
  <1>2. /\ Now'
        /\ \A r \in Queues : k.error[s] # "RT_EOK" \/ object[s] # r => Change(r, 0)
    BY QuitStep DEF Gone
  <1>3. Change(subject, 0) /\ Change(suspended_push_list[subject], 0)
    BY <1>1, <1>2
  <1>4. DataData' /\ Fill(dq[subject]) \in Int
    BY DEF DataInv, DataData, Fill, DataRecord
  <1>5. Fill(dq'[subject]) <= Fill(dq[subject]) + 0 /\ Fill(dq[subject]) <= Fill(dq'[subject]) + 0 /\ 0 \in Int
    BY <1>4
  <1> QED BY <1>2, <1>3, <1>4, <1>5, DataServed

\* rt_data_queue_push and rt_data_queue_pop, from their start or after a
\* rt_schedule.
LEMMA DataCallStep ==
    ASSUME Now, DataInv, subject \in DataQueues, NEW s \in Threads, NEW q \in DataQueues,
           \/ rt_data_queue_push(s, q) \/ push_again(s, q)
           \/ rt_data_queue_pop(s, q) \/ pop_again(s, q),
           UNCHANGED subject
    PROVE  Now' /\ DataInv'
  <1>1. /\ suspended_push_list[subject] # subject
        /\ Usable(q) => q = subject
        /\ q \in Scope(subject) => q = subject
        /\ suspended_push_list[q] \in Scope(subject) => q = subject
    BY DataQueueAlone DEF Now, Calm
  <1>2. ASSUME rt_data_queue_push(s, q) \/ rt_data_queue_pop(s, q)
        PROVE  Now' /\ DataInv'
    <2>1. /\ Running(s, "user") /\ Usable(q) /\ UNCHANGED dying
          /\ push_data(s, q) \/ wait_push(s, q) \/ pop_data(s, q) \/ wait_pop(s, q)
      BY <1>2 DEF rt_data_queue_push, rt_data_queue_pop
    <2>2. q = subject
      BY <1>1, <2>1
    <2>3. k.current = s /\ k.stat[s] = "ready" /\ s # Idle /\ pc[s] # "resuming"
          /\ ~IsOnWay(s, subject) /\ ~IsOnWay(s, suspended_push_list[subject])
      BY <2>1, RunningReady, NotOnWay DEF WaitPoints
    <2> QED BY <2>1, <2>2, <2>3, PushDataStep, PopDataStep, WaitDataStep
  <1>3. ASSUME push_again(s, q)
        PROVE  Now' /\ DataInv'
    <2>1. /\ Running(s, "woken") /\ object[s] = suspended_push_list[q] /\ UNCHANGED dying
          /\ \/ k.error[s] # "RT_EOK" /\ LeaveCall(s) /\ UNCHANGED <<k, dq>>
             \/ push_data(s, q) \/ wait_push(s, q)
      BY <1>3 DEF push_again
    <2>2. k.current = s /\ k.stat[s] = "ready" /\ s # Idle /\ pc[s] = "woken"
      BY <2>1, RunningReady
    <2>3. q = subject
      BY <1>1, <2>1, <2>2, InScope DEF Outside
    <2>4. ~IsOnWay(s, subject)
      BY <1>1, <2>1, <2>3, NotOnWay
    <2> QED BY <2>1, <2>2, <2>3, <2>4, PushDataStep, WaitDataStep, QuitDataStep
  <1>4. ASSUME pop_again(s, q)
        PROVE  Now' /\ DataInv'
    <2>1. /\ Running(s, "woken") /\ object[s] = q /\ UNCHANGED dying
          /\ \/ k.error[s] # "RT_EOK" /\ LeaveCall(s) /\ UNCHANGED <<k, dq>>
             \/ pop_data(s, q) \/ wait_pop(s, q)
      BY <1>4 DEF pop_again
    <2>2. k.current = s /\ k.stat[s] = "ready" /\ s # Idle /\ pc[s] = "woken"
      BY <2>1, RunningReady
    <2>3. q = subject
      BY <1>1, <2>1, <2>2, InScope DEF Outside
    <2>4. ~IsOnWay(s, suspended_push_list[subject])
      BY <1>1, <2>1, <2>3, NotOnWay
    <2> QED BY <2>1, <2>2, <2>3, <2>4, PopDataStep, WaitDataStep, QuitDataStep
  <1> QED BY <1>2, <1>3, <1>4

\* rt_data_queue_push and _pop by handlers.
LEMMA IsrDataStep ==
    ASSUME Now, DataInv, subject \in DataQueues, NEW q \in DataQueues, isr_push(q) \/ isr_pop(q),
           UNCHANGED subject
    PROVE  Now' /\ DataInv'
  <1>1. /\ Usable(q) /\ UNCHANGED <<pc, object, dying>>
    BY DEF isr_push, isr_pop
  <1>2. /\ subject \in Queues /\ suspended_push_list[subject] \in Queues \ {subject}
        /\ q = subject /\ subject \notin dying
    BY <1>1, DataQueueAlone DEF Now, Calm
  <1>3. ASSUME isr_push(q)
        PROVE  Now' /\ DataInv'
    <2>1. data[Idle] \in Range(data)
      BY DataQueueAssumption, IpcAssumption DEF Range
    <2>2. ~QueueFull(q) /\ put_data(q, data[Idle]) /\ IsrWaking(q)
      BY <1>3 DEF isr_push
    <2>3. DataData' /\ Fill(dq'[subject]) = Fill(dq[subject]) + 1 /\ Fill(dq[subject]) \in Int
      BY <1>2, <2>1, <2>2, PutDataData DEF DataInv
    <2>4. Given(subject)
      <3>1. HandlerGave(k', subject)
        BY <1>2, <2>2, IsrWakingEffect
      <3> QED BY <1>1, <1>2, <3>1, HandlerStep
    <2>5. Now' /\ Change(subject, 1) /\ Change(suspended_push_list[subject], 0)
      BY <1>2, <2>4 DEF Given
    <2>6. Fill(dq'[subject]) <= Fill(dq[subject]) + 1 /\ Fill(dq[subject]) <= Fill(dq'[subject]) + 0
          /\ 1 \in Int /\ 0 \in Int
      BY <2>3
    <2> QED BY <2>3, <2>5, <2>6, DataServed
  <1>4. ASSUME isr_pop(q)
        PROVE  Now' /\ DataInv'
    <2>1. /\ ~QueueEmpty(q) /\ get_data(q)
          /\ IF AtLowWater(q) THEN IsrWaking(suspended_push_list[q]) ELSE UNCHANGED k
      BY <1>4 DEF isr_pop
    <2>2. DataData' /\ Fill(dq'[subject]) = Fill(dq[subject]) - 1 /\ Fill(dq[subject]) \in Int
      BY <1>2, <2>1, GetDataData DEF DataInv
    <2>3. CASE AtLowWater(q)
      <3>1. Given(suspended_push_list[subject])
        <4>1. HandlerGave(k', suspended_push_list[subject])
          BY <1>2, <2>1, <2>3, IsrWakingEffect
        <4> QED BY <1>1, <1>2, <4>1, HandlerStep
      <3>2. Now' /\ Change(suspended_push_list[subject], 1) /\ Change(subject, 0)
        BY <1>2, <3>1 DEF Given
      <3>3. Fill(dq'[subject]) <= Fill(dq[subject]) + 0 /\ Fill(dq[subject]) <= Fill(dq'[subject]) + 1
            /\ 1 \in Int /\ 0 \in Int
        BY <2>2
      <3> QED BY <2>2, <3>2, <3>3, DataServed
    <2>4. CASE ~AtLowWater(q)
      <3>1. UNCHANGED <<k, pc, object, dying, subject>>
        BY <1>1, <2>1, <2>4
      <3>2. Now'
        BY <3>1 DEF Now
      <3>3. Change(subject, -1)
        <4>1. Cardinality(Way(k, pc, object, subject)) \in Nat
          BY WayFinite
        <4> QED BY <3>1, <4>1 DEF Change, Gains, Served
      <3> QED BY <1>2, <2>2, <2>4, <3>2, <3>3, HighWater
    <2> QED BY <2>3, <2>4
  <1> QED BY <1>3, <1>4

\* While the scheduler is locked the kernel functions do what they do without
\* the lock.
Relocked(v, n) == [v EXCEPT !.lock_nest = n]
LEMMA UnlockedTurn ==
    ASSUME NEW u \in KernelType, NEW t \in Threads
    PROVE  /\ Unlocked(turn_away(u, t)) = turn_away(Unlocked(u), t)
           /\ turn_away(u, t) = Relocked(turn_away(Unlocked(u), t), u.lock_nest)
  <1>1. ASSUME NEW v, DOMAIN v = DOMAIN u, v.stat = u.stat
        PROVE  /\ Unlocked([v EXCEPT !.error[t] = "RT_ERROR"]) = [Unlocked(v) EXCEPT !.error[t] = "RT_ERROR"]
               /\ DOMAIN [v EXCEPT !.error[t] = "RT_ERROR"] = DOMAIN u
               /\ [v EXCEPT !.error[t] = "RT_ERROR"].lock_nest = v.lock_nest
               /\ [v EXCEPT !.error[t] = "RT_ERROR"].stat = v.stat
    BY <1>1 DEF Unlocked, KernelType
  <1>2. ASSUME NEW v, DOMAIN v = DOMAIN u
        PROVE  /\ Unlocked(rt_list_remove(v, t)) = rt_list_remove(Unlocked(v), t)
               /\ DOMAIN rt_list_remove(v, t) = DOMAIN u
               /\ rt_list_remove(v, t).lock_nest = v.lock_nest
    BY <1>2 DEF Unlocked, rt_list_remove, KernelType
  <1>3. ASSUME NEW v, DOMAIN v = DOMAIN u
        PROVE  /\ Unlocked(rt_timer_stop(v, t)) = rt_timer_stop(Unlocked(v), t)
               /\ DOMAIN rt_timer_stop(v, t) = DOMAIN u
               /\ rt_timer_stop(v, t).lock_nest = v.lock_nest
    BY <1>3 DEF Unlocked, rt_timer_stop, KernelType
  <1>4. ASSUME NEW v, DOMAIN v = DOMAIN u
        PROVE  /\ Unlocked(rt_schedule_insert_thread(v, t)) = rt_schedule_insert_thread(Unlocked(v), t)
               /\ rt_schedule_insert_thread(v, t) =
                     Relocked(rt_schedule_insert_thread(Unlocked(v), t), v.lock_nest)
    BY <1>4 DEF Unlocked, Relocked, rt_schedule_insert_thread, KernelType
  <1>5. PICK w : w = [u EXCEPT !.error[t] = "RT_ERROR"]
    OBVIOUS
  <1>6. /\ Unlocked(w) = [Unlocked(u) EXCEPT !.error[t] = "RT_ERROR"] /\ DOMAIN w = DOMAIN u
        /\ w.lock_nest = u.lock_nest /\ Unlocked(w).stat = w.stat /\ w = Relocked(Unlocked(w), u.lock_nest)
    BY <1>1, <1>5 DEF Unlocked, Relocked, KernelType
  <1>7. turn_away(u, t) = rt_thread_resume(w, t) /\ turn_away(Unlocked(u), t) = rt_thread_resume(Unlocked(w), t)
    BY <1>5, <1>6 DEF turn_away
  <1>8. PICK x : x = rt_list_remove(w, t)
    OBVIOUS
  <1>9. PICK y : y = rt_timer_stop(x, t)
    OBVIOUS
  <1>10. Unlocked(x) = rt_list_remove(Unlocked(w), t) /\ x.lock_nest = u.lock_nest /\ DOMAIN x = DOMAIN u
    BY <1>2, <1>6, <1>8
  <1>11. Unlocked(y) = rt_timer_stop(Unlocked(x), t) /\ y.lock_nest = u.lock_nest /\ DOMAIN y = DOMAIN u
    BY <1>3, <1>9, <1>10
  <1>12. /\ Unlocked(rt_schedule_insert_thread(y, t)) = rt_schedule_insert_thread(Unlocked(y), t)
         /\ rt_schedule_insert_thread(y, t) = Relocked(rt_schedule_insert_thread(Unlocked(y), t), u.lock_nest)
    BY <1>4, <1>11
  <1> QED BY <1>6, <1>7, <1>8, <1>9, <1>10, <1>11, <1>12 DEF rt_thread_resume, resume_unlink

LEMMA UnlockedMove ==
    ASSUME NEW u \in KernelType
    PROVE  /\ Unlocked(move_to_tail(u)) = move_to_tail(Unlocked(u))
           /\ move_to_tail(u) = Relocked(move_to_tail(Unlocked(u)), u.lock_nest)
  <1>1. DOMAIN rt_list_remove(u, u.current) = DOMAIN u
    BY DEF rt_list_remove, KernelType
  <1>2. PICK x : x = rt_list_remove(u, u.current)
    OBVIOUS
  <1>3. Unlocked(x) = rt_list_remove(Unlocked(u), u.current) /\ x.lock_nest = u.lock_nest
        /\ Unlocked(u).current = u.current /\ Unlocked(u).prio = u.prio
    BY <1>2 DEF Unlocked, rt_list_remove, KernelType
  <1>4. PICK p : p = u.prio[u.current]
    OBVIOUS
  <1>5. PICK t : t = u.current
    OBVIOUS
  <1>6. /\ Unlocked([x EXCEPT !.ready[p] = Append(@, t)]) = [Unlocked(x) EXCEPT !.ready[p] = Append(@, t)]
        /\ [x EXCEPT !.ready[p] = Append(@, t)] =
              Relocked([Unlocked(x) EXCEPT !.ready[p] = Append(@, t)], x.lock_nest)
    BY <1>1, <1>2 DEF Unlocked, Relocked, KernelType
  <1> QED BY <1>2, <1>3, <1>4, <1>5, <1>6 DEF move_to_tail

\* A table whose scheduler is locked is of the right type when the unlocked one
\* is, and has the same fields otherwise.
LEMMA LockedType ==
    ASSUME NEW v \in KernelType, NEW u, u = Relocked(v, 1)
    PROVE  /\ u \in KernelType /\ u.lock_nest = 1
           /\ u.stat = v.stat /\ u.error = v.error /\ u.queue = v.queue
           /\ u.current = v.current /\ u.timer = v.timer
  <1> QED BY DEF Relocked, KernelType

Held == Locked(k, pc, object, dying, subject)

\* The invariant when the lists have lost but failed waiters.
LEMMA DataKept ==
    ASSUME DataInv, subject \in DataQueues, UNCHANGED <<dq, subject>>,
           Change(subject, 0), Change(suspended_push_list[subject], 0)
    PROVE  DataInv'
  <1>1. DataData' /\ Fill(dq[subject]) \in Int
    BY DEF DataInv, DataData, Fill, DataRecord
  <1>2. Fill(dq'[subject]) <= Fill(dq[subject]) + 0 /\ Fill(dq[subject]) <= Fill(dq'[subject]) + 0 /\ 0 \in Int
    BY <1>1
  <1> QED BY <1>1, <1>2, DataServed

\* rt_data_queue_reset locks the scheduler.
LEMMA ResetLocks ==
    ASSUME Now, DataInv, subject \in DataQueues, NEW s \in Threads, NEW q \in DataQueues,
           rt_data_queue_reset(s, q), UNCHANGED subject
    PROVE  Held' /\ DataInv'
  <1>1. /\ Running(s, "user") /\ Usable(q) /\ q \in Deletable /\ UNCHANGED <<dying, dq>>
        /\ k' = [k EXCEPT !.lock_nest = @ + 1]
        /\ Goto(s, "dq_reset") /\ object' = [object EXCEPT ![s] = q]
    BY DEF rt_data_queue_reset
  <1>2. /\ q = subject /\ subject \in Queues /\ subject \notin dying /\ subject \in Scope(subject)
        /\ suspended_push_list[subject] \in Queues
    BY <1>1, DataQueueAlone DEF Now, Calm
  <1>3. /\ k.current = s /\ s # Idle /\ pc[s] = "user" /\ k.stat[s] = "ready"
        /\ pc \in [Threads -> Points] /\ object \in [Threads -> Queues]
        /\ Waits(k, pc, object, subject) /\ Detaching(k, pc, object, dying, subject)
    BY <1>1, RunningReady
  <1>4. k \in KernelType /\ k.lock_nest = 0
    BY <1>3, SettledType DEF Waits, Settled
  <1>5. PICK u : u = k'
    OBVIOUS
  <1>6. u = Relocked(k, 1) /\ Unlocked(u) = k
    <2>1. u = Relocked(k, 1)
      BY <1>1, <1>4, <1>5 DEF Relocked
    <2> QED BY <1>4, <2>1 DEF Relocked, Unlocked, KernelType
  <1>7. /\ u \in KernelType /\ u.lock_nest = 1
        /\ u.stat = k.stat /\ u.error = k.error /\ u.queue = k.queue /\ u.current = k.current
    BY <1>4, <1>6, LockedType
  <1>8. /\ pc' \in [Threads -> Points] /\ object' \in [Threads -> Queues]
        /\ \A x \in Threads : x # s => pc'[x] = pc[x] /\ object'[x] = object[x]
        /\ pc'[s] = "dq_reset" /\ object'[s] \in Scope(subject)
    BY <1>1, <1>2, <1>3 DEF Goto, Points
  <1>9. Waits(k, pc', object', subject)
    BY <1>3, <1>8, GoWaits
  <1>10. Detaching(u, pc', object', dying', subject')
    <2>1. \A x \in Threads : pc'[x] = "resuming" => pc[x] = "resuming"
      BY <1>8
    <2>2. Detaching(u, pc', object', dying, subject)
      BY <1>2, <1>3, <2>1, NotDetached
    <2> QED BY <1>1, <2>2
  <1>11. \A t \in Threads : pc'[t] = "dq_reset" <=> t = u.current
    BY <1>3, <1>7, <1>8 DEF Now, Calm
  <1>12. Held'
    <2>1. Locked(u, pc', object', dying', subject')
      BY <1>1, <1>2, <1>3, <1>6, <1>7, <1>9, <1>10, <1>11 DEF Locked
    <2> QED BY <1>5, <2>1 DEF Held
  <1>13. ASSUME NEW r \in Queues
         PROVE  Change(r, 0)
    <2>1. ASSUME NEW x \in Clients
          PROVE  pc'[x] \in WaitPoints /\ object'[x] = r <=> pc[x] \in WaitPoints /\ object[x] = r
      BY <1>3, <1>8 DEF WaitPoints, Clients
    <2>2. Way(u, pc', object', r) = Way(k, pc, object, r)
      BY <1>7, <2>1 DEF Way
    <2> QED BY <1>5, <1>7, <2>2 DEF Change, Gains, Served
  <1> QED BY <1>1, <1>2, <1>12, <1>13, DataKept

\* What holds under the lock.
LEMMA UnderLock ==
    ASSUME Held, NEW u, u = Unlocked(k)
    PROVE  /\ k \in KernelType /\ u \in KernelType /\ k.lock_nest = 1
           /\ u.stat = k.stat /\ u.error = k.error /\ u.queue = k.queue /\ u.timer = k.timer
           /\ u.current = k.current /\ k.current \in Threads /\ k.stat[k.current] = "ready"
           /\ \A t \in Threads : pc[t] = "dq_reset" <=> t = k.current
           /\ Waits(u, pc, object, subject) /\ Detaching(k, pc, object, dying, subject)
           /\ subject \in DataQueues \cap Deletable /\ Settled(u)
           /\ pc \in [Threads -> Points] /\ object \in [Threads -> Queues]
  <1>1. k \in KernelType /\ Waits(u, pc, object, subject)
    BY DEF Held, Locked
  <1>2. /\ u \in KernelType /\ u.stat = k.stat /\ u.error = k.error /\ u.queue = k.queue
        /\ u.timer = k.timer /\ u.current = k.current
    BY <1>1 DEF Unlocked, KernelType
  <1> QED BY <1>1, <1>2 DEF Held, Locked, Waits

\* A turn of the reset: a waiter is turned away, the caller goes on.
LEMMA ResetTurn ==
    ASSUME Held, DataInv, NEW s \in Threads, NEW q \in DataQueues, reset_one(s, q), UNCHANGED subject
    PROVE  Held' /\ DataInv'
  <1>1. PICK u : u = Unlocked(k)
    OBVIOUS
  <1>2. /\ k \in KernelType /\ u \in KernelType /\ k.lock_nest = 1
        /\ u.stat = k.stat /\ u.error = k.error /\ u.queue = k.queue /\ u.timer = k.timer
        /\ u.current = k.current /\ k.current \in Threads /\ k.stat[k.current] = "ready"
        /\ \A t \in Threads : pc[t] = "dq_reset" <=> t = k.current
        /\ Waits(u, pc, object, subject) /\ Detaching(k, pc, object, dying, subject)
        /\ subject \in DataQueues \cap Deletable /\ Settled(u)
        /\ pc \in [Threads -> Points] /\ object \in [Threads -> Queues]
    BY <1>1, UnderLock
  <1>3. PICK t : t = Head(Blocked(q))
    OBVIOUS
  <1>4. /\ pc[s] = "dq_reset" /\ object[s] = q /\ k' = turn_away(k, t) /\ Blocked(q) # << >>
        /\ UNCHANGED <<pc, object, dying, dq>>
    BY <1>3 DEF reset_one, Running
  <1>5. q = subject /\ subject \in Queues /\ suspended_push_list[subject] \in Queues /\ subject \notin dying
    <2>1. object[s] \in Scope(subject)
      BY <1>2, <1>4 DEF Waits, Outside
    <2> QED BY <1>2, <1>4, <2>1, DataQueueAlone
  <1>6. t \in Threads /\ u.stat[t] = "suspend"
    <2>1. u.queue[q] \in Seq(Threads) /\ u.queue[suspended_push_list[q]] \in Seq(Threads)
      BY <1>2, <1>5 DEF KernelType
    <2>2. PICK a \in Seq(Threads) : a = u.queue[q]
      BY <2>1
    <2>3. PICK b \in Seq(Threads) : b = u.queue[suspended_push_list[q]]
      BY <2>1
    <2>4. a \o b # << >> /\ t = Head(a \o b)
      BY <1>2, <1>3, <1>4, <2>2, <2>3 DEF Blocked
    <2>5. (a # << >> /\ t = Head(a)) \/ (b # << >> /\ t = Head(b))
      BY <2>4
    <2>6. PICK r \in Queues : u.queue[r] # << >> /\ t = Head(u.queue[r])
      BY <1>5, <2>2, <2>3, <2>5
    <2> QED BY <1>2, <2>6, FirstWaiter
  <1>7. PICK v : v = turn_away(u, t)
    OBVIOUS
  <1>8. PICK e : e = "RT_ERROR"
    OBVIOUS
  <1>9. MadeReady(u, v, t, e) /\ Settled(v)
    <2>1. MadeReady(u, turn_away(u, t), t, "RT_ERROR")
      BY <1>2, <1>6, TurnAwaySettled
    <2>2. MadeReady(u, v, t, e)
      BY <1>7, <1>8, <2>1
    <2> QED BY <2>2 DEF MadeReady
  <1>10. WokenUp(u, v, pc, object, t, e, subject)
    <2>1. subject \notin Pipes
      BY <1>2, DataQueueAlone
    <2> QED BY <1>2, <1>6, <1>9, <2>1, WakeWaits
  <1>11. HasFailed(u, v, pc, object, t)
    BY <1>2, <1>6, <1>8, <1>10, FailsOutsideWay
  <1>12. PICK w : w = k'
    OBVIOUS
  <1>13. w = Relocked(v, 1) /\ Unlocked(w) = v
    BY <1>1, <1>2, <1>4, <1>6, <1>7, <1>12, UnlockedTurn
  <1>14. v \in KernelType
    BY <1>9, SettledType
  <1>15. /\ w \in KernelType /\ w.lock_nest = 1
         /\ w.stat = v.stat /\ w.error = v.error /\ w.queue = v.queue /\ w.current = v.current
    BY <1>13, <1>14, LockedType
  <1>16. Detaching(w, pc, object, dying, subject)
    <2>1. \A x \in Threads : pc[x] = "resuming" => pc[x] = "resuming"
      OBVIOUS
    <2> QED BY <1>2, <1>5, <2>1, NotDetached
  <1>17. Held'
    <2>1. w.current = k.current /\ w.stat[w.current] = "ready"
      BY <1>2, <1>10, <1>15 DEF WokenUp
    <2>2. Locked(w, pc, object, dying, subject)
      BY <1>2, <1>10, <1>13, <1>15, <1>16, <2>1 DEF Locked, WokenUp
    <2> QED BY <1>4, <1>12, <2>2 DEF Held
  <1>18. ASSUME NEW r \in Queues
         PROVE  Change(r, 0)
    <2>1. Gains(u, pc, object, v, pc, object, r, 0)
      BY <1>11 DEF HasFailed
    <2>2. Way(u, pc, object, r) = Way(k, pc, object, r) /\ Way(w, pc, object, r) = Way(v, pc, object, r)
      BY <1>2, <1>15 DEF Way
    <2>3. Gains(k, pc, object, w, pc, object, r, 0)
      BY <1>2, <1>15, <2>1, <2>2 DEF Gains, Served
    <2> QED BY <1>4, <1>12, <2>3 DEF Change
  <1> QED BY <1>2, <1>4, <1>5, <1>17, <1>18, DataKept

\* The end of the reset: the lock is released, and rt_schedule follows.
LEMMA ResetEnds ==
    ASSUME Held, DataInv, NEW s \in Threads, NEW q \in DataQueues, reset_end(s, q), UNCHANGED subject
    PROVE  Now' /\ DataInv'
  <1>1. PICK u : u = Unlocked(k)
    OBVIOUS
  <1>2. /\ k \in KernelType /\ u \in KernelType /\ k.lock_nest = 1
        /\ u.stat = k.stat /\ u.error = k.error /\ u.queue = k.queue /\ u.timer = k.timer
        /\ u.current = k.current /\ k.current \in Threads /\ k.stat[k.current] = "ready"
        /\ \A t \in Threads : pc[t] = "dq_reset" <=> t = k.current
        /\ Waits(u, pc, object, subject) /\ Detaching(k, pc, object, dying, subject)
        /\ subject \in DataQueues \cap Deletable /\ Settled(u)
        /\ pc \in [Threads -> Points] /\ object \in [Threads -> Queues]
    BY <1>1, UnderLock
  <1>3. /\ Running(s, "dq_reset") /\ LeaveTo(s, "schedule") /\ UNCHANGED <<dying, dq>>
        /\ k' = rt_schedule([k EXCEPT !.lock_nest = @ - 1])
    BY DEF reset_end
  <1>4. s # Idle /\ pc[s] = "dq_reset" /\ k.current = s
    BY <1>3 DEF Running
  <1>5. k' = rt_schedule(u)
    BY <1>1, <1>2, <1>3 DEF Unlocked
  <1>6. AnyQueue \in Queues
    BY ObjectsAssumption DEF AnyQueue
  <1>7. /\ pc' \in [Threads -> Points] /\ object' \in [Threads -> Queues]
        /\ \A x \in Threads : x # s => pc'[x] = pc[x] /\ object'[x] = object[x]
        /\ pc'[s] = "schedule"
    BY <1>2, <1>3, <1>6 DEF LeaveTo, Goto, Points
  <1>8. Waits(u, pc', object', subject)
    <2>1. pc'[s] \notin Outside => object'[s] \in Scope(subject)
      BY <1>7 DEF Outside
    <2>2. u.stat[s] = "ready"
      BY <1>2, <1>4
    <2> QED BY <1>2, <1>4, <1>7, <2>1, <2>2, GoWaits
  <1>9. Detaching(u, pc', object', dying, subject) /\ subject \in Queues
        /\ suspended_push_list[subject] \in Queues
    <2>1. \A x \in Threads : pc'[x] = "resuming" => pc[x] = "resuming"
      BY <1>4, <1>7
    <2>2. subject \notin dying /\ subject \in Queues /\ suspended_push_list[subject] \in Queues
      BY <1>2, DataQueueAlone
    <2> QED BY <1>2, <2>1, <2>2, NotDetached
  <1>10. PICK at : at = pc'
    OBVIOUS
  <1>11. PICK on : on = object'
    OBVIOUS
  <1>12. HasSwitched(u, rt_schedule(u), at, on, at, on, dying, subject)
    <2>1. Waits(u, at, on, subject) /\ Detaching(u, at, on, dying, subject) /\ at \in [Threads -> Points]
      BY <1>7, <1>8, <1>9, <1>10, <1>11
    <2>2. \A t \in Threads : at[t] # "dq_reset"
      BY <1>2, <1>4, <1>7, <1>10
    <2>3. \A x \in Threads : at[x] = at[x] \/ (at[x] = "blocked" /\ at[x] = "woken")
                                           \/ (at[x] = "schedule" /\ at[x] = "user")
      OBVIOUS
    <2> QED BY ONLY <2>1, <2>2, <2>3, CalmSwitch
  <1>13. /\ Calm(k', pc', object', dying', subject') /\ k'.queue = k.queue
         /\ \A r \in Queues : Way(k', pc', object', r) = Way(u, pc', object', r)
    BY <1>2, <1>3, <1>5, <1>10, <1>11, <1>12 DEF HasSwitched
  <1>14. ASSUME NEW r \in Queues
         PROVE  Change(r, 0)
    <2>1. ASSUME NEW x \in Clients
          PROVE  pc'[x] \in WaitPoints /\ object'[x] = r <=> pc[x] \in WaitPoints /\ object[x] = r
      BY <1>4, <1>7 DEF WaitPoints, Clients
    <2>2. Way(u, pc', object', r) = Way(k, pc, object, r)
      BY <1>2, <2>1 DEF Way
    <2> QED BY <1>13, <2>2 DEF Change, Gains, Served
  <1> QED BY <1>2, <1>3, <1>9, <1>13, <1>14, DataKept DEF Now

\* Nothing else happens under the lock but that the slice of the caller is used
\* up.
LEMMA LockedTick ==
    ASSUME Held, DataInv, Background, UNCHANGED <<dq, subject>>
    PROVE  Held' /\ DataInv'
  <1>1. PICK u : u = Unlocked(k)
    OBVIOUS
  <1>2. /\ k \in KernelType /\ u \in KernelType /\ k.lock_nest = 1
        /\ u.stat = k.stat /\ u.error = k.error /\ u.queue = k.queue /\ u.timer = k.timer
        /\ u.current = k.current /\ k.current \in Threads /\ k.stat[k.current] = "ready"
        /\ \A t \in Threads : pc[t] = "dq_reset" <=> t = k.current
        /\ Waits(u, pc, object, subject) /\ Detaching(k, pc, object, dying, subject)
        /\ subject \in DataQueues \cap Deletable /\ Settled(u)
        /\ pc \in [Threads -> Points] /\ object \in [Threads -> Queues]
    BY <1>1, UnderLock
  <1>3. subject \in Queues /\ suspended_push_list[subject] \in Queues
        /\ Untimed(subject) /\ subject \notin dying
    BY <1>2, DataQueueAlone
  <1>4. tick_yield
    <2>1. k.timer = {}
      BY <1>2, <1>3 DEF Waits
    <2> QED BY <1>2, <2>1 DEF Background, ScheduleStep, Running, timeout
  <1>5. PICK v : v = move_to_tail(u)
    OBVIOUS
  <1>6. /\ Settled(v) /\ v.stat = u.stat /\ v.error = u.error /\ v.timer = u.timer
        /\ v.queue = u.queue /\ v.prio = u.prio /\ v.current = u.current
    BY <1>2, <1>5, MoveSettled
  <1>7. PICK w : w = k'
    OBVIOUS
  <1>8. w = Relocked(v, 1) /\ Unlocked(w) = v
    <2>1. Unlocked(move_to_tail(k)) = v /\ move_to_tail(k) = Relocked(v, 1)
      BY <1>1, <1>2, <1>5, UnlockedMove
    <2>2. v \in KernelType
      BY <1>6, SettledType
    <2>3. w = rt_schedule(move_to_tail(k))
      BY <1>4, <1>7 DEF tick_yield
    <2>4. w = move_to_tail(k)
      BY <2>1, <2>2, <2>3, LockedType DEF rt_schedule
    <2> QED BY <2>1, <2>4
  <1>9. v \in KernelType
    BY <1>6, SettledType
  <1>10. /\ w \in KernelType /\ w.lock_nest = 1
         /\ w.stat = v.stat /\ w.error = v.error /\ w.queue = v.queue /\ w.current = v.current
    BY <1>8, <1>9, LockedType
  <1>11. UNCHANGED <<pc, object, dying>>
    BY <1>4 DEF tick_yield
  <1>12. Waits(v, pc, object, subject)
    BY <1>2, <1>6 DEF Waits, WaitersListed, Queued
  <1>13. Detaching(w, pc, object, dying, subject)
    <2>1. \A x \in Threads : pc[x] = "resuming" => pc[x] = "resuming"
      OBVIOUS
    <2> QED BY <1>2, <1>3, <2>1, NotDetached
  <1>14. Held'
    <2>1. Locked(w, pc, object, dying, subject)
      BY <1>2, <1>6, <1>8, <1>10, <1>12, <1>13 DEF Locked
    <2> QED BY <1>7, <1>11, <2>1 DEF Held
  <1>15. ASSUME NEW r \in Queues
         PROVE  Change(r, 0)
    <2>1. Way(w, pc, object, r) = Way(k, pc, object, r)
      BY <1>2, <1>6, <1>10 DEF Way
    <2> QED BY <1>2, <1>6, <1>7, <1>10, <1>11, <2>1 DEF Change, Gains, Served
  <1> QED BY <1>2, <1>3, <1>14, <1>15, DataKept

\* Every step of a data queue.
LEMMA DataStep ==
    ASSUME Now \/ Held, DataInv, subject \in DataQueues, DataQueueNext, UNCHANGED subject
    PROVE  (Now \/ Held)' /\ DataInv'
  <1>1. ASSUME Now, Background, UNCHANGED dq
        PROVE  Now' /\ DataInv'
    <2>1. subject \in Queues /\ suspended_push_list[subject] \in Queues
      BY <1>1, DataQueueAlone DEF Now, Calm
    <2>2. Now' /\ Change(subject, 0) /\ Change(suspended_push_list[subject], 0)
      BY <1>1, <2>1, BackgroundStep DEF Idled
    <2> QED BY <1>1, <2>2, DataKept
  <1>2. ASSUME Now, NEW s \in Threads, NEW q \in DataQueues,
               reset_one(s, q) \/ reset_end(s, q)
        PROVE  FALSE
    BY <1>2 DEF reset_one, reset_end, Running, Now, Calm
  <1>3. CASE Now
    BY <1>1, <1>2, <1>3, DataCallStep, IsrDataStep, ResetLocks DEF DataQueueNext
  <1>4. ASSUME Held, NEW s \in Threads, NEW point, Running(s, point)
        PROVE  point = "dq_reset"
    BY <1>4 DEF Held, Locked, Running
  <1>5. ASSUME Held, NEW q \in DataQueues, isr_push(q) \/ isr_pop(q)
        PROVE  FALSE
    <2>1. Detaching(k, pc, object, dying, subject) /\ subject \in Deletable
      BY <1>5 DEF Held, Locked
    <2>2. Usable(q) /\ q \notin Deletable
      BY <1>5 DEF isr_push, isr_pop
    <2> QED BY <2>1, <2>2, DataQueueAlone
  <1>6. ASSUME Held, NEW s \in Threads, NEW q \in DataQueues,
               \/ rt_data_queue_push(s, q) \/ push_again(s, q)
               \/ rt_data_queue_pop(s, q) \/ pop_again(s, q) \/ rt_data_queue_reset(s, q)
        PROVE  FALSE
    <2>1. Running(s, "user") \/ Running(s, "woken")
      BY <1>6 DEF rt_data_queue_push, push_again, rt_data_queue_pop, pop_again, rt_data_queue_reset
    <2> QED BY <1>4, <1>6, <2>1
  <1>7. CASE Held
    BY <1>5, <1>6, <1>7, ResetTurn, ResetEnds, LockedTick DEF DataQueueNext
  <1> QED BY <1>3, <1>7
-----------------------------------------------------------------------------
(* Pipes                                                                   *)

\* The lists of the pipe that exists are those of the calls.
LEMMA PipeAlone ==
    ASSUME Now, subject \in Pipes
    PROVE  /\ subject \in Queues /\ suspended_write_list[subject] \in Queues \ {subject}
           /\ Scope(subject) = {subject, suspended_write_list[subject]}
           /\ \A p \in Pipes : Usable(p) => p = subject
           /\ \A p \in Pipes : p \in Scope(subject) => p = subject
           /\ \A p \in Pipes : suspended_write_list[p] \in Scope(subject) => p = subject
           /\ subject \notin dying /\ subject \notin Pools
  <1>1. subject \notin UNION {Pools, Mailboxes, DataQueues, Completions}
    BY KindsApart
  <1>2. /\ suspended_write_list \in [Pipes -> Queues] /\ Pipes \subseteq Queues
        /\ \A p \in Pipes : suspended_write_list[p] \notin Pipes
        /\ \A p, r \in Pipes : suspended_write_list[p] = suspended_write_list[r] => p = r
    <2>1. \A p \in Pipes : suspended_write_list[p] \in PipeWriters
      BY DEF PipeWriters
    <2>2. DOMAIN suspended_write_list = Pipes /\ IsInjective(suspended_write_list)
      BY PipeAssumption
    <2>3. \A p, r \in Pipes : suspended_write_list[p] = suspended_write_list[r] => p = r
      BY ONLY <2>2 DEF IsInjective
    <2> QED BY <2>1, <2>3, PipeAssumption
  <1>3. SubjectLists(subject) = {subject, suspended_write_list[subject]}
    BY <1>1 DEF SubjectLists
  <1>4. Scope(subject) = {subject, suspended_write_list[subject]}
    BY <1>1, <1>3 DEF Scope
  <1>5. ASSUME NEW p \in Pipes, Usable(p)
        PROVE  p = subject
    <2>1. p \in SubjectLists(subject)
      BY <1>2, <1>5, OnlySubject DEF Usable, Now, Calm
    <2> QED BY <1>2, <1>3, <1>5, <2>1
  <1>6. subject \notin dying
    BY DEF Detaching, Now, Calm
  <1> QED BY <1>1, <1>2, <1>4, <1>5, <1>6

PipeData == DOMAIN data_len = Pipes /\ PipeType

\* Nobody waits to write to a pipe whose writes are forced.
NoWriters ==
    "FORCE_WR" \in pipe_flag[subject] => k.queue[suspended_write_list[subject]] = << >>

\* While readers wait at a full pipe one is on its way, and so is a writer while
\* some wait at an empty one.
PipeInv ==
    /\ PipeData
    /\ subject \in Pipes =>
          /\ data_len[subject] = pipe_size[subject] => Served(k, pc, object, subject, 1)
          /\ data_len[subject] = 0 => Served(k, pc, object, suspended_write_list[subject], 1)
          /\ NoWriters

\* The invariant from what the two lists gained.
LEMMA PipeServed ==
    ASSUME PipeInv, subject \in Pipes, PipeData', UNCHANGED subject, NoWriters => NoWriters',
           data_len'[subject] = pipe_size[subject] =>
              Change(subject, 1) \/ (data_len[subject] = pipe_size[subject] /\ Change(subject, 0)),
           data_len'[subject] = 0 =>
              \/ Change(suspended_write_list[subject], 1)
              \/ data_len[subject] = 0 /\ Change(suspended_write_list[subject], 0)
              \/ "FORCE_WR" \in pipe_flag[subject]
    PROVE  PipeInv'
  <1>1. \A q : Served(k, pc, object, q, 0)
    BY WayFinite DEF Served
  <1>2. ASSUME NEW q, Change(q, 1)
        PROVE  Served(k', pc', object', q, 1)
    BY <1>1, <1>2, ServedThen
  <1>3. ASSUME NEW q, Change(q, 0), Served(k, pc, object, q, 1)
        PROVE  Served(k', pc', object', q, 1)
    BY <1>3, ServedThen
  <1>4. "FORCE_WR" \in pipe_flag[subject] => Served(k, pc, object, suspended_write_list[subject], 1)'
    BY DEF PipeInv, NoWriters, Served
  <1> QED BY <1>2, <1>3, <1>4 DEF PipeInv

\* What a transfer does to the number of bytes.
LEMMA TakeBytesData ==
    ASSUME PipeData, NEW p \in Pipes, NEW n \in Lengths(p),
           data_len' = [data_len EXCEPT ![p] = @ - Fewer(@, n)]
    PROVE  /\ PipeData'
           /\ data_len[p] = 0 => data_len'[p] = 0
           /\ data_len[p] > 0 => data_len'[p] < pipe_size[p]
           /\ data_len[p] \in 0 .. pipe_size[p] /\ pipe_size[p] \in Nat \ {0}
  <1>1. data_len[p] \in 0 .. pipe_size[p] /\ pipe_size[p] \in Nat \ {0} /\ DOMAIN data_len = Pipes
        /\ n \in 1 .. pipe_size[p] + 1
    BY PipeAssumption DEF PipeData, PipeType, Lengths
  <1>2. DOMAIN data_len' = Pipes /\ data_len'[p] = data_len[p] - Fewer(data_len[p], n)
        /\ \A r \in Pipes : r # p => data_len'[r] = data_len[r]
    BY <1>1
  <1>3. data_len'[p] \in 0 .. pipe_size[p]
    BY <1>1, <1>2 DEF Fewer
  <1>4. PipeData'
    BY <1>2, <1>3 DEF PipeData, PipeType
  <1> QED BY <1>1, <1>2, <1>4 DEF Fewer

LEMMA PutBytesData ==
    ASSUME PipeData, NEW p \in Pipes, NEW n \in Lengths(p),
           NEW m \in Filled(p, n), data_len' = [data_len EXCEPT ![p] = m]
    PROVE  PipeData' /\ (data_len'[p] = 0 => "FORCE_WR" \in pipe_flag[p])
  <1>1. data_len[p] \in 0 .. pipe_size[p] /\ pipe_size[p] \in Nat \ {0} /\ DOMAIN data_len = Pipes
        /\ n \in 1 .. pipe_size[p] + 1
    BY PipeAssumption DEF PipeData, PipeType, Lengths
  <1>2. DOMAIN data_len' = Pipes /\ data_len'[p] = m
        /\ \A r \in Pipes : r # p => data_len'[r] = data_len[r]
    BY <1>1
  <1>3. m \in 0 .. pipe_size[p] /\ (m = 0 => "FORCE_WR" \in pipe_flag[p])
    <2>1. CASE "FORCE_WR" \notin pipe_flag[p] \/ n <= Space(p)
      BY <1>1, <2>1 DEF Filled, Fewer
    <2>2. CASE "FORCE_WR" \in pipe_flag[p] /\ ~(n <= Space(p))
      BY <1>1, <2>2 DEF Filled
    <2> QED BY <2>1, <2>2
  <1>4. PipeData'
    BY <1>2, <1>3 DEF PipeData, PipeType
  <1> QED BY <1>2, <1>3, <1>4

\* A thread or a handler transfers bytes; the thread's call ends with it.
Ends(s) ==
    \/ /\ s \in Threads /\ k.stat[s] = "ready" /\ s # Idle /\ pc[s] # "resuming"
       /\ LeaveCall(s)
    \/ s \notin Threads /\ UNCHANGED <<pc, object>>

LEMMA GivesAndEnds ==
    ASSUME Now, NEW s, Ends(s), subject \notin dying, NEW q \in Queues, IsrWaking(q),
           ~IsOnWay(s, q), UNCHANGED <<dying, subject>>
    PROVE  Now' /\ Change(q, 1) /\ \A r \in Queues : k.queue[r] = << >> => k'.queue[r] = << >>
  <1>1. HandlerGave(k', q)
    BY IsrWakingEffect
  <1>2. ASSUME s \in Threads PROVE Now' /\ Change(q, 1)
    <2>1. Gave(s, q)
      BY <1>1, <1>2, GiveAndLeaveStep DEF Ends
    <2> QED BY <2>1 DEF Gave
  <1>3. ASSUME s \notin Threads PROVE Now' /\ Change(q, 1)
    <2>1. Given(q)
      BY <1>1, <1>3, HandlerStep DEF Ends
    <2> QED BY <2>1 DEF Given
  <1>4. ASSUME NEW r \in Queues, k.queue[r] = << >> PROVE k'.queue[r] = << >>
    BY <1>1, <1>4 DEF HandlerGave, IsrWaking, NoWaiter
  <1> QED BY <1>2, <1>3, <1>4

LEMMA JustEnds ==
    ASSUME Now, NEW s, Ends(s), NEW q \in Queues, ~IsOnWay(s, q), UNCHANGED <<k, dying, subject>>
    PROVE  Now' /\ Change(q, 0)
  <1>1. CASE s \in Threads
    <2>1. LeaveTo(s, "user") /\ "user" \in Outside
      BY <1>1 DEF Ends, LeaveCall, Outside
    <2>2. Gone(s)
      BY <1>1, <2>1, LeaveStep DEF Ends
    <2> QED BY <2>2 DEF Gone
  <1>2. CASE s \notin Threads
    <2>1. UNCHANGED <<k, pc, object, dying, subject>>
      BY <1>2 DEF Ends
    <2> QED BY <2>1 DEF Now, Change, Gains, Served
  <1> QED BY <1>1, <1>2

LEMMA TakeBytesStep ==
    ASSUME Now, PipeInv, subject \in Pipes, NEW s, Ends(s), NEW n \in Lengths(subject),
           take_bytes(subject, n), ~IsOnWay(s, suspended_write_list[subject]),
           UNCHANGED <<dying, subject>>
    PROVE  Now' /\ PipeInv'
  <1>1. suspended_write_list[subject] \in Queues /\ subject \notin dying
    BY PipeAlone
  <1>2. PipeData /\ data_len' = [data_len EXCEPT ![subject] = @ - Fewer(@, n)]
    BY DEF PipeInv, take_bytes
  <1>3. /\ PipeData' /\ data_len[subject] \in 0 .. pipe_size[subject] /\ pipe_size[subject] \in Nat \ {0}
        /\ data_len[subject] = 0 => data_len'[subject] = 0
        /\ data_len[subject] > 0 => data_len'[subject] < pipe_size[subject]
    BY <1>2, TakeBytesData
  <1>4. data_len'[subject] # pipe_size[subject]
    BY <1>3
  <1>5. CASE data_len[subject] > 0
    <2>1. IsrWaking(suspended_write_list[subject])
      BY <1>5 DEF take_bytes
    <2>2. Now' /\ Change(suspended_write_list[subject], 1)
      BY <1>1, <2>1, GivesAndEnds
    <2>3. NoWriters => NoWriters'
      BY <1>1, <2>1, GivesAndEnds DEF NoWriters
    <2> QED BY <1>3, <1>4, <2>2, <2>3, PipeServed
  <1>6. CASE data_len[subject] = 0
    <2>1. UNCHANGED k
      BY <1>6 DEF take_bytes
    <2>2. Now' /\ Change(suspended_write_list[subject], 0)
      BY <1>1, <2>1, JustEnds
    <2>3. NoWriters => NoWriters'
      BY <2>1 DEF NoWriters
    <2> QED BY <1>3, <1>4, <1>6, <2>2, <2>3, PipeServed
  <1> QED BY <1>3, <1>5, <1>6

LEMMA PutBytesStep ==
    ASSUME Now, PipeInv, subject \in Pipes, NEW s, Ends(s), NEW n \in Lengths(subject),
           put_bytes(subject, n), ~IsOnWay(s, subject), UNCHANGED <<dying, subject>>
    PROVE  Now' /\ PipeInv'
  <1>1. subject \in Queues /\ subject \notin dying
    BY PipeAlone
  <1>2. PICK m \in Filled(subject, n) : data_len' = [data_len EXCEPT ![subject] = m]
    BY DEF put_bytes
  <1>3. PipeData' /\ (data_len'[subject] = 0 => "FORCE_WR" \in pipe_flag[subject])
    BY <1>2, PutBytesData DEF PipeInv
  <1>4. IsrWaking(subject)
    BY DEF put_bytes
  <1>5. /\ Now' /\ Change(subject, 1)
        /\ \A r \in Queues : k.queue[r] = << >> => k'.queue[r] = << >>
    BY <1>1, <1>4, GivesAndEnds
  <1>6. NoWriters => NoWriters'
    BY <1>5, PipeAlone DEF NoWriters
  <1> QED BY <1>3, <1>5, <1>6, PipeServed

\* A caller joins a list. Its error is clear already.
LEMMA WaitInStep ==
    ASSUME Now, subject \in Pipes, NEW s \in Threads, k.current = s, k.stat[s] = "ready", s # Idle,
           pc[s] # "resuming", NEW q \in Scope(subject), wait_in(s, q), UNCHANGED <<dying, subject>>
    PROVE  Parked(s, q)
  <1>1. q \in Queues /\ subject \notin dying
    BY PipeAlone
  <1>2. Waits(k, pc, object, subject) /\ Settled(k) /\ k.error[s] = "RT_EOK"
    BY DEF Now, Calm, Waits
  <1>3. PICK f : f = "RT_IPC_FLAG_FIFO"
    OBVIOUS
  <1>4. k' = rt_ipc_list_suspend(k, q, s, f) /\ Goto(s, "blocked") /\ object' = [object EXCEPT ![s] = q]
    BY <1>3 DEF wait_in
  <1>5. PutToWait(k, rt_ipc_list_suspend(k, q, s, f), s, q, f)
    BY <1>1, <1>2, IpcSuspendSettled
  <1>6. Cleared(k, k, s)
    <2>1. k \in KernelType
      BY <1>2, SettledType
    <2> QED BY <1>2, <2>1 DEF Cleared, KernelType
  <1>7. PICK w : w = k
    OBVIOUS
  <1>8. PICK x : x = rt_ipc_list_suspend(k, q, s, f)
    OBVIOUS
  <1>9. Cleared(k, w, s) /\ PutToWait(w, x, s, q, f) /\ MayStart(x, k', s, subject)
    BY <1>4, <1>5, <1>6, <1>7, <1>8 DEF MayStart
  <1> QED BY <1>1, <1>4, <1>9, ParkStep

\* One turn of rt_pipe_read or rt_pipe_write.
LEMMA ReadTurn ==
    ASSUME Now, PipeInv, subject \in Pipes, NEW s \in Threads, k.current = s, k.stat[s] = "ready",
           s # Idle, pc[s] # "resuming", ~IsOnWay(s, suspended_write_list[subject]),
           read_turn(s, subject), UNCHANGED <<dying, subject>>
    PROVE  Now' /\ PipeInv'
  <1>1. /\ subject \in Scope(subject) /\ suspended_write_list[subject] \in Queues
        /\ suspended_write_list[subject] # subject
    BY PipeAlone
  <1>2. ASSUME data_len[subject] = 0, wait_in(s, subject)
        PROVE  Now' /\ PipeInv'
    <2>1. Parked(s, subject)
      BY <1>1, <1>2, WaitInStep
    <2>2. Now' /\ Change(suspended_write_list[subject], 0)
      BY <1>1, <2>1 DEF Parked
    <2>3. data_len' = data_len /\ PipeData' /\ pipe_size[subject] # 0
      BY <1>2, PipeAssumption DEF wait_in, PipeInv, PipeData, PipeType
    <2>4. NoWriters => NoWriters'
      BY <1>1, <2>1 DEF Parked, NoWriters
    <2> QED BY <1>2, <2>2, <2>3, <2>4, PipeServed
  <1>3. ASSUME NEW n \in Lengths(subject), take_bytes(subject, n), LeaveCall(s)
        PROVE  Now' /\ PipeInv'
    BY <1>3, TakeBytesStep DEF Ends
  <1> QED BY <1>2, <1>3 DEF read_turn

LEMMA WriteTurn ==
    ASSUME Now, PipeInv, subject \in Pipes, NEW s \in Threads, k.current = s, k.stat[s] = "ready",
           s # Idle, pc[s] # "resuming", ~IsOnWay(s, subject),
           write_turn(s, subject), UNCHANGED <<dying, subject>>
    PROVE  Now' /\ PipeInv'
  <1>1. /\ suspended_write_list[subject] \in Scope(subject) /\ subject \in Queues
        /\ suspended_write_list[subject] # subject
    BY PipeAlone
  <1>2. ASSUME BlocksWriter(subject), Space(subject) = 0, wait_in(s, suspended_write_list[subject])
        PROVE  Now' /\ PipeInv'
    <2>1. Parked(s, suspended_write_list[subject])
      BY <1>1, <1>2, WaitInStep
    <2>2. Now' /\ Change(subject, 0)
      BY <1>1, <2>1 DEF Parked
    <2>3. data_len' = data_len /\ PipeData' /\ data_len[subject] = pipe_size[subject]
          /\ pipe_size[subject] # 0
      BY <1>2, PipeAssumption DEF wait_in, PipeInv, PipeData, PipeType, Space
    <2>4. NoWriters => NoWriters'
      BY <1>2 DEF BlocksWriter, NoWriters
    <2> QED BY <2>2, <2>3, <2>4, PipeServed
  <1>3. ASSUME NEW n \in Lengths(subject), put_bytes(subject, n), LeaveCall(s)
        PROVE  Now' /\ PipeInv'
    BY <1>3, PutBytesStep DEF Ends
  <1> QED BY <1>2, <1>3 DEF write_turn

\* Every step of a pipe.
LEMMA PipeStep ==
    ASSUME Now, PipeInv, subject \in Pipes, PipeNext, UNCHANGED subject
    PROVE  Now' /\ PipeInv'
  <1>1. /\ subject \in Queues /\ suspended_write_list[subject] \in Queues
        /\ suspended_write_list[subject] # subject /\ subject \notin dying
        /\ \A p \in Pipes : Usable(p) => p = subject
        /\ \A p \in Pipes : p \in Scope(subject) => p = subject
        /\ \A p \in Pipes : suspended_write_list[p] \in Scope(subject) => p = subject
    BY PipeAlone
  <1>2. ASSUME Background, UNCHANGED data_len
        PROVE  Now' /\ PipeInv'
    <2>1. Now' /\ Change(subject, 0) /\ Change(suspended_write_list[subject], 0)
      BY <1>1, <1>2, BackgroundStep DEF Idled
    <2>2. PipeData'
      BY <1>2 DEF PipeInv, PipeData, PipeType
    <2>3. NoWriters => NoWriters'
      <3>1. k.queue[suspended_write_list[subject]] = << >> => k'.queue[suspended_write_list[subject]] = << >>
        <4>1. \A x : RemoveFirst(<< >>, x) = << >>
          BY NotOnList DEF Contains
        <4> QED BY <1>1, <1>2, <4>1, BackgroundStep DEF Idled
      <3> QED BY <3>1 DEF NoWriters
    <2> QED BY <1>2, <2>1, <2>2, <2>3, PipeServed
  <1>3. ASSUME NEW s \in Threads, NEW p \in Pipes, rt_pipe_read(s, p) \/ rt_pipe_write(s, p)
        PROVE  Now' /\ PipeInv'
    <2>1. Running(s, "user") /\ Usable(p) /\ UNCHANGED dying /\ (read_turn(s, p) \/ write_turn(s, p))
      BY <1>3 DEF rt_pipe_read, rt_pipe_write
    <2>2. p = subject
      BY <1>1, <2>1
    <2>3. k.current = s /\ k.stat[s] = "ready" /\ s # Idle /\ pc[s] # "resuming"
          /\ ~IsOnWay(s, subject) /\ ~IsOnWay(s, suspended_write_list[subject])
      BY <2>1, RunningReady, NotOnWay DEF WaitPoints
    <2> QED BY <2>1, <2>2, <2>3, ReadTurn, WriteTurn
  <1>4. ASSUME NEW s \in Threads, NEW p \in Pipes, read_again(s, p)
        PROVE  Now' /\ PipeInv'
    <2>1. Running(s, "woken") /\ object[s] = p /\ read_turn(s, p) /\ UNCHANGED dying
      BY <1>4 DEF read_again
    <2>2. k.current = s /\ k.stat[s] = "ready" /\ s # Idle /\ pc[s] = "woken"
      BY <2>1, RunningReady
    <2>3. p = subject
      BY <1>1, <2>1, <2>2, InScope DEF Outside
    <2>4. ~IsOnWay(s, suspended_write_list[subject])
      BY <1>1, <2>1, <2>3, NotOnWay
    <2> QED BY <2>1, <2>2, <2>3, <2>4, ReadTurn
  <1>5. ASSUME NEW s \in Threads, NEW p \in Pipes, write_again(s, p)
        PROVE  Now' /\ PipeInv'
    <2>1. Running(s, "woken") /\ object[s] = suspended_write_list[p] /\ write_turn(s, p) /\ UNCHANGED dying
      BY <1>5 DEF write_again
    <2>2. k.current = s /\ k.stat[s] = "ready" /\ s # Idle /\ pc[s] = "woken"
      BY <2>1, RunningReady
    <2>3. p = subject
      BY <1>1, <2>1, <2>2, InScope DEF Outside
    <2>4. ~IsOnWay(s, subject)
      BY <1>1, <2>1, <2>3, NotOnWay
    <2> QED BY <2>1, <2>2, <2>3, <2>4, WriteTurn
  <1>6. ASSUME NEW p \in Pipes, isr_read(p) \/ isr_write(p)
        PROVE  Now' /\ PipeInv'
    <2>1. /\ UNCHANGED <<pc, object, dying>> /\ Usable(p)
          /\ \E n \in Lengths(p) : take_bytes(p, n) \/ put_bytes(p, n)
      BY <1>6 DEF isr_read, isr_write
    <2>2. p = subject
      BY <1>1, <2>1
    <2>3. PICK s : s \notin Threads
      BY KernelAssumption
    <2>4. Ends(s) /\ ~IsOnWay(s, subject) /\ ~IsOnWay(s, suspended_write_list[subject])
      BY <2>1, <2>3 DEF Ends, IsOnWay, Way, Clients
    <2> QED BY <2>1, <2>2, <2>4, TakeBytesStep, PutBytesStep
  <1> QED BY <1>2, <1>3, <1>4, <1>5, <1>6 DEF PipeNext
-----------------------------------------------------------------------------
(* Completions                                                             *)

\* In a behaviour about completions calls may be on all of them, one at a time
\* on each: a waiter finds the flag down, and up when it was woken.
AtMostOne(c) ==
    \A s, t \in Threads :
        pc[s] \in WaitPoints /\ object[s] = c /\ pc[t] \in WaitPoints /\ object[t] = c => s = t
DoneInv ==
    /\ CompletionType
    /\ subject \in Completions =>
          \A c \in Completions :
             /\ AtMostOne(c)
             /\ k.queue[c] # << >> => flag[c] = "RT_UNCOMPLETED"
             /\ Way(k, pc, object, c) # {} => flag[c] = "RT_COMPLETED"

LEMMA CompletionScope ==
    ASSUME subject \in Completions
    PROVE  /\ Scope(subject) = Completions /\ Completions \subseteq Queues /\ ~Untimed(subject)
           /\ subject \notin Pools
           /\ (Now => subject \notin dying)
  <1>1. subject \notin Pipes /\ subject \notin Pools
    BY KindsApart
  <1> QED BY <1>1, CompletionAssumption DEF Scope, Untimed, Now, Calm, Detaching

\* A completion has one waiter.
LEMMA OneWaiter ==
    ASSUME Now, NEW c \in Queues, AtMostOne(c), k.queue[c] # << >>
    PROVE  Len(k.queue[c]) = 1
  <1>1. PICK l : l = k.queue[c]
    OBVIOUS
  <1>2. l \in Seq(Threads) /\ IsInjective(l)
    BY <1>1, SettledType DEF Now, Calm, Waits, Settled, Lists
  <1>3. ASSUME Len(l) > 1
        PROVE  FALSE
    <2>1. 1 \in DOMAIN l /\ 2 \in DOMAIN l /\ l[1] \in Threads /\ l[2] \in Threads
      BY <1>2, <1>3
    <2>2. Contains(l, l[1]) /\ Contains(l, l[2])
      BY <2>1 DEF Contains
    <2>3. WaitersListed(k, pc, object, WaitPoints)
      BY DEF Now, Calm, Waits
    <2>4. l[1] = l[2]
      BY <1>1, <2>1, <2>2, <2>3 DEF WaitersListed, Queued, AtMostOne
    <2>5. IsInjective(l) /\ 1 \in DOMAIN l /\ 2 \in DOMAIN l /\ l[1] = l[2]
      BY <1>2, <2>1, <2>4
    <2>6. 1 = 2
      BY ONLY <2>5, IsInjective(l) DEF IsInjective
    <2> QED BY <2>6
  <1>4. l # << >>
    BY <1>1
  <1>5. PICK n \in Nat : n = Len(l)
    BY <1>2
  <1>6. n # 0
    BY <1>2, <1>4, <1>5
  <1>7. ~(n > 1)
    BY <1>3, <1>5
  <1>8. n = 1
    BY <1>6, <1>7
  <1> QED BY <1>1, <1>5, <1>8

\* The invariant of the completions that a step leaves alone.
Undone(c) ==
    /\ \A x \in Threads : pc'[x] \in WaitPoints /\ object'[x] = c => pc[x] \in WaitPoints /\ object[x] = c
    /\ k'.queue[c] # << >> => k.queue[c] # << >>
    /\ Way(k', pc', object', c) \subseteq Way(k, pc, object, c)
    /\ flag'[c] = flag[c]

LEMMA UndoneInv ==
    ASSUME DoneInv, subject \in Completions, CompletionType', UNCHANGED subject, NEW c,
           AtMostOne(c)', k'.queue[c] # << >> => flag'[c] = "RT_UNCOMPLETED",
           Way(k', pc', object', c) # {} => flag'[c] = "RT_COMPLETED",
           \A b \in Completions : b # c => Undone(b)
    PROVE  DoneInv'
  <1>1. ASSUME NEW b \in Completions
        PROVE  /\ AtMostOne(b)'
               /\ k'.queue[b] # << >> => flag'[b] = "RT_UNCOMPLETED"
               /\ Way(k', pc', object', b) # {} => flag'[b] = "RT_COMPLETED"
    <2>1. CASE b = c
      BY <2>1
    <2>2. CASE b # c
      <3>1. Undone(b)
        BY <2>2
      <3>2. AtMostOne(b) /\ (k.queue[b] # << >> => flag[b] = "RT_UNCOMPLETED")
            /\ (Way(k, pc, object, b) # {} => flag[b] = "RT_COMPLETED")
        BY DEF DoneInv
      <3> QED BY <3>1, <3>2 DEF Undone, AtMostOne
    <2> QED BY <2>1, <2>2
  <1> QED BY <1>1 DEF DoneInv

\* What a change of one flag leaves.
LEMMA FlagSet ==
    ASSUME CompletionType, NEW c \in Completions, NEW f \in {"RT_COMPLETED", "RT_UNCOMPLETED"},
           SetFlag(c, f)
    PROVE  CompletionType' /\ flag'[c] = f /\ \A b \in Completions : b # c => flag'[b] = flag[b]
  BY DEF CompletionType, SetFlag

\* rt_completion_wait, when the flag is up.
LEMMA CompletedStep ==
    ASSUME Now, DoneInv, subject \in Completions, NEW c \in Completions, Unused(c),
           SetFlag(c, "RT_UNCOMPLETED"), UNCHANGED <<k, pc, object, dying, subject>>
    PROVE  Now' /\ DoneInv'
  <1>1. CompletionType' /\ flag'[c] = "RT_UNCOMPLETED" /\ \A b \in Completions : b # c => flag'[b] = flag[b]
    BY FlagSet DEF DoneInv
  <1>2. Way(k', pc', object', c) = {} /\ AtMostOne(c)'
    BY DEF Unused, Way, WaitPoints, AtMostOne, Clients
  <1>3. \A b \in Completions : b # c => Undone(b)
    BY <1>1 DEF Undone
  <1>4. DoneInv'
    BY <1>1, <1>2, <1>3, UndoneInv
  <1> QED BY <1>4 DEF Now

\* rt_completion_wait, when it is down.
LEMMA WaitForDone ==
    ASSUME Now, DoneInv, subject \in Completions, NEW s \in Threads, NEW c \in Completions,
           Running(s, "user"), Unused(c), flag[c] # "RT_COMPLETED",
           WaitOn(s, c, "RT_IPC_FLAG_FIFO", TRUE), UNCHANGED <<flag, dying, subject>>
    PROVE  Now' /\ DoneInv'
  <1>1. /\ k.current = s /\ s # Idle /\ pc[s] = "user" /\ k.stat[s] = "ready"
        /\ pc \in [Threads -> Points] /\ object \in [Threads -> Queues]
    BY RunningReady
  <1>2. c \in Scope(subject) /\ c \in Queues /\ subject \notin dying /\ ~Untimed(subject)
    BY CompletionScope
  <1>3. PICK timed \in BOOLEAN : timed = TRUE
    OBVIOUS
  <1>4. PICK f : f = "RT_IPC_FLAG_FIFO"
    OBVIOUS
  <1>5. WaitOn(s, c, f, timed)
    BY <1>3, <1>4
  <1>6. Parked(s, c)
    BY <1>1, <1>2, <1>5, WaitOnStep
  <1>7. \A x \in Threads : x # s => pc'[x] = pc[x] /\ object'[x] = object[x]
    BY <1>1, <1>5 DEF WaitOn, Goto
  <1>8. pc'[s] = "blocked" /\ object'[s] = c
    BY <1>1, <1>5 DEF WaitOn, Goto
  <1>9. flag[c] = "RT_UNCOMPLETED" /\ CompletionType'
    BY DEF DoneInv, CompletionType
  <1>10. AtMostOne(c)'
    BY <1>7, <1>8 DEF Unused, AtMostOne, WaitPoints
  <1>11. Way(k', pc', object', c) = {}
    BY <1>2, <1>6 DEF Parked, Unused, Way, WaitPoints, Clients
  <1>12. ASSUME NEW b \in Completions, b # c
         PROVE  Undone(b)
    <2>1. b \in Queues
      BY CompletionScope
    <2> QED BY <1>6, <1>7, <1>8, <1>12, <2>1 DEF Parked, Undone
  <1> QED BY <1>6, <1>9, <1>10, <1>11, <1>12, UndoneInv DEF Parked

\* A thread that goes on elsewhere in or out of its call is on no way.
LEMMA GoneWay ==
    ASSUME NEW s \in Threads, pc \in [Threads -> Points], object \in [Threads -> Queues],
           k'.stat = k.stat, k'.error = k.error, k'.queue = k.queue,
           NEW point, point \notin WaitPoints, Goto(s, point), NEW q,
           object' \in {object, [object EXCEPT ![s] = q]}, NEW r
    PROVE  /\ \A x \in Threads : pc'[x] \in WaitPoints /\ object'[x] = r =>
                                    pc[x] \in WaitPoints /\ object[x] = r /\ x # s
           /\ Way(k', pc', object', r) = Way(k, pc, object, r) \ {s}
  <1>1. /\ \A x \in Threads : x # s => pc'[x] = pc[x] /\ object'[x] = object[x]
        /\ pc'[s] \notin WaitPoints
    BY DEF Goto
  <1> QED BY <1>1 DEF Way, Clients

\* The waiter goes on and takes the flag down.
LEMMA WaitReturnStep ==
    ASSUME Now, DoneInv, subject \in Completions, NEW s \in Threads, NEW c \in Completions,
           wait_return(s, c), UNCHANGED subject
    PROVE  Now' /\ DoneInv'
  <1>1. /\ Running(s, "woken") /\ object[s] = c /\ SetFlag(c, "RT_UNCOMPLETED") /\ LeaveCall(s)
        /\ UNCHANGED <<k, dying>>
    BY DEF wait_return
  <1>2. /\ pc[s] = "woken" /\ pc \in [Threads -> Points] /\ object \in [Threads -> Queues]
    BY <1>1, RunningReady
  <1>3. Now'
    BY <1>1, QuitStep DEF Gone
  <1>4. CompletionType' /\ flag'[c] = "RT_UNCOMPLETED" /\ \A b \in Completions : b # c => flag'[b] = flag[b]
    BY <1>1, FlagSet DEF DoneInv
  <1>5. PICK point : point = "user"
    OBVIOUS
  <1>6. PICK q : q = AnyQueue
    OBVIOUS
  <1>7. ASSUME NEW r
        PROVE  /\ \A x \in Threads : pc'[x] \in WaitPoints /\ object'[x] = r =>
                                        pc[x] \in WaitPoints /\ object[x] = r /\ x # s
               /\ Way(k', pc', object', r) = Way(k, pc, object, r) \ {s}
    <2>1. Goto(s, point) /\ object' \in {object, [object EXCEPT ![s] = q]} /\ point \notin WaitPoints
      BY <1>1, <1>5, <1>6 DEF LeaveCall, LeaveTo, WaitPoints
    <2> QED BY <1>1, <1>2, <2>1, GoneWay
  <1>8. AtMostOne(c)
    BY DEF DoneInv
  <1>9. AtMostOne(c)' /\ Way(k', pc', object', c) = {}
    <2>1. \A x \in Threads : pc[x] \in WaitPoints /\ object[x] = c => x = s
      BY <1>1, <1>2, <1>8 DEF AtMostOne, WaitPoints
    <2>2. Way(k, pc, object, c) \subseteq {s}
      BY <2>1 DEF Way, Clients
    <2> QED BY <1>7, <1>8, <2>2 DEF AtMostOne
  <1>10. \A b \in Completions : b # c => Undone(b)
    BY <1>1, <1>4, <1>7 DEF Undone
  <1> QED BY <1>3, <1>4, <1>9, <1>10, UndoneInv

\* The first look of rt_completion_done.
LEMMA LookDone ==
    ASSUME Now, DoneInv, subject \in Completions, NEW s \in Threads, NEW c \in Completions,
           rt_completion_done(s, c), UNCHANGED subject
    PROVE  Now' /\ DoneInv'
  <1>1. /\ Running(s, "user") /\ UNCHANGED <<k, dying, flag>>
        /\ Goto(s, "completing") /\ object' = [object EXCEPT ![s] = c]
    BY DEF rt_completion_done
  <1>2. /\ k.stat[s] = "ready" /\ s # Idle /\ pc[s] = "user"
        /\ pc \in [Threads -> Points] /\ object \in [Threads -> Queues]
    BY <1>1, RunningReady
  <1>3. c \in Scope(subject) /\ c \in Queues /\ subject \notin dying
    BY CompletionScope
  <1>4. PICK point : point = "completing"
    OBVIOUS
  <1>5. /\ Goto(s, point) /\ object' \in {object, [object EXCEPT ![s] = c]}
        /\ point \in Points \ (WaitPoints \cup {"resuming", "dq_reset"}) /\ point \notin WaitPoints
        /\ object'[s] \in Scope(subject)
    BY <1>1, <1>2, <1>3, <1>4 DEF Points, WaitPoints
  <1>6. Now'
    <2>1. Gone(s)
      BY <1>1, <1>2, <1>3, <1>5, GoStep
    <2> QED BY <2>1 DEF Gone
  <1>7. ASSUME NEW r
        PROVE  /\ \A x \in Threads : pc'[x] \in WaitPoints /\ object'[x] = r =>
                                        pc[x] \in WaitPoints /\ object[x] = r /\ x # s
               /\ Way(k', pc', object', r) = Way(k, pc, object, r) \ {s}
    <2>1. /\ pc \in [Threads -> Points] /\ object \in [Threads -> Queues]
          /\ k'.stat = k.stat /\ k'.error = k.error /\ k'.queue = k.queue
          /\ point \notin WaitPoints /\ Goto(s, point)
          /\ object' \in {object, [object EXCEPT ![s] = c]}
      BY <1>1, <1>2, <1>5
    <2> QED BY ONLY <2>1, s \in Threads, GoneWay
  <1>8. \A b \in Completions : Undone(b)
    BY <1>1, <1>7 DEF Undone
  <1>9. CompletionType'
    BY <1>1 DEF DoneInv, CompletionType
  <1>10. /\ AtMostOne(c)' /\ (k'.queue[c] # << >> => flag'[c] = "RT_UNCOMPLETED")
         /\ (Way(k', pc', object', c) # {} => flag'[c] = "RT_COMPLETED")
    BY <1>8 DEF Undone, DoneInv, AtMostOne
  <1> QED BY <1>6, <1>8, <1>9, <1>10, UndoneInv

\* A done wakes the waiter: the list is empty then.
LEMMA WokenCompletion ==
    ASSUME Now, subject \in Completions, NEW c \in Completions, AtMostOne(c), k.queue[c] # << >>,
           NEW v, v = rt_ipc_list_resume(k, c)
    PROVE  /\ v.queue[c] = << >> /\ v \in KernelType
           /\ \A b \in Queues : b # c => v.queue[b] = k.queue[b] /\ Way(v, pc, object, b) = Way(k, pc, object, b)
  <1>1. c \in Queues /\ subject \notin dying
    BY CompletionScope
  <1>2. Waits(k, pc, object, subject) /\ Calm(k, pc, object, dying, subject)
    BY DEF Now, Calm
  <1>3. Len(k.queue[c]) = 1
    BY <1>1, OneWaiter
  <1>4. Len(rt_ipc_list_resume(k, c).queue[c]) = Len(k.queue[c]) - 1 /\ rt_ipc_list_resume(k, c) \in KernelType
    BY <1>1, <1>2, WakeLength
  <1>5. v.queue[c] \in Seq(Threads) /\ Len(v.queue[c]) = 0
    BY <1>1, <1>3, <1>4 DEF KernelType
  <1>6. HasWoken(k, rt_ipc_list_resume(k, c), pc, object, dying, c, subject)
    BY <1>1, <1>2, CalmWake
  <1>7. \A b \in Queues : b # c => v.queue[b] = k.queue[b] /\ Way(v, pc, object, b) = Way(k, pc, object, b)
    BY <1>6 DEF HasWoken
  <1> QED BY <1>4, <1>5, <1>7

\* The section of rt_completion_done.
LEMMA DoneWakeStep ==
    ASSUME Now, DoneInv, subject \in Completions, NEW s \in Threads, NEW c \in Completions,
           done_wake(s, c), UNCHANGED subject
    PROVE  Now' /\ DoneInv'
  <1>1. /\ Running(s, "completing") /\ SetFlag(c, "RT_COMPLETED") /\ LeaveWaking(s, c) /\ UNCHANGED dying
    BY DEF done_wake
  <1>2. /\ k.stat[s] = "ready" /\ s # Idle /\ pc[s] = "completing"
        /\ pc \in [Threads -> Points] /\ object \in [Threads -> Queues]
    BY <1>1, RunningReady
  <1>3. c \in Queues /\ subject \notin dying /\ Completions \subseteq Queues
    BY CompletionScope
  <1>4. Now'
    BY <1>1, <1>2, <1>3, LeaveWakingStep DEF Gave
  <1>5. CompletionType' /\ flag'[c] = "RT_COMPLETED" /\ \A b \in Completions : b # c => flag'[b] = flag[b]
    BY <1>1, FlagSet DEF DoneInv
  <1>6. AtMostOne(c)
    BY DEF DoneInv
  <1>7. /\ k'.queue[c] = << >>
        /\ \A b \in Queues : b # c => k'.queue[b] = k.queue[b] /\ Way(k', pc, object, b) = Way(k, pc, object, b)
    <2>1. CASE k.queue[c] # << >>
      <3>1. PICK v : v = rt_ipc_list_resume(k, c)
        OBVIOUS
      <3>2. k' = v
        BY <1>1, <2>1, <3>1 DEF LeaveWaking, NoWaiter
      <3> QED BY <1>6, <2>1, <3>1, <3>2, WokenCompletion
    <2>2. CASE k.queue[c] = << >>
      BY <1>1, <2>2 DEF LeaveWaking, NoWaiter
    <2> QED BY <2>1, <2>2
  <1>8. pc'[s] \in Outside /\ \A x \in Threads : x # s => pc'[x] = pc[x] /\ object'[x] = object[x]
    BY <1>1, <1>2 DEF LeaveWaking, LeaveCall, LeaveTo, Goto, Outside
  <1>9. \A x \in Threads : pc'[x] \in WaitPoints => pc[x] = pc'[x] /\ object'[x] = object[x]
    BY <1>8 DEF Outside, WaitPoints
  <1>10. \A b \in Queues : Way(k', pc', object', b) \subseteq Way(k', pc, object, b)
    BY <1>9 DEF Way, Clients
  <1>11. \A b \in Completions : b # c => Undone(b)
    BY <1>3, <1>5, <1>7, <1>9, <1>10 DEF Undone
  <1>12. AtMostOne(c)'
    BY <1>6, <1>9 DEF AtMostOne
  <1> QED BY <1>4, <1>5, <1>7, <1>11, <1>12, UndoneInv

\* rt_completion_done by a handler.
LEMMA IsrDoneStep ==
    ASSUME Now, DoneInv, subject \in Completions, NEW c \in Completions, isr_done(c), UNCHANGED subject
    PROVE  Now' /\ DoneInv'
  <1>1. SetFlag(c, "RT_COMPLETED") /\ IsrWaking(c) /\ UNCHANGED <<pc, object, dying>>
    BY DEF isr_done
  <1>3. c \in Queues /\ subject \notin dying /\ Completions \subseteq Queues
    BY CompletionScope
  <1>4. HandlerGave(k', c)
    BY <1>1, <1>3, IsrWakingEffect
  <1>5. CompletionType' /\ flag'[c] = "RT_COMPLETED" /\ \A b \in Completions : b # c => flag'[b] = flag[b]
    BY <1>1, FlagSet DEF DoneInv
  <1>6. AtMostOne(c)
    BY DEF DoneInv
  <1>7. k'.queue[c] = << >>
    <2>1. CASE k.queue[c] # << >>
      <3>1. PICK v : v = rt_ipc_list_resume(k, c)
        OBVIOUS
      <3>2. k' = rt_schedule(v)
        BY <1>1, <2>1, <3>1 DEF IsrWaking, NoWaiter
      <3>3. v.queue[c] = << >> /\ v \in KernelType
        BY <1>6, <2>1, <3>1, WokenCompletion
      <3> QED BY <3>2, <3>3, SwitchQueues
    <2>2. CASE k.queue[c] = << >>
      BY <1>1, <2>2 DEF IsrWaking, NoWaiter
    <2> QED BY <2>1, <2>2
  <1>8. ASSUME NEW b \in Completions, b # c
        PROVE  Undone(b)
    <2>1. k'.queue[b] = k.queue[b] /\ Way(k', pc, object, b) = Way(k, pc, object, b)
      BY <1>3, <1>4, <1>8 DEF HandlerGave
    <2> QED BY <1>1, <1>5, <1>8, <2>1 DEF Undone
  <1>9. AtMostOne(c)' /\ Now'
    BY <1>1, <1>4, <1>6 DEF AtMostOne, HandlerGave, Now
  <1> QED BY <1>5, <1>7, <1>8, <1>9, UndoneInv

\* Every step of a completion.
LEMMA DoneStep ==
    ASSUME Now, DoneInv, subject \in Completions, CompletionNext, UNCHANGED subject
    PROVE  Now' /\ DoneInv'
  <1>1. ASSUME Background, UNCHANGED flag
        PROVE  Now' /\ DoneInv'
    <2>1. Idled
      BY <1>1, BackgroundStep
    <2>2. Now' /\ object' = object /\ \A x \in Threads : GoesOn(x)
      BY <2>1 DEF Idled
    <2>3. ASSUME NEW b \in Completions
          PROVE  Undone(b)
      <3>1. b \in Queues
        BY CompletionScope
      <3>2. Way(k', pc', object', b) = Way(k, pc, object, b)
            /\ \A x : Contains(k'.queue[b], x) => Contains(k.queue[b], x)
        BY <2>1, <3>1 DEF Idled
      <3>3. k'.queue[b] # << >> => k.queue[b] # << >>
        <4>1. Waits(k, pc, object, subject) /\ Waits(k', pc', object', subject')
          BY <2>2 DEF Now, Calm
        <4>2. k.queue[b] = << >> => \A x : ~Contains(k.queue[b], x)
          BY <3>1, <4>1, FirstWaiter
        <4>3. (\A x : ~Contains(k'.queue[b], x)) => k'.queue[b] = << >>
          BY <3>1, <4>1, FirstWaiter
        <4> QED BY <3>2, <4>2, <4>3
      <3>4. \A x \in Threads : pc'[x] \in WaitPoints /\ object'[x] = b => pc[x] \in WaitPoints /\ object[x] = b
        BY <2>2 DEF GoesOn, WaitPoints
      <3> QED BY <1>1, <3>2, <3>3, <3>4 DEF Undone
    <2>4. CompletionType'
      BY <1>1 DEF DoneInv, CompletionType
    <2>5. DoneInv'
      BY <1>1, <2>3, <2>4 DEF DoneInv, Undone, AtMostOne
    <2> QED BY <2>2, <2>5
  <1>2. ASSUME NEW s \in Threads, NEW c \in Completions, rt_completion_wait(s, c)
        PROVE  Now' /\ DoneInv'
    <2>1. /\ Running(s, "user") /\ Unused(c) /\ UNCHANGED dying
          /\ \/ SetFlag(c, "RT_UNCOMPLETED") /\ UNCHANGED <<k, pc, object>>
             \/ /\ flag[c] # "RT_COMPLETED"
                /\ WaitOn(s, c, "RT_IPC_FLAG_FIFO", TRUE) /\ UNCHANGED flag
      BY <1>2 DEF rt_completion_wait
    <2> QED BY <2>1, CompletedStep, WaitForDone
  <1> QED BY <1>1, <1>2, WaitReturnStep, LookDone, DoneWakeStep, IsrDoneStep DEF CompletionNext
-----------------------------------------------------------------------------
(* The work queue                                                          *)

WorkPoints == {"wq_suspend", "wq_idle", "wq_take", "wq_work", "wq_sleep", "wq_done"}

\* In table u the lists are empty and only the worker is ever suspended: for
\* want of work, or asleep in a work.
WorkThreads(u, at) ==
    /\ Settled(u) /\ u.prio = init_priority
    /\ \A q \in Queues : u.queue[q] = << >>
    /\ at \in [Threads -> Points] /\ at[Worker] \in WorkPoints \cup {"user"}
    /\ \A t \in Threads \ {Worker} :
          /\ u.stat[t] = "ready" /\ at[t] \in {"user", "schedule"} \cup Waking
          /\ at[t] # "user" => t \in Callers
    /\ u.stat[Worker] = "suspend" => at[Worker] \in {"wq_idle", "wq_take", "wq_sleep", "wq_done"}
    /\ u.timer # {} => at[Worker] \in {"wq_sleep", "wq_done"}

\* The worker owes its rt_schedule at once when it has suspended itself, and no
\* caller runs while the worker could, except on the way to its rt_schedule.
WorkRuns(u, at) ==
    /\ u.current \in Threads
    /\ u.stat[u.current] = "ready" \/ at[u.current] \in {"wq_idle", "wq_sleep"}
    /\ at[Worker] = "wq_idle" => u.current = Worker /\ u.stat[Worker] = "suspend"
    /\ u.current \in Callers /\ at[u.current] # "schedule" => u.stat[Worker] = "suspend"

\* A work is on the list once. Before it suspends itself the worker has found
\* no work, and it has a work in hand from its take to the end of the work.
WorkList ==
    /\ WorkQueueType /\ IsInjective(work_list)
    /\ pc[Worker] = "wq_suspend" => work_list = << >>
    /\ work_current = NoWork <=> pc[Worker] \in {"user", "wq_suspend", "wq_idle", "wq_take"}
    /\ WorkerWoken

\* The caller wakes the worker only when there is a work.
WorkFound ==
    /\ WorkToDo
    /\ \A s \in Callers : pc[s] \in Waking =>
          work_list # << >> /\ k.stat[Worker] = "suspend" /\ pc[Worker] = "wq_take"

\* A single caller: another one could wake the worker, or find it woken, between
\* the sections of the first one's rt_thread_resume.
OneCaller == \A s, r \in Callers : s = r

AtWork ==
    /\ OneCaller
    /\ WorkThreads(k, pc) /\ WorkRuns(k, pc) /\ WorkList /\ WorkFound
    /\ object \in [Threads -> Queues]

\* rt_schedule takes no thread while a more urgent one is READY.
LEMMA MostUrgent ==
    ASSUME NEW u, Settled(u), NEW x \in Threads, u.stat[x] = "ready"
    PROVE  u.prio[rt_schedule(u).current] <= u.prio[x]
  <1> DEFINE p == highest_ready_priority(u)
             c == Head(u.ready[p])
  <1>1. Lists(u) /\ Listed(u, x) /\ u.lock_nest = 0
    BY DEF Settled
  <1>2. p \in Prios /\ u.ready[p] # << >> /\ c \in Threads
    BY <1>1, HighestReady
  <1>3. u.group \in SUBSET Nat /\ u.group # {}
    BY <1>1, <1>2, KernelAssumption DEF Lists, Prios
  <1>4. \E m \in u.group : \A n \in u.group : m <= n
    BY <1>3, LeastElement
  <1>5. \A n \in u.group : p <= n
    BY <1>4 DEF highest_ready_priority
  <1>6. PICK n \in Prios : Contains(u.ready[n], x)
    BY <1>1 DEF Listed
  <1>7. u.prio[x] = n /\ n \in u.group
    <2>1. u.ready[n] \in Seq(Threads)
      BY <1>1, <1>6 DEF Lists, KernelType
    <2>2. u.ready[n] # << >>
      BY <1>6, <2>1, EmptyList
    <2> QED BY <1>1, <1>6, <2>2 DEF Lists
  <1>8. u.prio[c] = p
    <2>1. u.ready[p] \in Seq(Threads)
      BY <1>1, <1>2 DEF Lists, KernelType
    <2>2. Contains(u.ready[p], c)
      BY <1>2, <2>1, EmptyList
    <2> QED BY <1>1, <1>2, <2>2 DEF Lists
  <1>9. rt_schedule(u).current = c
    BY <1>1 DEF rt_schedule, Lists, KernelType
  <1> QED BY <1>5, <1>7, <1>8, <1>9

\* After rt_schedule no caller runs while the worker could.
LEMMA ScheduleWork ==
    ASSUME NEW u, NEW at, WorkThreads(u, at), at[Worker] # "wq_idle", NEW v, v = rt_schedule(u)
    PROVE  WorkThreads(v, at) /\ WorkRuns(v, at) /\ v.stat = u.stat
  <1>1. Idle \in Threads /\ Worker \in Threads /\ Idle # Worker
    BY IpcAssumption, WorkQueueAssumption DEF Clients
  <1>2. Settled(u) /\ u.stat[Idle] = "ready"
    BY <1>1 DEF WorkThreads
  <1>3. /\ Settled(v) /\ v.current \in Threads /\ v.stat[v.current] = "ready"
        /\ v.stat = u.stat /\ v.error = u.error /\ v.timer = u.timer
        /\ v.queue = u.queue /\ v.prio = u.prio
    BY <1>1, <1>2, ScheduleSettled
  <1>4. WorkThreads(v, at)
    BY <1>3 DEF WorkThreads
  <1>5. v.current \in Callers => v.stat[Worker] = "suspend"
    <2>1. SUFFICES ASSUME v.current \in Callers, u.stat[Worker] = "ready"
                   PROVE  FALSE
      BY <1>1, <1>2, <1>3 DEF Settled
    <2>2. u.prio[v.current] <= u.prio[Worker]
      BY <1>1, <1>2, <2>1, MostUrgent
    <2>3. init_priority[Worker] < init_priority[v.current] /\ u.prio = init_priority
      BY <2>1, WorkQueueAssumption DEF WorkThreads
    <2>4. init_priority[Worker] \in Int /\ init_priority[v.current] \in Int
      BY <1>1, <1>3, KernelAssumption DEF Prios
    <2> QED BY <2>2, <2>3, <2>4
  <1> QED BY <1>1, <1>3, <1>4, <1>5 DEF WorkRuns
\* The callers and the worker are threads of their own.
LEMMA WorkerApart ==
    /\ Worker \in Threads /\ Worker # Idle /\ Idle \in Threads /\ Callers \subseteq Threads
    /\ Worker \notin Callers /\ NoWork \notin Works
  BY IpcAssumption, WorkQueueAssumption DEF Clients

\* One thread goes from one point to another.
LEMMA PointSet ==
    ASSUME pc \in [Threads -> Points], NEW s \in Threads, NEW point \in Points, Goto(s, point)
    PROVE  /\ pc' \in [Threads -> Points] /\ pc'[s] = point
           /\ \A t \in Threads : t # s => pc'[t] = pc[t]
  BY DEF Goto

\* The rt_schedule of the worker and of the callers.
LEMMA WorkScheduleStep ==
    ASSUME AtWork, NEW s \in Threads, NEW from, NEW to,
           \/ s = Worker /\ from = "wq_idle" /\ to = "wq_take"
           \/ s = Worker /\ from = "wq_sleep" /\ to = "wq_done"
           \/ s \in Callers /\ from = "schedule" /\ to = "user",
           ScheduleStep(s, from, to), UNCHANGED work
    PROVE  AtWork'
  <1>1. /\ k.current = s /\ pc[s] = from /\ k' = rt_schedule(k)
        /\ Goto(s, to) /\ UNCHANGED <<object, dying, work_list, work_current>>
    BY DEF ScheduleStep, Running, work
  <1>2. WorkThreads(k, pc) /\ WorkRuns(k, pc) /\ pc \in [Threads -> Points] /\ to \in Points
    BY DEF AtWork, WorkThreads, Points
  <1>3. pc' \in [Threads -> Points] /\ pc'[s] = to /\ \A t \in Threads : t # s => pc'[t] = pc[t]
    BY <1>1, <1>2, PointSet
  <1>4. pc'[Worker] # "wq_idle"
    BY <1>1, <1>2, <1>3, WorkerApart DEF WorkRuns
  <1>5. WorkThreads(k, pc')
    BY <1>1, <1>2, <1>3, WorkerApart DEF WorkThreads, WorkPoints
  <1>6. WorkThreads(k', pc') /\ WorkRuns(k', pc') /\ k'.stat = k.stat
    BY <1>1, <1>4, <1>5, ScheduleWork
  <1>7. \A t \in Callers : pc'[t] \in Waking <=> pc[t] \in Waking
    BY <1>1, <1>3, WorkerApart DEF Waking
  <1>8. WorkList'
    BY <1>1, <1>3, <1>6, <1>7, WorkerApart DEF AtWork, WorkList, WorkQueueType, WorkerWoken
  <1>9. WorkFound'
    <2>1. pc[Worker] = "wq_idle" => k.stat[Worker] = "suspend"
      BY <1>2 DEF WorkRuns
    <2> QED BY <1>1, <1>3, <1>6, <1>7, <2>1, WorkerApart DEF AtWork, WorkFound, WorkToDo
  <1> QED BY <1>1, <1>6, <1>8, <1>9 DEF AtWork

\* The worker looks at the list, suspends itself, takes a work and does it.
LEMMA LookAtList ==
    ASSUME AtWork, look_at_list
    PROVE  AtWork'
  <1>1. /\ k.current = Worker /\ pc[Worker] = "user"
        /\ Goto(Worker, IF work_list = << >> THEN "wq_suspend" ELSE "wq_take")
        /\ UNCHANGED <<k, object, dying, work_list, work_current>>
    BY DEF look_at_list, Running, work
  <1>2. WorkThreads(k, pc) /\ WorkRuns(k, pc) /\ pc \in [Threads -> Points]
    BY DEF AtWork, WorkThreads
  <1>3. /\ pc' \in [Threads -> Points]
        /\ pc'[Worker] = IF work_list = << >> THEN "wq_suspend" ELSE "wq_take"
        /\ \A t \in Threads : t # Worker => pc'[t] = pc[t]
    <2>1. "wq_suspend" \in Points /\ "wq_take" \in Points
      BY DEF Points
    <2> QED BY <1>1, <1>2, <2>1, PointSet, WorkerApart
  <1>4. k.stat[Worker] = "ready" /\ k.timer = {}
    BY <1>1, <1>2, WorkerApart DEF WorkThreads, WorkRuns
  <1>5. WorkThreads(k', pc') /\ WorkRuns(k', pc')
    BY <1>1, <1>2, <1>3, <1>4, WorkerApart DEF WorkThreads, WorkRuns, WorkPoints
  <1>6. WorkList'
    BY <1>1, <1>3, <1>4, WorkerApart DEF AtWork, WorkList, WorkQueueType, WorkerWoken
  <1>7. WorkFound'
    BY <1>1, <1>3, <1>4, WorkerApart DEF AtWork, WorkFound, WorkToDo
  <1> QED BY <1>1, <1>5, <1>6, <1>7 DEF AtWork

LEMMA SuspendWorker ==
    ASSUME AtWork, suspend_worker
    PROVE  AtWork'
  <1>1. /\ k.current = Worker /\ pc[Worker] = "wq_suspend" /\ Goto(Worker, "wq_idle")
        /\ k' = rt_thread_suspend(k, Worker)
        /\ UNCHANGED <<object, dying, work_list, work_current>>
    BY DEF suspend_worker, Running, work
  <1>2. WorkThreads(k, pc) /\ WorkRuns(k, pc) /\ pc \in [Threads -> Points]
    BY DEF AtWork, WorkThreads
  <1>3. /\ pc' \in [Threads -> Points] /\ pc'[Worker] = "wq_idle"
        /\ \A t \in Threads : t # Worker => pc'[t] = pc[t]
    <2>1. "wq_idle" \in Points
      BY DEF Points
    <2> QED BY <1>1, <1>2, <2>1, PointSet, WorkerApart
  <1>4. k.stat[Worker] = "ready" /\ k.timer = {} /\ work_list = << >>
    BY <1>1, <1>2, WorkerApart DEF AtWork, WorkThreads, WorkRuns, WorkList
  <1>5. /\ Settled(k') /\ k'.stat = [k.stat EXCEPT ![Worker] = "suspend"]
        /\ k'.error = k.error /\ k'.timer = k.timer /\ k'.queue = k.queue
        /\ k'.prio = k.prio /\ k'.current = k.current
    BY <1>1, <1>2, <1>4, WorkerApart, SuspendSettled DEF WorkThreads
  <1>6. k.stat \in [Threads -> Stats]
    BY <1>2, SettledType DEF WorkThreads
  <1>7. k'.stat[Worker] = "suspend" /\ \A t \in Threads : t # Worker => k'.stat[t] = k.stat[t]
    BY <1>5, <1>6, WorkerApart
  <1>8. WorkThreads(k', pc') /\ WorkRuns(k', pc')
    BY <1>1, <1>2, <1>3, <1>4, <1>5, <1>7, WorkerApart DEF WorkThreads, WorkRuns, WorkPoints
  <1>9. WorkList'
    BY <1>1, <1>3, <1>4, WorkerApart DEF AtWork, WorkList, WorkQueueType, WorkerWoken
  <1>10. WorkFound'
    BY <1>1, <1>3, <1>4, WorkerApart DEF AtWork, WorkFound, WorkToDo
  <1> QED BY <1>1, <1>8, <1>9, <1>10 DEF AtWork

LEMMA TakeWork ==
    ASSUME AtWork, take_work
    PROVE  AtWork'
  <1>1. /\ k.current = Worker /\ pc[Worker] = "wq_take" /\ Goto(Worker, "wq_work")
        /\ work_list # << >> /\ work_current' = Head(work_list) /\ work_list' = Tail(work_list)
        /\ UNCHANGED <<k, object, dying>>
    BY DEF take_work, Running
  <1>2. WorkThreads(k, pc) /\ WorkRuns(k, pc) /\ pc \in [Threads -> Points]
    BY DEF AtWork, WorkThreads
  <1>3. /\ pc' \in [Threads -> Points] /\ pc'[Worker] = "wq_work"
        /\ \A t \in Threads : t # Worker => pc'[t] = pc[t]
    <2>1. "wq_work" \in Points
      BY DEF Points
    <2> QED BY <1>1, <1>2, <2>1, PointSet, WorkerApart
  <1>4. k.stat[Worker] = "ready" /\ k.timer = {}
    BY <1>1, <1>2, WorkerApart DEF WorkThreads, WorkRuns
  <1>5. WorkThreads(k', pc') /\ WorkRuns(k', pc')
    BY <1>1, <1>2, <1>3, <1>4, WorkerApart DEF WorkThreads, WorkRuns, WorkPoints
  <1>6. WorkList'
    <2>1. work_list \in Seq(Works) /\ IsInjective(work_list)
      BY DEF AtWork, WorkList, WorkQueueType
    <2>2. Tail(work_list) \in Seq(Works) /\ IsInjective(Tail(work_list)) /\ Head(work_list) \in Works
      BY <1>1, <2>1, TailList
    <2> QED BY <1>1, <1>3, <2>2, WorkerApart DEF WorkList, WorkQueueType, WorkerWoken
  <1>7. WorkFound'
    BY <1>1, <1>3, <1>4, WorkerApart DEF AtWork, WorkFound, WorkToDo
  <1> QED BY <1>1, <1>5, <1>6, <1>7 DEF AtWork
LEMMA DoWork ==
    ASSUME AtWork, do_work
    PROVE  AtWork'
  <1>1. /\ k.current = Worker /\ pc[Worker] = "wq_work"
        /\ UNCHANGED <<object, dying, work_list, work_current>>
        /\ \/ Goto(Worker, "wq_done") /\ k' = k
           \/ Goto(Worker, "wq_sleep") /\ k' = rt_timer_start(rt_thread_suspend(k, Worker), Worker)
    BY DEF do_work, Running, work
  <1>2. WorkThreads(k, pc) /\ WorkRuns(k, pc) /\ pc \in [Threads -> Points]
    BY DEF AtWork, WorkThreads
  <1>3. k.stat[Worker] = "ready" /\ k.timer = {} /\ Settled(k)
    BY <1>1, <1>2, WorkerApart DEF WorkThreads, WorkRuns
  <1>4. PICK to \in {"wq_done", "wq_sleep"} :
           /\ Goto(Worker, to)
           /\ to = "wq_done" => k' = k
           /\ to = "wq_sleep" => k' = rt_timer_start(rt_thread_suspend(k, Worker), Worker)
    BY <1>1
  <1>5. /\ pc' \in [Threads -> Points] /\ pc'[Worker] = to
        /\ \A t \in Threads : t # Worker => pc'[t] = pc[t]
    <2>1. to \in Points
      BY DEF Points
    <2> QED BY <1>2, <1>4, <2>1, PointSet, WorkerApart
  <1>6. /\ Settled(k') /\ k'.queue = k.queue /\ k'.prio = k.prio /\ k'.current = k.current
        /\ \A t \in Threads : t # Worker => k'.stat[t] = k.stat[t]
        /\ to = "wq_done" => k'.stat[Worker] = "ready" /\ k'.timer = {}
    <2>1. CASE to = "wq_done"
      BY <1>3, <1>4, <2>1
    <2>2. CASE to = "wq_sleep"
      <3>1. PICK v : v = rt_thread_suspend(k, Worker)
        OBVIOUS
      <3>2. /\ Settled(v) /\ v.stat = [k.stat EXCEPT ![Worker] = "suspend"]
            /\ v.queue = k.queue /\ v.prio = k.prio /\ v.current = k.current
        BY <1>3, <3>1, WorkerApart, SuspendSettled
      <3>3. k.stat \in [Threads -> Stats]
        BY <1>3, SettledType
      <3>4. v.stat[Worker] = "suspend" /\ \A t \in Threads : t # Worker => v.stat[t] = k.stat[t]
        BY <3>2, <3>3, WorkerApart
      <3>5. k' = rt_timer_start(v, Worker)
        BY <1>4, <2>2, <3>1
      <3>6. /\ Settled(k') /\ k'.queue = v.queue /\ k'.prio = v.prio /\ k'.current = v.current
            /\ k'.stat = v.stat
        BY <3>2, <3>4, <3>5, WorkerApart, TimerSettled
      <3> QED BY <2>2, <3>2, <3>4, <3>6
    <2> QED BY <2>1, <2>2
  <1>7. WorkThreads(k', pc') /\ WorkRuns(k', pc')
    BY <1>1, <1>2, <1>3, <1>5, <1>6, WorkerApart DEF WorkThreads, WorkRuns, WorkPoints
  <1>8. WorkList'
    BY <1>1, <1>3, <1>5, WorkerApart DEF AtWork, WorkList, WorkQueueType, WorkerWoken
  <1>9. WorkFound'
    BY <1>1, <1>3, <1>5, WorkerApart DEF AtWork, WorkFound, WorkToDo
  <1> QED BY <1>1, <1>7, <1>8, <1>9 DEF AtWork

LEMMA WorkDone ==
    ASSUME AtWork, work_done
    PROVE  AtWork'
  <1>1. /\ k.current = Worker /\ pc[Worker] = "wq_done" /\ Goto(Worker, "user")
        /\ work_current' = NoWork /\ UNCHANGED <<k, object, dying, work_list>>
    BY DEF work_done, Running
  <1>2. WorkThreads(k, pc) /\ WorkRuns(k, pc) /\ pc \in [Threads -> Points]
    BY DEF AtWork, WorkThreads
  <1>3. /\ pc' \in [Threads -> Points] /\ pc'[Worker] = "user"
        /\ \A t \in Threads : t # Worker => pc'[t] = pc[t]
    <2>1. "user" \in Points
      BY DEF Points
    <2> QED BY <1>1, <1>2, <2>1, PointSet, WorkerApart
  <1>4. k.stat[Worker] = "ready" /\ k.timer = {}
    <2>1. k.stat[Worker] = "ready"
      BY <1>1, <1>2, WorkerApart DEF WorkRuns
    <2>2. k.timer \subseteq Threads /\ \A t \in k.timer : k.stat[t] = "suspend"
      BY <1>2, SettledType DEF WorkThreads, Settled
    <2> QED BY <1>2, <2>1, <2>2 DEF WorkThreads
  <1>5. WorkThreads(k', pc') /\ WorkRuns(k', pc')
    BY <1>1, <1>2, <1>3, <1>4, WorkerApart DEF WorkThreads, WorkRuns, WorkPoints
  <1>6. WorkList'
    BY <1>1, <1>3, <1>4, WorkerApart DEF AtWork, WorkList, WorkQueueType, WorkerWoken
  <1>7. WorkFound'
    BY <1>1, <1>3, <1>4, WorkerApart DEF AtWork, WorkFound, WorkToDo
  <1> QED BY <1>1, <1>5, <1>6, <1>7 DEF AtWork

\* While a caller runs, and is not about to call rt_schedule, the worker is
\* suspended; if it has no work in hand it waits for one.
LEMMA CallerRuns ==
    ASSUME AtWork, NEW s \in Callers, NEW point, point \in {"user"} \cup Waking, Running(s, point)
    PROVE  /\ k.current = s /\ pc[s] = point /\ s \in Threads /\ s # Worker
           /\ k.stat[Worker] = "suspend" /\ pc[Worker] \in {"wq_take", "wq_sleep", "wq_done"}
           /\ work_current = NoWork <=> pc[Worker] = "wq_take"
  <1>1. k.current = s /\ pc[s] = point /\ s \in Threads /\ s # Worker
    BY WorkerApart DEF Running
  <1>2. k.stat[Worker] = "suspend" /\ pc[Worker] # "wq_idle"
    BY <1>1 DEF AtWork, WorkRuns, Waking
  <1> QED BY <1>1, <1>2 DEF AtWork, WorkThreads, WorkList

\* rt_workqueue_dowork and _cancel_work: a work enters or leaves the list.
LEMMA HandInStep ==
    ASSUME AtWork, NEW s \in Callers, NEW w \in Works, rt_workqueue_dowork(s, w)
    PROVE  AtWork'
  <1>1. /\ Running(s, "user") /\ work_list' = Append(RemoveFirst(work_list, w), w)
        /\ IF work_current = NoWork THEN Goto(s, "wq_wake") ELSE UNCHANGED pc
        /\ UNCHANGED <<k, object, dying, work_current>>
    BY DEF rt_workqueue_dowork
  <1>2. /\ k.current = s /\ pc[s] = "user" /\ s \in Threads /\ s # Worker
        /\ k.stat[Worker] = "suspend" /\ pc[Worker] \in {"wq_take", "wq_sleep", "wq_done"}
        /\ work_current = NoWork <=> pc[Worker] = "wq_take"
    BY <1>1, CallerRuns
  <1>3. WorkThreads(k, pc) /\ WorkRuns(k, pc) /\ pc \in [Threads -> Points]
    BY DEF AtWork, WorkThreads
  <1>4. /\ pc' \in [Threads -> Points] /\ \A t \in Threads : t # s => pc'[t] = pc[t]
        /\ pc'[s] = IF work_current = NoWork THEN "wq_wake" ELSE "user"
    <2>1. "wq_wake" \in Points
      BY DEF Points
    <2> QED BY <1>1, <1>2, <1>3, <2>1, PointSet
  <1>5. WorkThreads(k', pc') /\ WorkRuns(k', pc')
    BY <1>1, <1>2, <1>3, <1>4, WorkerApart DEF WorkThreads, WorkRuns, Waking
  <1>6. work_list' \in Seq(Works) /\ IsInjective(work_list)' /\ work_list' # << >>
    <2>1. work_list \in Seq(Works) /\ IsInjective(work_list)
      BY DEF AtWork, WorkList, WorkQueueType
    <2>2. PICK l : l = RemoveFirst(work_list, w)
      OBVIOUS
    <2>3. l \in Seq(Works) /\ IsInjective(l) /\ ~Contains(l, w)
      BY <2>1, <2>2, RemoveFirstList
    <2>4. Append(l, w) \in Seq(Works) /\ IsInjective(Append(l, w))
      BY <2>3, AppendList
    <2>5. Append(l, w) # << >>
      BY <2>3
    <2> QED BY <1>1, <2>2, <2>4, <2>5
  <1>9. pc'[Worker] = pc[Worker]
    BY <1>2, <1>4, WorkQueueAssumption DEF Clients
  <1>7. WorkList'
    <2>1. WorkQueueType'
      BY <1>1, <1>6 DEF AtWork, WorkList, WorkQueueType
    <2>2. pc'[Worker] # "wq_suspend"
      BY <1>2, <1>9
    <2>3. work_current' = NoWork <=> pc'[Worker] \in {"user", "wq_suspend", "wq_idle", "wq_take"}
      BY <1>1, <1>9 DEF AtWork, WorkList
    <2>4. WorkerWoken'
      <3>1. pc'[Worker] \in {"wq_suspend", "wq_idle", "wq_take"} => pc'[s] \in Waking
        BY <1>2, <1>4, <1>9 DEF Waking
      <3> QED BY <3>1 DEF WorkerWoken
    <2> QED BY <1>6, <2>1, <2>2, <2>3, <2>4 DEF WorkList
  <1>8. WorkFound'
    <2>1. WorkToDo'
      BY <1>1, <1>2 DEF WorkToDo
    <2>2. ASSUME NEW r \in Callers, pc'[r] \in Waking
          PROVE  work_list' # << >> /\ k'.stat[Worker] = "suspend" /\ pc'[Worker] = "wq_take"
      <3>1. r = s
        BY DEF AtWork, OneCaller
      <3>2. work_current = NoWork
        BY <1>4, <2>2, <3>1 DEF Waking
      <3> QED BY <1>1, <1>2, <1>6, <1>9, <3>2
    <2> QED BY <2>1, <2>2 DEF WorkFound
  <1> QED BY <1>1, <1>5, <1>7, <1>8 DEF AtWork

LEMMA CancelStep ==
    ASSUME AtWork, NEW s \in Callers, NEW w \in Works, rt_workqueue_cancel_work(s, w)
    PROVE  AtWork'
  <1>1. /\ Running(s, "user") /\ work_list' = RemoveFirst(work_list, w)
        /\ UNCHANGED <<k, pc, object, dying, work_current>>
    BY DEF rt_workqueue_cancel_work
  <1>2. /\ k.current = s /\ pc[s] = "user" /\ s \in Threads /\ s # Worker
        /\ k.stat[Worker] = "suspend" /\ pc[Worker] \in {"wq_take", "wq_sleep", "wq_done"}
    BY <1>1, CallerRuns
  <1>3. /\ work_list' \in Seq(Works) /\ IsInjective(work_list)'
        /\ work_list = << >> => work_list' = << >>
    <2>1. work_list \in Seq(Works) /\ IsInjective(work_list)
      BY DEF AtWork, WorkList, WorkQueueType
    <2>2. PICK l : l = RemoveFirst(work_list, w)
      OBVIOUS
    <2>3. l \in Seq(Works) /\ IsInjective(l) /\ \A x : Contains(l, x) => Contains(work_list, x)
      BY <2>1, <2>2, RemoveFirstList
    <2>4. (work_list = << >> => \A x : ~Contains(work_list, x)) /\ ((\A x : ~Contains(l, x)) => l = << >>)
      BY <2>1, <2>3, EmptyList
    <2> QED BY <1>1, <2>2, <2>3, <2>4
  <1>4. WorkThreads(k', pc') /\ WorkRuns(k', pc')
    BY <1>1 DEF AtWork
  <1>5. WorkList'
    <2>1. WorkerWoken'
      BY <1>1, <1>3 DEF AtWork, WorkList, WorkerWoken
    <2>2. pc[Worker] # "wq_suspend"
      BY <1>2
    <2> QED BY <1>1, <1>3, <2>1, <2>2 DEF AtWork, WorkList, WorkQueueType
  <1>6. WorkFound'
    <2>1. \A r \in Callers : r = s
      BY DEF AtWork, OneCaller
    <2> QED BY <1>1, <1>2, <2>1 DEF WorkFound, WorkToDo, Waking
  <1> QED BY <1>1, <1>4, <1>5, <1>6 DEF AtWork
\* The worker is made READY: the lists stay empty and no timer runs.
LEMMA WorkerReady ==
    ASSUME AtWork, NEW v, NEW e, MadeReady(k, v, Worker, e)
    PROVE  /\ WorkThreads(v, pc) /\ v.current = k.current
           /\ v.stat[Worker] = "ready" /\ \A t \in Threads : t # Worker => v.stat[t] = k.stat[t]
  <1>1. WorkThreads(k, pc) /\ Settled(k)
    BY DEF AtWork, WorkThreads
  <1>2. /\ Settled(v) /\ v.stat = [k.stat EXCEPT ![Worker] = "ready"] /\ v.timer = k.timer \ {Worker}
        /\ v.queue = [q \in Queues |-> RemoveFirst(k.queue[q], Worker)]
        /\ v.prio = k.prio /\ v.current = k.current
    BY DEF MadeReady
  <1>3. k.stat \in [Threads -> Stats] /\ k.timer \subseteq Threads
    BY <1>1, SettledType
  <1>4. v.stat[Worker] = "ready" /\ \A t \in Threads : t # Worker => v.stat[t] = k.stat[t]
    BY <1>2, <1>3, WorkerApart
  <1>5. v.timer = {}
    <2>1. \A t \in k.timer : k.stat[t] = "suspend"
      BY <1>1 DEF Settled
    <2>2. \A t \in Threads : t # Worker => k.stat[t] = "ready"
      BY <1>1 DEF WorkThreads
    <2> QED BY <1>2, <1>3, <2>1, <2>2
  <1>6. ASSUME NEW q \in Queues
        PROVE  v.queue[q] = << >>
    <2>1. k.queue[q] = << >>
      BY <1>1 DEF WorkThreads
    <2>2. ~Contains(k.queue[q], Worker)
      BY <2>1 DEF Contains
    <2>3. RemoveFirst(k.queue[q], Worker) = k.queue[q]
      BY <2>2, NotOnList
    <2> QED BY <1>2, <2>1, <2>3
  <1>7. WorkThreads(v, pc)
    BY <1>1, <1>2, <1>4, <1>5, <1>6 DEF WorkThreads
  <1> QED BY <1>2, <1>4, <1>7

\* A caller goes from one section of rt_thread_resume to the next: the worker
\* is still suspended, and there is a work.
LEMMA CallerWakes ==
    ASSUME AtWork, NEW s \in Callers, NEW from, from \in Waking, Running(s, from)
    PROVE  /\ k.current = s /\ s \in Threads /\ s # Worker /\ pc[s] = from
           /\ k.stat[Worker] = "suspend" /\ pc[Worker] = "wq_take" /\ work_list # << >>
           /\ Settled(k) /\ \A r \in Callers : r = s
  <1>1. \A r \in Callers : r = s
    BY DEF AtWork, OneCaller
  <1> QED BY <1>1, WorkerApart DEF Running, AtWork, WorkFound, WorkThreads

\* The sections up to the insertion leave the table as it is: the suspended
\* worker is on no list, and its timer does not run.
LEMMA WorkerUnlisted ==
    ASSUME AtWork, k.stat[Worker] = "suspend", pc[Worker] = "wq_take"
    PROVE  resume_unlink(k, Worker) = k
  <1>1. WorkThreads(k, pc) /\ Settled(k) /\ k \in KernelType /\ ~Listed(k, Worker)
    BY WorkerApart DEF AtWork, WorkThreads, Settled, Lists
  <1>2. k.timer = {} /\ \A q \in Queues : k.queue[q] = << >>
    BY <1>1 DEF WorkThreads
  <1>3. \A p \in Prios : RemoveFirst(k.ready[p], Worker) = k.ready[p]
    BY <1>1, NotOnList DEF Listed
  <1>4. \A q \in Queues : RemoveFirst(k.queue[q], Worker) = k.queue[q]
    <2>1. \A q \in Queues : ~Contains(k.queue[q], Worker)
      BY <1>2 DEF Contains
    <2> QED BY <2>1, NotOnList
  <1>5. /\ [p \in Prios |-> RemoveFirst(k.ready[p], Worker)] = k.ready
        /\ [q \in Queues |-> RemoveFirst(k.queue[q], Worker)] = k.queue
    BY <1>1, <1>3, <1>4 DEF KernelType
  <1>6. rt_list_remove(k, Worker) = k
    BY <1>1, <1>5 DEF rt_list_remove, KernelType
  <1>7. k.timer \ {Worker} = k.timer
    BY <1>2
  <1> QED BY <1>1, <1>6, <1>7 DEF resume_unlink, rt_timer_stop, KernelType

\* The caller tests the state of the worker and unlinks it.
LEMMA WakeGoesOn ==
    ASSUME AtWork, NEW s \in Callers, wake_worker(s) \/ wake_unlink(s)
    PROVE  AtWork'
  <1>1. PICK from \in Waking, to \in Waking :
            /\ Running(s, from) /\ Goto(s, to) /\ k' = k
            /\ UNCHANGED <<object, dying, work_list, work_current>>
    <2>1. CASE wake_worker(s)
      <3>1. Running(s, "wq_wake") /\ "wq_wake" \in Waking /\ "wq_unlink" \in Waking
        BY <2>1 DEF wake_worker, Waking
      <3>2. k.stat[Worker] = "suspend"
        BY <3>1, CallerWakes
      <3> QED BY <2>1, <3>1, <3>2 DEF wake_worker, work
    <2>2. CASE wake_unlink(s)
      <3>1. Running(s, "wq_unlink") /\ "wq_unlink" \in Waking /\ "wq_insert" \in Waking
        BY <2>2 DEF wake_unlink, Waking
      <3>2. k.stat[Worker] = "suspend" /\ pc[Worker] = "wq_take"
        BY <3>1, CallerWakes
      <3> QED BY <2>2, <3>1, <3>2, WorkerUnlisted DEF wake_unlink, work
    <2> QED BY <2>1, <2>2
  <1>2. /\ k.current = s /\ s \in Threads /\ s # Worker /\ pc[s] = from
        /\ k.stat[Worker] = "suspend" /\ pc[Worker] = "wq_take" /\ work_list # << >>
        /\ \A r \in Callers : r = s
    BY <1>1, CallerWakes
  <1>3. WorkThreads(k, pc) /\ WorkRuns(k, pc) /\ pc \in [Threads -> Points]
    BY DEF AtWork, WorkThreads
  <1>4. pc' \in [Threads -> Points] /\ pc'[s] = to /\ \A t \in Threads : t # s => pc'[t] = pc[t]
    <2>1. to \in Points
      BY DEF Points, Waking
    <2> QED BY <1>1, <1>2, <1>3, <2>1, PointSet
  <1>5. pc'[Worker] = pc[Worker]
    BY <1>2, <1>4, WorkerApart
  <1>6. WorkThreads(k', pc') /\ WorkRuns(k', pc')
    BY <1>1, <1>2, <1>3, <1>4, <1>5, WorkerApart DEF WorkThreads, WorkRuns
  <1>7. WorkList'
    BY <1>1, <1>2, <1>4, <1>5 DEF AtWork, WorkList, WorkQueueType, WorkerWoken
  <1>8. WorkFound'
    BY <1>1, <1>2, <1>5 DEF AtWork, WorkFound, WorkToDo
  <1> QED BY <1>1, <1>6, <1>7, <1>8 DEF AtWork

\* The caller makes the worker READY.
LEMMA WakeInsert ==
    ASSUME AtWork, NEW s \in Callers, wake_insert(s)
    PROVE  AtWork'
  <1>1. /\ Running(s, "wq_insert") /\ k' = rt_schedule_insert_thread(k, Worker)
        /\ Goto(s, "schedule") /\ UNCHANGED <<object, dying, work_list, work_current>>
    BY DEF wake_insert, work
  <1>2. /\ k.current = s /\ pc[s] = "wq_insert" /\ s \in Threads /\ s # Worker
        /\ k.stat[Worker] = "suspend" /\ pc[Worker] = "wq_take" /\ work_list # << >>
        /\ Settled(k) /\ \A r \in Callers : r = s
    <2>1. PICK from : from = "wq_insert"
      OBVIOUS
    <2> QED BY <1>1, <2>1, CallerWakes DEF Waking
  <1>3. WorkThreads(k, pc) /\ WorkRuns(k, pc) /\ pc \in [Threads -> Points]
    BY DEF AtWork, WorkThreads
  <1>4. /\ pc' \in [Threads -> Points] /\ \A t \in Threads : t # s => pc'[t] = pc[t]
        /\ pc'[s] = "schedule"
    <2>1. "schedule" \in Points
      BY DEF Points
    <2> QED BY <1>1, <1>2, <1>3, <2>1, PointSet
  <1>5. /\ WorkThreads(k', pc) /\ k'.current = s
        /\ k'.stat[Worker] = "ready" /\ \A t \in Threads : t # Worker => k'.stat[t] = k.stat[t]
    <2>1. k' = rt_thread_resume(k, Worker)
      BY <1>1, <1>2, WorkerUnlisted DEF rt_thread_resume
    <2>2. MadeReady(k, rt_thread_resume(k, Worker), Worker, k.error[Worker])
      BY <1>2, WorkerApart, ResumeSettled
    <2> QED BY <1>2, <2>1, <2>2, WorkerReady
  <1>6. WorkThreads(k', pc') /\ WorkRuns(k', pc')
    BY <1>2, <1>3, <1>4, <1>5, WorkerApart DEF WorkThreads, WorkRuns
  <1>7. WorkList'
    BY <1>1, <1>2, <1>4, <1>5, WorkerApart DEF AtWork, WorkList, WorkQueueType, WorkerWoken
  <1>8. WorkFound'
    BY <1>1, <1>2, <1>4 DEF WorkFound, WorkToDo, Waking
  <1> QED BY <1>1, <1>6, <1>7, <1>8 DEF AtWork

\* The steps that end with rt_schedule and leave the calls alone: a caller
\* empties the list, a slice ends, the worker's sleep ends.
LEMMA CancelAll ==
    ASSUME AtWork, NEW s \in Callers, rt_workqueue_cancel_all_work(s)
    PROVE  AtWork'
  <1>1. /\ Running(s, "user") /\ work_list' = << >> /\ k' = rt_schedule(k)
        /\ UNCHANGED <<pc, object, dying, work_current>>
    BY DEF rt_workqueue_cancel_all_work
  <1>2. /\ k.current = s /\ pc[s] = "user" /\ s # Worker
        /\ k.stat[Worker] = "suspend" /\ pc[Worker] \in {"wq_take", "wq_sleep", "wq_done"}
    BY <1>1, CallerRuns
  <1>3. WorkThreads(k', pc) /\ WorkRuns(k', pc) /\ k'.stat = k.stat
    <2>1. WorkThreads(k, pc) /\ pc[Worker] # "wq_idle"
      BY <1>2 DEF AtWork
    <2> QED BY <1>1, <2>1, ScheduleWork
  <1>4. WorkList'
    <2>1. work_list' \in Seq(Works) /\ IsInjective(work_list)'
      BY <1>1 DEF IsInjective
    <2> QED BY <1>1, <1>2, <1>3, <2>1 DEF AtWork, WorkList, WorkQueueType, WorkerWoken
  <1>5. WorkFound'
    <2>1. \A r \in Callers : r = s
      BY DEF AtWork, OneCaller
    <2> QED BY <1>1, <1>2, <1>3, <2>1 DEF WorkFound, WorkToDo, Waking
  <1> QED BY <1>1, <1>3, <1>4, <1>5 DEF AtWork

LEMMA WorkTick ==
    ASSUME AtWork, tick_yield, UNCHANGED work
    PROVE  AtWork'
  <1>1. /\ k.stat[k.current] = "ready" /\ k' = rt_schedule(move_to_tail(k))
        /\ UNCHANGED <<pc, object, dying, work_list, work_current>>
    BY DEF tick_yield, MovesToTail, work
  <1>2. WorkThreads(k, pc) /\ WorkRuns(k, pc) /\ Settled(k) /\ k.current \in Threads
    BY DEF AtWork, WorkThreads, WorkRuns
  <1>3. PICK v : v = move_to_tail(k)
    OBVIOUS
  <1>4. /\ Settled(v)
        /\ v.stat = k.stat /\ v.error = k.error /\ v.timer = k.timer
        /\ v.queue = k.queue /\ v.prio = k.prio /\ v.current = k.current
    BY <1>1, <1>2, <1>3, MoveSettled
  <1>5. WorkThreads(v, pc) /\ pc[Worker] # "wq_idle"
    BY <1>1, <1>2, <1>4 DEF WorkThreads, WorkRuns
  <1>6. WorkThreads(k', pc) /\ WorkRuns(k', pc) /\ k'.stat = k.stat
    BY <1>1, <1>3, <1>4, <1>5, ScheduleWork
  <1>7. WorkList' /\ WorkFound'
    BY <1>1, <1>6 DEF AtWork, WorkList, WorkQueueType, WorkerWoken, WorkFound, WorkToDo
  <1> QED BY <1>1, <1>6, <1>7 DEF AtWork

LEMMA WorkTimeout ==
    ASSUME AtWork, timeout(Worker), UNCHANGED work
    PROVE  AtWork'
  <1>1. /\ Worker \in k.timer /\ k' = rt_schedule(rt_thread_timeout(k, Worker))
        /\ UNCHANGED <<pc, object, dying, work_list, work_current>>
    BY DEF timeout, work
  <1>2. WorkThreads(k, pc) /\ Settled(k) /\ k.stat[Worker] = "suspend"
    BY <1>1 DEF AtWork, WorkThreads, Settled
  <1>3. pc[Worker] \in {"wq_sleep", "wq_done"}
    BY <1>1, <1>2 DEF WorkThreads
  <1>4. PICK v : v = rt_thread_timeout(k, Worker)
    OBVIOUS
  <1>5. MadeReady(k, v, Worker, "RT_ETIMEOUT")
    BY <1>2, <1>4, WorkerApart, TimeoutSettled
  <1>6. /\ WorkThreads(v, pc) /\ v.stat[Worker] = "ready"
        /\ \A t \in Threads : t # Worker => v.stat[t] = k.stat[t]
    BY <1>5, WorkerReady
  <1>7. WorkThreads(k', pc) /\ WorkRuns(k', pc) /\ k'.stat = v.stat
    BY <1>1, <1>3, <1>4, <1>6, ScheduleWork
  <1>8. WorkList'
    BY <1>1, <1>3, <1>6, <1>7 DEF AtWork, WorkList, WorkQueueType, WorkerWoken
  <1>9. WorkFound'
    BY <1>1, <1>3, <1>6, <1>7 DEF AtWork, WorkFound, WorkToDo
  <1> QED BY <1>1, <1>7, <1>8, <1>9 DEF AtWork

\* Every step of the work queue.
LEMMA WorkStep ==
    ASSUME AtWork, WorkQueueNext
    PROVE  AtWork'
  <1>1. ASSUME ScheduleStep(Worker, "wq_idle", "wq_take"), UNCHANGED work
        PROVE  AtWork'
    <2>1. PICK from, to : from = "wq_idle" /\ to = "wq_take"
      OBVIOUS
    <2> QED BY <1>1, <2>1, WorkerApart, WorkScheduleStep
  <1>2. ASSUME ScheduleStep(Worker, "wq_sleep", "wq_done"), UNCHANGED work
        PROVE  AtWork'
    <2>1. PICK from, to : from = "wq_sleep" /\ to = "wq_done"
      OBVIOUS
    <2> QED BY <1>2, <2>1, WorkerApart, WorkScheduleStep
  <1>3. ASSUME NEW s \in Callers, ScheduleStep(s, "schedule", "user"), UNCHANGED work
        PROVE  AtWork'
    <2>1. PICK from, to : from = "schedule" /\ to = "user"
      OBVIOUS
    <2> QED BY <1>3, <2>1, WorkerApart, WorkScheduleStep
  <1> QED BY <1>1, <1>2, <1>3, LookAtList, SuspendWorker, TakeWork, DoWork, WorkDone,
             HandInStep, CancelStep, WakeGoesOn, WakeInsert, CancelAll, WorkTick, WorkTimeout
             DEF WorkQueueNext
-----------------------------------------------------------------------------
(* Events                                                                  *)

\* Whoever waits for the event has asked for some bits and is not content with
\* those that are set.
Unserved(u, set) ==
    \A x \in Threads : Queued(u, subject, x) =>
        event_set[x] # {} /\ ~Satisfied(event_set[x], event_info[x], set)
EventInv == EventType /\ (subject \in Events => Unserved(k, ev_set[subject]))

\* The threads that the loop of rt_event_send has woken so far
Chosen(u, x) == Queued(k, subject, x) /\ ~Queued(u, subject, x)

\* After i turns over list l: nobody of the first i who still waits is content,
\* and what was given away to be cleared was given once.
Scanned(v, l, i) ==
    /\ v.set \in SUBSET Bits /\ v.given \in [Threads -> SUBSET Bits]
    /\ Calm(v.table, pc, object, dying, subject) /\ v.table.error = k.error
    /\ \A x \in Threads : k.stat[x] = "ready" => v.table.stat[x] = "ready"
    /\ \A r \in Queues, x \in Threads : Queued(v.table, r, x) => Queued(k, r, x)
    /\ \A j \in 1 .. Len(l) : j > i => Queued(v.table, subject, l[j])
    /\ \A j \in 1 .. Len(l) : j <= i /\ Queued(v.table, subject, l[j]) =>
          ~Satisfied(event_set[l[j]], event_info[l[j]], v.set)
    /\ \A x \in Threads : ~Chosen(v.table, x) => v.given[x] = event_set[x]
    /\ \A x \in Threads : Chosen(v.table, x) =>
          /\ v.given[x] # {} /\ v.given[x] \subseteq event_set[x]
          /\ "AND" \in event_info[x] => v.given[x] = event_set[x]
          /\ "CLEAR" \in event_info[x] => v.given[x] \cap v.set = {}
    /\ \A x, y \in Threads :
          Chosen(v.table, x) /\ Chosen(v.table, y) /\ "CLEAR" \in event_info[x] \cap event_info[y]
             /\ x # y => v.given[x] \cap v.given[y] = {}

\* With fewer bits nobody becomes content.
LEMMA FewerBits ==
    ASSUME NEW wanted, NEW option, NEW set, NEW less, less \subseteq set,
           Satisfied(wanted, option, less)
    PROVE  Satisfied(wanted, option, set)
  BY DEF Satisfied

\* A suspended thread is resumed, wherever it is on its list.
LEMMA CalmResume ==
    ASSUME NEW u, NEW at, NEW on, NEW gone, NEW o, Calm(u, at, on, gone, o), o \notin gone,
           NEW t \in Threads, u.stat[t] = "suspend", NEW v, v = rt_thread_resume(u, t)
    PROVE  /\ Calm(v, at, on, gone, o) /\ v.error = u.error
           /\ \A q \in Queues : \A x : Contains(v.queue[q], x) <=> Contains(u.queue[q], x) /\ x # t
           /\ \A x \in Threads : v.stat[x] = IF x = t THEN "ready" ELSE u.stat[x]
  <1>1. Waits(u, at, on, o) /\ Runs(u, at) /\ Detaching(u, at, on, gone, o) /\ Settled(u)
    BY DEF Calm, Waits
  <1>2. MadeReady(u, v, t, u.error[t])
    BY <1>1, ResumeSettled
  <1>3. u.error[t] = "RT_EOK"
    BY <1>1 DEF Waits
  <1>4. WokenUp(u, v, at, on, t, u.error[t], o)
    BY <1>1, <1>2, <1>3, WakeWaits
  <1>5. v.error = u.error
    <2>1. u.error \in [Threads -> Errors]
      BY <1>1, SettledType
    <2> QED BY <1>2, <2>1 DEF MadeReady
  <1>6. Detaching(v, at, on, gone, o)
    <2>1. \A x \in Threads : at[x] = "resuming" => at[x] = "resuming"
      OBVIOUS
    <2> QED BY ONLY <1>1, <2>1, o \notin gone, NotDetached
  <1>7. Calm(v, at, on, gone, o)
    BY <1>1, <1>4, <1>6 DEF Calm, WokenUp
  <1> QED BY <1>4, <1>5, <1>7 DEF WokenUp

\* One turn of the loop.
LEMMA NextScan ==
    ASSUME EventType, subject \in Events, subject \in Queues, subject \notin dying,
           \A x \in Threads : Queued(k, subject, x) => event_set[x] # {},
           NEW l \in Seq(Threads), IsInjective(l),
           \A x : Queued(k, subject, x) <=> \E j \in 1 .. Len(l) : l[j] = x,
           NEW i \in 1 .. Len(l), NEW v, Scanned(v, l, i - 1)
    PROVE  Scanned(scan_turn(v, l[i]), l, i)
  <1>1. PICK t \in Threads : t = l[i]
    OBVIOUS
  <1>2. PICK u : u = v.table
    OBVIOUS
  <1>3. PICK g : g = event_set[t] \cap v.set
    OBVIOUS
  <1>4. PICK w : w = scan_turn(v, t)
    OBVIOUS
  <1>5. /\ v.set \in SUBSET Bits /\ v.given \in [Threads -> SUBSET Bits]
        /\ Calm(u, pc, object, dying, subject) /\ u.error = k.error
        /\ \A x \in Threads : k.stat[x] = "ready" => u.stat[x] = "ready"
        /\ \A r \in Queues, x \in Threads : Queued(u, r, x) => Queued(k, r, x)
        /\ \A j \in 1 .. Len(l) : j > i - 1 => Queued(u, subject, l[j])
        /\ \A j \in 1 .. Len(l) : j <= i - 1 /\ Queued(u, subject, l[j]) =>
              ~Satisfied(event_set[l[j]], event_info[l[j]], v.set)
        /\ \A x \in Threads : ~Chosen(u, x) => v.given[x] = event_set[x]
        /\ \A x \in Threads : Chosen(u, x) =>
              /\ v.given[x] # {} /\ v.given[x] \subseteq event_set[x]
              /\ "AND" \in event_info[x] => v.given[x] = event_set[x]
              /\ "CLEAR" \in event_info[x] => v.given[x] \cap v.set = {}
        /\ \A x, y \in Threads :
              Chosen(u, x) /\ Chosen(u, y) /\ "CLEAR" \in event_info[x] \cap event_info[y]
                 /\ x # y => v.given[x] \cap v.given[y] = {}
    BY <1>2 DEF Scanned
  <1>6. /\ i \in Nat /\ i >= 1 /\ i > i - 1
        /\ \A j \in 1 .. Len(l) : (j > i => j > i - 1) /\ (j <= i => j <= i - 1 \/ j = i)
        /\ \A j \in 1 .. Len(l) : j > i => j # i
    OBVIOUS
  <1>7. Queued(u, subject, t) /\ ~Chosen(u, t) /\ event_set[t] # {} /\ Queued(k, subject, t)
    BY <1>1, <1>5, <1>6 DEF Chosen
  <1>8. event_set[t] \in SUBSET Bits
    BY DEF EventType
  <1>9. CASE ~Satisfied(event_set[t], event_info[t], v.set)
    <2>1. w = v
      BY <1>4, <1>9 DEF scan_turn
    <2>2. \A j \in 1 .. Len(l) : j <= i /\ Queued(u, subject, l[j]) =>
             ~Satisfied(event_set[l[j]], event_info[l[j]], v.set)
      BY <1>1, <1>5, <1>6, <1>9
    <2>3. \A j \in 1 .. Len(l) : j > i => Queued(u, subject, l[j])
      BY <1>5, <1>6
    <2>4. Scanned(v, l, i)
      BY <1>2, <1>5, <2>2, <2>3 DEF Scanned
    <2> QED BY <1>1, <1>4, <2>1, <2>4
  <1>10. CASE Satisfied(event_set[t], event_info[t], v.set)
    <2>1. /\ w.table = rt_thread_resume(u, t)
          /\ w.set = IF "CLEAR" \in event_info[t] THEN v.set \ g ELSE v.set
          /\ w.given = [v.given EXCEPT ![t] = g]
      BY <1>2, <1>3, <1>4, <1>10 DEF scan_turn
    <2>2. u.stat[t] = "suspend"
      BY <1>5, <1>7, FirstWaiter DEF Calm, Waits, WaitersListed
    <2>3. PICK x1 : x1 = rt_thread_resume(u, t)
      OBVIOUS
    <2>4. /\ Calm(x1, pc, object, dying, subject) /\ x1.error = u.error
          /\ \A q \in Queues : \A x : Contains(x1.queue[q], x) <=> Contains(u.queue[q], x) /\ x # t
          /\ \A x \in Threads : x1.stat[x] = IF x = t THEN "ready" ELSE u.stat[x]
      <3>1. /\ Calm(u, pc, object, dying, subject) /\ subject \notin dying
            /\ u.stat[t] = "suspend" /\ x1 = rt_thread_resume(u, t)
        BY <1>5, <2>2, <2>3
      <3> QED BY ONLY <3>1, t \in Threads, CalmResume
    <2>5. w.table = x1
      BY <2>1, <2>3
    <2>6. \A x \in Threads : Queued(x1, subject, x) <=> Queued(u, subject, x) /\ x # t
      BY <2>4 DEF Queued
    <2>7. \A x \in Threads : Chosen(x1, x) <=> Chosen(u, x) \/ x = t
      BY <1>7, <2>6 DEF Chosen
    <2>8. /\ w.set \in SUBSET Bits /\ w.set \subseteq v.set /\ w.given \in [Threads -> SUBSET Bits]
          /\ w.given[t] = g /\ \A x \in Threads : x # t => w.given[x] = v.given[x]
      BY <1>3, <1>5, <1>8, <2>1
    <2>9. /\ g # {} /\ g \subseteq event_set[t] /\ ("AND" \in event_info[t] => g = event_set[t])
          /\ "CLEAR" \in event_info[t] => g \cap w.set = {}
      BY <1>3, <1>7, <1>10, <2>1 DEF Satisfied
    <2>10. ASSUME NEW j \in 1 .. Len(l), j > i
           PROVE  Queued(x1, subject, l[j])
      <3>1. l[j] # t /\ l[j] \in Threads
        <4>1. j # i /\ i \in DOMAIN l /\ j \in DOMAIN l
          BY <1>6, <2>10
        <4>2. l[j] # l[i]
          BY ONLY <4>1, IsInjective(l) DEF IsInjective
        <4> QED BY <1>1, <4>2
      <3> QED BY <1>5, <1>6, <2>6, <2>10, <3>1
    <2>11. ASSUME NEW j \in 1 .. Len(l), j <= i, Queued(x1, subject, l[j])
           PROVE  ~Satisfied(event_set[l[j]], event_info[l[j]], w.set)
      <3>1. l[j] \in Threads
        OBVIOUS
      <3>2. Queued(u, subject, l[j]) /\ l[j] # t
        BY <2>6, <2>11, <3>1
      <3>3. j <= i - 1
        BY <1>1, <1>6, <2>11, <3>2
      <3>4. ~Satisfied(event_set[l[j]], event_info[l[j]], v.set)
        BY <1>5, <3>2, <3>3
      <3> QED BY <2>8, <3>4, FewerBits
    <2>12. \A x \in Threads : ~Chosen(x1, x) => w.given[x] = event_set[x]
      BY <1>5, <2>7, <2>8
    <2>13. ASSUME NEW x \in Threads, Chosen(x1, x)
           PROVE  /\ w.given[x] # {} /\ w.given[x] \subseteq event_set[x]
                  /\ "AND" \in event_info[x] => w.given[x] = event_set[x]
                  /\ "CLEAR" \in event_info[x] => w.given[x] \cap w.set = {}
      <3>1. CASE x = t
        BY <2>8, <2>9, <3>1
      <3>2. CASE x # t
        <4>1. w.given[x] = v.given[x] /\ Chosen(u, x) /\ w.set \subseteq v.set
          BY <2>7, <2>8, <2>13, <3>2
        <4> QED BY <1>5, <4>1
      <3> QED BY <3>1, <3>2
    <2>14. ASSUME NEW x \in Threads, NEW y \in Threads, Chosen(x1, x), Chosen(x1, y),
                  "CLEAR" \in event_info[x] \cap event_info[y], x # y
           PROVE  w.given[x] \cap w.given[y] = {}
      <3>1. CASE x = t
        <4>1. w.given[x] = g /\ w.given[y] = v.given[y] /\ Chosen(u, y)
          BY <2>7, <2>8, <2>14, <3>1
        <4>2. v.given[y] \cap v.set = {} /\ g \subseteq v.set
          BY <1>3, <1>5, <2>14, <4>1
        <4> QED BY <4>1, <4>2
      <3>2. CASE y = t
        <4>1. w.given[y] = g /\ w.given[x] = v.given[x] /\ Chosen(u, x)
          BY <2>7, <2>8, <2>14, <3>2
        <4>2. v.given[x] \cap v.set = {} /\ g \subseteq v.set
          BY <1>3, <1>5, <2>14, <4>1
        <4> QED BY <4>1, <4>2
      <3>3. CASE x # t /\ y # t
        BY <1>5, <2>7, <2>8, <2>14, <3>3
      <3> QED BY <3>1, <3>2, <3>3
    <2>15. /\ \A r \in Queues, x \in Threads : Queued(x1, r, x) => Queued(k, r, x)
           /\ \A x \in Threads : k.stat[x] = "ready" => x1.stat[x] = "ready"
           /\ x1.error = k.error
      BY <1>5, <2>4 DEF Queued
    <2>16. Scanned(w, l, i)
      BY <2>4, <2>5, <2>8, <2>10, <2>11, <2>12, <2>13, <2>14, <2>15 DEF Scanned
    <2> QED BY <1>1, <1>4, <2>16
  <1> QED BY <1>9, <1>10
\* r[i] is what the loop of rt_event_send has after i turns over list l.
Scans(r, u, set, l, n) ==
    r = [i \in 0 .. n |-> IF i = 0 THEN [table |-> u, set |-> set, given |-> event_set]
                          ELSE scan_turn(r[i - 1], l[i])]

LEMMA ScansExist ==
    ASSUME NEW u, NEW set, NEW l, NEW n \in Nat
    PROVE  \E r : Scans(r, u, set, l, n)
  <1> DEFINE first == [table |-> u, set |-> set, given |-> event_set]
             P(m) == \E r : Scans(r, u, set, l, m)
  <1>1. P(0)
    <2> DEFINE r == [i \in 0 .. 0 |-> first]
    <2>1. Scans(r, u, set, l, 0)
      BY DEF Scans
    <2> QED BY <2>1
  <1>2. ASSUME NEW m \in Nat, P(m) PROVE P(m + 1)
    <2>1. PICK r : Scans(r, u, set, l, m)
      BY <1>2
    <2> DEFINE g == [i \in 0 .. m + 1 |-> IF i = m + 1 THEN scan_turn(r[m], l[m + 1]) ELSE r[i]]
    <2>2. \A i \in 0 .. m : g[i] = r[i]
      OBVIOUS
    <2>3. g[m + 1] = scan_turn(g[m], l[m + 1])
      OBVIOUS
    <2>4. \A i \in 0 .. m : r[i] = IF i = 0 THEN first ELSE scan_turn(r[i - 1], l[i])
      BY <2>1 DEF Scans
    <2>5. g = [i \in 0 .. m + 1 |-> g[i]]
      OBVIOUS
    <2> HIDE DEF g, first
    <2>6. ASSUME NEW i \in 0 .. m + 1 PROVE g[i] = IF i = 0 THEN first ELSE scan_turn(g[i - 1], l[i])
      <3>1. CASE i = m + 1
        BY <3>1, <2>3
      <3>2. CASE i \in 0 .. m /\ i # 0
        <4>1. i - 1 \in 0 .. m
          BY <3>2
        <4> QED BY <4>1, <3>2, <2>2, <2>4
      <3>3. CASE i = 0
        BY <3>3, <2>2, <2>4
      <3> QED BY <3>1, <3>2, <3>3
    <2>7. Scans(g, u, set, l, m + 1)
      BY <2>5, <2>6 DEF Scans, first
    <2> QED BY <2>7
  <1> HIDE DEF P
  <1>3. P(n)
    <2> DEFINE B == {m \in Nat : ~P(m)}
    <2> SUFFICES ASSUME B # {} PROVE FALSE
      OBVIOUS
    <2>1. PICK m \in B : \A q \in B : m <= q
      BY LeastElement
    <2>2. m # 0
      BY <1>1
    <2>3. m - 1 \in Nat /\ ~(m <= m - 1) /\ m = (m - 1) + 1
      BY <2>2
    <2>4. P(m - 1)
      BY <2>1, <2>3
    <2> QED BY <2>3, <2>4, <1>2
  <1> QED BY <1>3 DEF P

\* scan is what the loop has after the last turn.
LEMMA ScanTurns ==
    ASSUME NEW u, NEW e, NEW set, u.queue[e] \in Seq(Threads)
    PROVE  \E r : /\ Scans(r, u, set, u.queue[e], Len(u.queue[e]))
                  /\ scan(u, e, set) = r[Len(u.queue[e])]
  <1> DEFINE l == u.queue[e]
             scanned[i \in 0 .. Len(l)] ==
                 IF i = 0 THEN [table |-> u, set |-> set, given |-> event_set]
                 ELSE scan_turn(scanned[i - 1], l[i])
  <1>1. Len(l) \in Nat
    OBVIOUS
  <1>2. scan(u, e, set) = scanned[Len(l)]
    BY DEF scan
  <1>3. scanned = CHOOSE r : r = [i \in 0 .. Len(l) |->
                                     IF i = 0 THEN [table |-> u, set |-> set, given |-> event_set]
                                     ELSE scan_turn(r[i - 1], l[i])]
    OBVIOUS
  <1>4. \E r : r = [i \in 0 .. Len(l) |->
                       IF i = 0 THEN [table |-> u, set |-> set, given |-> event_set]
                       ELSE scan_turn(r[i - 1], l[i])]
    <2> HIDE DEF scanned
    <2>1. \E r : Scans(r, u, set, l, Len(l))
      BY <1>1, ScansExist
    <2> QED BY <2>1 DEF Scans
  <1>5. Scans(scanned, u, set, l, Len(l))
    <2> HIDE DEF scanned
    <2> QED BY <1>3, <1>4 DEF Scans
  <1> QED BY <1>2, <1>5

\* The whole loop.
LEMMA ScanEffect ==
    ASSUME Now, EventInv, subject \in Events, subject \in Queues, subject \notin dying,
           NEW set \in SUBSET Bits
    PROVE  Scanned(scan(k, subject, set), k.queue[subject], Len(k.queue[subject]))
  <1>1. PICK l : l = k.queue[subject]
    OBVIOUS
  <1>2. PICK n : n = Len(l)
    OBVIOUS
  <1>3. l \in Seq(Threads) /\ IsInjective(l) /\ n \in Nat
    <2>1. Settled(k)
      BY DEF Now, Calm, Waits
    <2> QED BY <1>1, <1>2, <2>1, SettledType
  <1>4. PICK r : Scans(r, k, set, l, n) /\ scan(k, subject, set) = r[n]
    BY <1>1, <1>2, <1>3, ScanTurns
  <1>5. \A i \in 0 .. n : r[i] = IF i = 0 THEN [table |-> k, set |-> set, given |-> event_set]
                                 ELSE scan_turn(r[i - 1], l[i])
    BY <1>4 DEF Scans
  <1>6. /\ EventType
        /\ \A x \in Threads : Queued(k, subject, x) => event_set[x] # {}
        /\ \A x : Queued(k, subject, x) <=> \E j \in 1 .. Len(l) : l[j] = x
    BY <1>1 DEF EventInv, Unserved, Queued, Contains
  <1>7. Scanned(r[0], l, 0)
    <2>1. r[0].table = k /\ r[0].set = set /\ r[0].given = event_set
      BY <1>3, <1>5
    <2>2. \A x \in Threads : ~Chosen(r[0].table, x)
      BY <2>1 DEF Chosen
    <2>3. \A j \in 1 .. Len(l) : ~(j <= 0) /\ Queued(k, subject, l[j])
      BY <1>3, <1>6
    <2>4. set \in SUBSET Bits /\ event_set \in [Threads -> SUBSET Bits]
      BY <1>6 DEF EventType
    <2> QED BY <2>1, <2>2, <2>3, <2>4 DEF Scanned, Now
  <1>8. ASSUME NEW i \in 1 .. n, Scanned(r[i - 1], l, i - 1)
        PROVE  Scanned(r[i], l, i)
    <2>1. r[i] = scan_turn(r[i - 1], l[i])
      BY <1>3, <1>5
    <2>2. PICK v : v = r[i - 1]
      OBVIOUS
    <2>3. i \in 1 .. Len(l) /\ Scanned(v, l, i - 1)
      BY <1>2, <1>8, <2>2
    <2>4. Scanned(scan_turn(v, l[i]), l, i)
      BY <1>3, <1>6, <2>3, NextScan
    <2> QED BY <2>1, <2>2, <2>4
  <1>9. Scanned(r[n], l, n)
    <2> DEFINE B == {i \in 0 .. n : ~Scanned(r[i], l, i)}
    <2> SUFFICES ASSUME B # {} PROVE FALSE
      BY <1>3
    <2>1. B \in SUBSET Nat
      OBVIOUS
    <2>2. PICK m \in B : \A i \in B : m <= i
      <3> HIDE DEF B
      <3> QED BY <2>1, LeastElement
    <2>3. m \in 1 .. n
      BY <1>3, <1>7
    <2>4. m - 1 \in 0 .. n /\ ~(m <= m - 1)
      BY <1>3, <2>3
    <2>5. Scanned(r[m - 1], l, m - 1)
      BY <2>2, <2>4
    <2> QED BY <1>8, <2>3, <2>5
  <1> QED BY <1>1, <1>2, <1>4, <1>9

\* What a send leaves: nobody overlooked, and nothing given twice.
LEMMA SentEvent ==
    ASSUME Now, EventInv, subject \in Events, subject \in Queues, subject \notin dying,
           \A e \in Events : e # subject => k.queue[e] = << >>,
           NEW set \in SUBSET Bits, event_send(subject, set), UNCHANGED subject,
           NEW v, v = scan(k, subject, ev_set[subject] \cup set).table,
           k'.queue = v.queue, k'.error = v.error
    PROVE  EventInv' /\ BitsGivenOnce
  <1>1. PICK r : r = scan(k, subject, ev_set[subject] \cup set)
    OBVIOUS
  <1>2. PICK l : l = k.queue[subject]
    OBVIOUS
  <1>3. ev_set[subject] \cup set \in SUBSET Bits /\ EventType
    BY DEF EventInv, EventType
  <1>4. Scanned(r, l, Len(l)) /\ r.table = v
    BY <1>1, <1>2, <1>3, ScanEffect
  <1>5. ev_set' = [ev_set EXCEPT ![subject] = r.set] /\ event_set' = r.given /\ event_info' = event_info
    BY <1>1 DEF event_send
  <1>6. /\ r.set \in SUBSET Bits /\ r.given \in [Threads -> SUBSET Bits]
        /\ \A x \in Threads : Queued(v, subject, x) => Queued(k, subject, x)
        /\ \A j \in 1 .. Len(l) : j <= Len(l) /\ Queued(v, subject, l[j]) =>
              ~Satisfied(event_set[l[j]], event_info[l[j]], r.set)
        /\ \A x \in Threads : ~Chosen(v, x) => r.given[x] = event_set[x]
        /\ \A x \in Threads : Chosen(v, x) =>
              /\ r.given[x] # {} /\ r.given[x] \subseteq event_set[x]
              /\ "AND" \in event_info[x] => r.given[x] = event_set[x]
              /\ "CLEAR" \in event_info[x] => r.given[x] \cap r.set = {}
        /\ \A x, y \in Threads :
              Chosen(v, x) /\ Chosen(v, y) /\ "CLEAR" \in event_info[x] \cap event_info[y]
                 /\ x # y => r.given[x] \cap r.given[y] = {}
    <2>1. /\ r.set \in SUBSET Bits /\ r.given \in [Threads -> SUBSET Bits]
          /\ \A q \in Queues, x \in Threads : Queued(v, q, x) => Queued(k, q, x)
      BY <1>4 DEF Scanned
    <2>2. \A j \in 1 .. Len(l) : j <= Len(l) /\ Queued(v, subject, l[j]) =>
             ~Satisfied(event_set[l[j]], event_info[l[j]], r.set)
      BY <1>4 DEF Scanned
    <2>3. /\ \A x \in Threads : ~Chosen(v, x) => r.given[x] = event_set[x]
          /\ \A x \in Threads : Chosen(v, x) =>
                /\ r.given[x] # {} /\ r.given[x] \subseteq event_set[x]
                /\ "AND" \in event_info[x] => r.given[x] = event_set[x]
                /\ "CLEAR" \in event_info[x] => r.given[x] \cap r.set = {}
      <3>1. /\ \A x \in Threads : ~Chosen(r.table, x) => r.given[x] = event_set[x]
            /\ \A x \in Threads : Chosen(r.table, x) =>
                  /\ r.given[x] # {} /\ r.given[x] \subseteq event_set[x]
                  /\ "AND" \in event_info[x] => r.given[x] = event_set[x]
                  /\ "CLEAR" \in event_info[x] => r.given[x] \cap r.set = {}
        BY ONLY <1>4 DEF Scanned
      <3> QED BY ONLY <1>4, <3>1
    <2>4. \A x, y \in Threads :
             Chosen(v, x) /\ Chosen(v, y) /\ "CLEAR" \in event_info[x] \cap event_info[y]
                /\ x # y => r.given[x] \cap r.given[y] = {}
      <3>1. \A x, y \in Threads :
               Chosen(r.table, x) /\ Chosen(r.table, y)
                  /\ "CLEAR" \in event_info[x] \cap event_info[y]
                  /\ x # y => r.given[x] \cap r.given[y] = {}
        BY ONLY <1>4 DEF Scanned
      <3> QED BY ONLY <1>4, <3>1
    <2> QED BY <2>1, <2>2, <2>3, <2>4
  <1>7. EventType' /\ ev_set'[subject] = r.set
    BY <1>3, <1>5, <1>6 DEF EventType
  <1>8. \A x \in Threads : Queued(k', subject, x) <=> Queued(v, subject, x)
    BY DEF Queued
  <1>9. l \in Seq(Threads) /\ \A x : Queued(k, subject, x) <=> \E j \in 1 .. Len(l) : l[j] = x
    <2>1. Settled(k)
      BY DEF Now, Calm, Waits
    <2> QED BY <1>2, <2>1, SettledType DEF Queued, Contains
  <1>10. ASSUME NEW x \in Threads, Queued(k', subject, x)
         PROVE  event_set'[x] # {} /\ ~Satisfied(event_set'[x], event_info'[x], ev_set'[subject])
    <2>1. Queued(v, subject, x) /\ Queued(k, subject, x) /\ ~Chosen(v, x)
      BY <1>6, <1>8, <1>10 DEF Chosen
    <2>2. event_set'[x] = event_set[x] /\ event_set[x] # {}
      BY <1>5, <1>6, <2>1 DEF EventInv, Unserved
    <2>3. PICK j \in 1 .. Len(l) : l[j] = x
      BY <1>9, <2>1
    <2>4. j <= Len(l)
      BY <1>9
    <2>5. ~Satisfied(event_set[x], event_info[x], r.set)
      BY <1>6, <2>1, <2>3, <2>4
    <2> QED BY <1>5, <1>7, <2>2, <2>5
  <1>11. Unserved(k, ev_set[subject])'
    BY <1>10 DEF Unserved
  <1>12. ASSUME NEW e \in Events, NEW t \in Woken(e)
         PROVE  e = subject /\ t \in Threads /\ Chosen(v, t) /\ "CLEAR" \in event_info[t]
    <2>1. /\ t \in Threads /\ Contains(k.queue[e], t) /\ ~Contains(k'.queue[e], t)
          /\ "CLEAR" \in event_info[t]
      BY <1>12 DEF Woken
    <2>2. e = subject
      BY <2>1 DEF Contains
    <2> QED BY <2>1, <2>2 DEF Chosen, Queued
  <1>13. BitsGivenOnce
    <2>1. SUFFICES ASSUME NEW e \in Events, NEW t \in Woken(e)
                   PROVE  /\ event_set'[t] # {} /\ event_set'[t] \subseteq event_set[t]
                          /\ "AND" \in event_info[t] => event_set'[t] = event_set[t]
                          /\ event_set'[t] \cap ev_set'[e] = {}
                          /\ \A u \in Woken(e) \ {t} : event_set'[t] \cap event_set'[u] = {}
      BY DEF BitsGivenOnce
    <2>2. e = subject /\ t \in Threads /\ Chosen(v, t) /\ "CLEAR" \in event_info[t]
      BY <1>12
    <2>3. /\ r.given[t] # {} /\ r.given[t] \subseteq event_set[t]
          /\ "AND" \in event_info[t] => r.given[t] = event_set[t]
          /\ r.given[t] \cap r.set = {}
      BY <1>6, <2>2
    <2>4. ASSUME NEW u \in Woken(e) \ {t}
          PROVE  r.given[t] \cap r.given[u] = {}
      <3>1. u \in Threads /\ Chosen(v, u) /\ "CLEAR" \in event_info[u] /\ u # t
        BY <1>12
      <3> QED BY <1>6, <2>2, <3>1
    <2> QED BY <1>5, <1>7, <2>2, <2>3, <2>4
  <1> QED BY <1>7, <1>11, <1>13 DEF EventInv
\* rt_event_send by a thread.
LEMMA EventSendStep ==
    ASSUME Now, EventInv, subject \in Events, NEW s \in Threads, NEW e \in Events,
           NEW set \in SUBSET Bits, rt_event_send(s, e, set), UNCHANGED subject
    PROVE  Now' /\ EventInv' /\ BitsGivenOnce
  <1>1. PICK u : u = scan(k, e, ev_set[e] \cup set).table
    OBVIOUS
  <1>2. /\ Running(s, "user") /\ Usable(e) /\ event_send(e, set) /\ k' = u
        /\ Goto(s, "schedule") \/ pc' = pc
        /\ UNCHANGED <<object, dying, subject>>
    BY <1>1 DEF rt_event_send
  <1>3. /\ e = subject /\ subject \in Queues /\ subject \notin dying
        /\ \A q \in Events : q # subject => k.queue[q] = << >>
    BY <1>2, SingleAlone, EventAssumption DEF Singles
  <1>4. EventInv' /\ BitsGivenOnce
    BY <1>1, <1>2, <1>3, SentEvent
  <1>5. /\ s # Idle /\ pc[s] = "user" /\ k.stat[s] = "ready"
        /\ pc \in [Threads -> Points] /\ object \in [Threads -> Queues]
    BY <1>2, RunningReady
  <1>6. Calm(u, pc, object, dying, subject) /\ u.stat[s] = "ready"
    <2>1. PICK r : r = scan(k, subject, ev_set[subject] \cup set)
      OBVIOUS
    <2>2. ev_set[subject] \cup set \in SUBSET Bits
      BY DEF EventInv, EventType
    <2>3. Scanned(r, k.queue[subject], Len(k.queue[subject])) /\ u = r.table
      BY <1>1, <1>3, <2>1, <2>2, ScanEffect
    <2> QED BY <1>5, <2>3 DEF Scanned
  <1>7. CASE pc' = pc
    BY <1>2, <1>4, <1>6, <1>7 DEF Now
  <1>8. CASE Goto(s, "schedule")
    <2>1. /\ pc' \in [Threads -> Points] /\ pc'[s] = "schedule"
          /\ \A x \in Threads : x # s => pc'[x] = pc[x] /\ object[x] = object[x]
      BY <1>5, <1>8 DEF Goto, Points
    <2>2. /\ pc'[s] \notin WaitPoints \cup {"resuming", "dq_reset"} /\ ~(pc'[s] \notin Outside)
          /\ pc[s] # "resuming" /\ s # Idle
      BY <1>5, <2>1 DEF WaitPoints, Outside
    <2>3. HasGone(u, pc, object, pc', object, dying, s, subject)
      BY ONLY <1>5, <1>6, <2>1, <2>2, s \in Threads, CalmGo
    <2>4. Calm(u, pc', object, dying, subject)
      BY <2>3 DEF HasGone
    <2> QED BY <1>2, <1>4, <2>4 DEF Now
  <1> QED BY <1>2, <1>7, <1>8

\* rt_event_send by a handler.
LEMMA IsrEventStep ==
    ASSUME Now, EventInv, subject \in Events, NEW e \in Events,
           NEW set \in SUBSET Bits, isr_event_send(e, set), UNCHANGED subject
    PROVE  Now' /\ EventInv' /\ BitsGivenOnce
  <1>1. PICK u : u = scan(k, e, ev_set[e] \cup set).table
    OBVIOUS
  <1>2. /\ Usable(e) /\ event_send(e, set)
        /\ k' = rt_schedule(u) \/ k' = u
        /\ UNCHANGED <<pc, object, dying, subject>>
    BY <1>1 DEF isr_event_send
  <1>3. /\ e = subject /\ subject \in Queues /\ subject \notin dying
        /\ \A q \in Events : q # subject => k.queue[q] = << >>
    BY <1>2, SingleAlone, EventAssumption DEF Singles
  <1>4. Calm(u, pc, object, dying, subject)
    <2>1. PICK r : r = scan(k, subject, ev_set[subject] \cup set)
      OBVIOUS
    <2>2. ev_set[subject] \cup set \in SUBSET Bits
      BY DEF EventInv, EventType
    <2>3. Scanned(r, k.queue[subject], Len(k.queue[subject])) /\ u = r.table
      BY <1>1, <1>3, <2>1, <2>2, ScanEffect
    <2> QED BY <2>3 DEF Scanned
  <1>5. Calm(k', pc, object, dying, subject) /\ k'.queue = u.queue /\ k'.error = u.error
    <2>1. CASE k' = u
      BY <1>4, <2>1
    <2>2. CASE k' = rt_schedule(u)
      <3>1. PICK v : v = rt_schedule(u)
        OBVIOUS
      <3>2. HasSwitched(u, v, pc, object, pc, object, dying, subject)
        <4>1. /\ Waits(u, pc, object, subject) /\ Detaching(u, pc, object, dying, subject)
              /\ \A t \in Threads : pc[t] # "dq_reset"
              /\ pc \in [Threads -> Points]
          BY <1>4 DEF Calm, Waits
        <4>2. \A x \in Threads : pc[x] = pc[x] \/ (pc[x] = "blocked" /\ pc[x] = "woken")
                                               \/ (pc[x] = "schedule" /\ pc[x] = "user")
          OBVIOUS
        <4> QED BY ONLY <3>1, <4>1, <4>2, CalmSwitch
      <3> QED BY <2>2, <3>1, <3>2 DEF HasSwitched
    <2> QED BY <1>2, <2>1, <2>2
  <1>6. EventInv' /\ BitsGivenOnce
    BY <1>1, <1>2, <1>3, <1>5, SentEvent
  <1> QED BY <1>2, <1>5, <1>6 DEF Now

\* Nobody is woken but with an error: no bits are given.
LEMMA NothingGiven ==
    ASSUME subject \in Events, Now, subject \in Queues,
           \A x \in Threads : Contains(k.queue[subject], x) /\ ~Contains(k'.queue[subject], x)
              => k'.error[x] # "RT_EOK"
    PROVE  BitsGivenOnce
  <1>1. ASSUME NEW e \in Events
        PROVE  Woken(e) = {}
    <2>1. e # subject => k.queue[e] = << >>
      BY SingleAlone, EventAssumption DEF Singles
    <2> QED BY <2>1 DEF Woken, Contains
  <1> QED BY <1>1 DEF BitsGivenOnce

\* The list has lost threads at most, and no bit has come.
LEMMA NobodyJoined ==
    ASSUME EventInv, subject \in Events, UNCHANGED subject, EventType',
           ev_set'[subject] \subseteq ev_set[subject],
           \A x \in Threads : Contains(k'.queue[subject], x) =>
              Contains(k.queue[subject], x) /\ event_set'[x] = event_set[x] /\ event_info'[x] = event_info[x]
    PROVE  EventInv'
  <1>1. ASSUME NEW x \in Threads, Queued(k', subject, x)
        PROVE  event_set'[x] # {} /\ ~Satisfied(event_set'[x], event_info'[x], ev_set'[subject])
    <2>1. /\ Queued(k, subject, x) /\ event_set'[x] = event_set[x] /\ event_info'[x] = event_info[x]
      BY <1>1 DEF Queued
    <2>2. event_set[x] # {} /\ ~Satisfied(event_set[x], event_info[x], ev_set[subject])
      BY <2>1 DEF EventInv, Unserved
    <2> QED BY <2>1, <2>2, FewerBits
  <1>2. Unserved(k, ev_set[subject])'
    BY <1>1 DEF Unserved
  <1> QED BY <1>2 DEF EventInv
\* rt_event_recv when the bits are there, and when they are not.
LEMMA RecvEventStep ==
    ASSUME Now, EventInv, subject \in Events, NEW s \in Threads, NEW e \in Events,
           NEW r \in Requests[e], recv_event(s, e, r), Running(s, "user"), Usable(e),
           UNCHANGED <<dying, subject>>
    PROVE  Now' /\ EventInv' /\ BitsGivenOnce
  <1>1. /\ ev_set' = [ev_set EXCEPT ![e] = IF "CLEAR" \in r.option THEN ev_set[e] \ r.set ELSE ev_set[e]]
        /\ UNCHANGED <<k, pc, object, event_set, event_info>>
    BY DEF recv_event
  <1>2. e = subject /\ subject \in Queues
    BY SingleAlone, EventAssumption DEF Singles
  <1>3. EventType' /\ ev_set'[subject] \subseteq ev_set[subject]
    BY <1>1, <1>2 DEF EventInv, EventType
  <1>4. EventInv'
    BY <1>1, <1>3, NobodyJoined
  <1>5. BitsGivenOnce
    BY <1>1, <1>2, NothingGiven
  <1> QED BY <1>1, <1>4, <1>5 DEF Now

LEMMA WaitEventStep ==
    ASSUME Now, EventInv, subject \in Events, NEW s \in Threads, NEW e \in Events,
           NEW r \in Requests[e], wait_event(s, e, r), Running(s, "user"), Usable(e),
           UNCHANGED <<dying, subject>>
    PROVE  Now' /\ EventInv' /\ BitsGivenOnce
  <1>1. /\ ~Satisfied(r.set, r.option, ev_set[e]) /\ ev_set' = ev_set
        /\ event_set' = [event_set EXCEPT ![s] = r.set]
        /\ event_info' = [event_info EXCEPT ![s] = r.option]
        /\ WaitOn(s, e, ev_flag[e], e \notin Deletable)
    BY DEF wait_event
  <1>2. /\ e = subject /\ subject \in Queues /\ subject \notin dying /\ subject \in Scope(subject)
        /\ (Untimed(subject) <=> subject \in Deletable)
    BY SingleAlone, EventAssumption DEF Singles
  <1>3. /\ k.current = s /\ s # Idle /\ pc[s] = "user" /\ k.stat[s] = "ready"
        /\ Waits(k, pc, object, subject)
    BY RunningReady
  <1>4. PICK f : f = ev_flag[e]
    OBVIOUS
  <1>5. PICK timed \in BOOLEAN : timed = (e \notin Deletable)
    OBVIOUS
  <1>6. Parked(s, subject)
    <2>1. WaitOn(s, subject, f, timed) /\ (timed => ~Untimed(subject)) /\ pc[s] # "resuming"
      BY <1>1, <1>2, <1>3, <1>4, <1>5
    <2> QED BY <1>2, <1>3, <2>1, WaitOnStep
  <1>7. r.set \in (SUBSET Bits) \ {{}} /\ r.option \in Options
    BY EventAssumption
  <1>8. EventType' /\ event_set'[s] = r.set /\ event_info'[s] = r.option
        /\ \A x \in Threads : x # s => event_set'[x] = event_set[x] /\ event_info'[x] = event_info[x]
    BY <1>1, <1>7 DEF EventInv, EventType
  <1>9. ASSUME NEW x \in Threads, Queued(k', subject, x)
        PROVE  event_set'[x] # {} /\ ~Satisfied(event_set'[x], event_info'[x], ev_set'[subject])
    <2>1. CASE x = s
      <3>1. ev_set'[subject] = ev_set[e] /\ ~Satisfied(r.set, r.option, ev_set[e]) /\ r.set # {}
        <4>1. r.set # {}
          BY ONLY <1>7
        <4>2. ev_set'[subject] = ev_set[e]
          BY ONLY <1>1, <1>2
        <4> QED BY <4>1, <4>2, <1>1
      <3>2. event_set'[x] = r.set /\ event_info'[x] = r.option
        BY <1>8, <2>1
      <3> QED BY ONLY <3>1, <3>2
    <2>2. CASE x # s
      <3>1. Queued(k, subject, x)
        BY <1>2, <1>6, <1>9, <2>2 DEF Parked, Queued
      <3> QED BY <1>1, <1>8, <2>2, <3>1 DEF EventInv, Unserved
    <2> QED BY <2>1, <2>2
  <1>10. Unserved(k, ev_set[subject])'
    BY <1>9 DEF Unserved
  <1>11. BitsGivenOnce
    <2>1. ~Contains(k.queue[subject], s)
      BY <1>2, <1>3 DEF Waits, Settled, Queued
    <2> QED BY <1>2, <1>6, <2>1, NothingGiven DEF Parked
  <1> QED BY <1>6, <1>8, <1>10, <1>11 DEF EventInv, Parked

\* A receiver returns.
LEMMA EventReturnStep ==
    ASSUME Now, EventInv, subject \in Events, NEW s \in Threads, NEW e,
           recv_return(s, e), UNCHANGED subject
    PROVE  Now' /\ EventInv' /\ BitsGivenOnce
  <1>1. /\ Running(s, "woken") /\ LeaveCall(s)
        /\ event_set' = [event_set EXCEPT ![s] = {}] /\ event_info' = [event_info EXCEPT ![s] = {}]
        /\ UNCHANGED <<k, dying, ev_set>>
    BY DEF recv_return
  <1>2. subject \in Queues
    BY SingleAlone DEF Singles
  <1>3. Now'
    BY <1>1, QuitStep DEF Gone
  <1>4. ~Contains(k.queue[subject], s)
    BY <1>1, <1>2, RunningReady DEF Waits, Settled, Queued
  <1>5. EventType' /\ \A x \in Threads : x # s => event_set'[x] = event_set[x] /\ event_info'[x] = event_info[x]
    BY <1>1 DEF EventInv, EventType
  <1>6. EventInv'
    BY <1>1, <1>4, <1>5, NobodyJoined
  <1>7. BitsGivenOnce
    BY <1>1, <1>2, NothingGiven
  <1> QED BY <1>3, <1>6, <1>7

\* The waiters are turned away, at once or one by one.
LEMMA ResetEventStep ==
    ASSUME Now, EventInv, subject \in Events, NEW s \in Threads, NEW e \in Events,
           rt_event_control(s, e), UNCHANGED subject
    PROVE  Now' /\ EventInv' /\ BitsGivenOnce
  <1>1. /\ Running(s, "user") /\ Usable(e) /\ k' = resume_all(k, e)
        /\ ev_set' = [ev_set EXCEPT ![e] = {}] /\ Goto(s, "schedule")
        /\ UNCHANGED <<object, dying, event_set, event_info>>
    BY DEF rt_event_control
  <1>2. e = subject /\ subject \in Queues /\ subject \notin dying /\ subject \notin Pipes
    BY <1>1, SingleAlone, EventAssumption DEF Singles
  <1>3. Emptied(subject)
    BY <1>1, <1>2, ResetStep
  <1>4. k'.queue[subject] = << >> /\ Now' /\
        \A x \in Threads : Contains(k.queue[subject], x) => k'.error[x] = "RT_ERROR"
    BY <1>3 DEF Emptied
  <1>5. EventType' /\ ev_set'[subject] \subseteq ev_set[subject]
    BY <1>1, <1>2 DEF EventInv, EventType
  <1>6. \A x : ~Contains(k'.queue[subject], x)
    BY <1>4 DEF Contains
  <1>7. EventInv'
    BY <1>5, <1>6, NobodyJoined
  <1>8. BitsGivenOnce
    BY <1>2, <1>4, NothingGiven
  <1> QED BY <1>4, <1>7, <1>8

LEMMA DetachEventStep ==
    ASSUME Now, EventInv, subject \in Events, NEW s \in Threads,
           (\E e \in Events : rt_event_detach(s, e)) \/ event_detach_one(s), UNCHANGED subject
    PROVE  Now' /\ EventInv' /\ BitsGivenOnce
  <1>1. subject \in Queues /\ subject \in Singles /\ subject \notin Pools
    BY SingleAlone, KindsApart DEF Singles
  <1>2. UNCHANGED event
    BY DEF rt_event_detach, event_detach_one
  <1>3. EventType' /\ ev_set' = ev_set /\ event_set' = event_set /\ event_info' = event_info
    BY <1>2 DEF EventInv, EventType, event
  <1>4. CASE event_detach_one(s)
    <2>1. OneLess(subject)
      BY <1>1, <1>4, SingleResumeOne DEF event_detach_one
    <2>2. /\ Now' /\ k'.error[Head(k.queue[subject])] = "RT_ERROR"
          /\ \A x : Contains(k'.queue[subject], x) <=>
                Contains(k.queue[subject], x) /\ x # Head(k.queue[subject])
      BY <1>1, <2>1 DEF OneLess, Detached
    <2>3. EventInv'
      BY <1>3, <2>2, NobodyJoined
    <2>4. BitsGivenOnce
      BY <1>1, <2>2, NothingGiven
    <2> QED BY <2>2, <2>3, <2>4
  <1>5. CASE \E e \in Events : rt_event_detach(s, e)
    <2>1. PICK e \in Events : OnlyWaiters({e}) /\ detach(s, e)
      BY <1>5 DEF rt_event_detach
    <2>2. Detached /\ k' = k
      BY <1>1, <2>1, SingleDetach, EventAssumption
    <2>3. EventInv'
      BY <1>3, <2>2, NobodyJoined
    <2>4. BitsGivenOnce
      BY <1>1, <2>2, NothingGiven
    <2> QED BY <2>2, <2>3, <2>4 DEF Detached
  <1> QED BY <1>4, <1>5

\* Every step of an event.
LEMMA EventStep ==
    ASSUME Now, EventInv, subject \in Events, EventNext, UNCHANGED subject
    PROVE  Now' /\ EventInv' /\ BitsGivenOnce
  <1>1. ASSUME Background, UNCHANGED event
        PROVE  Now' /\ EventInv' /\ BitsGivenOnce
    <2>1. Idled
      BY <1>1, BackgroundStep
    <2>2. subject \in Queues
      BY SingleAlone DEF Singles
    <2>3. /\ Now'
          /\ \A x : Contains(k'.queue[subject], x) => Contains(k.queue[subject], x)
          /\ \A x \in Threads :
                Contains(k.queue[subject], x) /\ ~Contains(k'.queue[subject], x) => k'.error[x] # "RT_EOK"
      BY <2>1, <2>2 DEF Idled
    <2>4. EventType' /\ ev_set' = ev_set /\ event_set' = event_set /\ event_info' = event_info
      BY <1>1 DEF EventInv, EventType, event
    <2>5. EventInv'
      BY <2>3, <2>4, NobodyJoined
    <2>6. BitsGivenOnce
      BY <2>2, <2>3, NothingGiven
    <2> QED BY <2>3, <2>5, <2>6
  <1>2. ASSUME NEW s \in Threads, NEW e \in Events, NEW r \in Requests[e], rt_event_recv(s, e, r)
        PROVE  Now' /\ EventInv' /\ BitsGivenOnce
    <2>1. /\ Running(s, "user") /\ Usable(e) /\ UNCHANGED <<dying, subject>>
          /\ recv_event(s, e, r) \/ wait_event(s, e, r)
      BY <1>2 DEF rt_event_recv
    <2> QED BY <2>1, RecvEventStep, WaitEventStep
  <1>3. ASSUME NEW s \in Threads, NEW e \in Events, NEW set \in (SUBSET Bits) \ {{}}, rt_event_send(s, e, set)
        PROVE  Now' /\ EventInv' /\ BitsGivenOnce
    BY <1>3, EventSendStep
  <1>4. ASSUME NEW e \in Events, NEW set \in (SUBSET Bits) \ {{}}, isr_event_send(e, set)
        PROVE  Now' /\ EventInv' /\ BitsGivenOnce
    BY <1>4, IsrEventStep
  <1> QED BY <1>1, <1>2, <1>3, <1>4, EventReturnStep, ResetEventStep, DetachEventStep DEF EventNext
-----------------------------------------------------------------------------
(* The whole                                                               *)

\* Where calls on objects other than the work queue may be
CallPoints ==
    {"user", "blocked", "woken", "schedule", "resuming", "sending", "sending_urgent",
     "receiving", "dq_reset", "completing"}

\* What the threads do in a behaviour about a kernel object, and in one about
\* the work queue
AtObject ==
    /\ Now \/ (subject \in DataQueues /\ Held)
    /\ pc \in [Threads -> CallPoints]
AtSubject == IF subject = works THEN AtWork ELSE AtObject

\* The rule of use that the theorems rest on: if some behaviours are about the
\* work queue, it has one caller.
WorkRule == works \in Subjects => OneCaller

\* The inductive invariant: each kind of object has its own part, and says of
\* the threads something only when the behaviour is about it.
ObjectsInv ==
    /\ subject \in Subjects /\ dying \subseteq Queues
    /\ AtSubject
    /\ PoolInv /\ MailInv /\ EventInv /\ MsgInv /\ DataInv /\ DoneInv /\ PipeInv
    /\ WorkQueueType

\* The work queue is no other object.
LEMMA WorksApart ==
    /\ works \notin UNION {Pools, Mailboxes, Events, MsgQueues, DataQueues, Completions, Pipes}
    /\ subject \in Subjects =>
          subject \in UNION {Pools, Mailboxes, Events, MsgQueues, DataQueues, Completions, Pipes, {works}}
  BY ObjectsAssumption, MemPoolAssumption, MailboxAssumption, EventAssumption, MessageQueueAssumption,
     DataQueueAssumption, CompletionAssumption, PipeAssumption

\* Only the threads of a work queue are at its points.
LEMMA CallsStay ==
    ASSUME pc \in [Threads -> CallPoints],
           \/ MemPoolNext \/ MailboxNext \/ EventNext \/ MessageQueueNext \/ DataQueueNext
           \/ CompletionNext \/ PipeNext
    PROVE  pc' \in [Threads -> CallPoints]
  <1> DEFINE Stays == pc' \in [Threads -> CallPoints]
  <1>1. Background => Stays
    BY DEF Background, ScheduleStep, Goto, tick_yield, timeout, CallPoints
  <1>2. ASSUME NEW s, resume_one(s) PROVE Stays
    BY <1>2 DEF resume_one, LeaveCall, LeaveTo, Goto, CallPoints
  <1>3. ASSUME NEW s, NEW q, detach(s, q) \/ LeaveWaking(s, q) PROVE Stays
    BY <1>3 DEF detach, LeaveWaking, LeaveCall, LeaveTo, Goto, CallPoints
  <1>4. ASSUME NEW s, NEW q, NEW f, NEW timed, WaitOn(s, q, f, timed) PROVE Stays
    BY <1>4 DEF WaitOn, Goto, CallPoints
  <1>5. ASSUME NEW s, LeaveCall(s) \/ Goto(s, "schedule") \/ UNCHANGED pc PROVE Stays
    BY <1>5 DEF LeaveCall, LeaveTo, Goto, CallPoints
  <1>6. MemPoolNext => Stays
    <2>1. ASSUME NEW s, NEW q, take_block(s, q) \/ wait_block(s, q) PROVE Stays
      BY <2>1, <1>5 DEF take_block, wait_block, Goto, CallPoints
    <2>2. ASSUME NEW s, alloc_again(s) PROVE Stays
      BY <2>1, <2>2, <1>5 DEF alloc_again
    <2> QED BY <1>1, <1>2, <1>3, <1>5, <2>1, <2>2
            DEF MemPoolNext, rt_mp_alloc, rt_mp_detach, isr_free, rt_mp_free, detach_one
  <1>7. MailboxNext => Stays
    <2>1. ASSUME NEW s, NEW m, \/ send_mail(s, m) \/ wait_room(s, m) \/ recv_mail(s, m) \/ wait_mail(s, m)
                               \/ give_up(s, m)
          PROVE Stays
      BY <2>1, <1>3, <1>4, <1>5 DEF send_mail, wait_room, recv_mail, wait_mail, give_up
    <2>2. ASSUME NEW s, NEW u, NEW m, detach_turn(s, u, m) PROVE Stays
      BY <2>2, <1>5 DEF detach_turn, Goto, CallPoints
    <2>3. ASSUME NEW s, NEW m, mb_send_again(s, m) \/ mb_recv_again(s, m) PROVE Stays
      BY <2>1, <2>3, <1>5 DEF mb_send_again, mb_recv_again
    <2> QED BY <1>1, <1>5, <2>1, <2>2, <2>3
            DEF MailboxNext, rt_mb_send_wait, rt_mb_recv, rt_mb_control, rt_mb_detach, mb_detach_one,
                isr_mb_send
  <1>8. EventNext => Stays
    BY <1>1, <1>2, <1>3, <1>4, <1>5
       DEF EventNext, rt_event_send, isr_event_send, rt_event_recv, recv_event, wait_event, recv_return,
           rt_event_control, rt_event_detach, event_detach_one
  <1>9. MessageQueueNext => Stays
    <2>1. ASSUME NEW s, NEW q, rt_mq_send(s, q) \/ rt_mq_urgent(s, q) PROVE Stays
      BY <2>1 DEF rt_mq_send, rt_mq_urgent, send_take, Goto, CallPoints
    <2>2. ASSUME NEW s, NEW q, recv_take(s, q) \/ wait_message(s, q) PROVE Stays
      BY <2>2, <1>4 DEF recv_take, wait_message, Goto, CallPoints
    <2>3. ASSUME NEW s, NEW q, mq_recv_again(s, q) PROVE Stays
      BY <2>2, <2>3, <1>5 DEF mq_recv_again
    <2> QED BY <1>1, <1>2, <1>3, <1>5, <2>1, <2>2, <2>3
            DEF MessageQueueNext, rt_mq_recv, send_link, isr_mq_send, recv_give_back, rt_mq_control,
                rt_mq_detach, mq_detach_one
  <1>10. DataQueueNext => Stays
    <2>1. ASSUME NEW s, NEW q, push_data(s, q) \/ pop_data(s, q) \/ wait_push(s, q) \/ wait_pop(s, q)
          PROVE Stays
      BY <2>1, <1>3, <1>4, <1>5 DEF push_data, pop_data, wait_push, wait_pop
    <2>2. ASSUME NEW s, NEW q, push_again(s, q) \/ pop_again(s, q) PROVE Stays
      BY <2>1, <2>2, <1>5 DEF push_again, pop_again
    <2>3. ASSUME NEW s, NEW q, rt_data_queue_reset(s, q) \/ reset_one(s, q) \/ reset_end(s, q)
          PROVE Stays
      BY <2>3 DEF rt_data_queue_reset, reset_one, reset_end, LeaveTo, Goto, CallPoints
    <2> QED BY <1>1, <1>5, <2>1, <2>2, <2>3
            DEF DataQueueNext, rt_data_queue_push, rt_data_queue_pop, isr_push, isr_pop
  <1>11. CompletionNext => Stays
    <2>1. ASSUME NEW s, NEW c, rt_completion_done(s, c) PROVE Stays
      BY <2>1 DEF rt_completion_done, Goto, CallPoints
    <2> QED BY <1>1, <1>3, <1>4, <1>5, <2>1
            DEF CompletionNext, rt_completion_wait, wait_return, done_wake, isr_done
  <1>12. PipeNext => Stays
    <2>1. ASSUME NEW s, NEW q, wait_in(s, q) PROVE Stays
      BY <2>1 DEF wait_in, Goto, CallPoints
    <2>2. ASSUME NEW s, NEW p, read_turn(s, p) \/ write_turn(s, p) PROVE Stays
      BY <2>1, <2>2, <1>5 DEF read_turn, write_turn
    <2> QED BY <1>1, <1>5, <2>2
            DEF PipeNext, rt_pipe_read, rt_pipe_write, read_again, write_again, isr_read, isr_write
  <1> QED BY <1>6, <1>7, <1>8, <1>9, <1>10, <1>11, <1>12

\* At the start all threads are outside.
LEMMA StartedThreads ==
    ASSUME Init
    PROVE  /\ Settled(k) /\ \A t \in Threads : k.stat[t] = "ready" /\ k.error[t] = "RT_EOK"
           /\ k.timer = {} /\ \A q \in Queues : k.queue[q] = << >>
           /\ k.prio = init_priority /\ k.current \in Threads /\ rt_schedule(k).current = k.current
           /\ pc = [t \in Threads |-> "user"] /\ object \in [Threads -> Queues]
           /\ dying = Queues \ SubjectLists(subject) /\ subject \in Subjects
           /\ subject \in SubjectLists(subject) /\ Idle \in Threads
  <1>1. IsFiniteSet(Threads) /\ Threads # {} /\ k = AllStarted /\ Idle \in Threads
    BY IpcAssumption DEF Init
  <1>2. /\ Settled(k) /\ k.stat = [t \in Threads |-> "ready"] /\ k.error = [t \in Threads |-> "RT_EOK"]
        /\ k.timer = {} /\ k.queue = [q \in Queues |-> << >>]
        /\ k.prio = init_priority /\ k.current \in Threads /\ rt_schedule(k).current = k.current
    BY <1>1, AllStartedSettled
  <1>3. AnyQueue \in Queues
    BY ObjectsAssumption DEF AnyQueue
  <1>4. subject \in SubjectLists(subject)
    BY DEF SubjectLists
  <1> QED BY <1>1, <1>2, <1>3, <1>4 DEF Init

LEMMA InitAtSubject == WorkRule /\ Init => AtSubject
  <1> SUFFICES ASSUME WorkRule, Init PROVE AtSubject
    OBVIOUS
  <1>1. \A t \in Threads : pc[t] = "user"
    BY StartedThreads
  <1>2. \A t \in Threads, q \in Queues : ~Queued(k, q, t)
    BY StartedThreads DEF Queued, Contains
  <1>3. CASE subject # works
    <2>1. pc \in [Threads -> CallPoints] /\ pc \in [Threads -> Points]
      BY StartedThreads DEF CallPoints, Points
    <2>2. Waits(k, pc, object, subject)
      BY <1>1, <1>2, <2>1, StartedThreads DEF Waits, WaitersListed, WaitPoints, Outside
    <2>3. Runs(k, pc)
      BY StartedThreads DEF Runs
    <2>4. Detaching(k, pc, object, dying, subject)
      BY <1>1, StartedThreads DEF Detaching
    <2>5. \A t \in Threads : pc[t] # "dq_reset"
      BY <1>1
    <2> QED BY <1>3, <2>1, <2>2, <2>3, <2>4, <2>5 DEF AtSubject, AtObject, Now, Calm
  <1>4. CASE subject = works
    <2>1. Worker \in Threads /\ \A s \in Callers : s \in Threads
      BY WorkQueueAssumption DEF Clients
    <2>2. k.current \notin Callers
      <3>1. k.prio[k.current] <= k.prio[Worker]
        BY <2>1, StartedThreads, MostUrgent
      <3>2. k.current \in Callers => init_priority[Worker] < init_priority[k.current]
        BY WorkQueueAssumption
      <3>3. init_priority[Worker] \in Int /\ init_priority[k.current] \in Int
        BY <2>1, StartedThreads, KernelAssumption DEF Prios
      <3> QED BY <3>1, <3>2, <3>3, StartedThreads
    <2>3. WorkThreads(k, pc)
      <3>1. pc \in [Threads -> Points] /\ k.timer = {}
        BY StartedThreads DEF Points
      <3> QED BY <1>1, <2>1, <3>1, StartedThreads DEF WorkThreads
    <2>4. WorkRuns(k, pc)
      BY <1>1, <2>1, <2>2, StartedThreads DEF WorkRuns
    <2>5. work_list = << >> /\ work_current = NoWork
      BY DEF Init, WorkQueueInit
    <2>6. WorkList
      <3>1. IsInjective(work_list)
        BY <2>5 DEF IsInjective
      <3> QED BY <1>1, <2>1, <2>5, <3>1 DEF WorkList, WorkQueueType, WorkerWoken
    <2>7. WorkFound
      BY <1>1, <2>1 DEF WorkFound, WorkToDo, Waking
    <2>8. OneCaller
      BY <1>4 DEF WorkRule, Init
    <2> QED BY <1>4, <2>3, <2>4, <2>6, <2>7, <2>8, StartedThreads DEF AtSubject, AtWork
  <1> QED BY <1>3, <1>4

\* At the start all blocks are free and all buffers empty.
LEMMA InitData ==
    ASSUME Init
    PROVE  PoolInv /\ MailInv /\ EventInv /\ MsgInv /\ DataInv /\ DoneInv /\ PipeInv /\ WorkQueueType
  <1>1. \A q \in Queues : k.queue[q] = << >>
    BY StartedThreads
  <1>2. \A q \in Queues : \A n : Served(k, pc, object, q, n)
    BY <1>1 DEF Served
  <1>3. PoolInv
    <2>1. /\ block_list = [q \in Pools |-> SetToSeq(Blocks[q])]
          /\ block_free_count = [q \in Pools |-> Cardinality(Blocks[q])]
          /\ suspend_thread_count = [q \in Pools |-> 0] /\ used = [q \in Pools |-> {}]
          /\ Pools \subseteq Queues
      BY MemPoolAssumption DEF Init, MemPoolInit
    <2>2. ASSUME NEW q \in Pools
          PROVE  /\ block_list[q] \in Seq(Blocks[q]) /\ IsInjective(block_list[q])
                 /\ Range(block_list[q]) = Blocks[q] \ used[q]
                 /\ block_free_count[q] = Len(block_list[q]) /\ block_free_count[q] \in Nat
      <3>1. IsFiniteSet(Blocks[q])
        BY MemPoolAssumption
      <3>2. PICK l : l = SetToSeq(Blocks[q])
        OBVIOUS
      <3>3. /\ l \in Seq(Blocks[q]) /\ IsInjective(l) /\ Len(l) = Cardinality(Blocks[q])
            /\ \A x : Contains(l, x) <=> x \in Blocks[q]
        BY <3>1, <3>2, ListOfSet
      <3>4. Range(l) = Blocks[q]
        BY <3>3, RangeList
      <3>5. Cardinality(Blocks[q]) \in Nat
        BY <3>1, FS_CardinalityType
      <3> QED BY <2>1, <3>2, <3>3, <3>4, <3>5
    <2>3. PoolData
      <3>1. block_free_count \in [Pools -> Nat]
        BY <2>1, <2>2
      <3> QED BY <2>1, <2>2, <3>1 DEF PoolData, MemPoolType, BlocksConserved
    <2>4. \A q \in Pools : Len(k.queue[q]) = 0 /\ suspend_thread_count[q] = 0
      BY <1>1, <2>1
    <2> QED BY <1>2, <2>1, <2>3, <2>4 DEF PoolInv, CountsWaiters
  <1>4. MailInv
    <2>1. mb = [m \in Mailboxes |-> [msg_pool |-> [i \in 0 .. mb_size[m] - 1 |-> mail[Idle]],
                                     entry |-> 0, in_offset |-> 0, out_offset |-> 0]]
      BY DEF Init, MailboxInit
    <2>2. mail[Idle] \in Range(mail)
      BY MailboxAssumption, IpcAssumption DEF Range
    <2>3. ASSUME NEW m \in Mailboxes PROVE mb[m] \in MailRecord(m) /\ Placed(mb[m], mb_size[m])
      <3>1. mb_size[m] \in Nat \ {0} /\ 0 \in 0 .. mb_size[m] - 1 /\ 0 \in 0 .. mb_size[m]
        BY MailboxAssumption
      <3>2. [i \in 0 .. mb_size[m] - 1 |-> mail[Idle]] \in [0 .. mb_size[m] - 1 -> Range(mail)]
        BY <2>2
      <3> QED BY <2>1, <3>1, <3>2 DEF MailRecord, Placed
    <2>4. \A m \in Mailboxes : m \in Queues /\ suspend_sender_thread[m] \in Queues
      BY MailboxAssumption
    <2> QED BY <1>2, <2>1, <2>3, <2>4 DEF MailInv, MailData
  <1>5. EventInv
    <2>1. EventType
      BY DEF Init, EventInit, EventType
    <2>2. \A e \in Events, t \in Threads : ~Queued(k, e, t)
      BY <1>1, EventAssumption DEF Queued, Contains
    <2> QED BY <2>1, <2>2 DEF EventInv, Unserved
  <1>6. MsgInv
    <2>1. /\ mq = [q \in MsgQueues |-> [msg_queue_free |-> SetToSeq(Messages[q]), msg_queue |-> << >>,
                                        entry |-> 0]]
          /\ msg = [t \in Threads |-> NoMsg] /\ holds = [i \in AllMessages |-> content[Idle]]
      BY DEF Init, MessageQueueInit
    <2>2. content[Idle] \in Range(content)
      BY MessageQueueAssumption, IpcAssumption DEF Range
    <2>3. ASSUME NEW q \in MsgQueues
          PROVE  /\ mq[q] \in QueueRecord(q) /\ mq[q].entry = Len(mq[q].msg_queue)
                 /\ Shared(mq[q].msg_queue_free, mq[q].msg_queue, msg, Messages[q])
      <3>1. IsFiniteSet(Messages[q]) /\ NoMsg \notin Messages[q]
        BY MessageQueueAssumption DEF AllMessages
      <3>2. PICK l : l = SetToSeq(Messages[q])
        OBVIOUS
      <3>3. l \in Seq(Messages[q]) /\ IsInjective(l) /\ \A x : Contains(l, x) <=> x \in Messages[q]
        BY <3>1, <3>2, ListOfSet
      <3>4. /\ << >> \in Seq(Messages[q]) /\ IsInjective(<< >>) /\ Len(<< >>) = 0
            /\ \A x : ~Contains(<< >>, x)
        BY DEF IsInjective, Contains
      <3>5. mq[q] = [msg_queue_free |-> l, msg_queue |-> << >>, entry |-> 0]
        BY <2>1, <3>2
      <3>6. Shared(l, << >>, msg, Messages[q])
        BY <2>1, <3>1, <3>3, <3>4 DEF Shared
      <3> QED BY <3>3, <3>4, <3>5, <3>6 DEF QueueRecord
    <2>4. msg \in [Threads -> AllMessages \cup {NoMsg}] /\ holds \in [AllMessages -> Range(content)]
      BY <2>1, <2>2
    <2>5. MsgData
      BY <2>1, <2>3, <2>4 DEF MsgData
    <2>6. subject \in MsgQueues => HoldsBlocks(pc, msg, Messages[subject])
      BY <2>1, StartedThreads DEF HoldsBlocks, HoldPoints
    <2>7. \A t \in Threads : msg[t] = NoMsg
      BY <2>1
    <2>8. subject \in MsgQueues => subject \in Queues
      BY MessageQueueAssumption
    <2> QED BY <1>2, <2>5, <2>6, <2>7, <2>8 DEF MsgInv
  <1>7. DataInv
    <2>1. dq = [q \in DataQueues |-> [queue |-> [i \in 0 .. dq_size[q] - 1 |-> data[Idle]],
                                      put_index |-> 0, get_index |-> 0]]
      BY DEF Init, DataQueueInit
    <2>2. data[Idle] \in Range(data)
      BY DataQueueAssumption, IpcAssumption DEF Range
    <2>3. ASSUME NEW q \in DataQueues PROVE dq[q] \in DataRecord(q) /\ Fill(dq[q]) \in 0 .. dq_size[q]
      <3>1. dq_size[q] \in Nat \ {0} /\ 0 \in 0 .. dq_size[q] /\ 0 \in 0 .. MaxIndex
        BY DataQueueAssumption
      <3>2. [i \in 0 .. dq_size[q] - 1 |-> data[Idle]] \in [0 .. dq_size[q] - 1 -> Range(data)]
        BY <2>2
      <3> QED BY <2>1, <3>1, <3>2 DEF DataRecord, Fill
    <2>4. \A m \in DataQueues : m \in Queues /\ suspended_push_list[m] \in Queues
      BY DataQueueAssumption
    <2> QED BY <1>2, <2>1, <2>3, <2>4 DEF DataInv, DataData
  <1>8. DoneInv
    <2>1. CompletionType
      BY DEF Init, CompletionInit, CompletionType
    <2>2. ASSUME NEW c \in Completions
          PROVE  /\ AtMostOne(c) /\ k.queue[c] = << >> /\ Way(k, pc, object, c) = {}
      BY <1>1, StartedThreads, CompletionAssumption DEF AtMostOne, Way, WaitPoints, Clients
    <2> QED BY <2>1, <2>2 DEF DoneInv
  <1>9. PipeInv
    <2>1. data_len = [p \in Pipes |-> 0]
      BY DEF Init, PipeInit
    <2>2. PipeData
      BY <2>1, PipeAssumption DEF PipeData, PipeType
    <2>3. \A m \in Pipes : m \in Queues /\ suspended_write_list[m] \in Queues
      BY PipeAssumption
    <2> QED BY <1>1, <1>2, <2>2, <2>3 DEF PipeInv, NoWriters
  <1>10. WorkQueueType
    BY DEF Init, WorkQueueInit, WorkQueueType
  <1> QED BY <1>3, <1>4, <1>5, <1>6, <1>7, <1>8, <1>9, <1>10

LEMMA InitObjects == WorkRule /\ Init => ObjectsInv
  <1> SUFFICES ASSUME WorkRule, Init PROVE ObjectsInv
    OBVIOUS
  <1> QED BY StartedThreads, InitAtSubject, InitData DEF ObjectsInv

\* A kind of objects that a step leaves alone keeps its part of the invariant.
LEMMA PoolKept ==
    ASSUME PoolInv, UNCHANGED <<pool, subject>>, subject \notin Pools \/ UNCHANGED <<k, pc, object, dying>>
    PROVE  PoolInv'
  BY DEF pool, PoolInv, PoolData, MemPoolType, BlocksConserved, CountsWaiters

LEMMA MailKept ==
    ASSUME MailInv, UNCHANGED <<mb, subject>>, subject \notin Mailboxes \/ UNCHANGED <<k, pc, object, dying>>
    PROVE  MailInv'
  BY DEF MailInv, MailData

LEMMA EventKept ==
    ASSUME EventInv, UNCHANGED <<event, subject>>, subject \notin Events \/ UNCHANGED k
    PROVE  EventInv'
  BY DEF event, EventInv, EventType, Unserved

LEMMA MsgKept ==
    ASSUME MsgInv, UNCHANGED <<messages, subject>>, subject \notin MsgQueues \/ UNCHANGED <<k, pc, object, dying>>
    PROVE  MsgInv'
  BY DEF messages, MsgInv, MsgData

LEMMA DataInvKept ==
    ASSUME DataInv, UNCHANGED <<dq, subject>>, subject \notin DataQueues \/ UNCHANGED <<k, pc, object>>
    PROVE  DataInv'
  BY DEF DataInv, DataData

LEMMA DoneKept ==
    ASSUME DoneInv, UNCHANGED <<flag, subject>>, subject \notin Completions \/ UNCHANGED <<k, pc, object>>
    PROVE  DoneInv'
  BY DEF DoneInv, CompletionType, AtMostOne

LEMMA PipeKept ==
    ASSUME PipeInv, UNCHANGED <<data_len, subject>>, subject \notin Pipes \/ UNCHANGED <<k, pc, object>>
    PROVE  PipeInv'
  BY DEF PipeInv, PipeData, PipeType, NoWriters

LEMMA WorkTypeKept == WorkQueueType /\ UNCHANGED work => WorkQueueType'
  BY DEF work, WorkQueueType

\* The threads of an object, after a step that keeps Now.
LEMMA StaysAtObject ==
    ASSUME Now', pc' \in [Threads -> CallPoints], subject # works, UNCHANGED subject
    PROVE  AtSubject'
  BY DEF AtSubject, AtObject

\* The invariant is inductive.
LEMMA NextObjects == ObjectsInv /\ [Next]_vars => ObjectsInv'
  <1> SUFFICES ASSUME ObjectsInv, [Next]_vars PROVE ObjectsInv'
    OBVIOUS
  <1> USE DEF ObjectsInv
  <1>1. subject \in Subjects /\ dying \subseteq Queues /\ AtSubject /\ WorkQueueType
        /\ PoolInv /\ MailInv /\ EventInv /\ MsgInv /\ DataInv /\ DoneInv /\ PipeInv
    OBVIOUS
  <1>2. ASSUME subject # works, subject \notin DataQueues PROVE Now /\ pc \in [Threads -> CallPoints]
    BY <1>1, <1>2 DEF AtSubject, AtObject
  <1>3. (Now' \/ (subject' # works /\ Held')) => (dying \subseteq Queues)'
    BY DEF Now, Calm, Held, Locked, Detaching
  <1>4. CASE subject \in Pools /\ MemPoolNext
             /\ UNCHANGED <<mb, event, messages, dq, flag, work, data_len, subject>>
    <2>1. subject # works /\ subject \notin UNION {Mailboxes, Events, MsgQueues, DataQueues, Completions, Pipes}
      BY <1>4, KindsApart, WorksApart
    <2>2. Now' /\ PoolInv' /\ pc' \in [Threads -> CallPoints]
      BY <1>1, <1>2, <1>4, <2>1, PoolStep, CallsStay
    <2> QED BY <1>1, <1>3, <1>4, <2>1, <2>2, StaysAtObject, MailKept, EventKept, MsgKept, DataInvKept,
               DoneKept, PipeKept, WorkTypeKept
  <1>5. CASE subject \in Mailboxes /\ MailboxNext
             /\ UNCHANGED <<pool, event, messages, dq, flag, work, data_len, subject>>
    <2>1. subject # works /\ subject \notin UNION {Pools, Events, MsgQueues, DataQueues, Completions, Pipes}
      BY <1>5, KindsApart, WorksApart
    <2>2. Now' /\ MailInv' /\ pc' \in [Threads -> CallPoints]
      BY <1>1, <1>2, <1>5, <2>1, MailStep, CallsStay
    <2> QED BY <1>1, <1>3, <1>5, <2>1, <2>2, StaysAtObject, PoolKept, EventKept, MsgKept, DataInvKept,
               DoneKept, PipeKept, WorkTypeKept
  <1>6. CASE subject \in Events /\ EventNext
             /\ UNCHANGED <<pool, mb, messages, dq, flag, work, data_len, subject>>
    <2>1. subject # works /\ subject \notin UNION {Pools, Mailboxes, MsgQueues, DataQueues, Completions, Pipes}
      BY <1>6, KindsApart, WorksApart
    <2>2. Now' /\ EventInv' /\ pc' \in [Threads -> CallPoints]
      BY <1>1, <1>2, <1>6, <2>1, EventStep, CallsStay
    <2> QED BY <1>1, <1>3, <1>6, <2>1, <2>2, StaysAtObject, PoolKept, MailKept, MsgKept, DataInvKept,
               DoneKept, PipeKept, WorkTypeKept
  <1>7. CASE subject \in MsgQueues /\ MessageQueueNext
             /\ UNCHANGED <<pool, mb, event, dq, flag, work, data_len, subject>>
    <2>1. subject # works /\ subject \notin UNION {Pools, Mailboxes, Events, DataQueues, Completions, Pipes}
      BY <1>7, KindsApart, WorksApart
    <2>2. Now' /\ MsgInv' /\ pc' \in [Threads -> CallPoints]
      BY <1>1, <1>2, <1>7, <2>1, MsgStep, CallsStay
    <2> QED BY <1>1, <1>3, <1>7, <2>1, <2>2, StaysAtObject, PoolKept, MailKept, EventKept, DataInvKept,
               DoneKept, PipeKept, WorkTypeKept
  <1>8. CASE subject \in DataQueues /\ DataQueueNext
             /\ UNCHANGED <<pool, mb, event, messages, flag, work, data_len, subject>>
    <2>1. subject # works /\ subject \notin UNION {Pools, Mailboxes, Events, MsgQueues, Completions, Pipes}
      BY <1>8, KindsApart, WorksApart
    <2>2. Now \/ Held
      BY <1>1, <2>1 DEF AtSubject, AtObject
    <2>3. (Now \/ Held)' /\ DataInv'
      BY <1>1, <1>8, <2>2, DataStep
    <2>4. pc' \in [Threads -> CallPoints]
      BY <1>1, <1>8, <2>1, CallsStay DEF AtSubject, AtObject
    <2>5. AtSubject'
      BY <1>8, <2>1, <2>3, <2>4 DEF AtSubject, AtObject
    <2> QED BY <1>1, <1>3, <1>8, <2>1, <2>3, <2>5, PoolKept, MailKept, EventKept, MsgKept,
               DoneKept, PipeKept, WorkTypeKept
  <1>9. CASE subject \in Completions /\ CompletionNext
             /\ UNCHANGED <<pool, mb, event, messages, dq, work, data_len, subject>>
    <2>1. subject # works /\ subject \notin UNION {Pools, Mailboxes, Events, MsgQueues, DataQueues, Pipes}
      BY <1>9, KindsApart, WorksApart
    <2>2. Now' /\ DoneInv' /\ pc' \in [Threads -> CallPoints]
      BY <1>1, <1>2, <1>9, <2>1, DoneStep, CallsStay
    <2> QED BY <1>1, <1>3, <1>9, <2>1, <2>2, StaysAtObject, PoolKept, MailKept, EventKept, MsgKept,
               DataInvKept, PipeKept, WorkTypeKept
  <1>10. CASE subject = works /\ WorkQueueNext
             /\ UNCHANGED <<pool, mb, event, messages, dq, flag, data_len, subject>>
    <2>1. subject \notin UNION {Pools, Mailboxes, Events, MsgQueues, DataQueues, Completions, Pipes}
      BY <1>10, WorksApart
    <2>2. AtWork'
      BY <1>1, <1>10, WorkStep DEF AtSubject
    <2>3. WorkQueueType' /\ AtSubject'
      BY <1>10, <2>2 DEF AtSubject, AtWork, WorkList
    <2>4. UNCHANGED dying
      BY <1>10 DEF WorkQueueNext, look_at_list, suspend_worker, take_work, do_work, work_done, ScheduleStep,
                   rt_workqueue_dowork, rt_workqueue_cancel_work, wake_worker, wake_unlink, wake_insert,
                   rt_workqueue_cancel_all_work, tick_yield, timeout
    <2> QED BY <1>1, <1>10, <2>1, <2>3, <2>4, PoolKept, MailKept, EventKept, MsgKept,
               DataInvKept, DoneKept, PipeKept
  <1>11. CASE subject \in Pipes /\ PipeNext
             /\ UNCHANGED <<pool, mb, event, messages, dq, flag, work, subject>>
    <2>1. subject # works /\ subject \notin UNION {Pools, Mailboxes, Events, MsgQueues, DataQueues, Completions}
      BY <1>11, KindsApart, WorksApart
    <2>2. Now' /\ PipeInv' /\ pc' \in [Threads -> CallPoints]
      BY <1>1, <1>2, <1>11, <2>1, PipeStep, CallsStay
    <2> QED BY <1>1, <1>3, <1>11, <2>1, <2>2, StaysAtObject, PoolKept, MailKept, EventKept, MsgKept,
               DataInvKept, DoneKept, WorkTypeKept
  <1>12. CASE UNCHANGED vars
    <2>1. UNCHANGED <<k, pc, object, dying, subject>> /\ UNCHANGED <<pool, mb, event, messages, dq, flag, work, data_len>>
      BY <1>12 DEF vars
    <2>2. AtSubject'
      BY <1>1, <2>1 DEF AtSubject, AtObject, AtWork, Now, Held, WorkList, WorkFound, work, WorkQueueType,
                        WorkerWoken, WorkToDo
    <2> QED BY <1>1, <2>1, <2>2, PoolKept, MailKept, EventKept, MsgKept,
               DataInvKept, DoneKept, PipeKept, WorkTypeKept
  <1> QED BY <1>4, <1>5, <1>6, <1>7, <1>8, <1>9, <1>10, <1>11, <1>12 DEF Next

\* In every reachable state.
THEOREM Invariance == ASSUME WorkRule PROVE Spec => []ObjectsInv
  BY InitObjects, NextObjects, PTL DEF Spec

-----------------------------------------------------------------------------
(* What the invariant says                                                 *)

\* In every behaviour: the table, and who waits where.
LEMMA Everywhere ==
    ASSUME ObjectsInv
    PROVE  /\ k \in KernelType /\ pc \in [Threads -> Points] /\ object \in [Threads -> Queues]
           /\ WaitersSuspended
           /\ \A q \in Queues : k.queue[q] \in Seq(Threads)
           /\ \A q \in Queues : k.queue[q] # << >> => subject # works /\ q \in Scope(subject)
           /\ \A t \in Threads : pc[t] \in WaitPoints => subject # works /\ object[t] \in Scope(subject)
  <1> USE DEF ObjectsInv
  <1>1. ASSUME NEW u, Waits(u, pc, object, subject), u.queue = k.queue, u.stat = k.stat, subject # works
        PROVE  /\ pc \in [Threads -> Points] /\ object \in [Threads -> Queues] /\ WaitersSuspended
               /\ \A q \in Queues : k.queue[q] \in Seq(Threads)
               /\ \A q \in Queues : k.queue[q] # << >> => subject # works /\ q \in Scope(subject)
               /\ \A t \in Threads : pc[t] \in WaitPoints => subject # works /\ object[t] \in Scope(subject)
    <2>1. pc \in [Threads -> Points] /\ object \in [Threads -> Queues]
          /\ \A t \in Threads : pc[t] \in WaitPoints => subject # works /\ object[t] \in Scope(subject)
      BY <1>1 DEF Waits, WaitPoints, Outside
    <2>2. \A q \in Queues : k.queue[q] \in Seq(Threads)
      BY <1>1, SettledType DEF Waits
    <2>3. WaitersSuspended
      BY <1>1 DEF Waits, WaitersListed, Queued, WaitersSuspended, WaitPoints
    <2>4. ASSUME NEW q \in Queues, k.queue[q] # << >> PROVE q \in Scope(subject)
      <3>1. u.queue[q] # << >> /\ Waits(u, pc, object, subject)
        BY <1>1, <2>4
      <3>2. PICK t \in Threads : object[t] = q /\ pc[t] \in WaitPoints
        BY <3>1, FirstWaiter
      <3> QED BY <2>1, <3>2
    <2> QED BY <1>1, <2>1, <2>2, <2>3, <2>4
  <1>2. CASE subject # works /\ Now
    BY <1>1, <1>2, SettledType DEF Now, Calm, Waits
  <1>3. CASE subject # works /\ Held
    <2>1. Unlocked(k).queue = k.queue /\ Unlocked(k).stat = k.stat /\ k \in KernelType
      BY <1>3 DEF Held, Locked, Unlocked, KernelType
    <2> QED BY <1>1, <1>3, <2>1 DEF Held, Locked
  <1>4. CASE subject = works
    <2>1. WorkThreads(k, pc) /\ object \in [Threads -> Queues]
      BY <1>4 DEF AtSubject, AtWork
    <2>2. k \in KernelType /\ \A q \in Queues : k.queue[q] \in Seq(Threads) /\ k.queue[q] = << >>
      BY <2>1, SettledType DEF WorkThreads
    <2>3. \A t \in Threads : pc[t] \notin WaitPoints
      BY <2>1 DEF WorkThreads, WorkPoints, WaitPoints, Waking
    <2>4. WaitersSuspended
      BY <2>2, <2>3 DEF WaitersSuspended, WaitPoints, Contains
    <2> QED BY <2>1, <2>2, <2>3, <2>4 DEF WorkThreads
  <1> QED BY <1>2, <1>3, <1>4 DEF AtSubject, AtObject

\* Lists that are in use are those of the subject.
LEMMA InUse ==
    ASSUME ObjectsInv, NEW q \in Queues,
           k.queue[q] # << >> \/ \E t \in Threads : pc[t] \in WaitPoints /\ object[t] = q
    PROVE  /\ subject # works
           /\ q \in Pools => q = subject
           /\ q \in Events => q = subject
           /\ q \in MsgQueues => q = subject
           /\ q \in Completions => subject \in Completions
           /\ \A m \in Mailboxes : q \in {m, suspend_sender_thread[m]} => m = subject
           /\ \A d \in DataQueues : q \in {d, suspended_push_list[d]} => d = subject
           /\ \A p \in Pipes : q \in {p, suspended_write_list[p]} => p = subject
  <1>1. subject # works /\ q \in Scope(subject)
    BY Everywhere
  <1>2. subject \in UNION {Pools, Mailboxes, Events, MsgQueues, DataQueues, Completions, Pipes}
    BY <1>1, WorksApart DEF ObjectsInv
  <1>3. /\ \A m \in Mailboxes : suspend_sender_thread[m] \in Senders
        /\ \A d \in DataQueues : suspended_push_list[d] \in Pushers
        /\ \A p \in Pipes : suspended_write_list[p] \in PipeWriters
    BY DEF Senders, Pushers, PipeWriters
  <1>4. /\ \A m, n \in Mailboxes : suspend_sender_thread[m] = suspend_sender_thread[n] => m = n
        /\ \A m, n \in DataQueues : suspended_push_list[m] = suspended_push_list[n] => m = n
        /\ \A m, n \in Pipes : suspended_write_list[m] = suspended_write_list[n] => m = n
    <2>1. /\ DOMAIN suspend_sender_thread = Mailboxes /\ IsInjective(suspend_sender_thread)
          /\ DOMAIN suspended_push_list = DataQueues /\ IsInjective(suspended_push_list)
          /\ DOMAIN suspended_write_list = Pipes /\ IsInjective(suspended_write_list)
      BY MailboxAssumption, DataQueueAssumption, PipeAssumption
    <2> QED BY ONLY <2>1 DEF IsInjective
  <1>5. /\ \A m \in Mailboxes : m \notin Senders
        /\ \A m \in DataQueues : m \notin Pushers
        /\ \A m \in Pipes : m \notin PipeWriters
    BY MailboxAssumption, DataQueueAssumption, PipeAssumption
  <1>6. CASE subject \in Completions
    <2>1. q \in Completions
      BY <1>1, <1>6 DEF Scope
    <2> QED BY <1>1, <1>3, <1>6, <2>1, KindsApart
  <1>7. CASE subject \in Mailboxes
    <2>1. q \in {subject, suspend_sender_thread[subject]}
      BY <1>1, <1>7, KindsApart DEF Scope, SubjectLists
    <2> QED BY <1>1, <1>3, <1>4, <1>5, <1>7, <2>1, KindsApart
  <1>8. CASE subject \in DataQueues
    <2>1. q \in {subject, suspended_push_list[subject]}
      BY <1>1, <1>8, KindsApart DEF Scope, SubjectLists
    <2> QED BY <1>1, <1>3, <1>4, <1>5, <1>8, <2>1, KindsApart
  <1>9. CASE subject \in Pipes
    <2>1. q \in {subject, suspended_write_list[subject]}
      BY <1>1, <1>9, KindsApart DEF Scope, SubjectLists
    <2> QED BY <1>1, <1>3, <1>4, <1>5, <1>9, <2>1, KindsApart
  <1>10. CASE subject \in Pools \cup Events \cup MsgQueues
    <2>1. q = subject
      BY <1>1, <1>10, KindsApart DEF Scope, SubjectLists
    <2> QED BY <1>1, <1>3, <1>10, <2>1, KindsApart
  <1> QED BY <1>2, <1>6, <1>7, <1>8, <1>9, <1>10

\* The types, and how many messages there can be.
LEMMA TypesHold == ObjectsInv => TypeOK
  <1> SUFFICES ASSUME ObjectsInv PROVE TypeOK
    OBVIOUS
  <1> USE DEF ObjectsInv
  <1>1. MailboxType
    <2>1. ASSUME NEW m \in Mailboxes
          PROVE  /\ mb[m].msg_pool \in [0 .. mb_size[m] - 1 -> Range(mail)]
                 /\ mb[m].entry \in 0 .. mb_size[m]
                 /\ {mb[m].in_offset, mb[m].out_offset} \subseteq 0 .. mb_size[m] - 1
      BY DEF MailInv, MailData, MailRecord
    <2> QED BY <2>1 DEF MailboxType
  <1>2. MessageQueueType
    <2>1. ASSUME NEW q \in MsgQueues
          PROVE  /\ mq[q].msg_queue_free \in Seq(Messages[q])
                 /\ mq[q].msg_queue \in Seq(Messages[q])
                 /\ mq[q].entry \in 0 .. Cardinality(Messages[q])
      <3>1. /\ mq[q] \in QueueRecord(q) /\ mq[q].entry = Len(mq[q].msg_queue)
            /\ Shared(mq[q].msg_queue_free, mq[q].msg_queue, msg, Messages[q])
            /\ \A s, t \in Threads : msg[s] = msg[t] /\ msg[s] # NoMsg => s = t
        BY DEF MsgInv, MsgData
      <3>2. IsFiniteSet(Messages[q]) /\ NoMsg \notin Messages[q]
        BY MessageQueueAssumption DEF AllMessages
      <3>3. PICK M : M = Messages[q]
        OBVIOUS
      <3>4. PICK f, l : f = mq[q].msg_queue_free /\ l = mq[q].msg_queue
        OBVIOUS
      <3>5. PICK held : held = {t \in Threads : msg[t] \in M}
        OBVIOUS
      <3>6. \A s, t \in Threads : msg[s] = msg[t] /\ msg[s] \in M => s = t
        BY <3>1, <3>2, <3>3
      <3>7. IsFiniteSet(M) /\ Shared(f, l, msg, M)
        BY <3>1, <3>2, <3>3, <3>4
      <3>8. Len(l) <= Cardinality(M)
        BY <3>5, <3>6, <3>7, SharedCounts
      <3>9. Cardinality(Messages[q]) \in Nat
        BY <3>2, FS_CardinalityType
      <3> QED BY <3>1, <3>3, <3>4, <3>8, <3>9 DEF QueueRecord
    <2> QED BY <2>1 DEF MessageQueueType, MsgInv, MsgData
  <1>3. DataQueueType
    <2>1. ASSUME NEW q \in DataQueues
          PROVE  /\ dq[q].queue \in [0 .. dq_size[q] - 1 -> Range(data)]
                 /\ dq[q].put_index \in 0 .. MaxIndex /\ dq[q].get_index \in 0 .. MaxIndex
      BY DEF DataInv, DataData, DataRecord
    <2> QED BY <2>1 DEF DataQueueType
  <1>4. MemPoolType /\ EventType /\ CompletionType /\ WorkQueueType /\ PipeType
    BY DEF PoolInv, PoolData, EventInv, DoneInv, PipeInv, PipeData
  <1> QED BY <1>1, <1>2, <1>3, <1>4, Everywhere DEF TypeOK

\* No block is lost.
LEMMA BlocksHold == ObjectsInv => NoBlockLost
  <1> SUFFICES ASSUME ObjectsInv PROVE NoBlockLost
    OBVIOUS
  <1>1. BlocksConserved
    BY DEF ObjectsInv, PoolInv, PoolData
  <1>2. ASSUME NEW q \in MsgQueues, NEW held, held = {t \in Threads : msg[t] \in Messages[q]},
               NEW all, all = mq[q].msg_queue_free \o mq[q].msg_queue
        PROVE  /\ mq[q].entry = Len(mq[q].msg_queue)
               /\ IsInjective(all)
               /\ Messages[q] = Range(all) \cup {msg[t] : t \in held}
               /\ Cardinality(Messages[q]) = Len(all) + Cardinality(held)
    <2>1. /\ mq[q] \in QueueRecord(q) /\ mq[q].entry = Len(mq[q].msg_queue)
          /\ Shared(mq[q].msg_queue_free, mq[q].msg_queue, msg, Messages[q])
          /\ \A s, t \in Threads : msg[s] = msg[t] /\ msg[s] # NoMsg => s = t
      BY DEF ObjectsInv, MsgInv, MsgData
    <2>2. IsFiniteSet(Messages[q]) /\ NoMsg \notin Messages[q]
      BY MessageQueueAssumption DEF AllMessages
    <2>3. PICK M : M = Messages[q]
      OBVIOUS
    <2>4. PICK f, l : f = mq[q].msg_queue_free /\ l = mq[q].msg_queue
      OBVIOUS
    <2>5. PICK own : own = {t \in Threads : msg[t] \in M}
      OBVIOUS
    <2>6. IsFiniteSet(M) /\ Shared(f, l, msg, M)
      BY <2>1, <2>2, <2>3, <2>4
    <2>7. \A s, t \in Threads : msg[s] = msg[t] /\ msg[s] \in M => s = t
      BY <2>1, <2>2, <2>3
    <2>8. /\ IsInjective(f \o l) /\ M = Range(f \o l) \cup {msg[t] : t \in own}
          /\ Cardinality(M) = Len(f \o l) + Cardinality(own)
      BY <2>5, <2>6, <2>7, SharedCounts
    <2>9. own = held /\ all = f \o l
      BY <1>2, <2>3, <2>4, <2>5
    <2> QED BY <2>1, <2>3, <2>8, <2>9
  <1> QED BY <1>1, <1>2 DEF NoBlockLost, MessagesConserved

\* The threads that were woken, as the properties count them
LEMMA WayCounts ==
    ASSUME NEW q \in Queues, NEW n, Served(k, pc, object, q, n), ~NoWaiter(q)
    PROVE  n <= Cardinality(OnItsWay(q))
  BY DEF Served, Way, OnItsWay, NoWaiter, WaitPoints

\* No wakeup is lost.
LEMMA WakeupsHold == ObjectsInv => NoLostWakeup
  <1> SUFFICES ASSUME ObjectsInv PROVE NoLostWakeup
    OBVIOUS
  <1> USE DEF ObjectsInv
  <1>1. PoolWakeups
    <2>1. ASSUME NEW q \in Pools \ dying, ~NoWaiter(q)
          PROVE  block_free_count[q] <= Cardinality(OnItsWay(q))
      <3>1. q \in Queues
        BY MemPoolAssumption
      <3>2. q = subject
        BY <2>1, <3>1, InUse DEF NoWaiter
      <3>3. Served(k, pc, object, q, block_free_count[q])
        BY <2>1, <3>2 DEF PoolInv
      <3> QED BY <2>1, <3>1, <3>3, WayCounts
    <2> QED BY <2>1 DEF PoolWakeups
  <1>2. MailboxWakeups
    <2>1. ASSUME NEW m \in Mailboxes \ dying
          PROVE  /\ ~NoWaiter(m) => mb[m].entry <= Cardinality(OnItsWay(m))
                 /\ ~NoWaiter(suspend_sender_thread[m]) =>
                       mb_size[m] - mb[m].entry <= Cardinality(OnItsWay(suspend_sender_thread[m]))
      <3>1. m \in Queues /\ suspend_sender_thread[m] \in Queues
        BY MailboxAssumption
      <3>2. ~NoWaiter(m) \/ ~NoWaiter(suspend_sender_thread[m]) => m = subject
        BY <3>1, InUse DEF NoWaiter
      <3>3. m = subject => /\ Served(k, pc, object, m, mb[m].entry)
                           /\ Served(k, pc, object, suspend_sender_thread[m], mb_size[m] - mb[m].entry)
        BY <2>1 DEF MailInv
      <3> QED BY <3>1, <3>2, <3>3, WayCounts
    <2> QED BY <2>1 DEF MailboxWakeups
  <1>3. MessageWakeups
    <2>1. ASSUME NEW q \in MsgQueues \ dying, ~NoWaiter(q)
          PROVE  mq[q].entry <= Cardinality(OnItsWay(q))
      <3>1. q \in Queues
        BY MessageQueueAssumption
      <3>2. q = subject
        BY <2>1, <3>1, InUse DEF NoWaiter
      <3>3. Served(k, pc, object, q, mq[q].entry)
        BY <2>1, <3>2 DEF MsgInv
      <3> QED BY <2>1, <3>1, <3>3, WayCounts
    <2> QED BY <2>1 DEF MessageWakeups
  <1>4. DataQueueWakeups
    <2>1. ASSUME NEW q \in DataQueues
          PROVE  /\ ~NoWaiter(q) => Length(q) <= Cardinality(OnItsWay(q))
                 /\ ~NoWaiter(suspended_push_list[q]) =>
                       dq_lwm[q] + 1 - Length(q) <= Cardinality(OnItsWay(suspended_push_list[q]))
      <3>1. q \in Queues /\ suspended_push_list[q] \in Queues
        BY DataQueueAssumption
      <3>2. ~NoWaiter(q) \/ ~NoWaiter(suspended_push_list[q]) => q = subject
        BY <3>1, InUse DEF NoWaiter
      <3>3. q = subject => /\ Served(k, pc, object, q, Length(q))
                           /\ Served(k, pc, object, suspended_push_list[q], dq_lwm[q] + 1 - Length(q))
        BY DEF DataInv, Fill, Length
      <3> QED BY <3>1, <3>2, <3>3, WayCounts
    <2> QED BY <2>1 DEF DataQueueWakeups
  <1>5. WorkerWoken
    <2>1. CASE subject = works
      BY <2>1 DEF AtSubject, AtWork, WorkList
    <2>2. CASE subject # works
      <3>1. pc[Worker] \in CallPoints
        BY <2>2, WorkQueueAssumption DEF AtSubject, AtObject, Clients
      <3> QED BY <3>1 DEF CallPoints, WorkerWoken
    <2> QED BY <2>1, <2>2
  <1>6. PipeWakeups
    <2>1. ASSUME NEW p \in Pipes
          PROVE  /\ ~NoWaiter(p) /\ Space(p) = 0 => OnItsWay(p) # {}
                 /\ ~NoWaiter(suspended_write_list[p]) /\ data_len[p] = 0 =>
                       OnItsWay(suspended_write_list[p]) # {}
      <3>1. p \in Queues /\ suspended_write_list[p] \in Queues
        BY PipeAssumption
      <3>2. ~NoWaiter(p) \/ ~NoWaiter(suspended_write_list[p]) => p = subject
        BY <3>1, InUse DEF NoWaiter
      <3>3. Space(p) = 0 => data_len[p] = pipe_size[p]
        <4>1. data_len[p] \in 0 .. pipe_size[p] /\ pipe_size[p] \in Nat
          BY PipeAssumption DEF PipeInv, PipeData, PipeType
        <4> QED BY <4>1 DEF Space
      <3>4. p = subject => /\ data_len[p] = pipe_size[p] => Served(k, pc, object, p, 1)
                           /\ data_len[p] = 0 => Served(k, pc, object, suspended_write_list[p], 1)
        BY DEF PipeInv
      <3>5. ASSUME NEW q \in Queues, ~NoWaiter(q), Served(k, pc, object, q, 1) PROVE OnItsWay(q) # {}
        <4>1. 1 <= Cardinality(OnItsWay(q))
          BY <3>5, WayCounts
        <4>2. Cardinality({}) = 0
          BY FS_EmptySet
        <4> QED BY <4>1, <4>2
      <3> QED BY <3>1, <3>2, <3>3, <3>4, <3>5
    <2> QED BY <2>1 DEF PipeWakeups
  <1>7. ASSUME NEW q \in Pools \cap Deletable PROVE CountsWaiters(q)
    <2>1. CASE q = subject
      BY <2>1 DEF PoolInv
    <2>2. CASE q # subject
      <3>1. q \in Queues
        BY MemPoolAssumption
      <3>2. k.queue[q] = << >>
        BY <2>2, <3>1, InUse
      <3> QED BY <2>2, <3>2 DEF PoolInv, PoolData, CountsWaiters
    <2> QED BY <2>1, <2>2
  <1> QED BY <1>1, <1>2, <1>3, <1>4, <1>5, <1>6, <1>7 DEF NoLostWakeup

\* A waiter of a completion that was woken finds the flag up, and whoever waits
\* finds it down.
LEMMA CompletionsHold == ObjectsInv => CompletionOK
  <1> SUFFICES ASSUME ObjectsInv, NEW c \in Completions
               PROVE  /\ ~NoWaiter(c) => flag[c] = "RT_UNCOMPLETED" /\ Len(k.queue[c]) = 1
                      /\ OnItsWay(c) # {} => flag[c] = "RT_COMPLETED"
    BY DEF CompletionOK
  <1>1. c \in Queues
    BY CompletionAssumption
  <1>2. ~NoWaiter(c) \/ OnItsWay(c) # {} => subject \in Completions /\ subject # works
    BY <1>1, InUse DEF NoWaiter, OnItsWay, WaitPoints, Clients
  <1>3. subject \in Completions /\ subject # works =>
           /\ Now /\ AtMostOne(c) /\ (k.queue[c] # << >> => flag[c] = "RT_UNCOMPLETED")
           /\ Way(k, pc, object, c) # {} => flag[c] = "RT_COMPLETED"
    BY KindsApart DEF ObjectsInv, DoneInv, AtSubject, AtObject
  <1>4. Way(k, pc, object, c) = OnItsWay(c)
    BY DEF Way, OnItsWay, WaitPoints
  <1> QED BY <1>1, <1>2, <1>3, <1>4, OneWaiter DEF NoWaiter

\* The worker has something to do.
LEMMA WorkHolds == ObjectsInv => WorkToDo
  <1> SUFFICES ASSUME ObjectsInv PROVE WorkToDo
    OBVIOUS
  <1>1. CASE subject = works
    BY <1>1 DEF ObjectsInv, AtSubject, AtWork, WorkFound
  <1>2. CASE subject # works
    <2>1. pc[Worker] \in CallPoints
      BY <1>2, WorkQueueAssumption DEF ObjectsInv, AtSubject, AtObject, Clients
    <2> QED BY <2>1 DEF CallPoints, WorkToDo
  <1> QED BY <1>1, <1>2

\* Nobody waits for bits that are set.
LEMMA EventsHold == ObjectsInv => NoneOverlooked
  <1> SUFFICES ASSUME ObjectsInv, NEW t \in Threads, NEW e \in Events, Contains(k.queue[e], t)
               PROVE  IF "AND" \in event_info[t] THEN ~(event_set[t] \subseteq ev_set[e])
                      ELSE event_set[t] \cap ev_set[e] = {}
    BY DEF NoneOverlooked
  <1>1. e \in Queues /\ k.queue[e] # << >>
    BY EventAssumption DEF Contains
  <1>2. e = subject
    BY <1>1, InUse
  <1>3. ~Satisfied(event_set[t], event_info[t], ev_set[e])
    BY <1>2 DEF ObjectsInv, EventInv, Unserved, Queued
  <1> QED BY <1>3 DEF Satisfied

\* Every step gives each bit once.
LEMMA GivenOnce == ObjectsInv /\ [Next]_vars => [BitsGivenOnce]_vars
  <1> SUFFICES ASSUME ObjectsInv, Next PROVE BitsGivenOnce
    OBVIOUS
  <1>1. CASE subject \in Events
    <2>1. subject # works /\ Now
      BY <1>1, WorksApart, KindsApart DEF ObjectsInv, AtSubject, AtObject
    <2>2. EventNext /\ UNCHANGED subject
      BY <1>1, <2>1, KindsApart DEF Next
    <2> QED BY <1>1, <2>1, <2>2, EventStep DEF ObjectsInv
  <1>2. CASE subject \notin Events
    <2>1. ASSUME NEW e \in Events
          PROVE  Woken(e) = {}
      <3>1. e \in Queues
        BY EventAssumption
      <3>2. k.queue[e] = << >>
        BY <1>2, <3>1, InUse
      <3> QED BY <3>2 DEF Woken, Contains
    <2> QED BY <2>1 DEF BitsGivenOnce
  <1> QED BY <1>1, <1>2
-----------------------------------------------------------------------------
(* The theorems                                                            *)

\* Types and ranges: no counter of a pool, mailbox, message queue, data queue
\* or pipe leaves its range (mempool.c, ipc.c, dataqueue.c, pipe.c).
THEOREM ObjectsTypes == ASSUME WorkRule PROVE Spec => []TypeOK
  BY Invariance, TypesHold, PTL

\* No block of a pool or a message queue is lost or in two hands, whoever is
\* preempted between the two sections of a call.
THEOREM BlocksKept == ASSUME WorkRule PROVE Spec => []NoBlockLost
  BY Invariance, BlocksHold, PTL

\* No wakeup is lost: while somebody waits, as many threads as there are things
\* to be had are on their way to them.
THEOREM WakeupsKept == ASSUME WorkRule PROVE Spec => []NoLostWakeup
  BY Invariance, WakeupsHold, PTL

\* A waiter of a completion and the worker find what they were woken for, and
\* who is on a list is suspended there. With two callers of the work queue the
\* worker may find no work: MCWorkQueue.cfg.
THEOREM CauseKept == ASSUME WorkRule PROVE Spec => []WokenForCause
  <1>1. ObjectsInv => WokenForCause
    BY CompletionsHold, WorkHolds, Everywhere DEF WokenForCause
  <1> QED BY <1>1, Invariance, PTL

\* rt_event_send overlooks no receiver and gives no bit away twice.
THEOREM EventsServe == ASSUME WorkRule PROVE Spec => EventServed
  <1>1. ObjectsInv' => NoneOverlooked'
    BY EventsHold, PTL
  <1>2. ObjectsInv /\ ObjectsInv' /\ [Next]_vars => [NoneOverlooked' /\ BitsGivenOnce]_vars
    BY <1>1, GivenOnce
  <1> QED
    BY <1>2, Invariance, PTL DEF Spec, EventServed
=============================================================================
