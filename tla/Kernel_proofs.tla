--------------------------- MODULE Kernel_proofs -----------------------------
(***************************************************************************)
(* What the operators of Kernel do to the lists of the thread table, for   *)
(* every number of threads, priorities and queues. The proofs about the    *)
(* components cite these lemmas and never open the lists themselves.       *)
(***************************************************************************)
EXTENDS Kernel, ListLemmas

\* The lists of table u are well formed: no thread is on a list twice, a ready
\* list holds threads of its own priority, and the bitmap shows the lists that
\* are not empty.
Lists(u) ==
    /\ u \in KernelType
    /\ \A p \in Prios : IsInjective(u.ready[p])
    /\ \A q \in Queues : IsInjective(u.queue[q])
    /\ \A p \in Prios, t \in Threads : Contains(u.ready[p], t) => u.prio[t] = p
    /\ u.group = {p \in Prios : u.ready[p] # << >>}

\* Thread t is on a ready list, on the list of queue q.
Listed(u, t) == \E p \in Prios : Contains(u.ready[p], t)
Queued(u, q, t) == Contains(u.queue[q], t)

\* rt_list_remove of a thread that is on no ready list takes it off the queues
\* and changes nothing else.
LEMMA UnlinkEffect ==
    ASSUME NEW u, Lists(u), NEW t \in Threads, ~Listed(u, t)
    PROVE  LET v == rt_list_remove(u, t)
           IN  /\ Lists(v)
               /\ \A x \in Threads : Listed(v, x) <=> Listed(u, x)
               /\ \A q \in Queues, x \in Threads : Queued(v, q, x) <=> Queued(u, q, x) /\ x # t
               /\ v.stat = u.stat /\ v.prio = u.prio /\ v.timer = u.timer /\ v.error = u.error
               /\ v.current = u.current /\ v.lock_nest = u.lock_nest
  <1> DEFINE v == rt_list_remove(u, t)
  <1>1. ASSUME NEW p \in Prios PROVE v.ready[p] = u.ready[p]
    BY DEF rt_list_remove, Lists, KernelType, Listed, Contains, RemoveFirst
  <1>2. ASSUME NEW q \in Queues
        PROVE  /\ v.queue[q] \in Seq(Threads) /\ IsInjective(v.queue[q])
               /\ \A x : Contains(v.queue[q], x) <=> Contains(u.queue[q], x) /\ x # t
    <2>1. v.queue[q] = RemoveFirst(u.queue[q], t)
      BY DEF rt_list_remove, Lists, KernelType
    <2>2. u.queue[q] \in Seq(Threads) /\ IsInjective(u.queue[q])
      BY DEF Lists, KernelType
    <2> QED BY <2>1, <2>2, RemoveFirstList
  <1>3. /\ v.stat = u.stat /\ v.prio = u.prio /\ v.timer = u.timer /\ v.error = u.error
        /\ v.current = u.current /\ v.lock_nest = u.lock_nest /\ v.group = u.group
    BY DEF rt_list_remove, Lists, KernelType
  <1>4. v \in KernelType
    <2>1. [p \in Prios |-> RemoveFirst(u.ready[p], t)] \in [Prios -> Seq(Threads)]
      BY <1>1 DEF rt_list_remove, Lists, KernelType
    <2>2. [q \in Queues |-> RemoveFirst(u.queue[q], t)] \in [Queues -> Seq(Threads)]
      BY <1>2 DEF rt_list_remove, Lists, KernelType
    <2> QED BY <2>1, <2>2 DEF rt_list_remove, Lists, KernelType
  <1> HIDE DEF v
  <1>5. Lists(v)
    BY <1>1, <1>2, <1>3, <1>4 DEF Lists
  <1> QED BY <1>1, <1>2, <1>3, <1>5 DEF v, Listed, Queued

\* rt_schedule_remove_thread takes the thread off whatever list it is on and
\* keeps the bitmap right.
LEMMA RemoveEffect ==
    ASSUME NEW u, Lists(u), NEW t \in Threads
    PROVE  LET v == rt_schedule_remove_thread(u, t)
           IN  /\ Lists(v)
               /\ \A x \in Threads : Listed(v, x) <=> Listed(u, x) /\ x # t
               /\ \A q \in Queues, x \in Threads : Queued(v, q, x) <=> Queued(u, q, x) /\ x # t
               /\ v.stat = u.stat /\ v.prio = u.prio /\ v.timer = u.timer /\ v.error = u.error
               /\ v.current = u.current /\ v.lock_nest = u.lock_nest
  <1> DEFINE w == rt_list_remove(u, t)
             v == rt_schedule_remove_thread(u, t)
  <1>1. ASSUME NEW p \in Prios
        PROVE  /\ w.ready[p] \in Seq(Threads) /\ IsInjective(w.ready[p])
               /\ \A x : Contains(w.ready[p], x) <=> Contains(u.ready[p], x) /\ x # t
               /\ p # u.prio[t] => w.ready[p] = u.ready[p]
    <2>1. w.ready[p] = RemoveFirst(u.ready[p], t)
      BY DEF rt_list_remove, Lists, KernelType
    <2>2. u.ready[p] \in Seq(Threads) /\ IsInjective(u.ready[p])
      BY DEF Lists, KernelType
    <2>3. p # u.prio[t] => w.ready[p] = u.ready[p]
      BY <2>1 DEF Lists, RemoveFirst, Contains
    <2> QED BY <2>1, <2>2, <2>3, RemoveFirstList
  <1>2. ASSUME NEW q \in Queues
        PROVE  /\ w.queue[q] \in Seq(Threads) /\ IsInjective(w.queue[q])
               /\ \A x : Contains(w.queue[q], x) <=> Contains(u.queue[q], x) /\ x # t
    <2>1. w.queue[q] = RemoveFirst(u.queue[q], t)
      BY DEF rt_list_remove, Lists, KernelType
    <2>2. u.queue[q] \in Seq(Threads) /\ IsInjective(u.queue[q])
      BY DEF Lists, KernelType
    <2> QED BY <2>1, <2>2, RemoveFirstList
  <1>3. /\ w \in KernelType /\ u \in KernelType
        /\ w.stat = u.stat /\ w.prio = u.prio /\ w.timer = u.timer /\ w.error = u.error
        /\ w.current = u.current /\ w.lock_nest = u.lock_nest /\ w.group = u.group
    <2>1. [p \in Prios |-> RemoveFirst(u.ready[p], t)] \in [Prios -> Seq(Threads)]
      BY <1>1 DEF rt_list_remove, Lists, KernelType
    <2>2. [q \in Queues |-> RemoveFirst(u.queue[q], t)] \in [Queues -> Seq(Threads)]
      BY <1>2 DEF rt_list_remove, Lists, KernelType
    <2> QED BY <2>1, <2>2 DEF rt_list_remove, Lists, KernelType
  <1> HIDE DEF w
  <1>4. /\ v.ready = w.ready /\ v.queue = w.queue /\ v \in KernelType
        /\ v.stat = u.stat /\ v.prio = u.prio /\ v.timer = u.timer /\ v.error = u.error
        /\ v.current = u.current /\ v.lock_nest = u.lock_nest
        /\ v.group = IF w.ready[u.prio[t]] = << >> THEN u.group \ {u.prio[t]} ELSE u.group
    BY <1>3 DEF rt_schedule_remove_thread, w, KernelType
  <1> HIDE DEF v
  <1>5. u.prio[t] \in Prios
    BY <1>3 DEF KernelType
  <1>6. w.ready[u.prio[t]] # << >> => u.ready[u.prio[t]] # << >>
    <2>1. w.ready[u.prio[t]] # << >> => \E x : Contains(w.ready[u.prio[t]], x)
      BY <1>1, <1>5, EmptyList
    <2>2. u.ready[u.prio[t]] \in Seq(Threads)
      BY <1>3, <1>5 DEF KernelType
    <2> QED BY <2>1, <2>2, <1>1, <1>5, EmptyList
  <1>7. v.group = {p \in Prios : v.ready[p] # << >>}
    <2>1. u.group = {p \in Prios : u.ready[p] # << >>}
      BY DEF Lists
    <2>2. \A p \in Prios : p # u.prio[t] => v.ready[p] = u.ready[p]
      BY <1>1, <1>4
    <2> QED BY <2>1, <2>2, <1>4, <1>5, <1>6
  <1>8. Lists(v)
    <2>1. \A p \in Prios : IsInjective(v.ready[p])
      BY <1>1, <1>4
    <2>2. \A q \in Queues : IsInjective(v.queue[q])
      BY <1>2, <1>4
    <2>3. ASSUME NEW p \in Prios, NEW x \in Threads, Contains(v.ready[p], x)
          PROVE  v.prio[x] = p
      <3>1. Contains(w.ready[p], x)
        BY <2>3, <1>4
      <3>2. Contains(u.ready[p], x)
        BY <3>1, <1>1
      <3> QED BY <3>2, <1>4 DEF Lists
    <2> QED BY <2>1, <2>2, <2>3, <1>4, <1>7 DEF Lists
  <1> QED BY <1>1, <1>2, <1>4, <1>8 DEF Listed, Queued, v

\* rt_schedule_insert_thread of a thread that is on no ready list makes it ready
\* at the end of the list of its priority and keeps the bitmap right.
LEMMA InsertEffect ==
    ASSUME NEW u, Lists(u), NEW t \in Threads, ~Listed(u, t)
    PROVE  LET v == rt_schedule_insert_thread(u, t)
           IN  /\ Lists(v)
               /\ \A x \in Threads : Listed(v, x) <=> Listed(u, x) \/ x = t
               /\ v.queue = u.queue
               /\ v.stat = [u.stat EXCEPT ![t] = "ready"]
               /\ v.prio = u.prio /\ v.timer = u.timer /\ v.error = u.error
               /\ v.current = u.current /\ v.lock_nest = u.lock_nest
  <1> DEFINE v == rt_schedule_insert_thread(u, t)
             n == u.prio[t]
  <1>1. u \in KernelType /\ n \in Prios /\ u.ready[n] \in Seq(Threads) /\ u.stat \in [Threads -> Stats]
    BY DEF Lists, KernelType
  <1>2. /\ Append(u.ready[n], t) \in Seq(Threads) /\ IsInjective(Append(u.ready[n], t))
        /\ \A x : Contains(Append(u.ready[n], t), x) <=> Contains(u.ready[n], x) \/ x = t
    BY <1>1, AppendList DEF Listed, Lists
  <1>3. Append(u.ready[n], t) # << >>
    BY <1>1
  <1>4. /\ v.ready = [u.ready EXCEPT ![n] = Append(u.ready[n], t)]
        /\ v.queue = u.queue /\ v.stat = [u.stat EXCEPT ![t] = "ready"]
        /\ v.prio = u.prio /\ v.timer = u.timer /\ v.error = u.error
        /\ v.current = u.current /\ v.lock_nest = u.lock_nest
        /\ v.group = u.group \cup {n}
    BY <1>1 DEF rt_schedule_insert_thread, KernelType
  <1>5. v \in KernelType
    <2>1. [u.ready EXCEPT ![n] = Append(u.ready[n], t)] \in [Prios -> Seq(Threads)]
      BY <1>1, <1>2 DEF KernelType
    <2>2. [u.stat EXCEPT ![t] = "ready"] \in [Threads -> Stats]
      BY <1>1 DEF Stats
    <2> QED BY <2>1, <2>2, <1>1 DEF rt_schedule_insert_thread, KernelType
  <1> HIDE DEF v
  <1>6. \A p \in Prios : v.ready[p] = IF p = n THEN Append(u.ready[n], t) ELSE u.ready[p]
    BY <1>1, <1>4 DEF KernelType
  <1>7. v.group = {p \in Prios : v.ready[p] # << >>}
    <2>1. u.group = {p \in Prios : u.ready[p] # << >>}
      BY DEF Lists
    <2>2. ASSUME NEW p \in Prios PROVE p \in u.group \cup {n} <=> v.ready[p] # << >>
      BY ONLY <1>3, <1>6, <2>1, <2>2
    <2>3. v.group \subseteq Prios
      BY ONLY <1>1, <1>4, <2>1
    <2> QED BY ONLY <1>4, <2>2, <2>3
  <1>8. \A p \in Prios, x \in Threads :
           Contains(v.ready[p], x) <=> Contains(u.ready[p], x) \/ (x = t /\ p = n)
    BY <1>2, <1>6
  <1>9. Lists(v)
    <2>1. \A p \in Prios : IsInjective(v.ready[p])
      BY <1>2, <1>6 DEF Lists
    <2>2. \A q \in Queues : IsInjective(v.queue[q])
      BY <1>4 DEF Lists
    <2>3. \A p \in Prios, x \in Threads : Contains(v.ready[p], x) => v.prio[x] = p
      BY <1>4, <1>8 DEF Lists
    <2> QED BY ONLY <1>5, <1>7, <2>1, <2>2, <2>3 DEF Lists
  <1> QED BY <1>1, <1>4, <1>8, <1>9 DEF Listed, v

\* A queue takes thread t, at any place.
LEMMA EnqueueEffect ==
    ASSUME NEW u, Lists(u), NEW t \in Threads, NEW q \in Queues, ~Queued(u, q, t),
           NEW l \in Seq(Threads), IsInjective(l),
           \A x : Contains(l, x) <=> Contains(u.queue[q], x) \/ x = t
    PROVE  LET v == [u EXCEPT !.queue[q] = l]
           IN  /\ Lists(v)
               /\ \A x \in Threads : Listed(v, x) <=> Listed(u, x)
               /\ \A r \in Queues, x \in Threads : Queued(v, r, x) <=> Queued(u, r, x) \/ (r = q /\ x = t)
               /\ v.stat = u.stat /\ v.prio = u.prio /\ v.timer = u.timer /\ v.error = u.error
               /\ v.current = u.current /\ v.lock_nest = u.lock_nest
  <1> DEFINE v == [u EXCEPT !.queue[q] = l]
  <1>1. /\ v.ready = u.ready /\ v.group = u.group
        /\ v.queue = [u.queue EXCEPT ![q] = l]
        /\ v.stat = u.stat /\ v.prio = u.prio /\ v.timer = u.timer /\ v.error = u.error
        /\ v.current = u.current /\ v.lock_nest = u.lock_nest
    BY DEF Lists, KernelType
  <1>2. v \in KernelType
    BY DEF Lists, KernelType
  <1> HIDE DEF v
  <1>3. \A r \in Queues : v.queue[r] = IF r = q THEN l ELSE u.queue[r]
    BY <1>1 DEF Lists, KernelType
  <1>4. Lists(v)
    BY <1>1, <1>2, <1>3 DEF Lists
  <1> QED BY <1>1, <1>3, <1>4 DEF Listed, Queued, v

\* rt_schedule finds a thread on the ready list of the highest priority.
LEMMA HighestReady ==
    ASSUME NEW u, Lists(u), NEW x \in Threads, Listed(u, x)
    PROVE  LET p == highest_ready_priority(u)
           IN  /\ p \in Prios /\ u.ready[p] # << >>
               /\ Head(u.ready[p]) \in Threads /\ Listed(u, Head(u.ready[p]))
  <1>1. u.group \in SUBSET Nat /\ u.group \subseteq Prios
    BY KernelAssumption DEF Lists, KernelType, Prios
  <1>2. \A p \in Prios : u.ready[p] \in Seq(Threads)
    BY DEF Lists, KernelType
  <1>3. u.group # {}
    <2>1. PICK p \in Prios : Contains(u.ready[p], x)
      BY DEF Listed
    <2>2. u.ready[p] # << >>
      BY <2>1, <1>2, EmptyList
    <2> QED BY <2>1, <2>2 DEF Lists
  <1>4. \E p \in u.group : \A q \in u.group : p <= q
    BY <1>1, <1>3, LeastElement
  <1>5. highest_ready_priority(u) \in u.group
    BY <1>4 DEF highest_ready_priority
  <1>6. u.ready[highest_ready_priority(u)] # << >> /\ highest_ready_priority(u) \in Prios
    BY <1>5 DEF Lists
  <1> QED BY <1>2, <1>6, EmptyList DEF Listed

\* A thread other than the first one of the highest ready priority leaves its
\* lists: the first one stays where it is.
LEMMA HeadKept ==
    ASSUME NEW u, Lists(u), NEW x \in Threads, Listed(u, x), NEW t \in Threads,
           t # Head(u.ready[highest_ready_priority(u)])
    PROVE  LET v == rt_schedule_remove_thread(u, t)
           IN  Head(v.ready[highest_ready_priority(v)]) = Head(u.ready[highest_ready_priority(u)])
  <1> DEFINE v == rt_schedule_remove_thread(u, t)
             p == highest_ready_priority(u)
             n == highest_ready_priority(v)
  <1>1. p \in Prios /\ u.ready[p] # << >>
    BY HighestReady
  <1>2. u.group \in SUBSET Nat /\ u.group # {}
    BY <1>1, KernelAssumption DEF Lists, Prios
  <1>3. p \in u.group /\ \A q \in u.group : p <= q
    BY <1>2, LeastElement DEF highest_ready_priority
  <1> HIDE DEF p
  <1>4. Lists(v)
    BY RemoveEffect
  <1>5. /\ v.ready[p] = RemoveFirst(u.ready[p], t)
        /\ v.group \subseteq u.group
    BY <1>1 DEF rt_schedule_remove_thread, rt_list_remove, Lists, KernelType
  <1> HIDE DEF v
  <1>6. v.ready[p] # << >> /\ Head(v.ready[p]) = Head(u.ready[p])
    <2>1. u.ready[p] \in Seq(Threads) /\ IsInjective(u.ready[p])
      BY <1>1 DEF Lists, KernelType
    <2> QED BY <1>1, <1>5, <2>1, RemoveFirstHead DEF p
  <1>7. p \in v.group
    BY <1>1, <1>4, <1>6 DEF Lists
  <1>8. n = p
    <2>1. \A q \in v.group : p <= q
      BY <1>3, <1>5
    <2>2. n \in v.group /\ \A q \in v.group : n <= q
      BY <1>7, <2>1 DEF highest_ready_priority
    <2> QED BY <1>2, <1>5, <1>7, <2>1, <2>2
  <1> QED BY <1>6, <1>8 DEF v, p

\* move_to_tail changes the order of one ready list only.
LEMMA MoveLists ==
    ASSUME NEW u, Lists(u), u.current \in Threads, Listed(u, u.current),
           \A q \in Queues : ~Queued(u, q, u.current)
    PROVE  LET v == move_to_tail(u)
           IN  /\ Lists(v)
               /\ \A x \in Threads : Listed(v, x) <=> Listed(u, x)
               /\ v.queue = u.queue
               /\ v.stat = u.stat /\ v.prio = u.prio /\ v.timer = u.timer /\ v.error = u.error
               /\ v.current = u.current /\ v.lock_nest = u.lock_nest
  <1> DEFINE t == u.current
             n == u.prio[t]
             w == rt_list_remove(u, t)
             v == move_to_tail(u)
  <1>1. u \in KernelType /\ Lists(u) /\ n \in Prios /\ t \in Threads
    BY DEF Lists, KernelType
  <1>2. \A q \in Queues : ~Contains(u.queue[q], t)
    BY DEF Queued
  <1>3. Contains(u.ready[n], t) /\ \A p \in Prios : p # n => ~Contains(u.ready[p], t)
    BY <1>1 DEF Listed, Lists
  <1> HIDE DEF n
  <1>4. /\ w.ready = [p \in Prios |-> RemoveFirst(u.ready[p], t)]
        /\ w.queue = [q \in Queues |-> RemoveFirst(u.queue[q], t)]
        /\ w.stat = u.stat /\ w.prio = u.prio /\ w.timer = u.timer /\ w.error = u.error
        /\ w.current = u.current /\ w.lock_nest = u.lock_nest /\ w.group = u.group
    BY <1>1 DEF rt_list_remove, KernelType
  <1>5. w.queue = u.queue
    <2>1. \A q \in Queues : RemoveFirst(u.queue[q], t) = u.queue[q]
      BY <1>2 DEF RemoveFirst, Contains
    <2>2. u.queue \in [Queues -> Seq(Threads)]
      BY <1>1 DEF KernelType
    <2> QED BY <1>4, <2>1, <2>2
  <1>6. \A p \in Prios : p # n => w.ready[p] = u.ready[p]
    BY <1>3, <1>4 DEF RemoveFirst, Contains
  <1> DEFINE r == RemoveFirst(u.ready[n], t)
             a == Append(r, t)
  <1>7. /\ r \in Seq(Threads) /\ IsInjective(r)
        /\ \A x : Contains(r, x) <=> Contains(u.ready[n], x) /\ x # t
    <2>1. u.ready[n] \in Seq(Threads) /\ IsInjective(u.ready[n])
      BY <1>1 DEF Lists, KernelType
    <2> QED BY <2>1, RemoveFirstList
  <1>8. w.ready[n] = r
    BY <1>1, <1>4
  <1> HIDE DEF r
  <1>9. /\ a \in Seq(Threads) /\ IsInjective(a)
        /\ \A x : Contains(a, x) <=> Contains(r, x) \/ x = t
    BY <1>1, <1>7, AppendList
  <1>10. a # << >>
    BY <1>7
  <1> HIDE DEF w
  <1>11. v = [w EXCEPT !.ready[n] = a]
    BY <1>8 DEF move_to_tail, w, n
  <1> HIDE DEF a
  <1>12. \A x : Contains(a, x) <=> Contains(u.ready[n], x)
    BY <1>3, <1>7, <1>9
  <1>13. w \in KernelType
    <2>1. w.ready \in [Prios -> Seq(Threads)]
      <3>1. \A p \in Prios : w.ready[p] \in Seq(Threads)
        BY <1>1, <1>6, <1>7, <1>8 DEF KernelType
      <3> QED BY <1>4, <3>1
    <2> QED BY <1>1, <1>4, <1>5, <2>1 DEF KernelType, w, rt_list_remove
  <1>14. /\ v.ready = [w.ready EXCEPT ![n] = a] /\ v.queue = w.queue /\ v.group = w.group
         /\ v.stat = w.stat /\ v.prio = w.prio /\ v.timer = w.timer /\ v.error = w.error
         /\ v.current = w.current /\ v.lock_nest = w.lock_nest
    BY <1>11, <1>13 DEF KernelType
  <1>15. v \in KernelType
    <2>1. [w.ready EXCEPT ![n] = a] \in [Prios -> Seq(Threads)]
      BY <1>9, <1>13 DEF KernelType
    <2> QED BY <1>11, <1>13, <2>1 DEF KernelType
  <1> HIDE DEF v
  <1>16. \A p \in Prios : v.ready[p] = IF p = n THEN a ELSE u.ready[p]
    BY <1>6, <1>13, <1>14 DEF KernelType
  <1>17. \A p \in Prios, x \in Threads : Contains(v.ready[p], x) <=> Contains(u.ready[p], x)
    BY <1>12, <1>16
  <1>18. \A x \in Threads : Listed(v, x) <=> Listed(u, x)
    BY <1>17 DEF Listed
  <1>20. u.ready[n] # << >>
    <2>1. u.ready[n] \in Seq(Threads)
      BY <1>1 DEF KernelType
    <2> QED BY <1>3, <2>1, EmptyList
  <1>21. v.group = {p \in Prios : v.ready[p] # << >>}
    BY <1>1, <1>4, <1>10, <1>14, <1>16, <1>20 DEF Lists
  <1>22. Lists(v)
    <2>1. \A p \in Prios : IsInjective(v.ready[p])
      BY <1>1, <1>9, <1>16 DEF Lists
    <2>2. \A p \in Prios, x \in Threads : Contains(v.ready[p], x) => v.prio[x] = p
      BY <1>1, <1>4, <1>14, <1>17 DEF Lists
    <2> QED BY <1>1, <1>5, <1>14, <1>15, <1>21, <2>1, <2>2 DEF Lists
  <1> QED BY <1>4, <1>5, <1>14, <1>18, <1>22 DEF v

-----------------------------------------------------------------------------
(* Settled tables                                                          *)
(*                                                                         *)
(* The IPC modules start from started threads, never kill one and never    *)
(* lock the scheduler. Their tables are all of this kind, between any two  *)
(* critical sections.                                                      *)

\* A thread is on a ready list exactly while it is READY, and only a suspended
\* one is on a wait list or has a running timer.
Settled(u) ==
    /\ Lists(u) /\ u.lock_nest = 0
    /\ \A x \in Threads : u.stat[x] \in {"ready", "suspend"}
    /\ \A x \in Threads : Listed(u, x) <=> u.stat[x] = "ready"
    /\ \A q \in Queues, x \in Threads : Queued(u, q, x) => u.stat[x] = "suspend"
    /\ \A x \in u.timer : u.stat[x] = "suspend"

\* From table u to v thread t has become ready with error e.
MadeReady(u, v, t, e) ==
    /\ Settled(v)
    /\ v.stat = [u.stat EXCEPT ![t] = "ready"] /\ v.error = [u.error EXCEPT ![t] = e]
    /\ v.timer = u.timer \ {t}
    /\ v.queue = [q \in Queues |-> RemoveFirst(u.queue[q], t)]
    /\ v.prio = u.prio /\ v.current = u.current

\* From table u to v thread t has suspended itself on list q.
PutToWait(u, v, t, q, flag) ==
    /\ Settled(v)
    /\ v.stat = [u.stat EXCEPT ![t] = "suspend"]
    /\ v.error = u.error /\ v.timer = u.timer
    /\ \A r \in Queues : r # q => v.queue[r] = u.queue[r]
    /\ \A x : Contains(v.queue[q], x) <=> Contains(u.queue[q], x) \/ x = t
    /\ flag = "RT_IPC_FLAG_PRIO" /\ Ordered(u.queue[q], u.prio) => Ordered(v.queue[q], u.prio)
    /\ v.prio = u.prio /\ v.current = u.current

\* What a settled table is made of.
LEMMA SettledType ==
    ASSUME NEW u, Settled(u)
    PROVE  /\ u \in KernelType
           /\ u.stat \in [Threads -> Stats] /\ u.error \in [Threads -> Errors]
           /\ u.prio \in [Threads -> Int] /\ u.timer \subseteq Threads
           /\ \A q \in Queues : u.queue[q] \in Seq(Threads) /\ IsInjective(u.queue[q])
           /\ u.queue \in [Queues -> Seq(Threads)]
  BY KernelAssumption DEF Settled, Lists, KernelType, Prios

\* A table that differs from a settled one in errors, timers of suspended
\* threads and the current thread only is settled.
LEMMA FieldsSettled ==
    ASSUME NEW u, Settled(u), NEW v \in KernelType,
           v.ready = u.ready, v.queue = u.queue, v.group = u.group,
           v.stat = u.stat, v.prio = u.prio, v.lock_nest = u.lock_nest,
           \A x \in v.timer : u.stat[x] = "suspend"
    PROVE  Settled(v)
  <1>1. Lists(v)
    BY DEF Settled, Lists
  <1>2. \A x : Listed(v, x) <=> Listed(u, x)
    BY DEF Listed
  <1>3. \A q, x : Queued(v, q, x) <=> Queued(u, q, x)
    BY DEF Queued
  <1> QED BY <1>1, <1>2, <1>3 DEF Settled

\* An IPC call sets the error of the thread it is about to suspend.
LEMMA ErrorSettled ==
    ASSUME NEW u, Settled(u), NEW t \in Threads, NEW e \in Errors
    PROVE  LET v == [u EXCEPT !.error[t] = e]
           IN  /\ Settled(v) /\ v.error = [u.error EXCEPT ![t] = e]
               /\ v.stat = u.stat /\ v.timer = u.timer /\ v.queue = u.queue
               /\ v.prio = u.prio /\ v.current = u.current
  <1> DEFINE v == [u EXCEPT !.error[t] = e]
  <1>0. u \in KernelType /\ [u.error EXCEPT ![t] = e] \in [Threads -> Errors]
    BY SettledType
  <1>1. /\ v \in KernelType /\ v.error = [u.error EXCEPT ![t] = e]
        /\ v.ready = u.ready /\ v.queue = u.queue /\ v.group = u.group
        /\ v.stat = u.stat /\ v.prio = u.prio /\ v.timer = u.timer
        /\ v.current = u.current /\ v.lock_nest = u.lock_nest
    BY <1>0 DEF KernelType
  <1> HIDE DEF v
  <1>2. Settled(v)
    BY <1>1, FieldsSettled DEF Settled
  <1> QED BY <1>1, <1>2 DEF v

\* rt_timer_start of the timer of a suspended thread.
LEMMA TimerSettled ==
    ASSUME NEW u, Settled(u), NEW t \in Threads, u.stat[t] = "suspend"
    PROVE  LET v == rt_timer_start(u, t)
           IN  /\ Settled(v) /\ v.timer = u.timer \cup {t}
               /\ v.stat = u.stat /\ v.error = u.error /\ v.queue = u.queue
               /\ v.prio = u.prio /\ v.current = u.current
  <1> DEFINE v == rt_timer_start(u, t)
  <1>0. u \in KernelType
    BY SettledType
  <1>1. /\ v \in KernelType /\ v.timer = u.timer \cup {t}
        /\ v.ready = u.ready /\ v.queue = u.queue /\ v.group = u.group
        /\ v.stat = u.stat /\ v.prio = u.prio /\ v.error = u.error
        /\ v.current = u.current /\ v.lock_nest = u.lock_nest
    BY <1>0 DEF rt_timer_start, KernelType
  <1> HIDE DEF v
  <1>2. \A x \in v.timer : u.stat[x] = "suspend"
    BY <1>1 DEF Settled
  <1>3. Settled(v)
    BY <1>1, <1>2, FieldsSettled
  <1> QED BY <1>1, <1>3 DEF v

\* Any thread that is not on a list is not changed by its removal.
LEMMA NotOnList ==
    ASSUME NEW s, NEW t, ~Contains(s, t)
    PROVE  RemoveFirst(s, t) = s
  BY DEF RemoveFirst, Contains

\* A suspended thread that has left its wait list enters the ready table.
LEMMA InsertSettled ==
    ASSUME NEW u, Settled(u), NEW t \in Threads, u.stat[t] = "suspend", NEW e,
           NEW w \in KernelType,
           w.ready = u.ready, w.queue = [q \in Queues |-> RemoveFirst(u.queue[q], t)],
           w.group = u.group, w.stat = u.stat, w.prio = u.prio, w.timer = u.timer \ {t},
           w.error = [u.error EXCEPT ![t] = e], w.current = u.current, w.lock_nest = u.lock_nest
    PROVE  MadeReady(u, rt_schedule_insert_thread(w, t), t, e)
  <1> DEFINE v == rt_schedule_insert_thread(w, t)
  <1>1. ASSUME NEW q \in Queues
        PROVE  /\ w.queue[q] \in Seq(Threads) /\ IsInjective(w.queue[q])
               /\ \A x : Contains(w.queue[q], x) <=> Contains(u.queue[q], x) /\ x # t
    <2>1. w.queue[q] = RemoveFirst(u.queue[q], t)
      OBVIOUS
    <2>2. u.queue[q] \in Seq(Threads) /\ IsInjective(u.queue[q])
      BY SettledType
    <2> QED BY <2>1, <2>2, RemoveFirstList
  <1>2. Lists(w)
    BY <1>1 DEF Settled, Lists
  <1>3. \A x : Listed(w, x) <=> Listed(u, x)
    BY DEF Listed
  <1>4. ~Listed(w, t)
    BY <1>3 DEF Settled
  <1>5. /\ Lists(v)
        /\ \A x \in Threads : Listed(v, x) <=> Listed(w, x) \/ x = t
        /\ v.queue = w.queue
        /\ v.stat = [w.stat EXCEPT ![t] = "ready"]
        /\ v.prio = w.prio /\ v.timer = w.timer /\ v.error = w.error
        /\ v.current = w.current /\ v.lock_nest = w.lock_nest
    BY <1>2, <1>4, InsertEffect
  <1> HIDE DEF v
  <1>6. u.stat \in [Threads -> Stats] /\ u.timer \subseteq Threads
    BY SettledType
  <1>7. \A x \in Threads : v.stat[x] = IF x = t THEN "ready" ELSE u.stat[x]
    BY <1>5, <1>6
  <1>8. \A q \in Queues, x \in Threads : Queued(v, q, x) <=> Queued(u, q, x) /\ x # t
    BY <1>1, <1>5 DEF Queued
  <1>9. Settled(v)
    <2>1. v.lock_nest = 0 /\ \A x \in Threads : v.stat[x] \in {"ready", "suspend"}
      BY <1>5, <1>7 DEF Settled
    <2>2. \A x \in Threads : Listed(v, x) <=> v.stat[x] = "ready"
      BY <1>3, <1>5, <1>7 DEF Settled
    <2>3. \A q \in Queues, x \in Threads : Queued(v, q, x) => v.stat[x] = "suspend"
      BY <1>7, <1>8 DEF Settled
    <2>4. \A x \in v.timer : v.stat[x] = "suspend"
      BY <1>5, <1>6, <1>7 DEF Settled
    <2> QED BY <1>5, <2>1, <2>2, <2>3, <2>4 DEF Settled
  <1> QED BY <1>5, <1>9 DEF MadeReady, v

\* rt_list_remove of a suspended thread only takes it off the wait lists.
LEMMA UnlinkSettled ==
    ASSUME NEW u, Settled(u), NEW t \in Threads, u.stat[t] = "suspend",
           NEW w \in KernelType, w.ready = u.ready, w.queue = u.queue
    PROVE  LET v == rt_list_remove(w, t)
           IN  /\ v \in KernelType
               /\ v.ready = u.ready /\ v.queue = [q \in Queues |-> RemoveFirst(u.queue[q], t)]
               /\ v.group = w.group /\ v.stat = w.stat /\ v.prio = w.prio /\ v.timer = w.timer
               /\ v.error = w.error /\ v.current = w.current /\ v.lock_nest = w.lock_nest
  <1> DEFINE v == rt_list_remove(w, t)
             l == [q \in Queues |-> RemoveFirst(u.queue[q], t)]
             r == [p \in Prios |-> RemoveFirst(u.ready[p], t)]
  <1>1. r = u.ready
    <2>1. \A p \in Prios : ~Contains(u.ready[p], t)
      BY DEF Settled, Listed
    <2>2. \A p \in Prios : RemoveFirst(u.ready[p], t) = u.ready[p]
      BY <2>1, NotOnList
    <2>3. u.ready \in [Prios -> Seq(Threads)]
      BY DEF Settled, Lists, KernelType
    <2> QED BY <2>2, <2>3
  <1>2. l \in [Queues -> Seq(Threads)]
    <2>1. ASSUME NEW q \in Queues PROVE RemoveFirst(u.queue[q], t) \in Seq(Threads)
      <3>1. u.queue[q] \in Seq(Threads) /\ IsInjective(u.queue[q])
        BY SettledType
      <3> QED BY <3>1, RemoveFirstList
    <2> QED BY <2>1
  <1>3. r \in [Prios -> Seq(Threads)]
    BY <1>1 DEF Settled, Lists, KernelType
  <1>4. v = [[w EXCEPT !.ready = r] EXCEPT !.queue = l]
    BY DEF rt_list_remove
  <1> HIDE DEF l, r, v
  <1>5. /\ v \in KernelType /\ v.ready = r /\ v.queue = l
        /\ v.group = w.group /\ v.stat = w.stat /\ v.prio = w.prio /\ v.timer = w.timer
        /\ v.error = w.error /\ v.current = w.current /\ v.lock_nest = w.lock_nest
    BY <1>2, <1>3, <1>4 DEF KernelType
  <1> QED BY <1>1, <1>5 DEF v, l

\* rt_thread_resume of a suspended thread.
LEMMA ResumeSettled ==
    ASSUME NEW u, Settled(u), NEW t \in Threads, u.stat[t] = "suspend"
    PROVE  MadeReady(u, rt_thread_resume(u, t), t, u.error[t])
  <1> DEFINE w == rt_list_remove(u, t)
             x == resume_unlink(u, t)
  <1>1. u \in KernelType /\ [u.error EXCEPT ![t] = u.error[t]] = u.error
    BY SettledType
  <1>2. /\ w \in KernelType
        /\ w.ready = u.ready /\ w.queue = [q \in Queues |-> RemoveFirst(u.queue[q], t)]
        /\ w.group = u.group /\ w.stat = u.stat /\ w.prio = u.prio /\ w.timer = u.timer
        /\ w.error = u.error /\ w.current = u.current /\ w.lock_nest = u.lock_nest
    BY <1>1, UnlinkSettled
  <1>3. x = rt_timer_stop(w, t)
    BY DEF resume_unlink
  <1> HIDE DEF w, x
  <1>4. /\ x \in KernelType /\ x.ready = w.ready /\ x.queue = w.queue /\ x.group = w.group
        /\ x.stat = w.stat /\ x.prio = w.prio /\ x.timer = w.timer \ {t}
        /\ x.error = w.error /\ x.current = w.current /\ x.lock_nest = w.lock_nest
    BY <1>2, <1>3 DEF rt_timer_stop, KernelType
  <1>5. MadeReady(u, rt_schedule_insert_thread(x, t), t, u.error[t])
    BY <1>1, <1>2, <1>4, InsertSettled
  <1> QED BY <1>5 DEF rt_thread_resume, x

\* The expiry of the timer of a suspended thread.
LEMMA TimeoutSettled ==
    ASSUME NEW u, Settled(u), NEW t \in Threads, u.stat[t] = "suspend"
    PROVE  MadeReady(u, rt_thread_timeout(u, t), t, "RT_ETIMEOUT")
  <1> DEFINE w == [rt_timer_stop(u, t) EXCEPT !.error[t] = "RT_ETIMEOUT"]
             x == rt_list_remove(w, t)
  <1>1. u \in KernelType /\ [u.error EXCEPT ![t] = "RT_ETIMEOUT"] \in [Threads -> Errors]
    BY SettledType DEF Errors
  <1>2. /\ w \in KernelType /\ w.ready = u.ready /\ w.queue = u.queue /\ w.group = u.group
        /\ w.stat = u.stat /\ w.prio = u.prio /\ w.timer = u.timer \ {t}
        /\ w.error = [u.error EXCEPT ![t] = "RT_ETIMEOUT"]
        /\ w.current = u.current /\ w.lock_nest = u.lock_nest
    BY <1>1 DEF rt_timer_stop, KernelType
  <1> HIDE DEF w
  <1>3. /\ x \in KernelType
        /\ x.ready = u.ready /\ x.queue = [q \in Queues |-> RemoveFirst(u.queue[q], t)]
        /\ x.group = w.group /\ x.stat = w.stat /\ x.prio = w.prio /\ x.timer = w.timer
        /\ x.error = w.error /\ x.current = w.current /\ x.lock_nest = w.lock_nest
    BY <1>2, UnlinkSettled
  <1> HIDE DEF x
  <1>4. MadeReady(u, rt_schedule_insert_thread(x, t), t, "RT_ETIMEOUT")
    BY <1>2, <1>3, InsertSettled
  <1> QED BY <1>4 DEF rt_thread_timeout, x, w

\* One turn of rt_ipc_list_resume_all.
LEMMA TurnAwaySettled ==
    ASSUME NEW u, Settled(u), NEW t \in Threads, u.stat[t] = "suspend"
    PROVE  MadeReady(u, turn_away(u, t), t, "RT_ERROR")
  <1> DEFINE w == [u EXCEPT !.error[t] = "RT_ERROR"]
             v == rt_thread_resume(w, t)
  <1>1. /\ Settled(w) /\ w.error = [u.error EXCEPT ![t] = "RT_ERROR"]
        /\ w.stat = u.stat /\ w.timer = u.timer /\ w.queue = u.queue
        /\ w.prio = u.prio /\ w.current = u.current
    BY ErrorSettled DEF Errors
  <1> HIDE DEF w
  <1>2. MadeReady(w, v, t, w.error[t])
    BY <1>1, ResumeSettled
  <1>3. u.error \in [Threads -> Errors]
    BY SettledType
  <1>4. w.error[t] = "RT_ERROR" /\ [w.error EXCEPT ![t] = "RT_ERROR"] = [u.error EXCEPT ![t] = "RT_ERROR"]
    BY <1>1, <1>3
  <1> HIDE DEF v
  <1>5. MadeReady(u, v, t, "RT_ERROR")
    BY <1>1, <1>2, <1>4 DEF MadeReady
  <1> QED BY <1>5 DEF turn_away, v, w

\* rt_thread_suspend of a thread that runs.
LEMMA SuspendSettled ==
    ASSUME NEW u, Settled(u), NEW t \in Threads, u.stat[t] = "ready"
    PROVE  LET v == rt_thread_suspend(u, t)
           IN  /\ Settled(v)
               /\ v.stat = [u.stat EXCEPT ![t] = "suspend"]
               /\ v.error = u.error /\ v.timer = u.timer /\ v.queue = u.queue
               /\ v.prio = u.prio /\ v.current = u.current
  <1> DEFINE w == [u EXCEPT !.stat[t] = "suspend"]
             r == rt_schedule_remove_thread(w, t)
             v == rt_thread_suspend(u, t)
  <1>0. u \in KernelType /\ [u.stat EXCEPT ![t] = "suspend"] \in [Threads -> Stats]
    BY SettledType DEF Stats
  <1>1. /\ w \in KernelType /\ w.stat = [u.stat EXCEPT ![t] = "suspend"]
        /\ w.ready = u.ready /\ w.queue = u.queue /\ w.group = u.group
        /\ w.prio = u.prio /\ w.timer = u.timer /\ w.error = u.error
        /\ w.current = u.current /\ w.lock_nest = u.lock_nest
    BY <1>0 DEF KernelType
  <1>2. v = rt_timer_stop(r, t)
    BY DEF rt_thread_suspend
  <1> HIDE DEF w
  <1>3. Lists(w) /\ \A x : Listed(w, x) <=> Listed(u, x)
    BY <1>1 DEF Settled, Lists, Listed
  <1>4. /\ Lists(r)
        /\ \A x \in Threads : Listed(r, x) <=> Listed(w, x) /\ x # t
        /\ \A q \in Queues, x \in Threads : Queued(r, q, x) <=> Queued(w, q, x) /\ x # t
        /\ r.stat = w.stat /\ r.prio = w.prio /\ r.timer = w.timer /\ r.error = w.error
        /\ r.current = w.current /\ r.lock_nest = w.lock_nest
    BY <1>3, RemoveEffect
  <1>5. r.queue = u.queue
    <2>1. r.queue = [q \in Queues |-> RemoveFirst(w.queue[q], t)]
      BY <1>1 DEF rt_schedule_remove_thread, rt_list_remove, KernelType
    <2>2. \A q \in Queues : ~Contains(w.queue[q], t)
      BY <1>1 DEF Settled, Queued
    <2>3. \A q \in Queues : RemoveFirst(w.queue[q], t) = w.queue[q]
      BY <2>2, NotOnList
    <2>4. w.queue \in [Queues -> Seq(Threads)]
      BY <1>1 DEF KernelType
    <2> QED BY <2>1, <2>3, <2>4, <1>1
  <1> HIDE DEF r
  <1>6. /\ v \in KernelType /\ v.ready = r.ready /\ v.queue = r.queue /\ v.group = r.group
        /\ v.stat = r.stat /\ v.prio = r.prio /\ v.timer = r.timer \ {t} /\ v.error = r.error
        /\ v.current = r.current /\ v.lock_nest = r.lock_nest
    BY <1>2, <1>4 DEF rt_timer_stop, Lists, KernelType
  <1> HIDE DEF v
  <1>7. Lists(v) /\ \A x : Listed(v, x) <=> Listed(r, x)
    BY <1>4, <1>6 DEF Lists, Listed
  <1>8. v.timer = u.timer
    <2>1. t \notin u.timer
      BY DEF Settled
    <2> QED BY <2>1, <1>1, <1>4, <1>6
  <1>9. \A x \in Threads : v.stat[x] = IF x = t THEN "suspend" ELSE u.stat[x]
    <2>1. v.stat = [u.stat EXCEPT ![t] = "suspend"] /\ u.stat \in [Threads -> Stats]
      BY <1>1, <1>4, <1>6, SettledType
    <2> QED BY <2>1
  <1>10. Settled(v)
    <2>1. v.lock_nest = 0 /\ \A x \in Threads : v.stat[x] \in {"ready", "suspend"}
      BY <1>1, <1>4, <1>6, <1>9 DEF Settled
    <2>2. \A x \in Threads : Listed(v, x) <=> v.stat[x] = "ready"
      BY <1>3, <1>4, <1>7, <1>9 DEF Settled
    <2>3. \A q \in Queues, x \in Threads : Queued(v, q, x) => v.stat[x] = "suspend"
      BY <1>5, <1>6, <1>9 DEF Settled, Queued
    <2>4. \A x \in v.timer : v.stat[x] = "suspend"
      <3>1. u.timer \subseteq Threads
        BY SettledType
      <3> QED BY <3>1, <1>8, <1>9 DEF Settled
    <2> QED BY <1>7, <2>1, <2>2, <2>3, <2>4 DEF Settled
  <1> QED BY <1>1, <1>4, <1>5, <1>6, <1>8, <1>10 DEF v

\* rt_ipc_list_suspend of a thread that runs: it is linked on list q, and the
\* list of a priority object stays ordered.
LEMMA IpcSuspendSettled ==
    ASSUME NEW u, Settled(u), NEW t \in Threads, u.stat[t] = "ready",
           NEW q \in Queues, NEW flag
    PROVE  PutToWait(u, rt_ipc_list_suspend(u, q, t, flag), t, q, flag)
  <1> DEFINE w     == rt_thread_suspend(u, t)
             s     == w.queue[q]
             lower == {i \in DOMAIN s : w.prio[t] < w.prio[s[i]]}
             pos   == IF flag = "RT_IPC_FLAG_PRIO" /\ lower # {}
                      THEN CHOOSE i \in lower : \A j \in lower : i <= j
                      ELSE Len(s) + 1
             l     == InsertAt(s, pos, t)
             v     == rt_ipc_list_suspend(u, q, t, flag)
  <1>1. v = [w EXCEPT !.queue[q] = l]
    BY DEF rt_ipc_list_suspend
  <1>2. /\ Settled(w)
        /\ w.stat = [u.stat EXCEPT ![t] = "suspend"]
        /\ w.error = u.error /\ w.timer = u.timer /\ w.queue = u.queue
        /\ w.prio = u.prio /\ w.current = u.current
    BY SuspendSettled
  <1> HIDE DEF w
  <1>3. /\ s \in Seq(Threads) /\ IsInjective(s) /\ w \in KernelType
        /\ Len(s) \in Nat /\ DOMAIN s = 1 .. Len(s)
        /\ w.prio \in [Threads -> Int]
    BY <1>2, SettledType
  <1>4. ~Contains(s, t)
    BY <1>2 DEF Settled, Queued
  <1> HIDE DEF s
  <1>5. lower # {} => /\ \A j \in lower : (CHOOSE i \in lower : \A m \in lower : i <= m) <= j
                      /\ (CHOOSE i \in lower : \A m \in lower : i <= m) \in lower
    <2> SUFFICES ASSUME lower # {}
                 PROVE  \E i \in lower : \A m \in lower : i <= m
      OBVIOUS
    <2>1. lower \in SUBSET Nat
      BY <1>3
    <2> HIDE DEF lower
    <2> QED BY <2>1, LeastElement
  <1>6. /\ pos \in 1 .. Len(s) + 1
        /\ flag = "RT_IPC_FLAG_PRIO" =>
              /\ \A j \in lower : pos <= j
              /\ pos <= Len(s) => pos \in lower
    <2>1. lower \subseteq 1 .. Len(s)
      BY <1>3
    <2> DEFINE first == CHOOSE i \in lower : \A m \in lower : i <= m
    <2>2. lower # {} => first \in lower /\ \A j \in lower : first <= j
      BY <1>5
    <2>3. pos = IF flag = "RT_IPC_FLAG_PRIO" /\ lower # {} THEN first ELSE Len(s) + 1
      OBVIOUS
    <2> HIDE DEF lower, first, pos
    <2>4. CASE flag = "RT_IPC_FLAG_PRIO" /\ lower # {}
      <3>1. pos = first /\ first \in lower /\ \A j \in lower : pos <= j
        BY <2>2, <2>3, <2>4
      <3>2. Len(s) \in Nat
        BY <1>3
      <3> QED BY ONLY <3>1, <3>2, <2>1
    <2>5. CASE ~(flag = "RT_IPC_FLAG_PRIO" /\ lower # {})
      <3>1. pos = Len(s) + 1 /\ Len(s) \in Nat
        BY <2>3, <2>5, <1>3
      <3>2. flag = "RT_IPC_FLAG_PRIO" => lower = {}
        BY <2>5
      <3> QED BY ONLY <3>1, <3>2
    <2> QED BY <2>4, <2>5
  <1>7. /\ flag = "RT_IPC_FLAG_PRIO" =>
              /\ \A j \in 1 .. Len(s) : j < pos => w.prio[s[j]] <= w.prio[t]
              /\ pos <= Len(s) => w.prio[t] < w.prio[s[pos]]
    <2> SUFFICES ASSUME flag = "RT_IPC_FLAG_PRIO"
                 PROVE  /\ \A j \in 1 .. Len(s) : j < pos => w.prio[s[j]] <= w.prio[t]
                        /\ pos <= Len(s) => w.prio[t] < w.prio[s[pos]]
      OBVIOUS
    <2> HIDE DEF pos
    <2>1. /\ \A j \in 1 .. Len(s) : w.prio[s[j]] \in Int
          /\ w.prio[t] \in Int
      <3>1. \A j \in 1 .. Len(s) : s[j] \in Threads
        BY <1>3
      <3>2. \A x \in Threads : w.prio[x] \in Int
        BY <1>3
      <3> QED BY <3>1, <3>2
    <2>2. ASSUME NEW j \in 1 .. Len(s), j < pos PROVE w.prio[s[j]] <= w.prio[t]
      <3>1. j \notin lower
        BY <1>3, <1>6, <2>2
      <3> QED BY <3>1, <1>3, <2>1
    <2>3. pos <= Len(s) => w.prio[t] < w.prio[s[pos]]
      BY <1>6
    <2> QED BY <2>2, <2>3
  <1> HIDE DEF lower, pos
  <1>8. /\ l \in Seq(Threads) /\ IsInjective(l)
        /\ \A x : Contains(l, x) <=> Contains(s, x) \/ x = t
    BY <1>3, <1>4, <1>6, InsertList
  <1>9. flag = "RT_IPC_FLAG_PRIO" /\ Ordered(s, w.prio) => Ordered(l, w.prio)
    BY <1>3, <1>6, <1>7, InsertOrdered
  <1> HIDE DEF l
  <1>10. Lists(w) /\ ~Queued(w, q, t)
    BY <1>2, <1>4 DEF Settled, Queued, s
  <1>11. \A x : Contains(l, x) <=> Contains(w.queue[q], x) \/ x = t
    BY <1>8 DEF s
  <1>12. /\ Lists(v)
         /\ \A x \in Threads : Listed(v, x) <=> Listed(w, x)
         /\ \A r \in Queues, x \in Threads : Queued(v, r, x) <=> Queued(w, r, x) \/ (r = q /\ x = t)
         /\ v.stat = w.stat /\ v.prio = w.prio /\ v.timer = w.timer /\ v.error = w.error
         /\ v.current = w.current /\ v.lock_nest = w.lock_nest
    <2> DEFINE n == [w EXCEPT !.queue[q] = l]
    <2>1. /\ Lists(n)
          /\ \A x \in Threads : Listed(n, x) <=> Listed(w, x)
          /\ \A r \in Queues, x \in Threads : Queued(n, r, x) <=> Queued(w, r, x) \/ (r = q /\ x = t)
          /\ n.stat = w.stat /\ n.prio = w.prio /\ n.timer = w.timer /\ n.error = w.error
          /\ n.current = w.current /\ n.lock_nest = w.lock_nest
      <3>1. l \in Seq(Threads) /\ IsInjective(l) /\ t \in Threads /\ q \in Queues
        BY <1>8
      <3> QED BY ONLY <1>10, <1>11, <3>1, EnqueueEffect
    <2>2. v = n
      BY <1>1
    <2> HIDE DEF n, v
    <2> QED BY <2>1, <2>2
  <1>13. v.queue = [w.queue EXCEPT ![q] = l]
    BY <1>1, <1>3 DEF KernelType
  <1> HIDE DEF v
  <1>14. w.queue \in [Queues -> Seq(Threads)]
    BY <1>3 DEF KernelType
  <1>15. w.stat[t] = "suspend"
    BY <1>2, SettledType
  <1>16. Settled(v)
    <2>1. v.lock_nest = 0 /\ \A x \in Threads : v.stat[x] \in {"ready", "suspend"}
      BY <1>2, <1>12 DEF Settled
    <2>2. \A x \in Threads : Listed(v, x) <=> v.stat[x] = "ready"
      BY <1>2, <1>12 DEF Settled
    <2>3. \A r \in Queues, x \in Threads : Queued(v, r, x) => v.stat[x] = "suspend"
      BY <1>2, <1>12, <1>15 DEF Settled
    <2>4. \A x \in v.timer : v.stat[x] = "suspend"
      BY <1>2, <1>12 DEF Settled
    <2> QED BY <1>12, <2>1, <2>2, <2>3, <2>4 DEF Settled
  <1>17. \A r \in Queues : v.queue[r] = IF r = q THEN l ELSE w.queue[r]
    BY <1>13, <1>14
  <1>18. /\ \A r \in Queues : r # q => v.queue[r] = u.queue[r]
         /\ v.queue[q] = l /\ s = u.queue[q]
    BY <1>2, <1>17 DEF s
  <1> QED BY <1>2, <1>8, <1>9, <1>12, <1>16, <1>18 DEF PutToWait, v

\* rt_schedule only changes the current thread, and to a READY one.
LEMMA ScheduleSettled ==
    ASSUME NEW u, Settled(u), NEW x \in Threads, u.stat[x] = "ready"
    PROVE  LET v == rt_schedule(u)
           IN  /\ Settled(v) /\ v.current \in Threads /\ v.stat[v.current] = "ready"
               /\ v.stat = u.stat /\ v.error = u.error /\ v.timer = u.timer
               /\ v.queue = u.queue /\ v.prio = u.prio
  <1> DEFINE v == rt_schedule(u)
             c == Head(u.ready[highest_ready_priority(u)])
  <1>1. Lists(u) /\ Listed(u, x)
    BY DEF Settled
  <1>2. c \in Threads /\ Listed(u, c)
    BY <1>1, HighestReady
  <1>3. v = [u EXCEPT !.current = c]
    BY DEF rt_schedule, Settled
  <1> HIDE DEF c
  <1>4. /\ v \in KernelType /\ v.current = c
        /\ v.ready = u.ready /\ v.queue = u.queue /\ v.group = u.group
        /\ v.stat = u.stat /\ v.prio = u.prio /\ v.timer = u.timer /\ v.error = u.error
        /\ v.lock_nest = u.lock_nest
    BY <1>1, <1>2, <1>3 DEF Lists, KernelType
  <1> HIDE DEF v
  <1>5. Settled(v)
    BY <1>4, FieldsSettled DEF Settled
  <1> QED BY <1>2, <1>4, <1>5 DEF Settled, v

\* The slice of the current thread ends.
LEMMA MoveSettled ==
    ASSUME NEW u, Settled(u), u.current \in Threads, u.stat[u.current] = "ready"
    PROVE  LET v == move_to_tail(u)
           IN  /\ Settled(v)
               /\ v.stat = u.stat /\ v.error = u.error /\ v.timer = u.timer
               /\ v.queue = u.queue /\ v.prio = u.prio /\ v.current = u.current
  <1> DEFINE v == move_to_tail(u)
  <1>1. Lists(u) /\ Listed(u, u.current) /\ \A q \in Queues : ~Queued(u, q, u.current)
    BY DEF Settled
  <1>2. /\ Lists(v)
        /\ \A x \in Threads : Listed(v, x) <=> Listed(u, x)
        /\ v.queue = u.queue
        /\ v.stat = u.stat /\ v.prio = u.prio /\ v.timer = u.timer /\ v.error = u.error
        /\ v.current = u.current /\ v.lock_nest = u.lock_nest
    BY <1>1, MoveLists
  <1> HIDE DEF v
  <1>3. Settled(v)
    BY <1>2 DEF Settled, Queued
  <1> QED BY <1>2, <1>3 DEF v

\* RT_THREAD_CTRL_CHANGE_PRIORITY: a READY thread moves to the list of its new
\* priority; one that is suspended keeps its place.
LEMMA ControlSettled ==
    ASSUME NEW u, Settled(u), NEW t \in Threads, NEW p \in Prios
    PROVE  LET v == rt_thread_control(u, t, p)
           IN  /\ Settled(v) /\ v.prio = [u.prio EXCEPT ![t] = p]
               /\ v.stat = u.stat /\ v.error = u.error /\ v.timer = u.timer
               /\ v.queue = u.queue /\ v.current = u.current
  <1> DEFINE v == rt_thread_control(u, t, p)
  <1>0. u \in KernelType /\ Lists(u) /\ u.stat[t] \in {"ready", "suspend"}
    BY SettledType DEF Settled
  <1>1. CASE u.stat[t] = "ready"
    <2> DEFINE r == rt_schedule_remove_thread(u, t)
               w == [r EXCEPT !.prio[t] = p]
    <2>1. v = rt_schedule_insert_thread(w, t)
      BY <1>1 DEF rt_thread_control
    <2>2. /\ Lists(r)
          /\ \A x \in Threads : Listed(r, x) <=> Listed(u, x) /\ x # t
          /\ r.stat = u.stat /\ r.prio = u.prio /\ r.timer = u.timer /\ r.error = u.error
          /\ r.current = u.current /\ r.lock_nest = u.lock_nest
      BY <1>0, RemoveEffect
    <2>3. r.queue = u.queue
      <3>1. r.queue = [q \in Queues |-> RemoveFirst(u.queue[q], t)]
        BY <1>0 DEF rt_schedule_remove_thread, rt_list_remove, KernelType
      <3>2. \A q \in Queues : ~Contains(u.queue[q], t)
        BY <1>1 DEF Settled, Queued
      <3>3. \A q \in Queues : RemoveFirst(u.queue[q], t) = u.queue[q]
        BY <3>2, NotOnList
      <3>4. u.queue \in [Queues -> Seq(Threads)]
        BY <1>0 DEF KernelType
      <3> QED BY <3>1, <3>3, <3>4
    <2> HIDE DEF r
    <2>4. /\ w \in KernelType /\ w.prio = [u.prio EXCEPT ![t] = p]
          /\ w.ready = r.ready /\ w.queue = r.queue /\ w.group = r.group
          /\ w.stat = r.stat /\ w.timer = r.timer /\ w.error = r.error
          /\ w.current = r.current /\ w.lock_nest = r.lock_nest
      <3>1. r \in KernelType /\ [r.prio EXCEPT ![t] = p] \in [Threads -> Prios]
        BY <2>2 DEF Lists, KernelType
      <3> QED BY <2>2, <3>1 DEF KernelType
    <2> HIDE DEF w
    <2>5. \A n \in Prios : ~Contains(r.ready[n], t)
      BY <2>2 DEF Listed
    <2>6. Lists(w)
      <3>1. u.prio \in [Threads -> Prios]
        BY <1>0 DEF KernelType
      <3>2. ASSUME NEW n \in Prios, NEW x \in Threads, Contains(w.ready[n], x) PROVE w.prio[x] = n
        <4>1. x # t /\ r.prio[x] = n
          BY <2>2, <2>4, <2>5, <3>2 DEF Lists
        <4> QED BY <2>2, <2>4, <3>1, <4>1
      <3> QED BY <2>2, <2>4, <3>2 DEF Lists
    <2>7. ~Listed(w, t) /\ \A x \in Threads : Listed(w, x) <=> Listed(u, x) /\ x # t
      BY <2>2, <2>4, <2>5 DEF Listed
    <2>8. /\ Lists(v)
          /\ \A x \in Threads : Listed(v, x) <=> Listed(w, x) \/ x = t
          /\ v.queue = w.queue /\ v.stat = [w.stat EXCEPT ![t] = "ready"]
          /\ v.prio = w.prio /\ v.timer = w.timer /\ v.error = w.error
          /\ v.current = w.current /\ v.lock_nest = w.lock_nest
      BY <2>1, <2>6, <2>7, InsertEffect
    <2> HIDE DEF v
    <2>9. v.stat = u.stat
      <3>1. u.stat \in [Threads -> Stats]
        BY SettledType
      <3> QED BY <1>1, <2>2, <2>4, <2>8, <3>1
    <2>10. /\ v.timer = u.timer /\ v.error = u.error /\ v.queue = u.queue
           /\ v.prio = [u.prio EXCEPT ![t] = p] /\ v.current = u.current
           /\ v.lock_nest = u.lock_nest
      BY <2>2, <2>3, <2>4, <2>8
    <2>11. Settled(v)
      <3>1. \A x \in Threads : Listed(v, x) <=> v.stat[x] = "ready"
        BY <1>1, <2>7, <2>8, <2>9 DEF Settled
      <3> QED BY <2>8, <2>9, <2>10, <3>1 DEF Settled, Queued
    <2> QED BY <2>9, <2>10, <2>11 DEF v
  <1>2. CASE u.stat[t] = "suspend"
    <2>1. /\ v \in KernelType /\ v.prio = [u.prio EXCEPT ![t] = p]
          /\ v.ready = u.ready /\ v.queue = u.queue /\ v.group = u.group
          /\ v.stat = u.stat /\ v.timer = u.timer /\ v.error = u.error
          /\ v.current = u.current /\ v.lock_nest = u.lock_nest
      BY <1>0, <1>2 DEF rt_thread_control, KernelType
    <2> HIDE DEF v
    <2>2. \A n \in Prios : ~Contains(u.ready[n], t)
      BY <1>2 DEF Settled, Listed
    <2>3. Lists(v)
      <3>1. u.prio \in [Threads -> Prios]
        BY <1>0 DEF KernelType
      <3> QED BY <1>0, <2>1, <2>2, <3>1 DEF Lists
    <2>4. Settled(v)
      BY <2>1, <2>3 DEF Settled, Queued, Listed
    <2> QED BY <2>1, <2>4 DEF v
  <1> QED BY <1>0, <1>1, <1>2

-----------------------------------------------------------------------------
(* The loop of rt_ipc_list_resume_all                                      *)

\* r[i] is the table u after i turns, each with the next thread of l.
Turns(r, u, l, n) ==
    r = [i \in 0 .. n |-> IF i = 0 THEN u ELSE turn_away(r[i - 1], l[i])]

\* The tables of the turns exist: by induction on their number, stated as the
\* absence of a least number without them.
LEMMA TurnsExist ==
    ASSUME NEW u, NEW l, NEW n \in Nat
    PROVE  \E r : Turns(r, u, l, n)
  <1> DEFINE P(m) == \E r : Turns(r, u, l, m)
  <1>1. P(0)
    <2> DEFINE r == [i \in 0 .. 0 |-> u]
    <2>1. Turns(r, u, l, 0)
      BY DEF Turns
    <2> QED BY <2>1
  <1>2. ASSUME NEW m \in Nat, P(m) PROVE P(m + 1)
    <2>1. PICK r : Turns(r, u, l, m)
      BY <1>2
    <2> DEFINE g == [i \in 0 .. m + 1 |-> IF i = m + 1 THEN turn_away(r[m], l[m + 1]) ELSE r[i]]
    <2>2. \A i \in 0 .. m : g[i] = r[i]
      OBVIOUS
    <2>3. g[m + 1] = turn_away(g[m], l[m + 1])
      OBVIOUS
    <2>4. \A i \in 0 .. m : r[i] = IF i = 0 THEN u ELSE turn_away(r[i - 1], l[i])
      BY <2>1 DEF Turns
    <2>5. g = [i \in 0 .. m + 1 |-> g[i]]
      OBVIOUS
    <2> HIDE DEF g
    <2>6. ASSUME NEW i \in 0 .. m + 1 PROVE g[i] = IF i = 0 THEN u ELSE turn_away(g[i - 1], l[i])
      <3>1. CASE i = m + 1
        BY <3>1, <2>3
      <3>2. CASE i \in 0 .. m /\ i # 0
        <4>1. i - 1 \in 0 .. m
          BY <3>2
        <4> QED BY <4>1, <3>2, <2>2, <2>4
      <3>3. CASE i = 0
        BY <3>3, <2>2, <2>4
      <3> QED BY <3>1, <3>2, <3>3
    <2>7. Turns(g, u, l, m + 1)
      BY <2>5, <2>6 DEF Turns
    <2> QED BY <2>7
  <1> HIDE DEF P
  <1>3. P(n)
    <2> DEFINE B == {m \in Nat : ~P(m)}
    <2> SUFFICES ASSUME B # {} PROVE FALSE
      OBVIOUS
    <2>1. PICK m \in B : \A q \in B : m <= q
      BY LeastElement
    <2>2. m # 0
      BY <1>1
    <2>3. m - 1 \in Nat /\ ~(m <= m - 1) /\ m = (m - 1) + 1
      BY <2>2
    <2>4. P(m - 1)
      BY <2>1, <2>3
    <2> QED BY <2>3, <2>4, <1>2
  <1> QED BY <1>3 DEF P

\* resume_all is the table after the last turn.
LEMMA ResumeAllTurns ==
    ASSUME NEW u, NEW q, u.queue[q] \in Seq(Threads)
    PROVE  \E r : /\ Turns(r, u, u.queue[q], Len(u.queue[q]))
                  /\ resume_all(u, q) = r[Len(u.queue[q])]
  <1> DEFINE l == u.queue[q]
             resume[i \in 0 .. Len(l)] == IF i = 0 THEN u ELSE turn_away(resume[i - 1], l[i])
  <1>1. Len(l) \in Nat
    OBVIOUS
  <1>2. resume_all(u, q) = resume[Len(l)]
    BY DEF resume_all
  <1>3. resume = CHOOSE r : r = [i \in 0 .. Len(l) |-> IF i = 0 THEN u ELSE turn_away(r[i - 1], l[i])]
    OBVIOUS
  <1>4. \E r : r = [i \in 0 .. Len(l) |-> IF i = 0 THEN u ELSE turn_away(r[i - 1], l[i])]
    BY <1>1, TurnsExist DEF Turns
  <1>5. Turns(resume, u, l, Len(l))
    <2> HIDE DEF resume
    <2> QED BY <1>3, <1>4 DEF Turns
  <1> QED BY <1>2, <1>5

\* From table u to v the first i threads of list l have been turned away.
TurnedAway(u, v, l, i) ==
    LET gone(x) == \E j \in 1 .. i : l[j] = x
    IN  /\ Settled(v) /\ v.prio = u.prio /\ v.current = u.current
        /\ \A x \in Threads : v.stat[x] = IF gone(x) THEN "ready" ELSE u.stat[x]
        /\ \A x \in Threads : v.error[x] = IF gone(x) THEN "RT_ERROR" ELSE u.error[x]
        /\ \A x \in Threads : x \in v.timer <=> x \in u.timer /\ ~gone(x)
        /\ \A r \in Queues, x \in Threads : Queued(v, r, x) <=> Queued(u, r, x) /\ ~gone(x)
        /\ \A r \in Queues : (\A j \in 1 .. i : ~Queued(u, r, l[j])) => v.queue[r] = u.queue[r]

\* One more turn.
LEMMA NextTurn ==
    ASSUME NEW u, Settled(u), NEW l \in Seq(Threads), IsInjective(l), NEW i \in 1 .. Len(l),
           u.stat[l[i]] = "suspend", NEW v, TurnedAway(u, v, l, i - 1)
    PROVE  TurnedAway(u, turn_away(v, l[i]), l, i)
  <1> DEFINE t == l[i]
             w == turn_away(v, t)
             gone(x) == \E j \in 1 .. i - 1 : l[j] = x
             past(x) == \E j \in 1 .. i : l[j] = x
  <1>1. t \in Threads /\ i \in Nat /\ i # 0
    OBVIOUS
  <1>2. ~gone(t)
    BY DEF IsInjective
  <1>3. \A x : past(x) <=> gone(x) \/ x = t
    <2>1. 1 .. i = 1 .. i - 1 \cup {i}
      BY <1>1
    <2> QED BY <2>1
  <1>4. (\A r \in Queues : (\A j \in 1 .. i : ~Queued(u, r, l[j])) =>
             (\A j \in 1 .. i - 1 : ~Queued(u, r, l[j])) /\ ~Queued(u, r, t))
    BY <1>1
  <1>5. /\ Settled(v) /\ v.prio = u.prio /\ v.current = u.current
        /\ \A x \in Threads : v.stat[x] = IF gone(x) THEN "ready" ELSE u.stat[x]
        /\ \A x \in Threads : v.error[x] = IF gone(x) THEN "RT_ERROR" ELSE u.error[x]
        /\ \A x \in Threads : x \in v.timer <=> x \in u.timer /\ ~gone(x)
        /\ \A r \in Queues, x \in Threads : Queued(v, r, x) <=> Queued(u, r, x) /\ ~gone(x)
        /\ \A r \in Queues : (\A j \in 1 .. i - 1 : ~Queued(u, r, l[j])) => v.queue[r] = u.queue[r]
    BY DEF TurnedAway
  <1> HIDE DEF gone, past
  <1>6. v.stat[t] = "suspend"
    BY <1>1, <1>2, <1>5
  <1> HIDE DEF t
  <1>7. MadeReady(v, w, t, "RT_ERROR")
    BY <1>1, <1>5, <1>6, TurnAwaySettled
  <1> HIDE DEF w
  <1>8. /\ v.stat \in [Threads -> Stats] /\ v.error \in [Threads -> Errors]
        /\ v.queue \in [Queues -> Seq(Threads)]
    BY <1>5, SettledType
  <1>9. ASSUME NEW r \in Queues
        PROVE  /\ \A x : Contains(w.queue[r], x) <=> Contains(v.queue[r], x) /\ x # t
               /\ ~Contains(v.queue[r], t) => w.queue[r] = v.queue[r]
    <2>1. w.queue[r] = RemoveFirst(v.queue[r], t)
      BY <1>7 DEF MadeReady
    <2>2. v.queue[r] \in Seq(Threads) /\ IsInjective(v.queue[r])
      BY <1>5, SettledType
    <2> QED BY <2>1, <2>2, RemoveFirstList, NotOnList
  <1>10. \A x \in Threads : w.stat[x] = IF past(x) THEN "ready" ELSE u.stat[x]
    BY <1>1, <1>3, <1>5, <1>7, <1>8 DEF MadeReady
  <1>11. \A x \in Threads : w.error[x] = IF past(x) THEN "RT_ERROR" ELSE u.error[x]
    BY <1>1, <1>3, <1>5, <1>7, <1>8 DEF MadeReady
  <1>12. \A x \in Threads : x \in w.timer <=> x \in u.timer /\ ~past(x)
    BY <1>3, <1>5, <1>7 DEF MadeReady
  <1>13. \A r \in Queues, x \in Threads : Queued(w, r, x) <=> Queued(u, r, x) /\ ~past(x)
    BY <1>3, <1>5, <1>9 DEF Queued
  <1>14. ASSUME NEW r \in Queues, \A j \in 1 .. i : ~Queued(u, r, l[j])
         PROVE  w.queue[r] = u.queue[r]
    <2>1. (\A j \in 1 .. i - 1 : ~Queued(u, r, l[j])) /\ ~Queued(u, r, t)
      BY <1>4, <1>14
    <2>2. v.queue[r] = u.queue[r]
      BY <2>1, <1>5
    <2> QED BY <2>1, <2>2, <1>9 DEF Queued
  <1>15. Settled(w) /\ w.prio = u.prio /\ w.current = u.current
    BY <1>5, <1>7 DEF MadeReady
  <1>16. TurnedAway(u, w, l, i)
    BY <1>10, <1>11, <1>12, <1>13, <1>14, <1>15 DEF TurnedAway, past
  <1> QED BY <1>16 DEF w, t

\* rt_ipc_list_resume_all turns every waiter of the list away and nobody else.
LEMMA ResumeAllSettled ==
    ASSUME NEW u, Settled(u), NEW q \in Queues
    PROVE  LET v == resume_all(u, q)
           IN  /\ Settled(v) /\ v.prio = u.prio /\ v.current = u.current
               /\ \A x \in Threads : v.stat[x] = IF Queued(u, q, x) THEN "ready" ELSE u.stat[x]
               /\ \A x \in Threads : v.error[x] = IF Queued(u, q, x) THEN "RT_ERROR" ELSE u.error[x]
               /\ \A x \in Threads : x \in v.timer <=> x \in u.timer /\ ~Queued(u, q, x)
               /\ \A r \in Queues, x \in Threads :
                     Queued(v, r, x) <=> Queued(u, r, x) /\ ~Queued(u, q, x)
               /\ \A r \in Queues : (\A x \in Threads : ~(Queued(u, q, x) /\ Queued(u, r, x))) =>
                     v.queue[r] = u.queue[r]
  <1> DEFINE l == u.queue[q]
             n == Len(l)
             v == resume_all(u, q)
  <1>1. l \in Seq(Threads) /\ IsInjective(l) /\ n \in Nat
    <2>1. l \in Seq(Threads) /\ IsInjective(l)
      BY SettledType
    <2> QED BY <2>1
  <1>2. PICK r : Turns(r, u, l, n) /\ v = r[n]
    BY <1>1, ResumeAllTurns
  <1>3. \A i \in 0 .. n : r[i] = IF i = 0 THEN u ELSE turn_away(r[i - 1], l[i])
    BY <1>2 DEF Turns
  <1>4. \A x : Queued(u, q, x) <=> \E j \in 1 .. n : l[j] = x
    BY DEF Queued, Contains
  <1> HIDE DEF v, l, n
  <1>5. \A i \in 1 .. n : l[i] \in Threads /\ u.stat[l[i]] = "suspend"
    <2>1. \A i \in 1 .. n : l[i] \in Threads
      BY <1>1 DEF n
    <2> QED BY <2>1, <1>4 DEF Settled
  <1>6. TurnedAway(u, r[0], l, 0)
    <2>1. r[0] = u
      BY <1>1, <1>3
    <2>2. TurnedAway(u, u, l, 0)
      BY DEF TurnedAway
    <2> QED BY <2>1, <2>2
  <1>7. \A i \in 1 .. n : TurnedAway(u, r[i - 1], l, i - 1) => TurnedAway(u, r[i], l, i)
    <2> SUFFICES ASSUME NEW i \in 1 .. n, TurnedAway(u, r[i - 1], l, i - 1)
                 PROVE  TurnedAway(u, r[i], l, i)
      OBVIOUS
    <2>1. r[i] = turn_away(r[i - 1], l[i])
      BY <1>1, <1>3
    <2>2. i \in 1 .. Len(l)
      BY DEF n
    <2>3. TurnedAway(u, turn_away(r[i - 1], l[i]), l, i)
      BY <1>1, <1>5, <2>2, NextTurn
    <2> QED BY <2>1, <2>3
  <1>8. TurnedAway(u, v, l, n)
    <2> DEFINE B == {i \in 0 .. n : ~TurnedAway(u, r[i], l, i)}
    <2> SUFFICES ASSUME B # {} PROVE FALSE
      BY <1>1, <1>2
    <2>1. B \in SUBSET Nat
      OBVIOUS
    <2>2. PICK m \in B : \A i \in B : m <= i
      <3> HIDE DEF B
      <3> QED BY <2>1, LeastElement
    <2>3. m \in 1 .. n
      BY <1>6, <1>1
    <2>4. m - 1 \in 0 .. n /\ ~(m <= m - 1)
      BY <2>3, <1>1
    <2>5. TurnedAway(u, r[m - 1], l, m - 1)
      BY <2>2, <2>4
    <2> QED BY <2>3, <2>5, <1>7
  <1>9. ASSUME NEW s \in Queues, \A x \in Threads : ~(Queued(u, q, x) /\ Queued(u, s, x))
        PROVE  v.queue[s] = u.queue[s]
    <2>1. \A j \in 1 .. n : ~Queued(u, s, l[j])
      BY <1>4, <1>5, <1>9
    <2> QED BY <2>1, <1>8 DEF TurnedAway
  <1> QED BY <1>4, <1>8, <1>9 DEF TurnedAway, v

-----------------------------------------------------------------------------
\* The models of the IPC objects start from a settled table.
LEMMA AllStartedSettled ==
    ASSUME IsFiniteSet(Threads), Threads # {}
    PROVE  LET v == AllStarted
           IN  /\ Settled(v)
               /\ v.stat = [t \in Threads |-> "ready"] /\ v.error = [t \in Threads |-> "RT_EOK"]
               /\ v.timer = {} /\ v.queue = [q \in Queues |-> << >>]
               /\ v.prio = init_priority /\ v.current \in Threads
               /\ rt_schedule(v).current = v.current
  <1> DEFINE at(p) == {t \in Threads : init_priority[t] = p}
             ready == [p \in Prios |-> SetToSeq(at(p))]
             group == {p \in Prios : at(p) # {}}
             k     == [rt_system_scheduler_init EXCEPT
                          !.stat  = [t \in Threads |-> "ready"],
                          !.ready = ready,
                          !.group = group]
             v     == AllStarted
             c     == Head(k.ready[highest_ready_priority(k)])
  <1>1. ASSUME NEW p \in Prios
        PROVE  /\ ready[p] \in Seq(Threads) /\ IsInjective(ready[p])
               /\ \A x : Contains(ready[p], x) <=> x \in Threads /\ init_priority[x] = p
    <2>1. IsFiniteSet(at(p))
      BY FS_Subset
    <2>2. /\ SetToSeq(at(p)) \in Seq(at(p)) /\ IsInjective(SetToSeq(at(p)))
          /\ \A x : Contains(SetToSeq(at(p)), x) <=> x \in at(p)
      BY <2>1, ListOfSet
    <2>3. ready[p] = SetToSeq(at(p))
      OBVIOUS
    <2>4. at(p) \subseteq Threads
      OBVIOUS
    <2>5. SetToSeq(at(p)) \in Seq(Threads)
      <3> DEFINE z == SetToSeq(at(p))
      <3> HIDE DEF z
      <3> SUFFICES ASSUME z \in Seq(at(p)) PROVE z \in Seq(Threads)
        BY <2>2 DEF z
      <3>1. Len(z) \in Nat /\ z \in [1 .. Len(z) -> at(p)]
        BY LenProperties
      <3>2. z \in [1 .. Len(z) -> Threads]
        BY <3>1
      <3> QED BY <3>1, <3>2, SeqDef
    <2> QED BY <2>2, <2>3, <2>5
  <1>2. \A p \in Prios : ready[p] # << >> <=> at(p) # {}
    <2> SUFFICES ASSUME NEW p \in Prios PROVE ready[p] # << >> <=> at(p) # {}
      OBVIOUS
    <2>1. ready[p] # << >> <=> \E x : Contains(ready[p], x)
      BY <1>1, EmptyList
    <2> QED BY <1>1, <2>1
  <1>3. ready \in [Prios -> Seq(Threads)]
    BY <1>1
  <1>4. group = {p \in Prios : ready[p] # << >>}
    BY <1>2
  <1> HIDE DEF ready, group
  <1>5. /\ k \in KernelType /\ k.ready = ready /\ k.group = group
        /\ k.stat = [t \in Threads |-> "ready"] /\ k.error = [t \in Threads |-> "RT_EOK"]
        /\ k.timer = {} /\ k.queue = [q \in Queues |-> << >>]
        /\ k.prio = init_priority /\ k.lock_nest = 0
    <2> DEFINE i == rt_system_scheduler_init
    <2>1. /\ i \in KernelType
          /\ i.error = [t \in Threads |-> "RT_EOK"] /\ i.timer = {} /\ i.queue = [q \in Queues |-> << >>]
          /\ i.prio = init_priority /\ i.lock_nest = 0
      BY KernelAssumption DEF rt_system_scheduler_init, KernelType, Stats, Errors
    <2> HIDE DEF i
    <2>2. k = [i EXCEPT !.stat = [t \in Threads |-> "ready"], !.ready = ready, !.group = group]
      BY DEF i
    <2>3. [t \in Threads |-> "ready"] \in [Threads -> Stats] /\ group \in SUBSET Prios
      BY <1>4 DEF Stats
    <2> QED BY <1>3, <2>1, <2>2, <2>3 DEF KernelType
  <1>6. v = [k EXCEPT !.current = c]
    BY DEF AllStarted, highest_ready_priority, ready, group
  <1> HIDE DEF k, c
  <1>7. \A q \in Queues : IsInjective(k.queue[q]) /\ \A x : ~Contains(k.queue[q], x)
    BY <1>5 DEF IsInjective, Contains
  <1>8. Lists(k)
    BY <1>1, <1>4, <1>5, <1>7 DEF Lists
  <1>9. ASSUME NEW x \in Threads PROVE Listed(k, x)
    <2>1. init_priority[x] \in Prios
      BY KernelAssumption
    <2> QED BY <2>1, <1>1, <1>5 DEF Listed
  <1>10. Settled(k)
    BY <1>5, <1>7, <1>8, <1>9 DEF Settled, Queued
  <1>11. c \in Threads
    BY <1>8, <1>9, HighestReady DEF c
  <1>12. /\ v \in KernelType /\ v.current = c
         /\ v.ready = k.ready /\ v.queue = k.queue /\ v.group = k.group
         /\ v.stat = k.stat /\ v.prio = k.prio /\ v.timer = k.timer /\ v.error = k.error
         /\ v.lock_nest = k.lock_nest
    BY <1>5, <1>6, <1>11 DEF KernelType
  <1>13. c = Head(v.ready[highest_ready_priority(v)])
    BY <1>12 DEF highest_ready_priority, c
  <1> HIDE DEF v
  <1>14. Settled(v)
    BY <1>10, <1>12, FieldsSettled DEF Settled
  <1>15. rt_schedule(v).current = c
    BY <1>5, <1>11, <1>12, <1>13 DEF rt_schedule, KernelType
  <1> QED BY <1>5, <1>11, <1>12, <1>14, <1>15 DEF v

-----------------------------------------------------------------------------
(* Waiting threads                                                         *)

\* A thread is on a wait list exactly while it is suspended at one of the
\* points W of a call, at[t], on the object of that list, on[t].
WaitersListed(u, at, on, W) ==
    \A t \in Threads, q \in Queues :
        Queued(u, q, t) <=> at[t] \in W /\ on[t] = q /\ u.stat[t] = "suspend"

\* Threads that become ready leave their list; the others keep their places.
LEMMA ReadyWaiters ==
    ASSUME NEW u, Settled(u), NEW t \in Threads, NEW e, NEW v, MadeReady(u, v, t, e),
           NEW at, NEW on, NEW W, WaitersListed(u, at, on, W)
    PROVE  /\ WaitersListed(v, at, on, W)
           /\ \A q \in Queues : /\ \A x : Contains(v.queue[q], x) <=> Contains(u.queue[q], x) /\ x # t
                                /\ on[t] # q => v.queue[q] = u.queue[q]
                                /\ Ordered(u.queue[q], u.prio) => Ordered(v.queue[q], v.prio)
           /\ \A x \in Threads : v.stat[x] = IF x = t THEN "ready" ELSE u.stat[x]
           /\ \A x \in Threads : v.error[x] = IF x = t THEN e ELSE u.error[x]
           /\ v.timer \subseteq u.timer
  <1>1. /\ u.stat \in [Threads -> Stats] /\ u.error \in [Threads -> Errors]
        /\ u.prio \in [Threads -> Int]
    BY SettledType
  <1>2. ASSUME NEW q \in Queues
        PROVE  /\ \A x : Contains(v.queue[q], x) <=> Contains(u.queue[q], x) /\ x # t
               /\ on[t] # q => v.queue[q] = u.queue[q]
               /\ Ordered(u.queue[q], u.prio) => Ordered(v.queue[q], v.prio)
    <2>1. v.queue[q] = RemoveFirst(u.queue[q], t) /\ v.prio = u.prio
      BY DEF MadeReady
    <2>2. u.queue[q] \in Seq(Threads) /\ IsInjective(u.queue[q])
      BY SettledType
    <2>3. on[t] # q => ~Contains(u.queue[q], t)
      BY DEF WaitersListed, Queued
    <2>4. Ordered(u.queue[q], u.prio) => Ordered(RemoveFirst(u.queue[q], t), u.prio)
      BY <1>1, <2>2, UnlinkOrdered
    <2> QED BY <2>1, <2>2, <2>3, <2>4, RemoveFirstList, NotOnList
  <1>3. /\ \A x \in Threads : v.stat[x] = IF x = t THEN "ready" ELSE u.stat[x]
        /\ \A x \in Threads : v.error[x] = IF x = t THEN e ELSE u.error[x]
        /\ v.timer \subseteq u.timer
    BY <1>1 DEF MadeReady
  <1>4. WaitersListed(v, at, on, W)
    BY <1>2, <1>3 DEF WaitersListed, Queued
  <1> QED BY <1>2, <1>3, <1>4

\* A thread that goes to wait joins the list it waits on; the others keep
\* their places.
LEMMA BlockedWaiters ==
    ASSUME NEW u, Settled(u), NEW t \in Threads, u.stat[t] = "ready", NEW q \in Queues, NEW flag,
           NEW v, PutToWait(u, v, t, q, flag),
           NEW at, NEW on, NEW W, WaitersListed(u, at, on, W),
           NEW bt, NEW bn,
           \A x \in Threads : x # t => bt[x] = at[x] /\ bn[x] = on[x],
           bt[t] \in W, bn[t] = q
    PROVE  /\ WaitersListed(v, bt, bn, W)
           /\ \A x \in Threads : v.stat[x] = IF x = t THEN "suspend" ELSE u.stat[x]
  <1>1. u.stat \in [Threads -> Stats]
    BY SettledType
  <1>2. \A x \in Threads : v.stat[x] = IF x = t THEN "suspend" ELSE u.stat[x]
    BY <1>1 DEF PutToWait
  <1>3. \A r \in Queues, x \in Threads : Queued(v, r, x) <=> Queued(u, r, x) \/ (r = q /\ x = t)
    BY DEF PutToWait, Queued
  <1>4. \A r \in Queues : ~Queued(u, r, t)
    BY DEF Settled
  <1>5. ASSUME NEW x \in Threads, NEW r \in Queues
        PROVE  Queued(v, r, x) <=> bt[x] \in W /\ bn[x] = r /\ v.stat[x] = "suspend"
    <2>1. CASE x = t
      BY <2>1, <1>2, <1>3, <1>4
    <2>2. CASE x # t
      BY <2>2, <1>2, <1>3 DEF WaitersListed
    <2> QED BY <2>1, <2>2
  <1> QED BY <1>2, <1>5 DEF WaitersListed
=============================================================================
