------------------------------ MODULE MemPool -------------------------------
(***************************************************************************)
(* The memory pools of mempool.c: rt_mp_alloc, rt_mp_free (by threads and  *)
(* by handlers) and rt_mp_detach (or rt_mp_delete). A block is a member of *)
(* a set; a pool keeps its free blocks on a list that it uses as a stack.  *)
(* As in Semaphore, a pool that is going to be detached is only waited on  *)
(* for ever.                                                               *)
(***************************************************************************)
EXTENDS Ipc

CONSTANTS Pools,        \* their wait lists are the queues
          Blocks,       \* pool -> its blocks
          TimedWaits,   \* whether callers give rt_mp_alloc a waiting time
          MaxSuspended  \* bound on suspend_thread_count

ASSUME MemPoolAssumption ==
    /\ Pools \subseteq Queues /\ TimedWaits \in BOOLEAN /\ MaxSuspended \in Nat
    /\ \A q \in Pools : IsFiniteSet(Blocks[q])

VARIABLES block_free_count, block_list, suspend_thread_count,
          used          \* the blocks that are in the hands of threads and handlers

pool == <<block_free_count, block_list, suspend_thread_count, used>>
MemPoolType ==
    /\ block_free_count \in [Pools -> Nat] /\ suspend_thread_count \in [Pools -> Nat]
    /\ \A q \in Pools : block_list[q] \in Seq(Blocks[q]) /\ used[q] \subseteq Blocks[q]

\* rt_mp_init
MemPoolInit ==
    /\ block_list = [q \in Pools |-> SetToSeq(Blocks[q])]
    /\ block_free_count = [q \in Pools |-> Cardinality(Blocks[q])]
    /\ suspend_thread_count = [q \in Pools |-> 0]
    /\ used = [q \in Pools |-> {}]

-----------------------------------------------------------------------------

\* Faulty: the block stays on the free list.
take_keeping_link(s, q) ==
    /\ block_free_count[q] > 0
    /\ block_free_count' = [block_free_count EXCEPT ![q] = @ - 1]
    /\ used' = [used EXCEPT ![q] = @ \cup {Head(block_list[q])}]
    /\ LeaveCall(s)
    /\ UNCHANGED <<k, block_list, suspend_thread_count>>

take_block(s, q) ==
    /\ block_free_count[q] > 0
    /\ block_free_count' = [block_free_count EXCEPT ![q] = @ - 1]
    /\ block_list' = [block_list EXCEPT ![q] = Tail(@)]
    /\ used' = [used EXCEPT ![q] = @ \cup {Head(block_list[q])}]
    /\ LeaveCall(s)
    /\ UNCHANGED <<k, suspend_thread_count>>

\* The caller goes to the head of the wait list.
wait_block(s, q) ==
    /\ block_free_count[q] = 0 /\ suspend_thread_count[q] < MaxSuspended
    /\ \E timed \in {FALSE, TimedWaits /\ q \notin Deletable} :
          LET u == rt_list_insert_after(
                       rt_thread_suspend([k EXCEPT !.error[s] = "RT_EOK"], s), q, s)
          IN  k' = IF timed THEN rt_timer_start(u, s) ELSE u
    /\ suspend_thread_count' = [suspend_thread_count EXCEPT ![q] = @ + 1]
    /\ Goto(s, "blocked") /\ object' = [object EXCEPT ![s] = q]
    /\ UNCHANGED <<block_free_count, block_list, used>>

rt_mp_alloc(s, q) ==
    /\ Running(s, "user") /\ Usable(q)
    /\ take_block(s, q) \/ wait_block(s, q)
    /\ UNCHANGED dying

\* Back from rt_schedule the caller fails with an error, or goes round the loop:
\* another thread may have taken the block it was woken for. It gives up when
\* its waiting time has run out by then.
alloc_again(s) ==
    /\ Running(s, "woken") /\ object[s] \in Pools
    /\ IF k.error[s] # "RT_EOK"
       THEN LeaveCall(s) /\ UNCHANGED <<k, pool>>
       ELSE \/ take_block(s, object[s])
            \/ wait_block(s, object[s])
            \/ /\ TimedWaits /\ object[s] \notin Deletable /\ block_free_count[object[s]] = 0
               /\ LeaveCall(s) /\ UNCHANGED <<k, pool>>
    /\ UNCHANGED dying

\* A waiter is woken when the counter says there is one.
HasSuspended(q) == suspend_thread_count[q] > 0

\* Faulty: the waiters are counted down whether there are any or not.
free_always_counting(q, b) ==
    /\ block_free_count' = [block_free_count EXCEPT ![q] = @ + 1]
    /\ block_list' = [block_list EXCEPT ![q] = <<b>> \o @]
    /\ used' = [used EXCEPT ![q] = @ \ {b}]
    /\ suspend_thread_count' = [suspend_thread_count EXCEPT ![q] = @ - 1]

\* The section of rt_mp_free
free(q, b) ==
    /\ block_free_count' = [block_free_count EXCEPT ![q] = @ + 1]
    /\ block_list' = [block_list EXCEPT ![q] = <<b>> \o @]
    /\ used' = [used EXCEPT ![q] = @ \ {b}]
    /\ suspend_thread_count' =
          [suspend_thread_count EXCEPT ![q] = IF HasSuspended(q) THEN @ - 1 ELSE @]

\* The counter is trusted: if the list is empty all the same, the bytes around
\* its head are taken for a thread. They lie outside the thread table, and
\* rt_thread_resume returns unless they happen to read RT_THREAD_SUSPEND, which
\* is left out here.
Resume(q) ==
    LET t == Head(k.queue[q])
    IN  IF HasSuspended(q) /\ ~NoWaiter(q)
        THEN rt_thread_resume([k EXCEPT !.error[t] = "RT_EOK"], t) ELSE k

rt_mp_free(s, q, b) ==
    /\ Running(s, "user") /\ Usable(q) /\ b \in used[q]
    /\ free(q, b)
    /\ k' = Resume(q)
    /\ IF HasSuspended(q) THEN Goto(s, "schedule") ELSE UNCHANGED pc
    /\ UNCHANGED <<object, dying>>

isr_free(q, b) ==
    /\ Usable(q) /\ b \in used[q]
    /\ free(q, b)
    /\ k' = IF HasSuspended(q) THEN rt_schedule(Resume(q)) ELSE k
    /\ UNCHANGED <<pc, object, dying>>

rt_mp_detach(s, q) == detach(s, q) /\ UNCHANGED pool

detach_one(s) ==
    /\ resume_one(s) /\ object[s] \in Pools
    /\ suspend_thread_count' = [suspend_thread_count EXCEPT ![object[s]] = @ - 1]
    /\ UNCHANGED <<block_free_count, block_list, used>>

MemPoolNext ==
    \/ \E s \in Threads, q \in Pools : rt_mp_alloc(s, q) \/ rt_mp_detach(s, q)
    \/ \E q \in Pools : \E b \in Blocks[q] :
          isr_free(q, b) \/ \E s \in Threads : rt_mp_free(s, q, b)
    \/ \E s \in Threads : alloc_again(s) \/ detach_one(s)
    \/ Background /\ UNCHANGED pool

-----------------------------------------------------------------------------
(* Properties *)

\* Every block is free once or in use, never both, and the counter of free
\* blocks tells the length of the free list (mempool.c): no block is given to
\* two callers and none gets lost.
BlocksConserved ==
    \A q \in Pools :
        /\ IsInjective(block_list[q])
        /\ Range(block_list[q]) = Blocks[q] \ used[q]
        /\ block_free_count[q] = Len(block_list[q])

\* "numbers of thread pended on this resource" (rtdef.h on
\* suspend_thread_count). rt_mp_free relies on it when it takes the head of the
\* wait list for a thread.
CountsWaiters(q) == suspend_thread_count[q] = Len(k.queue[q])
SuspendCountOK == \A q \in Pools : CountsWaiters(q)

\* No lost wakeup: while threads wait for a pool with free blocks, a thread
\* that was woken for each of these blocks is still on its way to take it.
PoolWakeups ==
    \A q \in Pools \ dying :
        ~NoWaiter(q) => block_free_count[q] <= Cardinality(OnItsWay(q))
=============================================================================
