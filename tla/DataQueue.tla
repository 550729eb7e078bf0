----------------------------- MODULE DataQueue ------------------------------
(***************************************************************************)
(* The data queues of dataqueue.c: rt_data_queue_push and _pop by threads  *)
(* and handlers, and rt_data_queue_reset. A data queue is named by the     *)
(* list of the threads that wait to pop; those that wait to push are woken *)
(* when the queue has run down to its low water mark lwm. evt_notify is    *)
(* left out.                                                               *)
(*                                                                         *)
(* Two rules of use are part of the model. An index never reaches the end  *)
(* of its 16 bits (MaxIndex): the full test compares their difference as   *)
(* an int and fails once put_index has wrapped. A queue that is reset is   *)
(* waited on for ever and left alone by handlers, because the reset looks  *)
(* at the lists with the interrupts enabled.                               *)
(***************************************************************************)
EXTENDS Ipc

CONSTANTS DataQueues,
          suspended_push_list,  \* data queue -> the list of the pushers
          dq_size, dq_lwm,      \* data queue -> its size and low water mark
          data,                 \* thread -> what it pushes; of Idle, what handlers push
          MaxIndex              \* bound on put_index

Pushers == {suspended_push_list[q] : q \in DataQueues}

ASSUME DataQueueAssumption ==
    /\ DataQueues \subseteq Queues /\ suspended_push_list \in [DataQueues -> Queues]
    /\ DataQueues \cap Pushers = {} /\ IsInjective(suspended_push_list)
    /\ \A q \in DataQueues : dq_size[q] \in Nat \ {0} /\ dq_lwm[q] \in 0 .. dq_size[q] - 1
    /\ DOMAIN data = Threads /\ MaxIndex \in Nat

VARIABLE dq             \* data queue -> its fields

DataQueueType ==
    \A q \in DataQueues :
        /\ dq[q].queue \in [0 .. dq_size[q] - 1 -> Range(data)]
        /\ dq[q].put_index \in 0 .. MaxIndex /\ dq[q].get_index \in 0 .. MaxIndex

\* rt_data_queue_init
DataQueueInit ==
    dq = [q \in DataQueues |->
            [queue |-> [i \in 0 .. dq_size[q] - 1 |-> data[Idle]],
             put_index |-> 0, get_index |-> 0]]

-----------------------------------------------------------------------------

Length(q)    == dq[q].put_index - dq[q].get_index
QueueFull(q) == Length(q) = dq_size[q]
QueueEmpty(q) == dq[q].get_index = dq[q].put_index

put_data(q, item) ==
    /\ dq[q].put_index < MaxIndex
    /\ dq' = [dq EXCEPT ![q].queue[dq[q].put_index % dq_size[q]] = item,
                        ![q].put_index = @ + 1]
get_data(q) == dq' = [dq EXCEPT ![q].get_index = @ + 1]

\* Faulty: a pusher is only woken when the queue has become empty.
AtEmpty(q) == Length(q) = 1

\* The pop that comes now leaves no more than lwm items: a pusher is woken.
AtLowWater(q) == Length(q) - 1 <= dq_lwm[q]

push_data(s, q) == ~QueueFull(q) /\ put_data(q, data[s]) /\ LeaveWaking(s, q)

pop_data(s, q) ==
    /\ ~QueueEmpty(q) /\ get_data(q)
    /\ IF AtLowWater(q) THEN LeaveWaking(s, suspended_push_list[q])
       ELSE LeaveCall(s) /\ UNCHANGED k

wait_push(s, q) ==
    /\ QueueFull(q)
    /\ WaitOn(s, suspended_push_list[q], "RT_IPC_FLAG_FIFO", q \notin Deletable)
    /\ UNCHANGED dq
wait_pop(s, q) ==
    /\ QueueEmpty(q)
    /\ WaitOn(s, q, "RT_IPC_FLAG_FIFO", q \notin Deletable)
    /\ UNCHANGED dq

rt_data_queue_push(s, q) ==
    /\ Running(s, "user") /\ Usable(q)
    /\ push_data(s, q) \/ wait_push(s, q)
    /\ UNCHANGED dying
rt_data_queue_pop(s, q) ==
    /\ Running(s, "user") /\ Usable(q)
    /\ pop_data(s, q) \/ wait_pop(s, q)
    /\ UNCHANGED dying

\* Back from rt_schedule the caller fails with its error or goes round the
\* loop, with its full waiting time again.
push_again(s, q) ==
    /\ Running(s, "woken") /\ object[s] = suspended_push_list[q]
    /\ IF k.error[s] # "RT_EOK" THEN LeaveCall(s) /\ UNCHANGED <<k, dq>>
       ELSE push_data(s, q) \/ wait_push(s, q)
    /\ UNCHANGED dying
pop_again(s, q) ==
    /\ Running(s, "woken") /\ object[s] = q
    /\ IF k.error[s] # "RT_EOK" THEN LeaveCall(s) /\ UNCHANGED <<k, dq>>
       ELSE pop_data(s, q) \/ wait_pop(s, q)
    /\ UNCHANGED dying

isr_push(q) ==
    /\ Usable(q) /\ q \notin Deletable /\ ~QueueFull(q)
    /\ put_data(q, data[Idle])
    /\ IsrWaking(q)
    /\ UNCHANGED <<pc, object, dying>>
isr_pop(q) ==
    /\ Usable(q) /\ q \notin Deletable /\ ~QueueEmpty(q)
    /\ get_data(q)
    /\ IF AtLowWater(q) THEN IsrWaking(suspended_push_list[q]) ELSE UNCHANGED k
    /\ UNCHANGED <<pc, object, dying>>

\* rt_data_queue_reset locks the scheduler and turns the waiting threads away,
\* the poppers first, one in each turn. The items stay.
rt_data_queue_reset(s, q) ==
    /\ Running(s, "user") /\ Usable(q) /\ q \in Deletable
    /\ k' = [k EXCEPT !.lock_nest = @ + 1]
    /\ Goto(s, "dq_reset") /\ object' = [object EXCEPT ![s] = q]
    /\ UNCHANGED <<dying, dq>>

Blocked(q) == k.queue[q] \o k.queue[suspended_push_list[q]]

reset_one(s, q) ==
    /\ Running(s, "dq_reset") /\ object[s] = q
    /\ Blocked(q) # << >>
    /\ LET t == Head(Blocked(q))
       IN  k' = turn_away(k, t)
    /\ UNCHANGED <<pc, object, dying, dq>>

reset_end(s, q) ==
    /\ Running(s, "dq_reset") /\ object[s] = q
    /\ Blocked(q) = << >>
    /\ k' = rt_schedule([k EXCEPT !.lock_nest = @ - 1])
    /\ LeaveTo(s, "schedule")
    /\ UNCHANGED <<dying, dq>>

DataQueueNext ==
    \/ \E s \in Threads, q \in DataQueues :
          \/ rt_data_queue_push(s, q) \/ push_again(s, q)
          \/ rt_data_queue_pop(s, q) \/ pop_again(s, q)
          \/ rt_data_queue_reset(s, q) \/ reset_one(s, q) \/ reset_end(s, q)
    \/ \E q \in DataQueues : isr_push(q) \/ isr_pop(q)
    \/ Background /\ UNCHANGED dq

-----------------------------------------------------------------------------
(* Properties *)

\* No lost wakeup: while threads wait to pop, each item has a popper that was
\* woken for it and is on its way; while threads wait to push, each place below
\* the low water mark has a pusher (rt_data_queue_push, rt_data_queue_pop).
DataQueueWakeups ==
    \A q \in DataQueues :
        /\ ~NoWaiter(q) => Length(q) <= Cardinality(OnItsWay(q))
        /\ ~NoWaiter(suspended_push_list[q]) =>
              dq_lwm[q] + 1 - Length(q) <= Cardinality(OnItsWay(suspended_push_list[q]))

\* The refinement mapping to BoundedFifo
Data(q) ==
    [i \in 1 .. Length(q) |-> dq[q].queue[(dq[q].get_index + i - 1) % dq_size[q]]]
DataCalling(q) ==
    [t \in Clients |->
        IF pc[t] \notin {"blocked", "woken"} THEN "none"
        ELSE IF object[t] = suspended_push_list[q] THEN "send"
        ELSE IF object[t] = q THEN "recv" ELSE "none"]
=============================================================================
