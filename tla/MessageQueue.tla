---------------------------- MODULE MessageQueue ----------------------------
(***************************************************************************)
(* The message queues of ipc.c: rt_mq_send and rt_mq_urgent by threads and *)
(* (rt_mq_send) handlers, rt_mq_recv, rt_mq_control and rt_mq_detach (or   *)
(* rt_mq_delete). A message lies in a block. Sending takes a block off the *)
(* free list, fills it with the interrupts enabled and links it in a       *)
(* second section; receiving unlinks a block, copies it out and gives it   *)
(* back in a second section.                                               *)
(*                                                                         *)
(* Waiting, detaching and the copying of a block that nobody else holds    *)
(* are treated as in Mailbox; what a block holds is set when it is linked. *)
(***************************************************************************)
EXTENDS Ipc

CONSTANTS MsgQueues,    \* the message queues; their wait lists are queues
          Messages,     \* message queue -> its blocks
          mq_flag,      \* message queue -> order of the waiting threads
          content       \* thread -> what it sends; of Idle, what handlers send

NoMsg == "RT_NULL"
AllMessages == UNION {Messages[q] : q \in MsgQueues}

ASSUME MessageQueueAssumption ==
    /\ MsgQueues \subseteq Queues
    /\ mq_flag \in [MsgQueues -> IpcFlags]
    /\ \A q \in MsgQueues : IsFiniteSet(Messages[q]) /\ Messages[q] # {}
    /\ \A q, r \in MsgQueues : q # r => Messages[q] \cap Messages[r] = {}
    /\ NoMsg \notin AllMessages
    /\ DOMAIN content = Threads

VARIABLES mq,           \* message queue -> its lists and its counter
          msg,          \* thread -> the block its call holds
          holds         \* block -> what was copied into it

messages == <<mq, msg, holds>>

MessageQueueType ==
    /\ \A q \in MsgQueues :
          /\ mq[q].msg_queue_free \in Seq(Messages[q])
          /\ mq[q].msg_queue \in Seq(Messages[q])
          /\ mq[q].entry \in 0 .. Cardinality(Messages[q])
    /\ msg \in [Threads -> AllMessages \cup {NoMsg}]
    /\ holds \in [AllMessages -> Range(content)]

\* rt_mq_init, rt_mq_create; what a free block holds is of no interest.
MessageQueueInit ==
    /\ mq = [q \in MsgQueues |->
               [msg_queue_free |-> SetToSeq(Messages[q]), msg_queue |-> << >>, entry |-> 0]]
    /\ msg = [t \in Threads |-> NoMsg]
    /\ holds = [i \in AllMessages |-> content[Idle]]

-----------------------------------------------------------------------------

HasFree(q) == mq[q].msg_queue_free # << >>

\* The sections of sending, on the record of one queue
take_free(r)     == [r EXCEPT !.msg_queue_free = Tail(@)]
link_last(r, i)  == [r EXCEPT !.msg_queue = Append(@, i), !.entry = @ + 1]
link_first(r, i) == [r EXCEPT !.msg_queue = <<i>> \o @, !.entry = @ + 1]

\* The sections of receiving
take_first(r)   == [r EXCEPT !.msg_queue = Tail(@), !.entry = @ - 1]
give_back(r, i) == [r EXCEPT !.msg_queue_free = <<i>> \o @]

\* First section of rt_mq_send and rt_mq_urgent; with no free block they
\* return -RT_EFULL. The call goes on at the given point.
send_take(s, q, point) ==
    /\ Running(s, "user") /\ Usable(q) /\ HasFree(q)
    /\ mq' = [mq EXCEPT ![q] = take_free(@)]
    /\ msg' = [msg EXCEPT ![s] = Head(mq[q].msg_queue_free)]
    /\ Goto(s, point) /\ object' = [object EXCEPT ![s] = q]
    /\ UNCHANGED <<k, dying, holds>>

rt_mq_send(s, q)   == send_take(s, q, "sending")
rt_mq_urgent(s, q) == send_take(s, q, "sending_urgent")

\* Second section: the block is linked and the first receiver woken.
send_link(s, q) ==
    /\ Running(s, "sending") \/ Running(s, "sending_urgent")
    /\ object[s] = q
    /\ mq' = [mq EXCEPT ![q] = IF pc[s] = "sending" THEN link_last(@, msg[s])
                               ELSE link_first(@, msg[s])]
    /\ holds' = [holds EXCEPT ![msg[s]] = content[s]]
    /\ msg' = [msg EXCEPT ![s] = NoMsg]
    /\ LeaveWaking(s, q)
    /\ UNCHANGED dying

isr_mq_send(q) ==
    /\ Usable(q) /\ HasFree(q)
    /\ LET i == Head(mq[q].msg_queue_free)
       IN  /\ mq' = [mq EXCEPT ![q] = link_last(take_free(@), i)]
           /\ holds' = [holds EXCEPT ![i] = content[Idle]]
    /\ IsrWaking(q)
    /\ UNCHANGED <<pc, object, dying, msg>>

recv_take(s, q) ==
    /\ mq[q].entry # 0
    /\ mq' = [mq EXCEPT ![q] = take_first(@)]
    /\ msg' = [msg EXCEPT ![s] = Head(mq[q].msg_queue)]
    /\ Goto(s, "receiving") /\ object' = [object EXCEPT ![s] = q]
    /\ UNCHANGED <<k, holds>>

wait_message(s, q) ==
    /\ mq[q].entry = 0
    /\ WaitOn(s, q, mq_flag[q], q \notin Deletable)
    /\ UNCHANGED messages

rt_mq_recv(s, q) ==
    /\ Running(s, "user") /\ Usable(q)
    /\ recv_take(s, q) \/ wait_message(s, q)
    /\ UNCHANGED dying

\* Back from rt_schedule the caller fails with an error or goes round the loop;
\* it gives up if its time is used up.
mq_recv_again(s, q) ==
    /\ Running(s, "woken") /\ object[s] = q
    /\ IF k.error[s] # "RT_EOK" THEN LeaveCall(s) /\ UNCHANGED <<k, messages>>
       ELSE \/ recv_take(s, q)
            \/ wait_message(s, q)
            \/ /\ q \notin Deletable /\ mq[q].entry = 0
               /\ LeaveCall(s) /\ UNCHANGED <<k, messages>>
    /\ UNCHANGED dying

\* The message is copied out, and its block becomes free.
recv_give_back(s, q) ==
    /\ Running(s, "receiving") /\ object[s] = q
    /\ mq' = [mq EXCEPT ![q] = give_back(@, msg[s])]
    /\ msg' = [msg EXCEPT ![s] = NoMsg]
    /\ LeaveCall(s)
    /\ UNCHANGED <<k, dying, holds>>

\* RT_IPC_CMD_RESET: the receivers are turned away and the messages dropped,
\* the first one first.
rt_mq_control(s, q) ==
    /\ Running(s, "user") /\ Usable(q)
    /\ k' = resume_all(k, q)
    /\ mq' = [mq EXCEPT ![q] = [msg_queue_free |-> Reverse(@.msg_queue) \o @.msg_queue_free,
                                msg_queue |-> << >>, entry |-> 0]]
    /\ Goto(s, "schedule")
    /\ UNCHANGED <<object, dying, msg, holds>>

rt_mq_detach(s, q) ==
    /\ OnlyWaiters({q})
    /\ detach(s, q)
    /\ UNCHANGED messages

mq_detach_one(s) == object[s] \in MsgQueues /\ resume_one(s) /\ UNCHANGED messages

MessageQueueNext ==
    \/ \E s \in Threads, q \in MsgQueues :
          \/ rt_mq_send(s, q) \/ rt_mq_urgent(s, q) \/ send_link(s, q)
          \/ rt_mq_recv(s, q) \/ mq_recv_again(s, q) \/ recv_give_back(s, q)
          \/ rt_mq_control(s, q)
          \/ rt_mq_detach(s, q)
    \/ \E s \in Threads : mq_detach_one(s)
    \/ \E q \in MsgQueues : isr_mq_send(q)
    \/ Background /\ UNCHANGED messages

-----------------------------------------------------------------------------
(* Properties *)

\* Every block of a message queue is free, linked or held by one call, and
\* entry counts the linked ones, although sending and receiving are two
\* sections each (rt_mq_send, rt_mq_urgent, rt_mq_recv, rt_mq_control).
MessagesConserved ==
    \A q \in MsgQueues :
        LET held == {t \in Threads : msg[t] \in Messages[q]}
            all  == mq[q].msg_queue_free \o mq[q].msg_queue
        IN  /\ mq[q].entry = Len(mq[q].msg_queue)
            /\ IsInjective(all)
            /\ Messages[q] = Range(all) \cup {msg[t] : t \in held}
            /\ Cardinality(Messages[q]) = Len(all) + Cardinality(held)

\* No lost wakeup: while threads wait, each message in the queue has a receiver
\* that was woken for it and is on its way (rt_mq_send, rt_mq_urgent).
MessageWakeups ==
    \A q \in MsgQueues \ dying :
        ~NoWaiter(q) => mq[q].entry <= Cardinality(OnItsWay(q))

\* The refinement mapping to BoundedFifo
Linked(q) == [i \in DOMAIN mq[q].msg_queue |-> holds[mq[q].msg_queue[i]]]
MessageCalling(q) ==
    [t \in Clients |->
        IF pc[t] \in {"blocked", "woken"} /\ object[t] = q THEN "recv" ELSE "none"]
=============================================================================
