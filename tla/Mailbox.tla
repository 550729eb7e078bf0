------------------------------ MODULE Mailbox -------------------------------
(***************************************************************************)
(* The mailboxes of ipc.c: rt_mb_send_wait, rt_mb_recv, rt_mb_control and  *)
(* rt_mb_detach (or rt_mb_delete), called by threads; rt_mb_send also by   *)
(* handlers. A mailbox is named by the list of its receivers; a second     *)
(* list holds the threads that wait to send. A call waits in a loop: it is *)
(* woken when there is room or mail, and finds that another thread was     *)
(* faster.                                                                 *)
(*                                                                         *)
(* Every wait may end by a timeout, except on a mailbox that is going to   *)
(* be detached; a timer that never expires stands for a wait for ever. A   *)
(* mailbox is detached only while every thread inside a call on it is      *)
(* suspended: a woken one would go on to use it.                           *)
(***************************************************************************)
EXTENDS Ipc

CONSTANTS Mailboxes,
          suspend_sender_thread,  \* mailbox -> the list of the senders
          mb_size,                \* mailbox -> how many mails it holds
          mb_flag,                \* mailbox -> order of the waiting threads
          mail                    \* thread -> what it sends; of Idle, what handlers send

Senders == {suspend_sender_thread[m] : m \in Mailboxes}

ASSUME MailboxAssumption ==
    /\ Mailboxes \subseteq Queues /\ suspend_sender_thread \in [Mailboxes -> Queues]
    /\ Mailboxes \cap Senders = {} /\ IsInjective(suspend_sender_thread)
    /\ mb_size \in [Mailboxes -> Nat \ {0}]
    /\ mb_flag \in [Mailboxes -> IpcFlags]
    /\ DOMAIN mail = Threads

VARIABLE mb         \* mailbox -> its fields

MailboxType ==
    \A m \in Mailboxes :
        /\ mb[m].msg_pool \in [0 .. mb_size[m] - 1 -> Range(mail)]
        /\ mb[m].entry \in 0 .. mb_size[m]
        /\ {mb[m].in_offset, mb[m].out_offset} \subseteq 0 .. mb_size[m] - 1

\* rt_mb_init, rt_mb_create; what the buffer holds is of no interest.
MailboxInit ==
    mb = [m \in Mailboxes |->
            [msg_pool |-> [i \in 0 .. mb_size[m] - 1 |-> mail[Idle]],
             entry |-> 0, in_offset |-> 0, out_offset |-> 0]]

-----------------------------------------------------------------------------

\* The offset after i, back to 0 at the end of the buffer
Next_offset(m, i) == IF i + 1 >= mb_size[m] THEN 0 ELSE i + 1

IsFull(m)  == mb[m].entry = mb_size[m]
IsEmpty(m) == mb[m].entry = 0

put_mail(m, value) ==
    mb' = [mb EXCEPT ![m].msg_pool[mb[m].in_offset] = value,
                     ![m].in_offset = Next_offset(m, @),
                     ![m].entry     = @ + 1]

get_mail(m) ==
    mb' = [mb EXCEPT ![m].out_offset = Next_offset(m, @), ![m].entry = @ - 1]

wait_room(s, m) ==
    /\ IsFull(m)
    /\ WaitOn(s, suspend_sender_thread[m], mb_flag[m], m \notin Deletable)
    /\ UNCHANGED mb
wait_mail(s, m) ==
    /\ IsEmpty(m)
    /\ WaitOn(s, m, mb_flag[m], m \notin Deletable)
    /\ UNCHANGED mb

\* The call returns with -RT_EFULL or -RT_ETIMEOUT: its time is used up.
give_up(s, m) == m \notin Deletable /\ LeaveCall(s) /\ UNCHANGED <<k, mb>>

\* Faulty: the loop is left after one wakeup.
send_unchecked(s, m) ==
    /\ put_mail(m, mail[s])
    /\ LeaveWaking(s, m)

\* The mail is put; a thread that waits for mail is woken.
send_mail(s, m) ==
    /\ ~IsFull(m)
    /\ put_mail(m, mail[s])
    /\ LeaveWaking(s, m)

recv_mail(s, m) ==
    /\ ~IsEmpty(m)
    /\ get_mail(m)
    /\ LeaveWaking(s, suspend_sender_thread[m])

\* rt_mb_send is rt_mb_send_wait without waiting; it does nothing when the
\* mailbox is full.
rt_mb_send_wait(s, m) ==
    /\ Running(s, "user") /\ Usable(m)
    /\ send_mail(s, m) \/ wait_room(s, m)
    /\ UNCHANGED dying

rt_mb_recv(s, m) ==
    /\ Running(s, "user") /\ Usable(m)
    /\ recv_mail(s, m) \/ wait_mail(s, m)
    /\ UNCHANGED dying

\* Back from rt_schedule the caller fails with an error or goes round the loop.
mb_send_again(s, m) ==
    /\ Running(s, "woken") /\ object[s] = suspend_sender_thread[m]
    /\ IF k.error[s] # "RT_EOK" THEN LeaveCall(s) /\ UNCHANGED <<k, mb>>
       ELSE \/ send_mail(s, m)
            \/ wait_room(s, m)
            \/ IsFull(m) /\ give_up(s, m)
    /\ UNCHANGED dying

mb_recv_again(s, m) ==
    /\ Running(s, "woken") /\ object[s] = m
    /\ IF k.error[s] # "RT_EOK" THEN LeaveCall(s) /\ UNCHANGED <<k, mb>>
       ELSE \/ recv_mail(s, m)
            \/ wait_mail(s, m)
            \/ IsEmpty(m) /\ give_up(s, m)
    /\ UNCHANGED dying

isr_mb_send(m) ==
    /\ Usable(m) /\ ~IsFull(m)
    /\ put_mail(m, mail[Idle])
    /\ IsrWaking(m)
    /\ UNCHANGED <<pc, object, dying>>

\* RT_IPC_CMD_RESET: all waiting threads are turned away, the mails are gone.
rt_mb_control(s, m) ==
    /\ Running(s, "user") /\ Usable(m)
    /\ k' = resume_all(resume_all(k, m), suspend_sender_thread[m])
    /\ mb' = [mb EXCEPT ![m].entry = 0, ![m].in_offset = 0, ![m].out_offset = 0]
    /\ Goto(s, "schedule")
    /\ UNCHANGED <<object, dying>>

\* rt_mb_detach looks at the list of the receivers, then at that of the
\* senders; each turn of its loops resumes the first thread of one.
detach_turn(s, u, m) ==
    LET lists == {q \in {m, suspend_sender_thread[m]} : u.queue[q] # << >>}
    IN  IF lists = {} THEN LeaveCall(s)
        ELSE /\ Goto(s, "resuming")
             /\ object' = [object EXCEPT
                   ![s] = IF m \in lists THEN m ELSE suspend_sender_thread[m]]

rt_mb_detach(s, m) ==
    /\ Running(s, "user") /\ m \in Deletable /\ Usable(m)
    /\ OnlyWaiters({m, suspend_sender_thread[m]})
    /\ dying' = dying \cup {m}
    /\ detach_turn(s, k, m)
    /\ UNCHANGED <<k, mb>>

mb_detach_one(s, m) ==
    /\ Running(s, "resuming") /\ object[s] \in {m, suspend_sender_thread[m]}
    /\ LET t == Head(k.queue[object[s]])
       IN  k' = turn_away(k, t)
    /\ detach_turn(s, k', m)
    /\ UNCHANGED <<dying, mb>>

MailboxNext ==
    \/ \E s \in Threads, m \in Mailboxes :
          \/ rt_mb_send_wait(s, m) \/ mb_send_again(s, m)
          \/ rt_mb_recv(s, m) \/ mb_recv_again(s, m)
          \/ rt_mb_control(s, m)
          \/ rt_mb_detach(s, m) \/ mb_detach_one(s, m)
    \/ \E m \in Mailboxes : isr_mb_send(m)
    \/ Background /\ UNCHANGED mb

-----------------------------------------------------------------------------
(* Properties *)

\* No lost wakeup (rt_mb_send_wait, rt_mb_recv): while threads wait for mail,
\* each mail in the box has a receiver that was woken for it and is on its way;
\* and so for senders that wait and free places.
MailboxWakeups ==
    \A m \in Mailboxes \ dying :
        /\ ~NoWaiter(m) => mb[m].entry <= Cardinality(OnItsWay(m))
        /\ ~NoWaiter(suspend_sender_thread[m]) =>
              mb_size[m] - mb[m].entry <= Cardinality(OnItsWay(suspend_sender_thread[m]))

\* The refinement mapping to BoundedFifo: the mails from out_offset on, and the
\* calls that wait in their loop
Mails(m) ==
    [i \in 1 .. mb[m].entry |->
        mb[m].msg_pool[(mb[m].out_offset + i - 1) % mb_size[m]]]

InLoop(t, q) == pc[t] \in {"blocked", "woken"} /\ object[t] = q
MailCalling(m) ==
    [t \in Clients |->
        CASE InLoop(t, suspend_sender_thread[m]) -> "send"
          [] InLoop(t, m) -> "recv"
          [] OTHER -> "none"]
=============================================================================
