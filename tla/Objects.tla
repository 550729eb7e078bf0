------------------------------ MODULE Objects -------------------------------
(***************************************************************************)
(* The objects that threads wait on in a loop or on a list of their own:   *)
(* memory pools, mailboxes, events, message queues, data queues, pipes,    *)
(* completions and the work queue, all on one thread table. In each        *)
(* behaviour the threads use the objects of one kind, and of a kind with   *)
(* lists that are deleted one object, the subject; the others do not       *)
(* exist.                                                                  *)
(***************************************************************************)
EXTENDS MemPool, Mailbox, Event, MessageQueue, DataQueue, Completion, WorkQueue,
        Pipe

CONSTANTS Subjects,     \* what the behaviours are about
          works         \* names the work queue, which has no list

\* The lists of the objects of each kind
Kinds ==
    <<Pools, Mailboxes \cup Senders, Events, MsgQueues, DataQueues \cup Pushers,
      Completions, Pipes \cup PipeWriters>>

\* An object is of one kind.
ASSUME ObjectsAssumption ==
    /\ Queues # {} /\ works \notin Queues
    /\ \A i, j \in DOMAIN Kinds : i # j => Kinds[i] \cap Kinds[j] = {}
    /\ Subjects \subseteq UNION {Pools, Mailboxes, Events, MsgQueues, DataQueues,
                                Completions, Pipes, {works}}

VARIABLE subject

vars ==
    <<k, pc, object, dying, pool, mb, event, messages, dq, flag, work, data_len, subject>>

\* The lists of a subject
SubjectLists(o) ==
    CASE o \in Mailboxes  -> {o, suspend_sender_thread[o]}
      [] o \in DataQueues -> {o, suspended_push_list[o]}
      [] o \in Pipes      -> {o, suspended_write_list[o]}
      [] OTHER            -> {o}

Init ==
    /\ subject \in Subjects
    /\ k = AllStarted
    /\ pc = [t \in Threads |-> "user"] /\ object = [t \in Threads |-> AnyQueue]
    /\ dying = Queues \ SubjectLists(subject)
    /\ MemPoolInit /\ MailboxInit /\ EventInit /\ MessageQueueInit
    /\ DataQueueInit /\ CompletionInit /\ WorkQueueInit /\ PipeInit

Next ==
    \/ subject \in Pools /\ MemPoolNext
       /\ UNCHANGED <<mb, event, messages, dq, flag, work, data_len, subject>>
    \/ subject \in Mailboxes /\ MailboxNext
       /\ UNCHANGED <<pool, event, messages, dq, flag, work, data_len, subject>>
    \/ subject \in Events /\ EventNext
       /\ UNCHANGED <<pool, mb, messages, dq, flag, work, data_len, subject>>
    \/ subject \in MsgQueues /\ MessageQueueNext
       /\ UNCHANGED <<pool, mb, event, dq, flag, work, data_len, subject>>
    \/ subject \in DataQueues /\ DataQueueNext
       /\ UNCHANGED <<pool, mb, event, messages, flag, work, data_len, subject>>
    \/ subject \in Completions /\ CompletionNext
       /\ UNCHANGED <<pool, mb, event, messages, dq, work, data_len, subject>>
    \/ subject = works /\ WorkQueueNext
       /\ UNCHANGED <<pool, mb, event, messages, dq, flag, data_len, subject>>
    \/ subject \in Pipes /\ PipeNext
       /\ UNCHANGED <<pool, mb, event, messages, dq, flag, work, subject>>

Spec == Init /\ [][Next]_vars

-----------------------------------------------------------------------------
(* Properties *)

Points ==
    {"user", "blocked", "woken", "schedule", "resuming", "sending", "sending_urgent",
     "receiving", "dq_reset", "completing", "wq_suspend", "wq_idle", "wq_take", "wq_work",
     "wq_sleep", "wq_done", "wq_wake", "wq_unlink", "wq_insert"}

TypeOK ==
    /\ k \in KernelType /\ dying \subseteq Queues
    /\ pc \in [Threads -> Points]
    /\ object \in [Threads -> Queues]
    /\ MemPoolType /\ MailboxType /\ EventType /\ MessageQueueType
    /\ DataQueueType /\ CompletionType /\ WorkQueueType /\ PipeType

\* No block of a memory pool and no block of a message queue is lost or in two
\* hands (mempool.c, ipc.c).
NoBlockLost == BlocksConserved /\ MessagesConserved

\* No wakeup is lost: nobody goes on waiting for something that is there,
\* unless as many threads as it can serve have been woken and are on their way
\* to it; and the count of a pool whose callers wait for ever, by which
\* rt_mp_free decides whether to wake anybody, is the number of its waiters
\* (mempool.c, ipc.c, dataqueue.c, workqueue.c, pipe.c).
NoLostWakeup ==
    /\ PoolWakeups /\ MailboxWakeups /\ MessageWakeups /\ DataQueueWakeups
    /\ WorkerWoken /\ PipeWakeups
    /\ \A q \in Pools \cap Deletable : CountsWaiters(q)

\* rt_event_send overlooks no receiver and gives no bit away twice; nor does any
\* other step leave a receiver waiting beside its bits.
EventServed == [][NoneOverlooked' /\ BitsGivenOnce]_vars

\* A thread that was woken finds what it was woken for: a waiter of a
\* completion the flag, the worker a work (completion.c, workqueue.c); and
\* whoever is on a wait list is suspended on that object, so nobody is woken
\* twice (ipc.c).
WokenForCause == CompletionOK /\ WorkToDo /\ WaitersSuspended

\* Mailboxes, message queues and data queues implement a bounded buffer:
\* nothing that was sent is lost, doubled or overtaken, although senders and
\* receivers are woken, overtaken, timed out and reset between two sections. Of
\* the buffer o that the behaviour is about it says Buffer(o)!Spec, in a form
\* that TLC can check; the others stay empty.
Buffers == UNION {Mailboxes, MsgQueues, DataQueues}
Items   == UNION {Range(mail), Range(content), Range(data)}

Contents(o) ==
    CASE o \in Mailboxes  -> Mails(o)
      [] o \in MsgQueues  -> Linked(o)
      [] o \in DataQueues -> Data(o)
Calling(o) ==
    CASE o \in Mailboxes  -> MailCalling(o)
      [] o \in MsgQueues  -> MessageCalling(o)
      [] o \in DataQueues -> DataCalling(o)
Size(o) ==
    CASE o \in Mailboxes  -> mb_size[o]
      [] o \in MsgQueues  -> Cardinality(Messages[o])
      [] o \in DataQueues -> dq_size[o]

Buffer(o) == INSTANCE BoundedFifo WITH Users <- Clients, Capacity <- Size(o),
                queue <- Contents(o), calling <- Calling(o)

ImplementsBuffer ==
    /\ \A o \in Buffers : o = subject => Buffer(o)!Init
    /\ [][\A o \in Buffers : o = subject => [Buffer(o)!Next]_<<Contents(o), Calling(o)>>]_vars
=============================================================================
