------------------------------- MODULE Event --------------------------------
(***************************************************************************)
(* The events of ipc.c: rt_event_send by threads and handlers,             *)
(* rt_event_recv, rt_event_control and rt_event_detach (or _delete). An    *)
(* event is a set of bits. A receiver asks for all (AND) or any (OR) of    *)
(* some bits, and may have those it got removed (CLEAR); a sender looks    *)
(* through all the waiting threads, the first one first.                   *)
(*                                                                         *)
(* The wait for an event that is going to be detached is for ever, as in   *)
(* Mailbox. The fields event_set and event_info of a thread are followed   *)
(* while it waits, and thread->error likewise.                             *)
(***************************************************************************)
EXTENDS Ipc

CONSTANTS Events,       \* the events; their wait lists are queues
          Bits,         \* the bits of an event set
          ev_flag,      \* event -> order of the waiting threads
          Requests      \* event -> the bits and options that receivers ask for

Options == {{"AND"}, {"OR"}, {"AND", "CLEAR"}, {"OR", "CLEAR"}}

ASSUME EventAssumption ==
    /\ Events \subseteq Queues
    /\ ev_flag \in [Events -> IpcFlags]
    /\ Requests \in [Events -> SUBSET [set : (SUBSET Bits) \ {{}}, option : Options]]

VARIABLES ev_set,       \* event -> event->set
          event_set,    \* thread -> the bits it waits for, then those it got
          event_info    \* thread -> the options of its call

event == <<ev_set, event_set, event_info>>

EventType ==
    /\ ev_set \in [Events -> SUBSET Bits]
    /\ event_set \in [Threads -> SUBSET Bits]
    /\ event_info \in [Threads -> Options \cup {{}}]

EventInit ==
    /\ ev_set = [e \in Events |-> {}]
    /\ event_set = [t \in Threads |-> {}]
    /\ event_info = [t \in Threads |-> {}]

-----------------------------------------------------------------------------

\* Whether a receiver that asks for `wanted' is content with the bits of `set'
Satisfied(wanted, option, set) ==
    IF "AND" \in option THEN wanted \subseteq set ELSE wanted \cap set # {}

\* One turn of the loop of rt_event_send: if the bits that are left satisfy
\* thread t it is resumed; a CLEAR receiver takes its bits away from those
\* after it.
scan_turn(v, t) ==
    LET got == event_set[t] \cap v.set
    IN  IF Satisfied(event_set[t], event_info[t], v.set)
        THEN [table |-> rt_thread_resume(v.table, t),
              set   |-> IF "CLEAR" \in event_info[t] THEN v.set \ got ELSE v.set,
              given |-> [v.given EXCEPT ![t] = got]]
        ELSE v

\* Faulty: the loop ends at the first thread that is served.
scan_until_served(u, e, set) ==
    LET l == u.queue[e]
        contented == {i \in DOMAIN l : Satisfied(event_set[l[i]], event_info[l[i]], set)}
        start   == [table |-> u, set |-> set, given |-> event_set]
    IN  IF contented = {} THEN start
        ELSE scan_turn(start, l[CHOOSE i \in contented : \A j \in contented : i <= j])

\* The loop, over the waiting threads, the first one first
scan(u, e, set) ==
    LET l == u.queue[e]
        scanned[i \in 0 .. Len(l)] ==
            IF i = 0 THEN [table |-> u, set |-> set, given |-> event_set]
            ELSE scan_turn(scanned[i - 1], l[i])
    IN  scanned[Len(l)]

event_send(e, set) ==
    LET r == scan(k, e, ev_set[e] \cup set)
    IN  /\ ev_set' = [ev_set EXCEPT ![e] = r.set]
        /\ event_set' = r.given
        /\ UNCHANGED event_info

\* The receivers that a send of `set' wakes
Wakes(e, set) == scan(k, e, ev_set[e] \cup set).table # k

rt_event_send(s, e, set) ==
    /\ Running(s, "user") /\ Usable(e)
    /\ event_send(e, set)
    /\ k' = scan(k, e, ev_set[e] \cup set).table
    /\ IF Wakes(e, set) THEN Goto(s, "schedule") ELSE UNCHANGED pc
    /\ UNCHANGED <<object, dying>>

isr_event_send(e, set) ==
    /\ Usable(e)
    /\ event_send(e, set)
    /\ LET u == scan(k, e, ev_set[e] \cup set).table
       IN  k' = IF Wakes(e, set) THEN rt_schedule(u) ELSE u
    /\ UNCHANGED <<pc, object, dying>>

\* The bits are there, and a CLEAR receiver removes all it asked for.
recv_event(s, e, r) ==
    /\ Satisfied(r.set, r.option, ev_set[e])
    /\ ev_set' = [ev_set EXCEPT ![e] = IF "CLEAR" \in r.option THEN @ \ r.set ELSE @]
    /\ UNCHANGED <<k, pc, object, event_set, event_info>>

wait_event(s, e, r) ==
    /\ ~Satisfied(r.set, r.option, ev_set[e])
    /\ event_set' = [event_set EXCEPT ![s] = r.set]
    /\ event_info' = [event_info EXCEPT ![s] = r.option]
    /\ WaitOn(s, e, ev_flag[e], e \notin Deletable)
    /\ UNCHANGED ev_set

rt_event_recv(s, e, r) ==
    /\ Running(s, "user") /\ Usable(e)
    /\ recv_event(s, e, r) \/ wait_event(s, e, r)
    /\ UNCHANGED dying

\* Back from rt_schedule: the caller fails with its error, or has received
\* event_set.
recv_return(s, e) ==
    /\ Running(s, "woken") /\ object[s] = e
    /\ LeaveCall(s)
    /\ event_set' = [event_set EXCEPT ![s] = {}]
    /\ event_info' = [event_info EXCEPT ![s] = {}]
    /\ UNCHANGED <<k, dying, ev_set>>

\* RT_IPC_CMD_RESET
rt_event_control(s, e) ==
    /\ Running(s, "user") /\ Usable(e)
    /\ k' = resume_all(k, e)
    /\ ev_set' = [ev_set EXCEPT ![e] = {}]
    /\ Goto(s, "schedule")
    /\ UNCHANGED <<object, dying, event_set, event_info>>

rt_event_detach(s, e) ==
    /\ OnlyWaiters({e})
    /\ detach(s, e)
    /\ UNCHANGED event

event_detach_one(s) == object[s] \in Events /\ resume_one(s) /\ UNCHANGED event

EventNext ==
    \/ \E s \in Threads, e \in Events :
          \/ \E set \in (SUBSET Bits) \ {{}} : rt_event_send(s, e, set)
          \/ \E r \in Requests[e] : rt_event_recv(s, e, r)
          \/ recv_return(s, e)
          \/ rt_event_control(s, e)
          \/ rt_event_detach(s, e)
    \/ \E s \in Threads : event_detach_one(s)
    \/ \E e \in Events : \E set \in (SUBSET Bits) \ {{}} : isr_event_send(e, set)
    \/ Background /\ UNCHANGED event

-----------------------------------------------------------------------------
(* Properties *)

\* No thread goes on waiting for an event whose bits satisfy it (rt_event_send
\* has looked at every waiting thread, whatever the earlier ones took).
NoneOverlooked ==
    \A t \in Threads, e \in Events :
        Contains(k.queue[e], t) =>
            IF "AND" \in event_info[t] THEN ~(event_set[t] \subseteq ev_set[e])
            ELSE event_set[t] \cap ev_set[e] = {}

\* A bit is given to one CLEAR receiver at most: two that are woken by the same
\* send get disjoint sets, and these bits are gone from the event; each of them
\* gets what it asked for.
Woken(e) ==
    {t \in Threads : /\ Contains(k.queue[e], t) /\ ~Contains(k'.queue[e], t)
                     /\ k'.error[t] = "RT_EOK" /\ "CLEAR" \in event_info[t]}
BitsGivenOnce ==
    \A e \in Events : \A t \in Woken(e) :
        /\ event_set'[t] # {} /\ event_set'[t] \subseteq event_set[t]
        /\ "AND" \in event_info[t] => event_set'[t] = event_set[t]
        /\ event_set'[t] \cap ev_set'[e] = {}
        /\ \A u \in Woken(e) \ {t} : event_set'[t] \cap event_set'[u] = {}
=============================================================================
