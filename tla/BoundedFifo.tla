---------------------------- MODULE BoundedFifo -----------------------------
(***************************************************************************)
(* What a mailbox, a message queue and a data queue promise to their       *)
(* users: items are received in the order they were sent, each one once,   *)
(* urgent ones first; a sender only waits while the buffer is full, a      *)
(* receiver only while it is empty.                                        *)
(***************************************************************************)
EXTENDS Integers, Sequences

CONSTANTS Users, Items,
          Capacity          \* Capacity \in Nat \ {0}

VARIABLES queue, calling    \* calling[t]: the call in which t waits

TypeOK ==
    /\ queue \in Seq(Items) /\ Len(queue) <= Capacity
    /\ calling \in [Users -> {"none", "send", "recv"}]

Init == queue = << >> /\ calling = [t \in Users |-> "none"]

Full  == Len(queue) = Capacity
Empty == queue = << >>

Return(t) == calling' = [calling EXCEPT ![t] = "none"]

\* A call that has to wait
Wait(t) ==
    /\ calling[t] = "none"
    /\ \/ Full /\ calling' = [calling EXCEPT ![t] = "send"]
       \/ Empty /\ calling' = [calling EXCEPT ![t] = "recv"]
    /\ UNCHANGED queue

\* A call that succeeds, at once or after waiting
Send(t, item) ==
    /\ calling[t] \in {"none", "send"} /\ ~Full
    /\ queue' = Append(queue, item)
    /\ Return(t)

Urgent(t, item) ==
    /\ calling[t] = "none" /\ ~Full
    /\ queue' = <<item>> \o queue
    /\ UNCHANGED calling

Receive(t) ==
    /\ calling[t] \in {"none", "recv"} /\ ~Empty
    /\ queue' = Tail(queue)
    /\ Return(t)

\* A handler sends or receives; it never waits.
HandlerSend(item) ==
    /\ ~Full
    /\ queue' = Append(queue, item)
    /\ UNCHANGED calling
HandlerReceive == ~Empty /\ queue' = Tail(queue) /\ UNCHANGED calling

\* A waiting call fails: time is up, or the buffer was reset or deleted.
GiveUp(t) == calling[t] # "none" /\ Return(t) /\ UNCHANGED queue

Reset == queue' = << >> /\ UNCHANGED calling

Next ==
    \/ \E t \in Users :
          \/ Wait(t) \/ Receive(t) \/ GiveUp(t)
          \/ \E item \in Items : Send(t, item) \/ Urgent(t, item)
    \/ \E item \in Items : HandlerSend(item)
    \/ HandlerReceive \/ Reset

Spec == Init /\ [][Next]_<<queue, calling>>
=============================================================================
