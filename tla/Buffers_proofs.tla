--------------------------- MODULE Buffers_proofs ---------------------------
(***************************************************************************)
(* Mailboxes, message queues and data queues implement the bounded buffer, *)
(* for every size and any number of threads.                               *)
(*                                                                         *)
(* Each step of the composed objects is mapped to a step of BoundedFifo or *)
(* to none: who waits in which call is read off the list that the thread   *)
(* waits on (Roles), and what is stored off the store of the object.       *)
(***************************************************************************)
EXTENDS Objects_proofs

\* The calls in which the clients wait: on the list that names the buffer o to
\* receive, on its other list to send
Roles(at, on, o) ==
    [t \in Clients |-> IF at[t] \notin WaitPoints THEN "none"
                       ELSE IF on[t] = o THEN "recv" ELSE "send"]
OnLists(at, on, o) == \A t \in Threads : at[t] \in WaitPoints => on[t] \in Scope(o)

\* The calls of the refinement mapping, before and after a step.
LEMMA CallingRoles ==
    ASSUME NEW o \in Buffers
    PROVE  /\ OnLists(pc, object, o) => Calling(o) = Roles(pc, object, o)
           /\ OnLists(pc', object', o) => Calling(o)' = Roles(pc', object', o)
  <1>1. CASE o \in Mailboxes
    <2>1. Scope(o) = {o, suspend_sender_thread[o]} /\ suspend_sender_thread[o] # o
      <3>1. o \notin UNION {Completions, MsgQueues, DataQueues, Pipes}
        BY <1>1, KindsApart
      <3>2. suspend_sender_thread[o] \in Senders /\ Mailboxes \cap Senders = {}
        BY <1>1, MailboxAssumption DEF Senders
      <3>3. SubjectLists(o) = {o, suspend_sender_thread[o]}
        BY <1>1, <3>1 DEF SubjectLists
      <3> QED BY <1>1, <3>1, <3>2, <3>3 DEF Scope
    <2>2. o \notin MsgQueues /\ o \notin DataQueues
      BY <1>1, KindsApart
    <2>3. Calling(o) = MailCalling(o) /\ Calling(o)' = MailCalling(o)'
      BY <1>1, <2>2 DEF Calling
    <2>4. ASSUME OnLists(pc, object, o) PROVE MailCalling(o) = Roles(pc, object, o)
      BY <2>1, <2>4 DEF MailCalling, InLoop, WaitPoints, OnLists, Roles, Clients
    <2>5. ASSUME OnLists(pc', object', o) PROVE MailCalling(o)' = Roles(pc', object', o)
      BY <2>1, <2>5 DEF MailCalling, InLoop, WaitPoints, OnLists, Roles, Clients
    <2> QED BY <2>3, <2>4, <2>5
  <1>2. CASE o \in MsgQueues
    <2>1. o \notin UNION {Mailboxes, DataQueues, Pipes, Completions}
      BY <1>2, KindsApart
    <2>2. Scope(o) = {o}
      BY <2>1 DEF Scope, SubjectLists
    <2> QED BY <1>2, <2>1, <2>2 DEF MessageCalling, WaitPoints, OnLists, Calling, Roles, Clients
  <1>3. CASE o \in DataQueues
    <2>1. o \notin UNION {Mailboxes, MsgQueues, Completions, Pipes}
      BY <1>3, KindsApart
    <2>2. Scope(o) = {o, suspended_push_list[o]} /\ suspended_push_list[o] # o
      <3>1. suspended_push_list[o] \in Pushers /\ o \notin Pushers
        BY <1>3, DataQueueAssumption DEF Pushers
      <3>2. SubjectLists(o) = {o, suspended_push_list[o]}
        BY <1>3, <2>1 DEF SubjectLists
      <3> QED BY <2>1, <3>1, <3>2 DEF Scope
    <2> QED BY <1>3, <2>1, <2>2 DEF DataCalling, WaitPoints, OnLists, Calling, Roles, Clients
  <1> QED BY <1>1, <1>2, <1>3 DEF Buffers

\* One thread moves.
OneMoves(s) == \A y \in Threads : y # s => pc'[y] = pc[y] /\ object'[y] = object[y]

\* What a step makes of the calls: thread s is out of its call, or waits in it,
\* or all is as it was.
LEMMA RolesAfter ==
    ASSUME NEW o
    PROVE  /\ \A s \in Clients :
                 OneMoves(s) /\ pc'[s] \notin WaitPoints =>
                    Roles(pc', object', o) = [Roles(pc, object, o) EXCEPT ![s] = "none"]
           /\ \A s \in Clients :
                 OneMoves(s) /\ pc'[s] \in WaitPoints =>
                    Roles(pc', object', o) = [Roles(pc, object, o) EXCEPT
                                                ![s] = IF object'[s] = o THEN "recv" ELSE "send"]
           /\ (\A t \in Threads : object'[t] = object[t] /\ (pc'[t] \in WaitPoints <=> pc[t] \in WaitPoints)) =>
                 Roles(pc', object', o) = Roles(pc, object, o)
  BY DEF Roles, OneMoves, Clients

\* The sections that end a call or wait in it.
LEMMA SectionMoves ==
    ASSUME pc \in [Threads -> Points], object \in [Threads -> Queues], NEW s \in Threads
    PROVE  /\ \A q : LeaveWaking(s, q) => OneMoves(s) /\ pc'[s] \notin WaitPoints
           /\ LeaveCall(s) => OneMoves(s) /\ pc'[s] \notin WaitPoints
           /\ \A q, f, timed : WaitOn(s, q, f, timed) =>
                 OneMoves(s) /\ pc'[s] \in WaitPoints /\ object'[s] = q
           /\ \A point : Goto(s, point) /\ object' \in {object, [object EXCEPT ![s] = object'[s]]} =>
                 OneMoves(s) /\ pc'[s] = point
  <1>1. ASSUME NEW point, LeaveTo(s, point) PROVE OneMoves(s) /\ pc'[s] = point
    BY <1>1 DEF LeaveTo, Goto, OneMoves
  <1>2. LeaveCall(s) => OneMoves(s) /\ pc'[s] \notin WaitPoints
    BY <1>1 DEF LeaveCall, WaitPoints
  <1>3. ASSUME NEW q, LeaveWaking(s, q) PROVE OneMoves(s) /\ pc'[s] \notin WaitPoints
    BY <1>1, <1>2, <1>3 DEF LeaveWaking, WaitPoints
  <1>4. ASSUME NEW q, NEW f, NEW timed, WaitOn(s, q, f, timed)
        PROVE  OneMoves(s) /\ pc'[s] \in WaitPoints /\ object'[s] = q
    BY <1>4 DEF WaitOn, Goto, OneMoves, WaitPoints
  <1>5. ASSUME NEW point, Goto(s, point), object' \in {object, [object EXCEPT ![s] = object'[s]]}
        PROVE  OneMoves(s) /\ pc'[s] = point
    BY <1>5 DEF Goto, OneMoves
  <1> QED BY <1>2, <1>3, <1>4, <1>5

\* The steps of the buffer.
Fifo(o) == [Buffer(o)!Next]_<<Contents(o), Calling(o)>>

LEMMA FifoSteps ==
    ASSUME NEW o, NEW n, n = Size(o), NEW c, c = Contents(o), NEW d, d = Contents(o)',
           NEW r, r = Calling(o), NEW e, e = Calling(o)'
    PROVE  /\ d = c /\ e = r => Fifo(o)
           /\ d = << >> /\ e = r => Fifo(o)
           /\ \A s \in Clients, item \in Items :
                 r[s] \in {"none", "send"} /\ Len(c) # n /\ d = Append(c, item)
                    /\ e = [r EXCEPT ![s] = "none"] => Fifo(o)
           /\ \A s \in Clients, item \in Items :
                 r[s] = "none" /\ Len(c) # n /\ d = <<item>> \o c /\ e = r => Fifo(o)
           /\ \A item \in Items : Len(c) # n /\ d = Append(c, item) /\ e = r => Fifo(o)
           /\ \A s \in Clients :
                 r[s] \in {"none", "recv"} /\ c # << >> /\ d = Tail(c)
                    /\ e = [r EXCEPT ![s] = "none"] => Fifo(o)
           /\ c # << >> /\ d = Tail(c) /\ e = r => Fifo(o)
           /\ \A s \in Clients :
                 r[s] # "none" /\ d = c /\ e = [r EXCEPT ![s] = "none"] => Fifo(o)
           /\ \A s \in Clients :
                 r[s] = "none" /\ Len(c) = n /\ d = c /\ e = [r EXCEPT ![s] = "send"] => Fifo(o)
           /\ \A s \in Clients :
                 r[s] = "none" /\ c = << >> /\ d = c /\ e = [r EXCEPT ![s] = "recv"] => Fifo(o)
  <1>1. d = c /\ e = r => Fifo(o)
    BY DEF Fifo
  <1>2. d = << >> /\ e = r => Fifo(o)
    BY DEF Fifo, Buffer!Next, Buffer!Reset
  <1>3. ASSUME NEW s \in Clients, NEW item \in Items, r[s] \in {"none", "send"}, Len(c) # n,
               d = Append(c, item), e = [r EXCEPT ![s] = "none"]
        PROVE  Fifo(o)
    BY <1>3 DEF Fifo, Buffer!Next, Buffer!Send, Buffer!Full, Buffer!Return
  <1>4. ASSUME NEW s \in Clients, NEW item \in Items, r[s] = "none", Len(c) # n,
               d = <<item>> \o c, e = r
        PROVE  Fifo(o)
    BY <1>4 DEF Fifo, Buffer!Next, Buffer!Urgent, Buffer!Full
  <1>5. ASSUME NEW item \in Items, Len(c) # n, d = Append(c, item), e = r
        PROVE  Fifo(o)
    BY <1>5 DEF Fifo, Buffer!Next, Buffer!HandlerSend, Buffer!Full
  <1>6. ASSUME NEW s \in Clients, r[s] \in {"none", "recv"}, c # << >>, d = Tail(c),
               e = [r EXCEPT ![s] = "none"]
        PROVE  Fifo(o)
    BY <1>6 DEF Fifo, Buffer!Next, Buffer!Receive, Buffer!Empty, Buffer!Return
  <1>7. c # << >> /\ d = Tail(c) /\ e = r => Fifo(o)
    BY DEF Fifo, Buffer!Next, Buffer!HandlerReceive, Buffer!Empty
  <1>8. ASSUME NEW s \in Clients, r[s] # "none", d = c, e = [r EXCEPT ![s] = "none"]
        PROVE  Fifo(o)
    BY <1>8 DEF Fifo, Buffer!Next, Buffer!GiveUp, Buffer!Return
  <1>9. ASSUME NEW s \in Clients, r[s] = "none", Len(c) = n, d = c, e = [r EXCEPT ![s] = "send"]
        PROVE  Fifo(o)
    BY <1>9 DEF Fifo, Buffer!Next, Buffer!Wait, Buffer!Full
  <1>10. ASSUME NEW s \in Clients, r[s] = "none", c = << >>, d = c, e = [r EXCEPT ![s] = "recv"]
        PROVE  Fifo(o)
    BY <1>10 DEF Fifo, Buffer!Next, Buffer!Wait, Buffer!Empty
  <1> QED BY <1>1, <1>2, <1>3, <1>4, <1>5, <1>6, <1>7, <1>8, <1>9, <1>10
\* The same in terms of what the thread does.
LEMMA FifoMoves ==
    ASSUME NEW o \in Buffers, OnLists(pc, object, o), OnLists(pc', object', o),
           NEW n, n = Size(o), NEW c, c = Contents(o), NEW d, d = Contents(o)'
    PROVE  /\ \A s \in Clients, item \in Items :
                 OneMoves(s) /\ pc'[s] \notin WaitPoints /\ (pc[s] \notin WaitPoints \/ object[s] # o)
                    /\ Len(c) # n /\ d = Append(c, item) => Fifo(o)
           /\ \A s \in Clients, item \in Items :
                 OneMoves(s) /\ pc'[s] \notin WaitPoints /\ pc[s] \notin WaitPoints
                    /\ Len(c) # n /\ d = <<item>> \o c => Fifo(o)
           /\ \A item \in Items :
                 pc' = pc /\ object' = object /\ Len(c) # n /\ d = Append(c, item) => Fifo(o)
           /\ \A s \in Clients :
                 OneMoves(s) /\ pc'[s] \notin WaitPoints /\ (pc[s] \notin WaitPoints \/ object[s] = o)
                    /\ c # << >> /\ d = Tail(c) => Fifo(o)
           /\ pc' = pc /\ object' = object /\ c # << >> /\ d = Tail(c) => Fifo(o)
           /\ \A s \in Clients : OneMoves(s) /\ pc'[s] \notin WaitPoints /\ d = c => Fifo(o)
           /\ \A s \in Clients :
                 OneMoves(s) /\ pc'[s] \in WaitPoints /\ object'[s] # o
                    /\ (pc[s] \notin WaitPoints \/ object[s] # o) /\ Len(c) = n /\ d = c => Fifo(o)
           /\ \A s \in Clients :
                 OneMoves(s) /\ pc'[s] \in WaitPoints /\ object'[s] = o
                    /\ (pc[s] \notin WaitPoints \/ object[s] = o) /\ c = << >> /\ d = c => Fifo(o)
           /\ object' = object /\ (\A t \in Threads : GoesOn(t)) /\ d = c => Fifo(o)
           /\ \A s \in Clients :
                 OneMoves(s) /\ pc'[s] \notin WaitPoints /\ pc[s] \notin WaitPoints /\ d = << >> => Fifo(o)
  <1>1. PICK r : r = Calling(o)
    OBVIOUS
  <1>2. PICK e : e = Calling(o)'
    OBVIOUS
  <1>3. r = Roles(pc, object, o) /\ e = Roles(pc', object', o)
    BY <1>1, <1>2, CallingRoles
  <1>4. ASSUME NEW s \in Clients
        PROVE  r[s] = IF pc[s] \notin WaitPoints THEN "none" ELSE IF object[s] = o THEN "recv" ELSE "send"
    BY <1>3 DEF Roles
  <1>5. ASSUME NEW s \in Clients, r[s] = "none" \/ r[s] = "send" \/ r[s] = "recv", NEW x, r[s] = x
        PROVE  r = [r EXCEPT ![s] = x]
    BY <1>3, <1>5 DEF Roles
  <1>6. ASSUME NEW s \in Clients, OneMoves(s), pc'[s] \notin WaitPoints
        PROVE  e = [r EXCEPT ![s] = "none"]
    BY <1>3, <1>6, RolesAfter
  <1>7. ASSUME NEW s \in Clients, OneMoves(s), pc'[s] \in WaitPoints
        PROVE  e = [r EXCEPT ![s] = IF object'[s] = o THEN "recv" ELSE "send"]
    BY <1>3, <1>7, RolesAfter
  <1>8. ASSUME object' = object, \A t \in Threads : GoesOn(t)
        PROVE  e = r
    <2>1. \A t \in Threads : object'[t] = object[t] /\ (pc'[t] \in WaitPoints <=> pc[t] \in WaitPoints)
      BY <1>8 DEF GoesOn, WaitPoints
    <2> QED BY <1>3, <2>1, RolesAfter
  <1>9. pc' = pc /\ object' = object => e = r
    BY <1>3
  <1>10. /\ d = c /\ e = r => Fifo(o)
         /\ d = << >> /\ e = r => Fifo(o)
         /\ \A s \in Clients, item \in Items :
               r[s] \in {"none", "send"} /\ Len(c) # n /\ d = Append(c, item)
                  /\ e = [r EXCEPT ![s] = "none"] => Fifo(o)
         /\ \A s \in Clients, item \in Items :
               r[s] = "none" /\ Len(c) # n /\ d = <<item>> \o c /\ e = r => Fifo(o)
         /\ \A item \in Items : Len(c) # n /\ d = Append(c, item) /\ e = r => Fifo(o)
         /\ \A s \in Clients :
               r[s] \in {"none", "recv"} /\ c # << >> /\ d = Tail(c)
                  /\ e = [r EXCEPT ![s] = "none"] => Fifo(o)
         /\ c # << >> /\ d = Tail(c) /\ e = r => Fifo(o)
         /\ \A s \in Clients :
               r[s] # "none" /\ d = c /\ e = [r EXCEPT ![s] = "none"] => Fifo(o)
         /\ \A s \in Clients :
               r[s] = "none" /\ Len(c) = n /\ d = c /\ e = [r EXCEPT ![s] = "send"] => Fifo(o)
         /\ \A s \in Clients :
               r[s] = "none" /\ c = << >> /\ d = c /\ e = [r EXCEPT ![s] = "recv"] => Fifo(o)
    BY ONLY <1>1, <1>2, n = Size(o), c = Contents(o), d = Contents(o)', FifoSteps
  <1>11. ASSUME NEW s \in Clients, NEW item \in Items, OneMoves(s), pc'[s] \notin WaitPoints,
                pc[s] \notin WaitPoints \/ object[s] # o, Len(c) # n, d = Append(c, item)
         PROVE  Fifo(o)
    BY <1>4, <1>6, <1>10, <1>11
  <1>12. ASSUME NEW s \in Clients, NEW item \in Items, OneMoves(s), pc'[s] \notin WaitPoints,
                pc[s] \notin WaitPoints, Len(c) # n, d = <<item>> \o c
         PROVE  Fifo(o)
    <2>1. r[s] = "none"
      BY <1>4, <1>12
    <2>2. e = [r EXCEPT ![s] = "none"]
      BY <1>6, <1>12
    <2>3. r = [r EXCEPT ![s] = "none"]
      BY <1>5, <2>1
    <2> QED BY ONLY <1>10, <1>12, <2>1, <2>2, <2>3
  <1>13. ASSUME NEW item \in Items, pc' = pc, object' = object, Len(c) # n, d = Append(c, item)
         PROVE  Fifo(o)
    BY <1>9, <1>10, <1>13
  <1>14. ASSUME NEW s \in Clients, OneMoves(s), pc'[s] \notin WaitPoints,
                pc[s] \notin WaitPoints \/ object[s] = o, c # << >>, d = Tail(c)
         PROVE  Fifo(o)
    BY <1>4, <1>6, <1>10, <1>14
  <1>15. pc' = pc /\ object' = object /\ c # << >> /\ d = Tail(c) => Fifo(o)
    BY <1>9, <1>10
  <1>16. ASSUME NEW s \in Clients, OneMoves(s), pc'[s] \notin WaitPoints, d = c
         PROVE  Fifo(o)
    <2>1. e = [r EXCEPT ![s] = "none"]
      BY <1>6, <1>16
    <2>2. CASE r[s] = "none"
      <3>1. r = [r EXCEPT ![s] = "none"]
        BY <1>5, <2>2
      <3> QED BY ONLY <1>10, <1>16, <2>1, <3>1
    <2> QED BY <1>10, <1>16, <2>1, <2>2
  <1>17. ASSUME NEW s \in Clients, OneMoves(s), pc'[s] \in WaitPoints, object'[s] # o,
                pc[s] \notin WaitPoints \/ object[s] # o, Len(c) = n, d = c
         PROVE  Fifo(o)
    <2>1. e = [r EXCEPT ![s] = "send"]
      BY <1>7, <1>17
    <2>2. r[s] \in {"none", "send"}
      BY <1>4, <1>17
    <2>3. CASE r[s] = "send"
      <3>1. r = [r EXCEPT ![s] = "send"]
        BY <1>5, <2>3
      <3> QED BY ONLY <1>10, <1>17, <2>1, <3>1
    <2> QED BY <1>10, <1>17, <2>1, <2>2, <2>3
  <1>18. ASSUME NEW s \in Clients, OneMoves(s), pc'[s] \in WaitPoints, object'[s] = o,
                pc[s] \notin WaitPoints \/ object[s] = o, c = << >>, d = c
         PROVE  Fifo(o)
    <2>1. e = [r EXCEPT ![s] = "recv"]
      BY <1>7, <1>18
    <2>2. r[s] \in {"none", "recv"}
      BY <1>4, <1>18
    <2>3. CASE r[s] = "recv"
      <3>1. r = [r EXCEPT ![s] = "recv"]
        BY <1>5, <2>3
      <3> QED BY ONLY <1>10, <1>18, <2>1, <3>1
    <2> QED BY <1>10, <1>18, <2>1, <2>2, <2>3
  <1>19. object' = object /\ (\A t \in Threads : GoesOn(t)) /\ d = c => Fifo(o)
    BY <1>8, <1>10
  <1>20. ASSUME NEW s \in Clients, OneMoves(s), pc'[s] \notin WaitPoints, pc[s] \notin WaitPoints, d = << >>
         PROVE  Fifo(o)
    <2>1. r[s] = "none"
      BY <1>4, <1>20
    <2>2. e = [r EXCEPT ![s] = "none"]
      BY <1>6, <1>20
    <2>3. r = [r EXCEPT ![s] = "none"]
      BY <1>5, <2>1
    <2> QED BY ONLY <1>10, <1>20, <2>2, <2>3
  <1> QED BY <1>11, <1>12, <1>13, <1>14, <1>15, <1>16, <1>17, <1>18, <1>19, <1>20
\* What the refinement mapping sees of a mailbox.
LEMMA MailContents ==
    ASSUME NEW m \in Mailboxes
    PROVE  /\ m \in Buffers /\ Size(m) = mb_size[m]
           /\ Contents(m) = Ring(mb[m].msg_pool, mb[m].out_offset, mb[m].entry, mb_size[m])
           /\ Contents(m)' = Ring(mb'[m].msg_pool, mb'[m].out_offset, mb'[m].entry, mb_size[m])
  <1>1. m \notin MsgQueues /\ m \notin DataQueues
    BY KindsApart
  <1>2. Contents(m) = Mails(m) /\ Contents(m)' = Mails(m)' /\ Size(m) = mb_size[m]
    BY <1>1 DEF Contents, Size
  <1> QED BY <1>2 DEF Mails, Ring, Buffers

\* The mails in the box: none, or all there is room for, or one more or less.
LEMMA MailItems ==
    ASSUME MailData, NEW m \in Mailboxes
    PROVE  /\ Len(Contents(m)) = Size(m) <=> IsFull(m)
           /\ Contents(m) = << >> <=> IsEmpty(m)
           /\ \A value \in Range(mail) :
                 ~IsFull(m) /\ put_mail(m, value) => Contents(m)' = Append(Contents(m), value)
           /\ ~IsEmpty(m) /\ get_mail(m) => Contents(m)' = Tail(Contents(m))
           /\ mb'[m] = mb[m] => Contents(m)' = Contents(m)
           /\ mb'[m].entry = 0 => Contents(m)' = << >>
  <1>1. PICK f : f = mb[m].msg_pool
    OBVIOUS
  <1>2. PICK o : o = mb[m].out_offset
    OBVIOUS
  <1>3. PICK n : n = mb[m].entry
    OBVIOUS
  <1>4. PICK size : size = mb_size[m]
    OBVIOUS
  <1>5. PICK S : S = Range(mail)
    OBVIOUS
  <1>6. /\ size \in Nat \ {0} /\ n \in 0 .. size /\ n \in Nat /\ o \in 0 .. size - 1 /\ o \in Nat
        /\ f \in [0 .. size - 1 -> S]
        /\ mb[m].in_offset = IF o + n < size THEN o + n ELSE o + n - size
    <2>1. mb[m] \in MailRecord(m) /\ Placed(mb[m], mb_size[m]) /\ mb_size[m] \in Nat \ {0}
      BY MailboxAssumption DEF MailData
    <2> QED BY <1>1, <1>2, <1>3, <1>4, <1>5, <2>1 DEF MailRecord, Placed
  <1>7. /\ Contents(m) = Ring(f, o, n, size) /\ Size(m) = size
        /\ Contents(m)' = Ring(mb'[m].msg_pool, mb'[m].out_offset, mb'[m].entry, size)
    BY <1>1, <1>2, <1>3, <1>4, MailContents
  <1>8. Ring(f, o, n, size) \in Seq(S) /\ Len(Ring(f, o, n, size)) = n
    BY <1>6, RingLen
  <1>9. Len(Contents(m)) = Size(m) <=> IsFull(m)
    BY <1>3, <1>4, <1>7, <1>8 DEF IsFull
  <1>10. Contents(m) = << >> <=> IsEmpty(m)
    BY <1>3, <1>7, <1>8 DEF IsEmpty
  <1>11. ASSUME NEW value \in Range(mail), ~IsFull(m), put_mail(m, value)
         PROVE  Contents(m)' = Append(Contents(m), value)
    <2>1. MailChanged(m, [mb[m].msg_pool EXCEPT ![mb[m].in_offset] = value],
                      mb[m].entry + 1, Next_offset(m, mb[m].in_offset), mb[m].out_offset)
      BY <1>11, PutMailData
    <2>2. n < size
      BY <1>3, <1>4, <1>6, <1>11 DEF IsFull
    <2>3. mb[m].in_offset = ((o + n) % size)
      <3>1. PICK a : a = o + n
        OBVIOUS
      <3>2. a \in Nat /\ a < size + size
        BY <1>6, <2>2, <3>1
      <3>3. (a % size) = IF a < size THEN a ELSE a - size
        <4>1. CASE a < size
          BY <1>6, <3>2, <4>1, SmallMod
        <4>2. CASE ~(a < size)
          <5>1. size <= a
            BY <1>6, <3>2, <4>2
          <5> QED BY <1>6, <3>2, <4>2, <5>1, WrapMod
        <4> QED BY <4>1, <4>2
      <3> QED BY <1>6, <3>1, <3>3
    <2>4. PICK g : g = [f EXCEPT ![mb[m].in_offset] = value]
      OBVIOUS
    <2>5. PICK l : l = n + 1
      OBVIOUS
    <2>6. Contents(m)' = Ring(g, o, l, size)
      BY <1>1, <1>2, <1>3, <1>7, <2>1, <2>4, <2>5 DEF MailChanged
    <2>7. PICK p : p = mb[m].in_offset
      OBVIOUS
    <2>8. p \in 0 .. size - 1
      BY <1>6, <2>2, <2>7
    <2>9. g \in [0 .. size - 1 -> S] /\ g[p] = value /\ AgreeBut(f, g, p, size)
      BY <1>5, <1>6, <2>4, <2>7, <2>8 DEF AgreeBut
    <2>10. /\ size \in Nat \ {0} /\ n \in Nat /\ n < size /\ l = n + 1 /\ o \in Nat
           /\ f \in [0 .. size - 1 -> S] /\ p = Place(o, n, size)
           /\ g \in [0 .. size - 1 -> S] /\ g[p] = value /\ AgreeBut(f, g, p, size)
      BY <1>6, <2>2, <2>3, <2>5, <2>7, <2>9 DEF Place
    <2>11. Ring(g, o, l, size) = Append(Ring(f, o, n, size), value)
      BY ONLY <2>10, RingPut
    <2> QED BY <1>7, <2>6, <2>11
  <1>12. ASSUME ~IsEmpty(m), get_mail(m)
         PROVE  Contents(m)' = Tail(Contents(m))
    <2>1. MailChanged(m, mb[m].msg_pool, mb[m].entry - 1, mb[m].in_offset,
                      Next_offset(m, mb[m].out_offset))
      BY <1>12, GetMailData
    <2>2. n \in Nat \ {0} /\ n - 1 \in 0 .. size
      BY <1>3, <1>6, <1>12 DEF IsEmpty
    <2>3. PICK p : p = IF o + 1 >= size THEN 0 ELSE o + 1
      OBVIOUS
    <2>4. Contents(m)' = Ring(f, p, n - 1, size)
      BY <1>1, <1>2, <1>3, <1>4, <1>7, <2>1, <2>3 DEF MailChanged, Next_offset
    <2>5. Ring(f, p, n - 1, size) = Ring(f, o + 1, n - 1, size)
      <3>1. CASE o + 1 >= size
        <4>1. o + 1 = size /\ p = 0
          BY <1>6, <2>3, <3>1
        <4>2. Ring(f, 0, n - 1, size) = Ring(f, size, n - 1, size)
          BY <1>6, <2>2, RingTurn
        <4> QED BY <4>1, <4>2
      <3>2. CASE ~(o + 1 >= size)
        BY <2>3, <3>2
      <3> QED BY <3>1, <3>2
    <2>6. Ring(f, o + 1, n - 1, size) = Tail(Ring(f, o, n, size))
      BY ONLY <1>6, <2>2, RingGet
    <2> QED BY <1>7, <2>4, <2>5, <2>6
  <1>13. mb'[m] = mb[m] => Contents(m)' = Contents(m)
    BY <1>1, <1>2, <1>3, <1>7
  <1>14. mb'[m].entry = 0 => Contents(m)' = << >>
    BY <1>7 DEF Ring
  <1> QED BY <1>9, <1>10, <1>11, <1>12, <1>13, <1>14
\* A thread outside every loop takes a step that leaves it there.
LEMMA MoverFacts ==
    ASSUME Now, NEW s \in Threads, NEW point, Running(s, point)
    PROVE  /\ s \in Clients /\ pc[s] = point
           /\ pc \in [Threads -> Points] /\ object \in [Threads -> Queues]
  BY RunningReady DEF Clients

\* Every step of a mailbox is one of the bounded buffer.
LEMMA MailMaps ==
    ASSUME NEW o, o = subject, Now, MailInv, subject \in Mailboxes, MailboxNext, UNCHANGED subject,
           OnLists(pc, object, subject), OnLists(pc', object', subject)
    PROVE  Fifo(o)
  <1>1. o = subject
    OBVIOUS
  <1>2. /\ o \in Buffers /\ o \in Mailboxes /\ MailData
        /\ OnLists(pc, object, o) /\ OnLists(pc', object', o)
    BY <1>1 DEF Buffers, MailInv
  <1>3. /\ suspend_sender_thread[o] # o
        /\ \A m \in Mailboxes : Usable(m) => m = o
        /\ \A m \in Mailboxes : m \in Scope(subject) => m = o
        /\ \A m \in Mailboxes : suspend_sender_thread[m] \in Scope(subject) => m = o
    BY <1>1, MailboxAlone
  <1>4. PICK c : c = Contents(o)
    OBVIOUS
  <1>5. PICK d : d = Contents(o)'
    OBVIOUS
  <1>6. PICK n : n = Size(o)
    OBVIOUS
  <1>7. /\ Len(c) = n <=> IsFull(o)
        /\ c = << >> <=> IsEmpty(o)
        /\ \A value \in Range(mail) : ~IsFull(o) /\ put_mail(o, value) => d = Append(c, value)
        /\ ~IsEmpty(o) /\ get_mail(o) => d = Tail(c)
        /\ mb'[o] = mb[o] => d = c
        /\ mb'[o].entry = 0 => d = << >>
    BY ONLY <1>2, <1>4, <1>5, <1>6, MailItems
  <1>8. Range(mail) \subseteq Items
    BY DEF Items
  <1>9. /\ \A s \in Clients, item \in Items :
              OneMoves(s) /\ pc'[s] \notin WaitPoints /\ (pc[s] \notin WaitPoints \/ object[s] # o)
                 /\ Len(c) # n /\ d = Append(c, item) => Fifo(o)
        /\ \A item \in Items :
              pc' = pc /\ object' = object /\ Len(c) # n /\ d = Append(c, item) => Fifo(o)
        /\ \A s \in Clients :
              OneMoves(s) /\ pc'[s] \notin WaitPoints /\ (pc[s] \notin WaitPoints \/ object[s] = o)
                 /\ c # << >> /\ d = Tail(c) => Fifo(o)
        /\ \A s \in Clients : OneMoves(s) /\ pc'[s] \notin WaitPoints /\ d = c => Fifo(o)
        /\ \A s \in Clients :
              OneMoves(s) /\ pc'[s] \in WaitPoints /\ object'[s] # o
                 /\ (pc[s] \notin WaitPoints \/ object[s] # o) /\ Len(c) = n /\ d = c => Fifo(o)
        /\ \A s \in Clients :
              OneMoves(s) /\ pc'[s] \in WaitPoints /\ object'[s] = o
                 /\ (pc[s] \notin WaitPoints \/ object[s] = o) /\ c = << >> /\ d = c => Fifo(o)
        /\ object' = object /\ (\A t \in Threads : GoesOn(t)) /\ d = c => Fifo(o)
        /\ \A s \in Clients :
              OneMoves(s) /\ pc'[s] \notin WaitPoints /\ pc[s] \notin WaitPoints /\ d = << >> => Fifo(o)
    BY ONLY <1>2, <1>4, <1>5, <1>6, FifoMoves
  <1>10. ASSUME NEW s \in Clients, s \in Threads,
                pc \in [Threads -> Points], object \in [Threads -> Queues],
                pc[s] \notin WaitPoints \/ object[s] # o, send_mail(s, o) \/ wait_room(s, o)
         PROVE  Fifo(o)
    <2>1. CASE send_mail(s, o)
      <3>1. ~IsFull(o) /\ put_mail(o, mail[s]) /\ LeaveWaking(s, o)
        BY <2>1 DEF send_mail
      <3>2. mail[s] \in Range(mail)
        BY <1>10, MailboxAssumption DEF Range
      <3>3. OneMoves(s) /\ pc'[s] \notin WaitPoints
        BY <1>10, <3>1, SectionMoves
      <3>4. d = Append(c, mail[s]) /\ Len(c) # n /\ mail[s] \in Items
        BY <1>7, <1>8, <3>1, <3>2
      <3> QED BY <1>9, <1>10, <3>3, <3>4
    <2>2. CASE wait_room(s, o)
      <3>1. /\ IsFull(o) /\ UNCHANGED mb
            /\ WaitOn(s, suspend_sender_thread[o], mb_flag[o], o \notin Deletable)
        BY <2>2 DEF wait_room
      <3>2. OneMoves(s) /\ pc'[s] \in WaitPoints /\ object'[s] = suspend_sender_thread[o]
        BY <1>10, <3>1, SectionMoves
      <3>3. d = c /\ Len(c) = n
        BY <1>7, <3>1
      <3> QED BY <1>3, <1>9, <1>10, <3>2, <3>3
    <2> QED BY <1>10, <2>1, <2>2
  <1>11. ASSUME NEW s \in Clients, s \in Threads,
                pc \in [Threads -> Points], object \in [Threads -> Queues],
                pc[s] \notin WaitPoints \/ object[s] = o, recv_mail(s, o) \/ wait_mail(s, o)
         PROVE  Fifo(o)
    <2>1. CASE recv_mail(s, o)
      <3>1. ~IsEmpty(o) /\ get_mail(o) /\ LeaveWaking(s, suspend_sender_thread[o])
        BY <2>1 DEF recv_mail
      <3>3. OneMoves(s) /\ pc'[s] \notin WaitPoints
        BY <1>10, <1>11, <3>1, SectionMoves
      <3>4. d = Tail(c) /\ c # << >>
        BY <1>7, <3>1
      <3> QED BY <1>9, <1>11, <3>3, <3>4
    <2>2. CASE wait_mail(s, o)
      <3>1. IsEmpty(o) /\ UNCHANGED mb /\ WaitOn(s, o, mb_flag[o], o \notin Deletable)
        BY <2>2 DEF wait_mail
      <3>2. OneMoves(s) /\ pc'[s] \in WaitPoints /\ object'[s] = o
        BY <1>11, <3>1, SectionMoves
      <3>3. d = c /\ c = << >>
        BY <1>7, <3>1
      <3> QED BY <1>9, <1>11, <3>2, <3>3
    <2> QED BY <1>11, <2>1, <2>2
  <1>12. ASSUME NEW s \in Clients, s \in Threads,
                pc \in [Threads -> Points], object \in [Threads -> Queues],
                LeaveCall(s), UNCHANGED mb
         PROVE  Fifo(o)
    <2>1. OneMoves(s) /\ pc'[s] \notin WaitPoints
      BY <1>12, SectionMoves
    <2>2. d = c
      BY <1>7, <1>12
    <2> QED BY <1>9, <1>12, <2>1, <2>2
  <1>13. ASSUME NEW s \in Threads, NEW m \in Mailboxes, rt_mb_send_wait(s, m) \/ rt_mb_recv(s, m)
         PROVE  Fifo(o)
    <2>1. /\ Running(s, "user") /\ Usable(m)
          /\ send_mail(s, m) \/ wait_room(s, m) \/ recv_mail(s, m) \/ wait_mail(s, m)
      BY <1>13 DEF rt_mb_send_wait, rt_mb_recv
    <2>2. m = o
      BY <1>3, <2>1
    <2>3. /\ s \in Clients /\ pc[s] \notin WaitPoints
          /\ pc \in [Threads -> Points] /\ object \in [Threads -> Queues]
      BY <2>1, MoverFacts DEF WaitPoints
    <2> QED BY <1>10, <1>11, <2>1, <2>2, <2>3
  <1>14. ASSUME NEW s \in Threads, NEW m \in Mailboxes, mb_send_again(s, m)
         PROVE  Fifo(o)
    <2>1. /\ Running(s, "woken") /\ object[s] = suspend_sender_thread[m]
          /\ (LeaveCall(s) /\ UNCHANGED <<k, mb>>) \/ send_mail(s, m) \/ wait_room(s, m)
      BY <1>14 DEF mb_send_again, give_up
    <2>2. /\ s \in Clients /\ pc[s] = "woken"
          /\ pc \in [Threads -> Points] /\ object \in [Threads -> Queues]
      BY <2>1, MoverFacts
    <2>3. m = o
      BY <1>3, <2>1, <2>2, InScope DEF Outside
    <2>4. object[s] # o
      BY <1>3, <2>1, <2>3
    <2> QED BY <1>10, <1>12, <2>1, <2>2, <2>3, <2>4
  <1>15. ASSUME NEW s \in Threads, NEW m \in Mailboxes, mb_recv_again(s, m)
         PROVE  Fifo(o)
    <2>1. /\ Running(s, "woken") /\ object[s] = m
          /\ (LeaveCall(s) /\ UNCHANGED <<k, mb>>) \/ recv_mail(s, m) \/ wait_mail(s, m)
      BY <1>15 DEF mb_recv_again, give_up
    <2>2. /\ s \in Clients /\ pc[s] = "woken"
          /\ pc \in [Threads -> Points] /\ object \in [Threads -> Queues]
      BY <2>1, MoverFacts
    <2>3. m = o
      BY <1>3, <2>1, <2>2, InScope DEF Outside
    <2> QED BY <1>11, <1>12, <2>1, <2>2, <2>3
  <1>16. ASSUME NEW m \in Mailboxes, isr_mb_send(m)
         PROVE  Fifo(o)
    <2>1. /\ Usable(m) /\ ~IsFull(m) /\ put_mail(m, mail[Idle]) /\ UNCHANGED <<pc, object>>
      BY <1>16 DEF isr_mb_send
    <2>2. m = o
      BY <1>3, <2>1
    <2>3. mail[Idle] \in Range(mail)
      BY MailboxAssumption, IpcAssumption DEF Range
    <2>4. d = Append(c, mail[Idle]) /\ Len(c) # n /\ mail[Idle] \in Items
      BY <1>7, <1>8, <2>1, <2>2, <2>3
    <2> QED BY <1>9, <2>1, <2>4
  <1>17. ASSUME NEW s \in Threads, NEW m \in Mailboxes, rt_mb_control(s, m)
         PROVE  Fifo(o)
    <2>1. /\ Running(s, "user") /\ Usable(m) /\ Goto(s, "schedule") /\ UNCHANGED object
          /\ mb' = [mb EXCEPT ![m].entry = 0, ![m].in_offset = 0, ![m].out_offset = 0]
      BY <1>17 DEF rt_mb_control
    <2>2. m = o
      BY <1>3, <2>1
    <2>3. /\ s \in Clients /\ pc[s] \notin WaitPoints
          /\ pc \in [Threads -> Points] /\ object \in [Threads -> Queues]
      BY <2>1, MoverFacts DEF WaitPoints
    <2>4. OneMoves(s) /\ pc'[s] \notin WaitPoints
      BY <2>1, <2>3 DEF OneMoves, Goto, WaitPoints
    <2>5. mb'[o].entry = 0
      <3>1. DOMAIN mb = Mailboxes /\ mb[o] \in MailRecord(o)
        BY <1>2 DEF MailData
      <3>2. mb'[o] = [mb[o] EXCEPT !.entry = 0, !.in_offset = 0, !.out_offset = 0]
        BY <1>2, <2>1, <2>2, <3>1
      <3> QED BY <3>1, <3>2 DEF MailRecord
    <2> QED BY <1>7, <1>9, <2>3, <2>4, <2>5
  <1>18. ASSUME NEW s \in Threads, NEW m \in Mailboxes, rt_mb_detach(s, m) \/ mb_detach_one(s, m)
         PROVE  Fifo(o)
    <2>1. /\ Running(s, "user") \/ Running(s, "resuming")
          /\ UNCHANGED mb
          /\ detach_turn(s, k, m) \/ detach_turn(s, k', m)
      BY <1>18 DEF rt_mb_detach, mb_detach_one
    <2>2. /\ s \in Clients /\ pc \in [Threads -> Points] /\ object \in [Threads -> Queues]
      BY <2>1, MoverFacts
    <2>3. ASSUME NEW u, detach_turn(s, u, m)
          PROVE  OneMoves(s) /\ pc'[s] \notin WaitPoints
      <3>1. CASE LeaveCall(s)
        BY <2>2, <3>1, SectionMoves
      <3>2. CASE ~LeaveCall(s)
        <4>1. /\ Goto(s, "resuming")
              /\ \E q : object' = [object EXCEPT ![s] = q]
          BY <2>3, <3>2 DEF detach_turn
        <4> QED BY <2>2, <4>1 DEF OneMoves, Goto, WaitPoints
      <3> QED BY <3>1, <3>2
    <2>4. OneMoves(s) /\ pc'[s] \notin WaitPoints
      BY <2>1, <2>3
    <2> QED BY <1>7, <1>9, <2>1, <2>2, <2>4
  <1>19. ASSUME Background, UNCHANGED mb
         PROVE  Fifo(o)
    <2>1. object' = object /\ \A t \in Threads : GoesOn(t)
      BY <1>19, BackgroundStep DEF Idled
    <2> QED BY <1>7, <1>9, <1>19, <2>1
  <1>20. Fifo(o)
    BY <1>13, <1>14, <1>15, <1>16, <1>17, <1>18, <1>19 DEF MailboxNext
  <1> QED BY <1>20
\* What the refinement mapping sees of a message queue.
LEMMA MsgContents ==
    ASSUME NEW q \in MsgQueues
    PROVE  /\ q \in Buffers /\ Size(q) = Cardinality(Messages[q])
           /\ Contents(q) = Copied(holds, mq[q].msg_queue)
           /\ Contents(q)' = Copied(holds', mq'[q].msg_queue)
  <1>1. q \notin Mailboxes /\ q \notin DataQueues
    BY KindsApart
  <1>2. Contents(q) = Linked(q) /\ Contents(q)' = Linked(q)' /\ Size(q) = Cardinality(Messages[q])
    BY <1>1 DEF Contents, Size
  <1> QED BY <1>2 DEF Linked, Copied, Buffers

\* A free block, or one in the hands of a call, is missing in the queue.
LEMMA RoomLeft ==
    ASSUME MsgInv, subject \in MsgQueues,
           mq[subject].msg_queue_free # << >> \/ \E t \in Threads : msg[t] # NoMsg
    PROVE  Len(mq[subject].msg_queue) # Cardinality(Messages[subject])
  <1>1. PICK M : M = Messages[subject]
    OBVIOUS
  <1>2. PICK f : f = mq[subject].msg_queue_free
    OBVIOUS
  <1>3. PICK l : l = mq[subject].msg_queue
    OBVIOUS
  <1>4. PICK held : held = {t \in Threads : msg[t] \in M}
    OBVIOUS
  <1>5. /\ Shared(f, l, msg, M) /\ msg \in [Threads -> M \cup {NoMsg}] /\ NoMsg \notin M
        /\ \A s, t \in Threads : msg[s] = msg[t] /\ msg[s] # NoMsg => s = t
    BY <1>1, <1>2, <1>3, SubjectBlocks
  <1>6. IsFiniteSet(M) /\ \A s, t \in Threads : msg[s] = msg[t] /\ msg[s] \in M => s = t
    BY <1>1, <1>5, MessageQueueAssumption
  <1>7. Cardinality(M) = Len(f \o l) + Cardinality(held)
    BY <1>4, <1>5, <1>6, SharedCounts
  <1>8. f \in Seq(M) /\ l \in Seq(M) /\ Len(f \o l) = Len(f) + Len(l)
    BY <1>5 DEF Shared
  <1>9. Cardinality(held) \in Nat /\ (held # {} => Cardinality(held) # 0)
    <2>1. IsFiniteSet(held)
      <3>1. held \in SUBSET Threads /\ IsFiniteSet(Threads)
        BY <1>4, IpcAssumption
      <3> QED BY <3>1, FS_Subset
    <2> QED BY <2>1, FS_CardinalityType, FS_EmptySet
  <1>10. f # << >> \/ held # {}
    BY <1>2, <1>4, <1>5
  <1>11. Len(f) \in Nat /\ Len(l) \in Nat /\ (f # << >> => Len(f) # 0)
    BY <1>8
  <1>12. Cardinality(M) = Len(f) + Len(l) + Cardinality(held)
    BY <1>7, <1>8
  <1>13. Len(f) # 0 \/ Cardinality(held) # 0
    BY <1>9, <1>10, <1>11
  <1>14. Len(l) # Cardinality(M)
    BY ONLY <1>9, <1>11, <1>12, <1>13
  <1> QED BY <1>1, <1>3, <1>14

\* What a section that changes the queue q does to its messages: from c to d,
\* of n at most.
MsgView(q, c, d, n) ==
    /\ c = << >> <=> mq[q].entry = 0
    /\ mq'[q].msg_queue = mq[q].msg_queue /\ holds' = holds => d = c
    /\ mq'[q].msg_queue = << >> => d = << >>
    /\ mq[q].msg_queue # << >> /\ mq'[q].msg_queue = Tail(mq[q].msg_queue) /\ holds' = holds => d = Tail(c)
    /\ \A i \in Messages[q], item \in Range(content) :
          ~Contains(mq[q].msg_queue, i) /\ holds' = [holds EXCEPT ![i] = item] =>
             /\ mq'[q].msg_queue = Append(mq[q].msg_queue, i) => d = Append(c, item)
             /\ mq'[q].msg_queue = <<i>> \o mq[q].msg_queue => d = <<item>> \o c
    /\ mq[q].msg_queue_free # << >> \/ (\E t \in Threads : msg[t] # NoMsg) => Len(c) # n

\* Every section is seen this way.
LEMMA MsgItems ==
    ASSUME MsgInv, subject \in MsgQueues, NEW q, q = subject,
           NEW c, c = Contents(q), NEW d, d = Contents(q)', NEW n, n = Size(q)
    PROVE  MsgView(q, c, d, n)
  <1>1. PICK M : M = Messages[q]
    OBVIOUS
  <1>2. PICK l : l = mq[q].msg_queue
    OBVIOUS
  <1>3. PICK T : T = Range(content)
    OBVIOUS
  <1>0. PICK A : A = AllMessages
    OBVIOUS
  <1>4. /\ Shared(mq[q].msg_queue_free, l, msg, M) /\ M \subseteq A
        /\ holds \in [A -> T] /\ mq[q].entry = Len(l) /\ l \in Seq(M)
    <2>1. /\ Shared(mq[q].msg_queue_free, l, msg, M) /\ M \subseteq A
          /\ holds \in [A -> T] /\ mq[q].entry = Len(l)
      BY <1>0, <1>1, <1>2, <1>3, SubjectBlocks
    <2> QED BY <2>1 DEF Shared
  <1>5. l \in Seq(A)
    BY <1>4
  <1>6. n = Cardinality(M) /\ c = Copied(holds, l) /\ d = Copied(holds', mq'[q].msg_queue)
    BY <1>1, <1>2, MsgContents
  <1>7. Copied(holds, l) \in Seq(T) /\ Len(Copied(holds, l)) = Len(l) /\ (Copied(holds, l) = << >> <=> l = << >>)
    <2>1. holds \in [A -> T] /\ l \in Seq(A)
      BY <1>4, <1>5
    <2> QED BY ONLY <2>1, CopiedLen
  <1>8. c = << >> <=> mq[q].entry = 0
    BY <1>4, <1>6, <1>7
  <1>9. mq'[q].msg_queue = << >> => d = << >>
    BY <1>6 DEF Copied
  <1>10. ASSUME l # << >>, mq'[q].msg_queue = Tail(l), holds' = holds PROVE d = Tail(c)
    <2>1. PICK r : r = Tail(l)
      OBVIOUS
    <2>2. PICK e : e = Copied(holds, l)
      OBVIOUS
    <2>3. holds \in [A -> T] /\ l \in Seq(A) /\ l # << >> /\ r = Tail(l) /\ e = Copied(holds, l)
      BY <1>4, <1>5, <1>10, <2>1, <2>2
    <2>4. Copied(holds, r) = Tail(e)
      BY ONLY <2>3, CopiedTail
    <2> QED BY <1>6, <1>10, <2>1, <2>2, <2>4
  <1>11. ASSUME NEW i \in M, NEW item \in T, ~Contains(l, i), holds' = [holds EXCEPT ![i] = item]
         PROVE  /\ mq'[q].msg_queue = Append(l, i) => d = Append(c, item)
                /\ mq'[q].msg_queue = <<i>> \o l => d = <<item>> \o c
    <2>1. PICK g : g = holds'
      OBVIOUS
    <2>2. PICK h : h = holds
      OBVIOUS
    <2>3. Stores(A, T, h, g, l, i)
      BY <1>4, <1>5, <1>11, <2>1, <2>2 DEF Stores
    <2>6. g[i] = item
      BY <1>4, <1>11, <2>1
    <2>4. Copied(g, Append(l, i)) = Append(Copied(h, l), g[i])
      BY ONLY <2>3, CopiedPut
    <2>5. Copied(g, <<i>> \o l) = <<g[i]>> \o Copied(h, l)
      BY ONLY <2>3, CopiedPush
    <2> QED BY <1>6, <2>1, <2>2, <2>4, <2>5, <2>6
  <1>12. mq[q].msg_queue_free # << >> \/ (\E t \in Threads : msg[t] # NoMsg) => Len(c) # n
    BY <1>1, <1>2, <1>6, <1>7, RoomLeft
  <1>13. mq'[q].msg_queue = mq[q].msg_queue /\ holds' = holds => d = c
    BY <1>2, <1>6
  <1> QED BY <1>1, <1>2, <1>3, <1>8, <1>9, <1>10, <1>11, <1>12, <1>13 DEF MsgView

\* Every step of a message queue is one of the bounded buffer.
LEMMA MsgMaps ==
    ASSUME NEW o, o = subject, Now, MsgInv, subject \in MsgQueues, MessageQueueNext, UNCHANGED subject,
           OnLists(pc, object, subject), OnLists(pc', object', subject)
    PROVE  Fifo(o)
  <1>1. o = subject
    OBVIOUS
  <1>2. /\ o \in Buffers /\ o \in MsgQueues /\ o \in Queues
        /\ OnLists(pc, object, o) /\ OnLists(pc', object', o)
    BY <1>1, MessageQueueAssumption DEF Buffers
  <1>3. /\ \A q \in MsgQueues : Usable(q) => q = o
        /\ Scope(subject) = {o}
    BY <1>1, SingleAlone, MessageQueueAssumption DEF Singles
  <1>4. PICK c : c = Contents(o)
    OBVIOUS
  <1>5. PICK d : d = Contents(o)'
    OBVIOUS
  <1>6. PICK n : n = Size(o)
    OBVIOUS
  <1>7. /\ c = << >> <=> mq[o].entry = 0
        /\ mq'[o].msg_queue = mq[o].msg_queue /\ holds' = holds => d = c
        /\ mq'[o].msg_queue = << >> => d = << >>
        /\ mq[o].msg_queue # << >> /\ mq'[o].msg_queue = Tail(mq[o].msg_queue) /\ holds' = holds => d = Tail(c)
        /\ \A i \in Messages[o], item \in Range(content) :
              ~Contains(mq[o].msg_queue, i) /\ holds' = [holds EXCEPT ![i] = item] =>
                 /\ mq'[o].msg_queue = Append(mq[o].msg_queue, i) => d = Append(c, item)
                 /\ mq'[o].msg_queue = <<i>> \o mq[o].msg_queue => d = <<item>> \o c
        /\ mq[o].msg_queue_free # << >> \/ (\E t \in Threads : msg[t] # NoMsg) => Len(c) # n
    <2>1. MsgView(o, c, d, n)
      BY <1>1, <1>4, <1>5, <1>6, MsgItems
    <2> QED BY <2>1 DEF MsgView
  <1>8. Range(content) \subseteq Items
    BY DEF Items
  <1>9. /\ \A s \in Clients, item \in Items :
              OneMoves(s) /\ pc'[s] \notin WaitPoints /\ (pc[s] \notin WaitPoints \/ object[s] # o)
                 /\ Len(c) # n /\ d = Append(c, item) => Fifo(o)
        /\ \A s \in Clients, item \in Items :
              OneMoves(s) /\ pc'[s] \notin WaitPoints /\ pc[s] \notin WaitPoints
                 /\ Len(c) # n /\ d = <<item>> \o c => Fifo(o)
        /\ \A item \in Items :
              pc' = pc /\ object' = object /\ Len(c) # n /\ d = Append(c, item) => Fifo(o)
        /\ \A s \in Clients :
              OneMoves(s) /\ pc'[s] \notin WaitPoints /\ (pc[s] \notin WaitPoints \/ object[s] = o)
                 /\ c # << >> /\ d = Tail(c) => Fifo(o)
        /\ \A s \in Clients : OneMoves(s) /\ pc'[s] \notin WaitPoints /\ d = c => Fifo(o)
        /\ \A s \in Clients :
              OneMoves(s) /\ pc'[s] \in WaitPoints /\ object'[s] = o
                 /\ (pc[s] \notin WaitPoints \/ object[s] = o) /\ c = << >> /\ d = c => Fifo(o)
        /\ object' = object /\ (\A t \in Threads : GoesOn(t)) /\ d = c => Fifo(o)
        /\ \A s \in Clients :
              OneMoves(s) /\ pc'[s] \notin WaitPoints /\ pc[s] \notin WaitPoints /\ d = << >> => Fifo(o)
    BY ONLY <1>2, <1>4, <1>5, <1>6, FifoMoves
  <1>10. PICK M : M = Messages[o]
    OBVIOUS
  <1>11. PICK f : f = mq[o].msg_queue_free
    OBVIOUS
  <1>12. PICK l : l = mq[o].msg_queue
    OBVIOUS
  <1>13. /\ mq[o] \in QueueRecord(o) /\ DOMAIN mq = MsgQueues
         /\ Shared(f, l, msg, M) /\ msg \in [Threads -> M \cup {NoMsg}] /\ NoMsg \notin M
         /\ \A t \in Threads : msg[t] # NoMsg <=> pc[t] \in HoldPoints
         /\ mq[o].entry # 0 => l # << >>
    BY <1>1, <1>10, <1>11, <1>12, SubjectBlocks
  <1>14. ASSUME NEW v, mq' = [mq EXCEPT ![o] = v], NEW g, NEW h, NEW m,
                v = [msg_queue_free |-> g, msg_queue |-> h, entry |-> m]
         PROVE  mq'[o].msg_queue = h
    BY <1>2, <1>13, <1>14
  <1>15. ASSUME NEW s \in Threads, NEW q \in MsgQueues, rt_mq_send(s, q) \/ rt_mq_urgent(s, q)
         PROVE  Fifo(o)
    <2>1. PICK point \in {"sending", "sending_urgent"} : send_take(s, q, point)
      BY <1>15 DEF rt_mq_send, rt_mq_urgent
    <2>2. /\ Running(s, "user") /\ Usable(q) /\ UNCHANGED holds /\ Goto(s, point)
          /\ mq' = [mq EXCEPT ![q] = take_free(mq[q])] /\ object' = [object EXCEPT ![s] = q]
      BY <2>1 DEF send_take
    <2>3. q = o
      BY <1>3, <2>2
    <2>4. /\ s \in Clients /\ pc[s] = "user"
          /\ pc \in [Threads -> Points] /\ object \in [Threads -> Queues]
      BY <2>2, MoverFacts
    <2>5. OneMoves(s) /\ pc'[s] \notin WaitPoints
      BY <2>1, <2>2, <2>4 DEF OneMoves, Goto, WaitPoints
    <2>6. PICK v : v = take_free(mq[o])
      OBVIOUS
    <2>7. v = [msg_queue_free |-> Tail(f), msg_queue |-> l, entry |-> mq[o].entry]
      BY <1>11, <1>12, <1>13, <2>6, QueueSections
    <2>8. mq'[o].msg_queue = l
      <3>1. mq' = [mq EXCEPT ![o] = v]
        BY ONLY <2>2, <2>3, <2>6
      <3> QED BY ONLY <1>14, <2>7, <3>1
    <2>9. d = c
      BY <1>7, <1>12, <2>2, <2>8
    <2> QED BY <1>9, <2>4, <2>5, <2>9
  <1>16. ASSUME NEW s \in Threads, NEW q \in MsgQueues, send_link(s, q)
         PROVE  Fifo(o)
    <2>1. PICK point \in {"sending", "sending_urgent"} : Running(s, point)
      BY <1>16 DEF send_link
    <2>2. /\ object[s] = q /\ LeaveWaking(s, q)
          /\ mq' = [mq EXCEPT ![q] = IF pc[s] = "sending" THEN link_last(mq[q], msg[s])
                                     ELSE link_first(mq[q], msg[s])]
          /\ holds' = [holds EXCEPT ![msg[s]] = content[s]]
      BY <1>16 DEF send_link
    <2>3. /\ s \in Clients /\ pc[s] = point
          /\ pc \in [Threads -> Points] /\ object \in [Threads -> Queues]
      BY <2>1, MoverFacts
    <2>4. q = o
      <3>1. pc[s] \notin Outside
        BY <2>1, <2>3 DEF Outside
      <3> QED BY <1>3, <2>2, <3>1, InScope
    <2>5. OneMoves(s) /\ pc'[s] \notin WaitPoints
      BY <2>2, <2>3, SectionMoves
    <2>6. PICK i : i = msg[s]
      OBVIOUS
    <2>7. i \in M /\ i # NoMsg /\ ~Contains(l, i)
      BY <1>13, <2>1, <2>3, <2>6 DEF HoldPoints, Shared
    <2>8. content[s] \in Range(content)
      BY MessageQueueAssumption DEF Range
    <2>9. Len(c) # n
      BY <1>7, <2>6, <2>7
    <2>10. PICK item : item = content[s]
      OBVIOUS
    <2>11. item \in Range(content) /\ item \in Items /\ holds' = [holds EXCEPT ![i] = item]
      BY <1>8, <2>2, <2>6, <2>8, <2>10
    <2>12. CASE pc[s] = "sending"
      <3>1. PICK v : v = link_last(mq[o], i)
        OBVIOUS
      <3>2. v = [msg_queue_free |-> f, msg_queue |-> Append(l, i), entry |-> mq[o].entry + 1]
        BY <1>11, <1>12, <1>13, <3>1, QueueSections
      <3>3. mq' = [mq EXCEPT ![o] = v]
        BY <2>2, <2>4, <2>6, <2>12, <3>1
      <3>4. mq'[o].msg_queue = Append(l, i)
        BY <1>14, <3>2, <3>3
      <3>5. d = Append(c, item)
        BY <1>7, <1>10, <1>12, <2>7, <2>11, <3>4
      <3>6. pc[s] \notin WaitPoints
        BY <2>12 DEF WaitPoints
      <3> QED BY <1>9, <2>3, <2>5, <2>9, <2>11, <3>5, <3>6
    <2>13. CASE pc[s] # "sending"
      <3>1. PICK v : v = link_first(mq[o], i)
        OBVIOUS
      <3>2. v = [msg_queue_free |-> f, msg_queue |-> <<i>> \o l, entry |-> mq[o].entry + 1]
        BY <1>11, <1>12, <1>13, <3>1, QueueSections
      <3>3. mq' = [mq EXCEPT ![o] = v]
        BY <2>2, <2>4, <2>6, <2>13, <3>1
      <3>4. mq'[o].msg_queue = <<i>> \o l
        BY <1>14, <3>2, <3>3
      <3>5. d = <<item>> \o c
        BY <1>7, <1>10, <1>12, <2>7, <2>11, <3>4
      <3>6. pc[s] \notin WaitPoints
        BY <2>1, <2>3 DEF WaitPoints
      <3> QED BY <1>9, <2>3, <2>5, <2>9, <2>11, <3>5, <3>6
    <2> QED BY <2>12, <2>13
  <1>17. ASSUME NEW q \in MsgQueues, isr_mq_send(q)
         PROVE  Fifo(o)
    <2>1. /\ Usable(q) /\ mq[q].msg_queue_free # << >> /\ UNCHANGED <<pc, object>>
          /\ mq' = [mq EXCEPT ![q] = link_last(take_free(mq[q]), Head(mq[q].msg_queue_free))]
          /\ holds' = [holds EXCEPT ![Head(mq[q].msg_queue_free)] = content[Idle]]
      BY <1>17 DEF isr_mq_send, HasFree
    <2>2. q = o
      BY <1>3, <2>1
    <2>3. PICK i : i = Head(f)
      OBVIOUS
    <2>4. i \in M /\ ~Contains(l, i)
      <3>1. f \in Seq(M) /\ IsInjective(f) /\ f # << >> /\ \A x : ~(Contains(f, x) /\ Contains(l, x))
        BY <1>11, <1>13, <2>1, <2>2 DEF Shared
      <3>2. Head(f) \in M /\ Contains(f, Head(f))
        BY ONLY <3>1, TailList
      <3> QED BY <2>3, <3>1, <3>2
    <2>5. PICK item : item = content[Idle]
      OBVIOUS
    <2>6. item \in Range(content) /\ item \in Items /\ holds' = [holds EXCEPT ![i] = item]
      <3>1. content[Idle] \in Range(content)
        BY MessageQueueAssumption, IpcAssumption DEF Range
      <3> QED BY <1>8, <1>11, <2>1, <2>2, <2>3, <2>5, <3>1
    <2>7. PICK v : v = link_last(take_free(mq[o]), i)
      OBVIOUS
    <2>8. v = [msg_queue_free |-> Tail(f), msg_queue |-> Append(l, i), entry |-> mq[o].entry + 1]
      BY <1>11, <1>12, <1>13, <2>7, QueueSections
    <2>9. mq' = [mq EXCEPT ![o] = v]
      BY <1>11, <2>1, <2>2, <2>3, <2>7
    <2>10. mq'[o].msg_queue = Append(l, i)
      BY <1>14, <2>8, <2>9
    <2>11. d = Append(c, item)
      BY <1>7, <1>10, <1>12, <2>4, <2>6, <2>10
    <2>12. Len(c) # n
      BY <1>7, <2>1, <2>2
    <2> QED BY <1>9, <2>1, <2>6, <2>11, <2>12
  <1>18. ASSUME NEW s \in Clients, s \in Threads,
                pc \in [Threads -> Points], object \in [Threads -> Queues],
                pc[s] \notin WaitPoints \/ object[s] = o, recv_take(s, o) \/ wait_message(s, o)
         PROVE  Fifo(o)
    <2>1. CASE recv_take(s, o)
      <3>1. /\ mq[o].entry # 0 /\ UNCHANGED holds /\ Goto(s, "receiving")
            /\ mq' = [mq EXCEPT ![o] = take_first(mq[o])] /\ object' = [object EXCEPT ![s] = o]
        BY <2>1 DEF recv_take
      <3>2. OneMoves(s) /\ pc'[s] \notin WaitPoints
        BY <1>18, <3>1 DEF OneMoves, Goto, WaitPoints
      <3>3. PICK v : v = take_first(mq[o])
        OBVIOUS
      <3>4. v = [msg_queue_free |-> f, msg_queue |-> Tail(l), entry |-> mq[o].entry - 1]
        BY <1>11, <1>12, <1>13, <3>3, QueueSections
      <3>5. mq'[o].msg_queue = Tail(l)
        BY <1>14, <3>1, <3>3, <3>4
      <3>6. d = Tail(c) /\ c # << >>
        BY <1>7, <1>12, <1>13, <3>1, <3>5
      <3> QED BY <1>9, <1>18, <3>2, <3>6
    <2>2. CASE wait_message(s, o)
      <3>1. mq[o].entry = 0 /\ UNCHANGED messages /\ WaitOn(s, o, mq_flag[o], o \notin Deletable)
        BY <2>2 DEF wait_message
      <3>2. OneMoves(s) /\ pc'[s] \in WaitPoints /\ object'[s] = o
        BY <1>18, <3>1, SectionMoves
      <3>3. d = c /\ c = << >>
        BY <1>7, <3>1 DEF messages
      <3> QED BY <1>9, <1>18, <3>2, <3>3
    <2> QED BY <1>18, <2>1, <2>2
  <1>19. ASSUME NEW s \in Threads, NEW q \in MsgQueues, rt_mq_recv(s, q)
         PROVE  Fifo(o)
    <2>1. Running(s, "user") /\ Usable(q) /\ (recv_take(s, q) \/ wait_message(s, q))
      BY <1>19 DEF rt_mq_recv
    <2>2. q = o
      BY <1>3, <2>1
    <2>3. /\ s \in Clients /\ pc[s] \notin WaitPoints
          /\ pc \in [Threads -> Points] /\ object \in [Threads -> Queues]
      BY <2>1, MoverFacts DEF WaitPoints
    <2> QED BY <1>18, <2>1, <2>2, <2>3
  <1>20. ASSUME NEW s \in Threads, NEW q \in MsgQueues, mq_recv_again(s, q)
         PROVE  Fifo(o)
    <2>1. /\ Running(s, "woken") /\ object[s] = q
          /\ (LeaveCall(s) /\ UNCHANGED <<k, messages>>) \/ recv_take(s, q) \/ wait_message(s, q)
      BY <1>20 DEF mq_recv_again
    <2>2. /\ s \in Clients /\ pc[s] = "woken"
          /\ pc \in [Threads -> Points] /\ object \in [Threads -> Queues]
      BY <2>1, MoverFacts
    <2>3. q = o
      BY <1>3, <2>1, <2>2, InScope DEF Outside
    <2>4. ASSUME LeaveCall(s), UNCHANGED messages
          PROVE  Fifo(o)
      <3>1. OneMoves(s) /\ pc'[s] \notin WaitPoints
        BY <2>2, <2>4, SectionMoves
      <3>2. d = c
        BY <1>7, <2>4 DEF messages
      <3> QED BY <1>9, <2>2, <3>1, <3>2
    <2> QED BY <1>18, <2>1, <2>2, <2>3, <2>4
  <1>21. ASSUME NEW s \in Threads, NEW q \in MsgQueues, recv_give_back(s, q)
         PROVE  Fifo(o)
    <2>1. /\ Running(s, "receiving") /\ object[s] = q /\ LeaveCall(s) /\ UNCHANGED holds
          /\ mq' = [mq EXCEPT ![q] = give_back(mq[q], msg[s])]
      BY <1>21 DEF recv_give_back
    <2>2. /\ s \in Clients /\ pc[s] = "receiving"
          /\ pc \in [Threads -> Points] /\ object \in [Threads -> Queues]
      BY <2>1, MoverFacts
    <2>3. q = o
      BY <1>3, <2>1, <2>2, InScope DEF Outside
    <2>4. OneMoves(s) /\ pc'[s] \notin WaitPoints
      BY <2>1, <2>2, SectionMoves
    <2>5. PICK i : i = msg[s]
      OBVIOUS
    <2>6. PICK v : v = give_back(mq[o], i)
      OBVIOUS
    <2>7. v = [msg_queue_free |-> <<i>> \o f, msg_queue |-> l, entry |-> mq[o].entry]
      BY <1>11, <1>12, <1>13, <2>6, QueueSections
    <2>8. mq'[o].msg_queue = l
      <3>1. mq' = [mq EXCEPT ![o] = v]
        BY <2>1, <2>3, <2>5, <2>6
      <3>2. mq'[o] = v
        BY ONLY <1>2, <1>13, <3>1
      <3> QED BY ONLY <2>7, <3>2
    <2>9. d = c
      BY <1>7, <1>12, <2>1, <2>8
    <2> QED BY <1>9, <2>2, <2>4, <2>9
  <1>22. ASSUME NEW s \in Threads, NEW q \in MsgQueues, rt_mq_control(s, q)
         PROVE  Fifo(o)
    <2>1. /\ Running(s, "user") /\ Usable(q) /\ Goto(s, "schedule") /\ UNCHANGED object
          /\ mq' = [mq EXCEPT ![q] = [msg_queue_free |-> Reverse(mq[q].msg_queue) \o mq[q].msg_queue_free,
                                      msg_queue |-> << >>, entry |-> 0]]
      BY <1>22 DEF rt_mq_control
    <2>2. q = o
      BY <1>3, <2>1
    <2>3. /\ s \in Clients /\ pc[s] \notin WaitPoints
          /\ pc \in [Threads -> Points] /\ object \in [Threads -> Queues]
      BY <2>1, MoverFacts DEF WaitPoints
    <2>4. OneMoves(s) /\ pc'[s] \notin WaitPoints
      BY <2>1, <2>3 DEF OneMoves, Goto, WaitPoints
    <2>5. mq'[o].msg_queue = << >>
      BY <1>13, <1>14, <2>1, <2>2
    <2>6. d = << >>
      BY <1>7, <2>5
    <2> QED BY <1>9, <2>3, <2>4, <2>6
  <1>23. ASSUME NEW s \in Threads, (\E q \in MsgQueues : rt_mq_detach(s, q)) \/ mq_detach_one(s)
         PROVE  Fifo(o)
    <2>1. /\ Running(s, "user") \/ Running(s, "resuming")
          /\ UNCHANGED messages
          /\ \/ LeaveCall(s) \/ UNCHANGED <<pc, object>>
             \/ Goto(s, "resuming") /\ \E q : object' = [object EXCEPT ![s] = q]
      BY <1>23 DEF rt_mq_detach, mq_detach_one, detach, resume_one
    <2>2. PICK point \in {"user", "resuming"} : Running(s, point)
      BY <2>1
    <2>3. /\ s \in Clients /\ pc[s] = point /\ pc[s] \notin WaitPoints
          /\ pc \in [Threads -> Points] /\ object \in [Threads -> Queues]
      BY <2>2, MoverFacts DEF WaitPoints
    <2>4. OneMoves(s) /\ pc'[s] \notin WaitPoints
      <3>1. CASE LeaveCall(s)
        BY <2>3, <3>1, SectionMoves
      <3>2. CASE UNCHANGED <<pc, object>>
        BY <2>3, <3>2 DEF OneMoves
      <3>3. CASE Goto(s, "resuming") /\ \E q : object' = [object EXCEPT ![s] = q]
        BY <2>3, <3>3 DEF OneMoves, Goto, WaitPoints
      <3> QED BY <2>1, <3>1, <3>2, <3>3
    <2>5. d = c
      BY <1>7, <2>1 DEF messages
    <2> QED BY <1>9, <2>3, <2>4, <2>5
  <1>24. ASSUME Background, UNCHANGED messages
         PROVE  Fifo(o)
    <2>1. object' = object /\ \A t \in Threads : GoesOn(t)
      BY <1>24, BackgroundStep DEF Idled
    <2>2. d = c
      BY <1>7, <1>24 DEF messages
    <2> QED BY <1>9, <2>1, <2>2
  <1>25. Fifo(o)
    BY <1>15, <1>16, <1>17, <1>19, <1>20, <1>21, <1>22, <1>23, <1>24 DEF MessageQueueNext
  <1> QED BY <1>25

\* What the refinement mapping sees of a data queue.
LEMMA DataContents ==
    ASSUME NEW q \in DataQueues
    PROVE  /\ q \in Buffers /\ Size(q) = dq_size[q]
           /\ Contents(q) = Ring(dq[q].queue, dq[q].get_index, Fill(dq[q]), dq_size[q])
           /\ Contents(q)' = Ring(dq'[q].queue, dq'[q].get_index, Fill(dq'[q]), dq_size[q])
  <1>1. q \notin Mailboxes /\ q \notin MsgQueues
    BY KindsApart
  <1>2. Contents(q) = Data(q) /\ Contents(q)' = Data(q)' /\ Size(q) = dq_size[q]
    BY <1>1 DEF Contents, Size
  <1> QED BY <1>2 DEF Data, Length, Fill, Ring, Buffers

\* The items in the queue: none, or all there is room for, or one more or less.
LEMMA DataItems ==
    ASSUME DataData, NEW q \in DataQueues
    PROVE  /\ Len(Contents(q)) = Size(q) <=> QueueFull(q)
           /\ Contents(q) = << >> <=> QueueEmpty(q)
           /\ \A item \in Range(data) :
                 ~QueueFull(q) /\ put_data(q, item) => Contents(q)' = Append(Contents(q), item)
           /\ ~QueueEmpty(q) /\ get_data(q) => Contents(q)' = Tail(Contents(q))
           /\ dq'[q] = dq[q] => Contents(q)' = Contents(q)
  <1>1. PICK f : f = dq[q].queue
    OBVIOUS
  <1>2. PICK o : o = dq[q].get_index
    OBVIOUS
  <1>3. PICK n : n = Fill(dq[q])
    OBVIOUS
  <1>4. PICK size : size = dq_size[q]
    OBVIOUS
  <1>5. PICK S : S = Range(data)
    OBVIOUS
  <1>6. /\ size \in Nat \ {0} /\ n \in 0 .. size /\ n \in Nat /\ o \in Nat
        /\ f \in [0 .. size - 1 -> S] /\ dq[q].put_index = o + n
    <2>1. dq[q] \in DataRecord(q) /\ Fill(dq[q]) \in 0 .. dq_size[q] /\ dq_size[q] \in Nat \ {0} /\ MaxIndex \in Nat
      BY DataQueueAssumption DEF DataData
    <2>2. n = dq[q].put_index - o /\ dq[q].put_index \in Int /\ o \in Nat
      BY <1>2, <1>3, <2>1 DEF DataRecord, Fill
    <2> QED BY <1>1, <1>3, <1>4, <1>5, <2>1, <2>2 DEF DataRecord
  <1>7. /\ Contents(q) = Ring(f, o, n, size) /\ Size(q) = size
        /\ Contents(q)' = Ring(dq'[q].queue, dq'[q].get_index, Fill(dq'[q]), size)
    BY <1>1, <1>2, <1>3, <1>4, DataContents
  <1>8. Ring(f, o, n, size) \in Seq(S) /\ Len(Ring(f, o, n, size)) = n
    BY <1>6, RingLen
  <1>9. Len(Contents(q)) = Size(q) <=> QueueFull(q)
    BY <1>3, <1>4, <1>7, <1>8 DEF QueueFull, Length, Fill
  <1>10. Contents(q) = << >> <=> QueueEmpty(q)
    <2>1. QueueEmpty(q) <=> n = 0
      BY <1>2, <1>6 DEF QueueEmpty
    <2> QED BY <1>6, <1>7, <1>8, <2>1
  <1>11. ASSUME NEW item \in Range(data), ~QueueFull(q), put_data(q, item)
         PROVE  Contents(q)' = Append(Contents(q), item)
    <2>1. /\ QueueGot(q, [dq[q].queue EXCEPT ![dq[q].put_index % dq_size[q]] = item],
                      dq[q].put_index + 1, dq[q].get_index)
          /\ Fill(dq'[q]) = Fill(dq[q]) + 1
      BY <1>11, PutDataData
    <2>2. n < size
      BY <1>3, <1>4, <1>6, <1>11 DEF QueueFull, Length, Fill
    <2>3. PICK p : p = Place(o, n, size)
      OBVIOUS
    <2>4. p = (dq[q].put_index % dq_size[q])
      BY <1>4, <1>6, <2>3 DEF Place
    <2>5. PICK g : g = [f EXCEPT ![p] = item]
      OBVIOUS
    <2>6. PICK l : l = n + 1
      OBVIOUS
    <2>7. Contents(q)' = Ring(g, o, l, size)
      BY <1>1, <1>2, <1>3, <1>7, <2>1, <2>4, <2>5, <2>6 DEF QueueGot
    <2>8. p \in 0 .. size - 1
      <3>1. PICK a : a = o + n
        OBVIOUS
      <3>2. a \in Nat
        BY <1>6, <3>1
      <3>3. (a % size) \in 0 .. (size - 1)
        BY <1>6, <3>2, DivMod
      <3> QED BY <2>3, <3>1, <3>3 DEF Place
    <2>9. g \in [0 .. size - 1 -> S] /\ g[p] = item /\ AgreeBut(f, g, p, size)
      BY <1>5, <1>6, <2>5, <2>8 DEF AgreeBut
    <2>10. /\ size \in Nat \ {0} /\ n \in Nat /\ n < size /\ l = n + 1 /\ o \in Nat
           /\ f \in [0 .. size - 1 -> S] /\ p = Place(o, n, size)
           /\ g \in [0 .. size - 1 -> S] /\ g[p] = item /\ AgreeBut(f, g, p, size)
      BY <1>6, <2>2, <2>3, <2>6, <2>9
    <2>11. Ring(g, o, l, size) = Append(Ring(f, o, n, size), item)
      BY ONLY <2>10, RingPut
    <2> QED BY <1>7, <2>7, <2>11
  <1>12. ASSUME ~QueueEmpty(q), get_data(q)
         PROVE  Contents(q)' = Tail(Contents(q))
    <2>1. /\ QueueGot(q, dq[q].queue, dq[q].put_index, dq[q].get_index + 1)
          /\ Fill(dq'[q]) = Fill(dq[q]) - 1
      BY <1>12, GetDataData
    <2>2. n \in Nat \ {0}
      BY <1>2, <1>6, <1>12 DEF QueueEmpty
    <2>3. Contents(q)' = Ring(f, o + 1, n - 1, size)
      BY <1>1, <1>2, <1>3, <1>7, <2>1 DEF QueueGot
    <2>4. Ring(f, o + 1, n - 1, size) = Tail(Ring(f, o, n, size))
      BY ONLY <1>6, <2>2, RingGet
    <2> QED BY <1>7, <2>3, <2>4
  <1>13. dq'[q] = dq[q] => Contents(q)' = Contents(q)
    BY <1>1, <1>2, <1>3, <1>7
  <1> QED BY <1>9, <1>10, <1>11, <1>12, <1>13

\* Every step of a data queue is one of the bounded buffer.
LEMMA DataMaps ==
    ASSUME NEW o, o = subject, Now \/ Held, DataInv, subject \in DataQueues, DataQueueNext, UNCHANGED subject,
           OnLists(pc, object, subject), OnLists(pc', object', subject)
    PROVE  Fifo(o)
  <1>1. o = subject
    OBVIOUS
  <1>2. /\ o \in Buffers /\ o \in DataQueues /\ DataData
        /\ OnLists(pc, object, o) /\ OnLists(pc', object', o)
    BY <1>1 DEF Buffers, DataInv
  <1>3. /\ suspended_push_list[o] # o
        /\ \A q \in DataQueues : Usable(q) => q = o
        /\ \A q \in DataQueues : q \in Scope(subject) => q = o
        /\ \A q \in DataQueues : suspended_push_list[q] \in Scope(subject) => q = o
        /\ subject \notin dying /\ (Untimed(subject) <=> subject \in Deletable)
    <2>1. Detaching(k, pc, object, dying, subject)
      BY DEF Now, Calm, Held, Locked
    <2> QED BY <1>1, <2>1, DataQueueAlone
  <1>4. PICK c : c = Contents(o)
    OBVIOUS
  <1>5. PICK d : d = Contents(o)'
    OBVIOUS
  <1>6. PICK n : n = Size(o)
    OBVIOUS
  <1>7. /\ Len(c) = n <=> QueueFull(o)
        /\ c = << >> <=> QueueEmpty(o)
        /\ \A item \in Range(data) : ~QueueFull(o) /\ put_data(o, item) => d = Append(c, item)
        /\ ~QueueEmpty(o) /\ get_data(o) => d = Tail(c)
        /\ dq'[o] = dq[o] => d = c
    BY ONLY <1>2, <1>4, <1>5, <1>6, DataItems
  <1>8. Range(data) \subseteq Items
    BY DEF Items
  <1>9. /\ \A s \in Clients, item \in Items :
              OneMoves(s) /\ pc'[s] \notin WaitPoints /\ (pc[s] \notin WaitPoints \/ object[s] # o)
                 /\ Len(c) # n /\ d = Append(c, item) => Fifo(o)
        /\ \A item \in Items :
              pc' = pc /\ object' = object /\ Len(c) # n /\ d = Append(c, item) => Fifo(o)
        /\ \A s \in Clients :
              OneMoves(s) /\ pc'[s] \notin WaitPoints /\ (pc[s] \notin WaitPoints \/ object[s] = o)
                 /\ c # << >> /\ d = Tail(c) => Fifo(o)
        /\ pc' = pc /\ object' = object /\ c # << >> /\ d = Tail(c) => Fifo(o)
        /\ \A s \in Clients : OneMoves(s) /\ pc'[s] \notin WaitPoints /\ d = c => Fifo(o)
        /\ \A s \in Clients :
              OneMoves(s) /\ pc'[s] \in WaitPoints /\ object'[s] # o
                 /\ (pc[s] \notin WaitPoints \/ object[s] # o) /\ Len(c) = n /\ d = c => Fifo(o)
        /\ \A s \in Clients :
              OneMoves(s) /\ pc'[s] \in WaitPoints /\ object'[s] = o
                 /\ (pc[s] \notin WaitPoints \/ object[s] = o) /\ c = << >> /\ d = c => Fifo(o)
        /\ object' = object /\ (\A t \in Threads : GoesOn(t)) /\ d = c => Fifo(o)
    BY ONLY <1>2, <1>4, <1>5, <1>6, FifoMoves
  <1>10. ASSUME NEW s \in Clients, s \in Threads,
                pc \in [Threads -> Points], object \in [Threads -> Queues],
                pc[s] \notin WaitPoints \/ object[s] # o, push_data(s, o) \/ wait_push(s, o)
         PROVE  Fifo(o)
    <2>1. CASE push_data(s, o)
      <3>1. ~QueueFull(o) /\ put_data(o, data[s]) /\ LeaveWaking(s, o)
        BY <2>1 DEF push_data
      <3>2. data[s] \in Range(data)
        BY <1>10, DataQueueAssumption DEF Range
      <3>3. OneMoves(s) /\ pc'[s] \notin WaitPoints
        BY <1>10, <3>1, SectionMoves
      <3>4. d = Append(c, data[s]) /\ Len(c) # n /\ data[s] \in Items
        BY <1>7, <1>8, <3>1, <3>2
      <3> QED BY <1>9, <1>10, <3>3, <3>4
    <2>2. CASE wait_push(s, o)
      <3>1. /\ QueueFull(o) /\ UNCHANGED dq
            /\ WaitOn(s, suspended_push_list[o], "RT_IPC_FLAG_FIFO", o \notin Deletable)
        BY <2>2 DEF wait_push
      <3>2. OneMoves(s) /\ pc'[s] \in WaitPoints /\ object'[s] = suspended_push_list[o]
        BY <1>10, <3>1, SectionMoves
      <3>3. d = c /\ Len(c) = n
        BY <1>7, <3>1
      <3> QED BY <1>3, <1>9, <1>10, <3>2, <3>3
    <2> QED BY <1>10, <2>1, <2>2
  <1>11. ASSUME NEW s \in Clients, s \in Threads,
                pc \in [Threads -> Points], object \in [Threads -> Queues],
                pc[s] \notin WaitPoints \/ object[s] = o, pop_data(s, o) \/ wait_pop(s, o)
         PROVE  Fifo(o)
    <2>1. CASE pop_data(s, o)
      <3>1. /\ ~QueueEmpty(o) /\ get_data(o)
            /\ LeaveWaking(s, suspended_push_list[o]) \/ LeaveCall(s)
        BY <2>1 DEF pop_data
      <3>3. OneMoves(s) /\ pc'[s] \notin WaitPoints
        BY <1>11, <3>1, SectionMoves
      <3>4. d = Tail(c) /\ c # << >>
        BY <1>7, <3>1
      <3> QED BY <1>9, <1>11, <3>3, <3>4
    <2>2. CASE wait_pop(s, o)
      <3>1. QueueEmpty(o) /\ UNCHANGED dq /\ WaitOn(s, o, "RT_IPC_FLAG_FIFO", o \notin Deletable)
        BY <2>2 DEF wait_pop
      <3>2. OneMoves(s) /\ pc'[s] \in WaitPoints /\ object'[s] = o
        BY <1>11, <3>1, SectionMoves
      <3>3. d = c /\ c = << >>
        BY <1>7, <3>1
      <3> QED BY <1>9, <1>11, <3>2, <3>3
    <2> QED BY <1>11, <2>1, <2>2
  <1>12. ASSUME NEW s \in Clients, s \in Threads,
                pc \in [Threads -> Points], object \in [Threads -> Queues],
                LeaveCall(s), UNCHANGED dq
         PROVE  Fifo(o)
    <2>1. OneMoves(s) /\ pc'[s] \notin WaitPoints
      BY <1>12, SectionMoves
    <2>2. d = c
      BY <1>7, <1>12
    <2> QED BY <1>9, <1>12, <2>1, <2>2
  <1>13. ASSUME Now, NEW s \in Threads, NEW q \in DataQueues, rt_data_queue_push(s, q) \/ rt_data_queue_pop(s, q)
         PROVE  Fifo(o)
    <2>1. /\ Running(s, "user") /\ Usable(q)
          /\ push_data(s, q) \/ wait_push(s, q) \/ pop_data(s, q) \/ wait_pop(s, q)
      BY <1>13 DEF rt_data_queue_push, rt_data_queue_pop
    <2>2. q = o
      BY <1>3, <2>1
    <2>3. /\ s \in Clients /\ pc[s] \notin WaitPoints
          /\ pc \in [Threads -> Points] /\ object \in [Threads -> Queues]
      BY <1>13, <2>1, MoverFacts DEF WaitPoints
    <2> QED BY <1>10, <1>11, <2>1, <2>2, <2>3
  <1>14. ASSUME Now, NEW s \in Threads, NEW q \in DataQueues, push_again(s, q)
         PROVE  Fifo(o)
    <2>1. /\ Running(s, "woken") /\ object[s] = suspended_push_list[q]
          /\ (LeaveCall(s) /\ UNCHANGED <<k, dq>>) \/ push_data(s, q) \/ wait_push(s, q)
      BY <1>14 DEF push_again
    <2>2. /\ s \in Clients /\ pc[s] = "woken"
          /\ pc \in [Threads -> Points] /\ object \in [Threads -> Queues]
      BY <1>14, <2>1, MoverFacts
    <2>3. q = o
      BY <1>3, <1>14, <2>1, <2>2, InScope DEF Outside
    <2>4. object[s] # o
      BY <1>3, <2>1, <2>3
    <2> QED BY <1>10, <1>12, <2>1, <2>2, <2>3, <2>4
  <1>15. ASSUME Now, NEW s \in Threads, NEW q \in DataQueues, pop_again(s, q)
         PROVE  Fifo(o)
    <2>1. /\ Running(s, "woken") /\ object[s] = q
          /\ (LeaveCall(s) /\ UNCHANGED <<k, dq>>) \/ pop_data(s, q) \/ wait_pop(s, q)
      BY <1>15 DEF pop_again
    <2>2. /\ s \in Clients /\ pc[s] = "woken"
          /\ pc \in [Threads -> Points] /\ object \in [Threads -> Queues]
      BY <1>15, <2>1, MoverFacts
    <2>3. q = o
      BY <1>3, <1>15, <2>1, <2>2, InScope DEF Outside
    <2> QED BY <1>11, <1>12, <2>1, <2>2, <2>3
  <1>16. ASSUME NEW q \in DataQueues, isr_push(q)
         PROVE  Fifo(o)
    <2>1. /\ Usable(q) /\ ~QueueFull(q) /\ put_data(q, data[Idle]) /\ UNCHANGED <<pc, object>>
      BY <1>16 DEF isr_push
    <2>2. q = o
      BY <1>3, <2>1
    <2>3. data[Idle] \in Range(data)
      BY DataQueueAssumption, IpcAssumption DEF Range
    <2>4. d = Append(c, data[Idle]) /\ Len(c) # n /\ data[Idle] \in Items
      BY <1>7, <1>8, <2>1, <2>2, <2>3
    <2> QED BY <1>9, <2>1, <2>4
  <1>17. ASSUME NEW q \in DataQueues, isr_pop(q)
         PROVE  Fifo(o)
    <2>1. Usable(q) /\ ~QueueEmpty(q) /\ get_data(q) /\ UNCHANGED <<pc, object>>
      BY <1>17 DEF isr_pop
    <2>2. q = o
      BY <1>3, <2>1
    <2>3. d = Tail(c) /\ c # << >>
      BY <1>7, <2>1, <2>2
    <2> QED BY <1>9, <2>1, <2>3
  <1>18. ASSUME Now, NEW s \in Threads, NEW q \in DataQueues, rt_data_queue_reset(s, q)
         PROVE  Fifo(o)
    <2>1. /\ Running(s, "user") /\ Goto(s, "dq_reset") /\ object' = [object EXCEPT ![s] = q] /\ UNCHANGED dq
      BY <1>18 DEF rt_data_queue_reset
    <2>2. s \in Clients /\ pc \in [Threads -> Points] /\ object \in [Threads -> Queues]
      BY <1>18, <2>1, MoverFacts
    <2>3. OneMoves(s) /\ pc'[s] \notin WaitPoints
      BY <2>1, <2>2 DEF OneMoves, Goto, WaitPoints
    <2>4. d = c
      BY <1>7, <2>1
    <2> QED BY <1>9, <2>2, <2>3, <2>4
  <1>19. ASSUME NEW s \in Threads, NEW q \in DataQueues, reset_one(s, q)
         PROVE  Fifo(o)
    <2>1. UNCHANGED <<pc, object, dq>>
      BY <1>19 DEF reset_one
    <2>2. \A t \in Threads : GoesOn(t)
      BY <2>1 DEF GoesOn
    <2>3. d = c
      BY <1>7, <2>1
    <2> QED BY <1>9, <2>1, <2>2, <2>3
  <1>20. ASSUME NEW s \in Threads, NEW q \in DataQueues, reset_end(s, q)
         PROVE  Fifo(o)
    <2>1. Running(s, "dq_reset") /\ LeaveTo(s, "schedule") /\ UNCHANGED dq
      BY <1>20 DEF reset_end
    <2>2. pc \in [Threads -> Points] /\ object \in [Threads -> Queues]
      BY DEF Now, Held, Calm, Locked, Waits
    <2>3. s \in Clients
      BY <2>1 DEF Running, Clients
    <2>4. OneMoves(s) /\ pc'[s] \notin WaitPoints
      BY <2>1, <2>2 DEF LeaveTo, OneMoves, Goto, WaitPoints
    <2>5. d = c
      BY <1>7, <2>1
    <2> QED BY <1>9, <2>3, <2>4, <2>5
  <1>21. ASSUME Background, UNCHANGED dq
         PROVE  Fifo(o)
    <2>1. object' = object /\ \A t \in Threads : GoesOn(t)
      <3>1. CASE Now
        BY <1>21, <3>1, BackgroundStep DEF Idled
      <3>2. CASE Held
        <4>1. PICK u : u = Unlocked(k)
          OBVIOUS
        <4>2. /\ u.timer = k.timer /\ k.current \in Threads /\ k.stat[k.current] = "ready"
              /\ \A t \in Threads : pc[t] = "dq_reset" <=> t = k.current
              /\ Waits(u, pc, object, subject) /\ subject \in Deletable
          BY <3>2, <4>1, UnderLock
        <4>3. k.timer = {}
          BY <1>3, <4>2 DEF Waits
        <4>4. tick_yield
          BY <1>21, <4>2, <4>3 DEF Background, ScheduleStep, Running, timeout
        <4> QED BY <4>4 DEF tick_yield, GoesOn
      <3> QED BY <3>1, <3>2
    <2>2. d = c
      BY <1>7, <1>21
    <2> QED BY <1>9, <2>1, <2>2
  <1>22. ASSUME Held, NEW s \in Threads, NEW point, Running(s, point)
         PROVE  point = "dq_reset"
    BY <1>22 DEF Held, Locked, Running
  <1>23. ASSUME Held, NEW s \in Threads, NEW q \in DataQueues,
                \/ rt_data_queue_push(s, q) \/ push_again(s, q)
                \/ rt_data_queue_pop(s, q) \/ pop_again(s, q) \/ rt_data_queue_reset(s, q)
         PROVE  FALSE
    <2>1. Running(s, "user") \/ Running(s, "woken")
      BY <1>23 DEF rt_data_queue_push, push_again, rt_data_queue_pop, pop_again, rt_data_queue_reset
    <2> QED BY <1>22, <1>23, <2>1
  <1>24. Fifo(o)
    <2>1. ASSUME NEW s \in Threads, NEW q \in DataQueues,
                 \/ rt_data_queue_push(s, q) \/ push_again(s, q)
                 \/ rt_data_queue_pop(s, q) \/ pop_again(s, q)
                 \/ rt_data_queue_reset(s, q) \/ reset_one(s, q) \/ reset_end(s, q)
          PROVE  Fifo(o)
      <3>1. CASE Now
        BY <1>13, <1>14, <1>15, <1>18, <1>19, <1>20, <2>1, <3>1
      <3>2. CASE Held
        BY <1>19, <1>20, <1>23, <2>1, <3>2
      <3> QED BY <3>1, <3>2
    <2> QED BY <1>16, <1>17, <1>21, <2>1 DEF DataQueueNext
  <1> QED BY <1>24

\* The one object a behaviour is about, of each kind of buffer.
LEMMA SubjectBuffer ==
    /\ \A o \in Mailboxes : o \notin UNION {Pools, Events, MsgQueues, DataQueues, Completions, Pipes, {works}}
    /\ \A o \in MsgQueues : o \notin UNION {Pools, Events, Mailboxes, DataQueues, Completions, Pipes, {works}}
    /\ \A o \in DataQueues : o \notin UNION {Pools, Events, Mailboxes, MsgQueues, Completions, Pipes, {works}}
  BY KindsApart, WorksApart

\* Who waits is on a list of the subject.
LEMMA OnSubject == ObjectsInv => OnLists(pc, object, subject)
  BY Everywhere DEF OnLists

\* Every step keeps the buffer that the behaviour is about, or is one of its
\* operations: a send, a receive, a wait, a call that gives up, a reset.
LEMMA BufferStep ==
    ASSUME NEW o \in Buffers, o = subject, ObjectsInv, [Next]_vars
    PROVE  Fifo(o)
  <1>1. ObjectsInv'
    BY NextObjects
  <1>2. UNCHANGED subject
    BY DEF Next, vars
  <1>3. OnLists(pc, object, subject)
    BY OnSubject
  <1>4. OnLists(pc', object', subject)
    <2>1. OnLists(pc, object, subject)'
      BY <1>1, OnSubject, PTL
    <2> QED BY <1>2, <2>1 DEF OnLists
  <1>5. MailInv /\ MsgInv /\ DataInv /\ AtSubject
    BY DEF ObjectsInv
  <1>6. subject # works /\ (Now \/ (subject \in DataQueues /\ Held))
    <2>1. subject # works
      BY SubjectBuffer DEF Buffers
    <2> QED BY <1>5, <2>1 DEF AtSubject, AtObject
  <1>7. CASE UNCHANGED vars
    <2>1. UNCHANGED <<mb, mq, holds, dq, pc, object>>
      BY <1>7 DEF vars, messages
    <2>2. o = subject
      OBVIOUS
    <2>3. o \in Buffers /\ OnLists(pc, object, o) /\ OnLists(pc', object', o)
      BY <1>3, <1>4, <2>2
    <2>4. Contents(o)' = Contents(o)
      <3>1. CASE o \in Mailboxes
        BY <2>1, <3>1, MailContents
      <3>2. CASE o \in MsgQueues
        BY <2>1, <3>2, MsgContents
      <3>3. CASE o \in DataQueues
        BY <2>1, <3>3, DataContents
      <3> QED BY <2>3, <3>1, <3>2, <3>3 DEF Buffers
    <2>5. Calling(o)' = Calling(o)
      BY <2>1, <2>3, CallingRoles
    <2>6. Fifo(o)
      BY <2>4, <2>5, FifoSteps
    <2> QED BY <2>6
  <1>8. CASE Next
    <2>1. CASE subject \in Mailboxes
      <3>1. MailboxNext /\ Now
        BY <1>6, <1>8, <2>1, SubjectBuffer DEF Next
      <3> QED BY <1>2, <1>3, <1>4, <1>5, <2>1, <3>1, MailMaps
    <2>2. CASE subject \in MsgQueues
      <3>1. MessageQueueNext /\ Now
        BY <1>6, <1>8, <2>2, SubjectBuffer DEF Next
      <3> QED BY <1>2, <1>3, <1>4, <1>5, <2>2, <3>1, MsgMaps
    <2>3. CASE subject \in DataQueues
      <3>1. DataQueueNext /\ (Now \/ Held)
        BY <1>6, <1>8, <2>3, SubjectBuffer DEF Next
      <3> QED BY <1>2, <1>3, <1>4, <1>5, <2>3, <3>1, DataMaps
    <2> QED BY <2>1, <2>2, <2>3 DEF Buffers
  <1> QED BY <1>7, <1>8

\* At the start the buffer is empty and nobody is in a call.
LEMMA BufferInit ==
    ASSUME Init, subject \in Buffers
    PROVE  Buffer(subject)!Init
  <1>1. pc = [t \in Threads |-> "user"]
    BY StartedThreads
  <1>2. Calling(subject) = [t \in Clients |-> "none"]
    <2>1. OnLists(pc, object, subject)
      BY <1>1 DEF OnLists, WaitPoints
    <2>2. Calling(subject) = Roles(pc, object, subject)
      BY <2>1, CallingRoles
    <2> QED BY <1>1, <2>2 DEF Roles, WaitPoints, Clients
  <1>3. Contents(subject) = << >>
    <2>1. ASSUME NEW f, NEW n PROVE Ring(f, 0, 0, n) = << >>
      BY DEF Ring
    <2>2. CASE subject \in Mailboxes
      <3>1. mb[subject].entry = 0 /\ mb[subject].out_offset = 0
        BY <2>2 DEF Init, MailboxInit
      <3> QED BY <2>1, <2>2, <3>1, MailContents
    <2>3. CASE subject \in MsgQueues
      <3>1. mq[subject].msg_queue = << >>
        BY <2>3 DEF Init, MessageQueueInit
      <3> QED BY <2>3, <3>1, MsgContents DEF Copied
    <2>4. CASE subject \in DataQueues
      <3>1. dq[subject].get_index = 0 /\ Fill(dq[subject]) = 0
        BY <2>4 DEF Init, DataQueueInit, Fill
      <3> QED BY <2>1, <2>4, <3>1, DataContents
    <2> QED BY <2>2, <2>3, <2>4 DEF Buffers
  <1> QED BY <1>2, <1>3 DEF Buffer!Init

\* Whatever the threads do between two sections of a call, and however often
\* calls are woken, overtaken, timed out or reset: a mailbox, message queue or
\* data queue passes on what was sent, each item once and in order.
THEOREM BuffersImplemented == ASSUME WorkRule PROVE Spec => ImplementsBuffer
  <1>1. Init => \A o \in Buffers : o = subject => Buffer(o)!Init
    <2> SUFFICES ASSUME Init, NEW o \in Buffers, o = subject PROVE Buffer(o)!Init
      OBVIOUS
    <2>1. Buffer(subject)!Init
      BY BufferInit
    <2> QED BY <2>1
  <1>2. ObjectsInv /\ [Next]_vars =>
           [\A o \in Buffers : o = subject => [Buffer(o)!Next]_<<Contents(o), Calling(o)>>]_vars
    <2> SUFFICES ASSUME ObjectsInv, [Next]_vars, NEW o \in Buffers, o = subject
                 PROVE  Fifo(o)
      BY DEF Fifo
    <2> QED BY BufferStep
  <1> QED BY <1>1, <1>2, Invariance, PTL DEF Spec, ImplementsBuffer

\* The same as the specification of the abstract module, for each object that a
\* behaviour may be about.
THEOREM BuffersSpec ==
    ASSUME WorkRule PROVE \A o \in Buffers : Spec /\ subject = o => Buffer(o)!Spec
  <1> SUFFICES ASSUME NEW o \in Buffers PROVE Spec /\ subject = o => Buffer(o)!Spec
    OBVIOUS
  <1>1. Init /\ subject = o => Buffer(o)!Init
    BY BufferInit
  <1>2. subject = o /\ [Next]_vars => (subject = o)'
    BY DEF Next, vars
  <1>3. ObjectsInv /\ subject = o /\ [Next]_vars => [Buffer(o)!Next]_<<Contents(o), Calling(o)>>
    <2> SUFFICES ASSUME ObjectsInv, subject = o, [Next]_vars PROVE Fifo(o)
      BY DEF Fifo
    <2> QED BY BufferStep
  <1> QED BY <1>1, <1>2, <1>3, Invariance, PTL DEF Spec, Buffer!Spec
=============================================================================
