-------------------------------- MODULE Pipe --------------------------------
(***************************************************************************)
(* The pipes of pipe.c: rt_pipe_read and rt_pipe_write, which block or not *)
(* as the flags of the pipe say. A pipe is named by the list of the        *)
(* threads that wait to read; a second list holds those that wait to       *)
(* write. They wait for ever, in a loop. Handlers use the directions that  *)
(* do not block.                                                           *)
(*                                                                         *)
(* Of the ring buffer only the number of bytes in it is kept: RingBuffer   *)
(* shows that they come out in order, and what becomes of a forced write   *)
(* that does not fit. A caller chooses its length anew in each turn of its *)
(* loop.                                                                   *)
(***************************************************************************)
EXTENDS Ipc

CONSTANTS Pipes,
          suspended_write_list,  \* pipe -> the list of the writers
          pipe_size,             \* pipe -> the size of its ring buffer
          pipe_flag              \* pipe -> its flags

PipeWriters == {suspended_write_list[p] : p \in Pipes}
PipeFlags   == {"BLOCK_RD", "BLOCK_WR", "FORCE_WR"}

ASSUME PipeAssumption ==
    /\ Pipes \subseteq Queues /\ suspended_write_list \in [Pipes -> Queues]
    /\ Pipes \cap PipeWriters = {} /\ IsInjective(suspended_write_list)
    /\ pipe_size \in [Pipes -> Nat \ {0}]
    /\ pipe_flag \in [Pipes -> SUBSET PipeFlags]

VARIABLE data_len       \* pipe -> the bytes in its ring buffer

PipeType == \A p \in Pipes : data_len[p] \in 0 .. pipe_size[p]

\* rt_pipe_init
PipeInit == data_len = [p \in Pipes |-> 0]

-----------------------------------------------------------------------------

Space(p)   == pipe_size[p] - data_len[p]
Lengths(p) == 1 .. pipe_size[p] + 1
Fewer(m, n) == IF m < n THEN m ELSE n

BlocksReader(p) == "BLOCK_RD" \in pipe_flag[p]
BlocksWriter(p) == "BLOCK_WR" \in pipe_flag[p] /\ "FORCE_WR" \notin pipe_flag[p]

\* Bytes are taken out; if there were any, _rt_pipe_resume_writer follows in the
\* same section.
take_bytes(p, n) ==
    /\ data_len' = [data_len EXCEPT ![p] = @ - Fewer(@, n)]
    /\ IF data_len[p] > 0 THEN IsrWaking(suspended_write_list[p]) ELSE UNCHANGED k

\* The bytes that may be in the buffer after n were put in. A forced write that
\* does not fit leaves it full if what was there reaches around its end, as it
\* does in a full one, and empty if not.
Filled(p, n) ==
    IF "FORCE_WR" \notin pipe_flag[p] \/ n <= Space(p) THEN {Fewer(data_len[p] + n, pipe_size[p])}
    ELSE IF data_len[p] \in {0, pipe_size[p]} THEN {data_len[p]}
    ELSE {0, pipe_size[p]}

\* Bytes are put in; _rt_pipe_resume_reader follows in the same section.
put_bytes(p, n) ==
    /\ \E m \in Filled(p, n) : data_len' = [data_len EXCEPT ![p] = m]
    /\ IsrWaking(p)

\* The caller joins the end of list q.
wait_in(s, q) ==
    /\ k' = rt_ipc_list_suspend(k, q, s, "RT_IPC_FLAG_FIFO")
    /\ Goto(s, "blocked") /\ object' = [object EXCEPT ![s] = q]
    /\ UNCHANGED data_len

\* One turn of the loop in rt_pipe_read, or the only one
read_turn(s, p) ==
    \/ BlocksReader(p) /\ data_len[p] = 0 /\ wait_in(s, p)
    \/ /\ BlocksReader(p) => data_len[p] > 0
       /\ \E n \in Lengths(p) : take_bytes(p, n)
       /\ LeaveCall(s)

write_turn(s, p) ==
    \/ BlocksWriter(p) /\ Space(p) = 0 /\ wait_in(s, suspended_write_list[p])
    \/ /\ BlocksWriter(p) => Space(p) > 0
       /\ \E n \in Lengths(p) : put_bytes(p, n)
       /\ LeaveCall(s)

rt_pipe_read(s, p)  == Running(s, "user") /\ Usable(p) /\ read_turn(s, p) /\ UNCHANGED dying
rt_pipe_write(s, p) == Running(s, "user") /\ Usable(p) /\ write_turn(s, p) /\ UNCHANGED dying

\* Back from rt_schedule
read_again(s, p) ==
    Running(s, "woken") /\ object[s] = p /\ read_turn(s, p) /\ UNCHANGED dying
write_again(s, p) ==
    /\ Running(s, "woken") /\ object[s] = suspended_write_list[p]
    /\ write_turn(s, p)
    /\ UNCHANGED dying

isr_read(p) ==
    /\ Usable(p) /\ ~BlocksReader(p)
    /\ \E n \in Lengths(p) : take_bytes(p, n)
    /\ UNCHANGED <<pc, object, dying>>
isr_write(p) ==
    /\ Usable(p) /\ ~BlocksWriter(p)
    /\ \E n \in Lengths(p) : put_bytes(p, n)
    /\ UNCHANGED <<pc, object, dying>>

PipeNext ==
    \/ \E s \in Threads, p \in Pipes :
          \/ rt_pipe_read(s, p) \/ read_again(s, p)
          \/ rt_pipe_write(s, p) \/ write_again(s, p)
    \/ \E p \in Pipes : isr_read(p) \/ isr_write(p)
    \/ Background /\ UNCHANGED data_len

-----------------------------------------------------------------------------
(* Properties *)

\* Nobody is stuck: readers wait at a full pipe, or writers at an empty one,
\* only while one of them has been woken and is on its way. (A read that leaves
\* bytes behind wakes no second reader; it goes on waiting beside them until
\* the next write.)
PipeWakeups ==
    \A p \in Pipes :
        /\ ~NoWaiter(p) /\ Space(p) = 0 => OnItsWay(p) # {}
        /\ ~NoWaiter(suspended_write_list[p]) /\ data_len[p] = 0 =>
              OnItsWay(suspended_write_list[p]) # {}
=============================================================================
