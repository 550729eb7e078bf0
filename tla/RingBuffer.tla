----------------------------- MODULE RingBuffer -----------------------------
(***************************************************************************)
(* The ring buffer of ringbuffer.c. Each of the two ends is an index and a *)
(* mirror bit that turns over whenever the index starts again from 0, so   *)
(* that a full buffer differs from an empty one. A call is one step: the   *)
(* callers in the repository disable the interrupts around it (pipe.c).    *)
(*                                                                         *)
(* Rule of use, of every length that is not in Forced: a block that is     *)
(* forced in fits, or it has buffer_size bytes and the ends are on         *)
(* different sides of the mirror. Any other block is taken for one of      *)
(* buffer_size bytes, and both mirrors turn over: an old content that does *)
(* not reach around the end of the buffer leaves an empty buffer behind.   *)
(***************************************************************************)
EXTENDS Naturals, Sequences

CONSTANTS pool_size,    \* the bytes of the pool
          Bytes,
          Forced        \* lengths of blocks forced in whether they fit or not

ASSUME RingAssumption == pool_size \in Nat /\ pool_size >= 4

RT_ALIGN_SIZE == 4
buffer_size == pool_size - (pool_size % RT_ALIGN_SIZE)

VARIABLES read, write,  \* the two ends: a mirror bit and an index
          buffer,
          got           \* what the last call copied out

ring_vars == <<read, write, buffer, got>>

Index == 0 .. buffer_size - 1
End   == [mirror : {0, 1}, index : Index]

RingType ==
    /\ read \in End /\ write \in End
    /\ buffer \in [Index -> Bytes]
    /\ got \in Seq(Bytes) /\ Len(got) <= buffer_size

\* rt_ringbuffer_init; the bytes of the pool are whatever they were.
RingInit ==
    /\ read = [mirror |-> 0, index |-> 0] /\ write = read
    /\ \E byte \in Bytes : buffer = [i \in Index |-> byte]
    /\ got = << >>

Full == read.index = write.index /\ read.mirror # write.mirror

data_len ==
    IF read.index = write.index THEN IF Full THEN buffer_size ELSE 0
    ELSE IF write.index > read.index THEN write.index - read.index
    ELSE buffer_size - (read.index - write.index)

space_len == buffer_size - data_len

Least(m, n) == IF m < n THEN m ELSE n

\* Faulty: an index may stay behind the last byte.
advance_late(end, n) ==
    IF buffer_size - end.index >= n THEN [end EXCEPT !.index = @ + n]
    ELSE [mirror |-> 1 - end.mirror, index |-> n - (buffer_size - end.index)]

\* An end after n bytes
Advance(end, n) ==
    IF buffer_size - end.index > n THEN [end EXCEPT !.index = @ + n]
    ELSE [mirror |-> 1 - end.mirror, index |-> n - (buffer_size - end.index)]

\* The buffer with s copied in from the write index on, around the end
Stored(s) ==
    [i \in Index |->
        LET n == (i + buffer_size - write.index) % buffer_size
        IN  IF n < Len(s) THEN s[n + 1] ELSE buffer[i]]

\* n bytes from the read index on, around the end
Stretch(n) == [i \in 1 .. n |-> buffer[(read.index + i - 1) % buffer_size]]

store(s) == buffer' = Stored(s) /\ write' = Advance(write, Len(s)) /\ got' = << >>

rt_ringbuffer_put(s) ==
    /\ IF space_len = 0 THEN got' = << >> /\ UNCHANGED <<buffer, write>>
       ELSE store(SubSeq(s, 1, Least(space_len, Len(s))))
    /\ UNCHANGED read

rt_ringbuffer_putchar(ch) ==
    /\ IF space_len = 0 THEN got' = << >> /\ UNCHANGED <<buffer, write>>
       ELSE store(<<ch>>)
    /\ UNCHANGED read

\* What a copy of buffer_size bytes from block s finds, behind its end included
Copies(s) == {b \in [1 .. buffer_size -> Bytes] : \A i \in 1 .. Least(buffer_size, Len(s)) : b[i] = s[i]}

\* A block that does not fit is taken for one of buffer_size bytes. That many end
\* where they begin, on the other side of the mirror.
rt_ringbuffer_put_force(s) ==
    \/ Len(s) <= space_len /\ store(s) /\ UNCHANGED read
    \/ /\ Len(s) > space_len
       /\ \E b \in Copies(s) : store(b)
       /\ read' = [mirror |-> 1 - read.mirror, index |-> write'.index]

ForceAllowed(s) ==
    \/ Len(s) <= space_len
    \/ Len(s) = buffer_size /\ read.mirror # write.mirror
    \/ Len(s) \in Forced

\* Faulty: the mirror of the read end does not turn over with that of the write end.
putchar_force_unturned(ch) ==
    /\ store(<<ch>>)
    /\ read' = IF Full THEN [read EXCEPT !.index = write'.index] ELSE read

rt_ringbuffer_putchar_force(ch) ==
    /\ store(<<ch>>)
    /\ read' = IF Full
               THEN [mirror |-> IF write'.index = 0 THEN 1 - read.mirror ELSE read.mirror,
                     index  |-> write'.index]
               ELSE read

rt_ringbuffer_get(length) ==
    /\ got' = Stretch(Least(data_len, length))
    /\ read' = IF data_len = 0 THEN read ELSE Advance(read, Len(got'))
    /\ UNCHANGED <<write, buffer>>

rt_ringbuffer_getchar ==
    /\ got' = Stretch(Least(data_len, 1))
    /\ read' = IF data_len = 0 THEN read ELSE Advance(read, 1)
    /\ UNCHANGED <<write, buffer>>

RingNext ==
    \/ \E n \in 0 .. buffer_size + 1 :
          \/ \E s \in [1 .. n -> Bytes] :
                \/ rt_ringbuffer_put(s)
                \/ ForceAllowed(s) /\ rt_ringbuffer_put_force(s)
          \/ rt_ringbuffer_get(n)
    \/ \E ch \in Bytes : rt_ringbuffer_putchar(ch) \/ rt_ringbuffer_putchar_force(ch)
    \/ rt_ringbuffer_getchar

-----------------------------------------------------------------------------
(* Properties *)

\* The ring buffer implements a queue of bytes: what is taken out is what was
\* put in, in that order, around the end of the buffer and across every turn of
\* the mirrors; only a forced put drops bytes, the oldest ones ("When the buffer is
\* full, it will discard the old data", rt_ringbuffer_put_force).
Queue == INSTANCE ByteQueue WITH Capacity <- buffer_size, queue <- Stretch(data_len), taken <- got
RingIsQueue == Queue!Spec
=============================================================================
