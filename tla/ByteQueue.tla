----------------------------- MODULE ByteQueue ------------------------------
(***************************************************************************)
(* What a ring buffer promises: a queue of at most Capacity bytes, and what *)
(* the last call took out of it. A put drops what does not fit at the end; *)
(* a forced put drops the oldest bytes.                                    *)
(***************************************************************************)
EXTENDS Naturals, Sequences

CONSTANTS Bytes, Capacity

VARIABLES queue, taken

First(n, s) == SubSeq(s, 1, IF n < Len(s) THEN n ELSE Len(s))
Last(n, s)  == SubSeq(s, IF n < Len(s) THEN Len(s) - n + 1 ELSE 1, Len(s))

Init == queue = << >> /\ taken = << >>

Put(s) == queue' = First(Capacity, queue \o s) /\ taken' = << >>

Force(s) == queue' = Last(Capacity, queue \o s) /\ taken' = << >>

Get(n) ==
    /\ taken' = First(n, queue)
    /\ queue' = Last(Len(queue) - Len(taken'), queue)

Next ==
    \E n \in 0 .. Capacity + 1 :
        \/ Get(n)
        \/ \E s \in [1 .. n -> Bytes] : Put(s) \/ Force(s)

Spec == Init /\ [][Next]_<<queue, taken>>
=============================================================================
