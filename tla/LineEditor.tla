----------------------------- MODULE LineEditor -----------------------------
(***************************************************************************)
(* What the shell promises to its user: a line of text that is edited at a *)
(* cursor, entered, completed, or replaced by one of the last lines that   *)
(* were entered.                                                           *)
(***************************************************************************)
EXTENDS Integers, Sequences

CONSTANTS Chars,
          Limit,        \* a line that grows to this length is cleared
          Depth         \* how many lines are remembered

VARIABLES text, cursor, \* the characters before the cursor
          past,         \* the lines that are remembered, the last one last
          place         \* how many of them are older than the one recalled last

vars == <<text, cursor, past, place>>

Init == text = << >> /\ cursor = 0 /\ past = << >> /\ place = 0

Insert(char) ==
    /\ IF Len(text) + 1 < Limit
       THEN /\ text' = SubSeq(text, 1, cursor) \o <<char>> \o SubSeq(text, cursor + 1, Len(text))
            /\ cursor' = cursor + 1
       ELSE text' = << >> /\ cursor' = 0
    /\ UNCHANGED <<past, place>>

Erase ==
    /\ cursor > 0
    /\ text' = SubSeq(text, 1, cursor - 1) \o SubSeq(text, cursor + 1, Len(text))
    /\ cursor' = cursor - 1
    /\ UNCHANGED <<past, place>>

Move ==
    /\ cursor' \in {cursor - 1, cursor + 1} \cap 0 .. Len(text)
    /\ UNCHANGED <<text, past, place>>

Enter ==
    /\ text' = << >> /\ cursor' = 0
    /\ past' = IF text = << >> THEN past
               ELSE IF Len(past) < Depth THEN Append(past, text)
               ELSE Append(Tail(past), text)
    /\ place' = Len(past')

\* One line back, or one on; the newest line can be recalled again.
Recall ==
    /\ place' \in {place - 1, place + 1, Len(past) - 1} \cap 0 .. Len(past) - 1
    /\ text' = past[place' + 1] /\ cursor' = Len(text')
    /\ UNCHANGED past

Complete ==
    /\ \E n \in 0 .. Limit - 1 - Len(text) : \E rest \in [1 .. n -> Chars] : text' = text \o rest
    /\ cursor' = Len(text')
    /\ UNCHANGED <<past, place>>

Next == (\E char \in Chars : Insert(char)) \/ Erase \/ Move \/ Enter \/ Recall \/ Complete

Spec == Init /\ [][Next]_vars
=============================================================================
