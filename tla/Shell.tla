-------------------------------- MODULE Shell --------------------------------
(***************************************************************************)
(* The shell of finsh/shell.c: its thread takes the bytes that the handler *)
(* of a serial line announces with a semaphore, decodes the keys and edits *)
(* the line. Passwords, the echo, and what a command does are left out.    *)
(*                                                                         *)
(* Rules of use: the sender never fills the buffer of the driver (the      *)
(* handler would overwrite the oldest byte) and sends no NUL; right behind *)
(* a CR it sends nothing but characters and line ends; TAB is not pressed  *)
(* while there is more in the buffer than the line, as there is once it    *)
(* has been cleared for its length: strlen would run on.                   *)
(***************************************************************************)
EXTENDS Integers, FiniteSetsExt, SequencesExt

CONSTANTS FINSH_CMD_SIZE,
          FINSH_HISTORY_LINES,
          UART_RX_BUFSZ,
          Chars,        \* the characters that are typed
          Strokes,      \* what the sender sends at a stroke: sequences of bytes
          Commands,     \* the names of the commands
          MaxTokens     \* bound on the value of rx_sem

NUL == "NUL"
Lines == [1 .. FINSH_CMD_SIZE -> Chars \cup {NUL}]
Empty == [i \in 1 .. FINSH_CMD_SIZE |-> NUL]

\* The bytes that are no characters, and those that follow an ESC
Controls == {"CR", "LF", "TAB", "BS", "ESC"}
ArrowBytes == {"[", "A", "B", "C", "D"}

\* What a terminal sends at a stroke
KeyBytes == {<<b>> : b \in Chars \cup {"CR", "LF", "TAB", "BS"}} \cup {<<"CR", "LF">>}
            \cup {<<"ESC", "[", a>> : a \in ArrowBytes \ {"["}}

ASSUME ShellAssumption ==
    /\ {FINSH_CMD_SIZE, FINSH_HISTORY_LINES, UART_RX_BUFSZ, MaxTokens} \subseteq Nat \ {0}
    /\ NUL \notin Chars /\ Chars \cap Controls = {}
    /\ ArrowBytes \subseteq Chars \/ ArrowBytes \cap Chars = {}
    /\ Strokes \subseteq KeyBytes
    /\ \A c \in Commands : c \in Seq(Chars) /\ Len(c) < FINSH_CMD_SIZE

VARIABLES rx,               \* the ring buffer of the driver
          typing,           \* the rest of the stroke that is being sent
          rx_sem,
          at,               \* where the thread is in its loop
          stat,
          line, line_position, line_curpos,
          cmd_history, current_history

input_vars == <<rx, typing, rx_sem>>
edit_vars  == <<line, line_position, line_curpos, cmd_history, current_history>>
shell_vars == <<input_vars, at, stat, edit_vars>>

Text == SubSeq(line, 1, line_position)

ShellType ==
    /\ at \in {"take", "read", "next"}
    /\ stat \in {"WAIT_NORMAL", "WAIT_SPEC_KEY", "WAIT_FUNC_KEY"}
    /\ line \in Lines
    /\ line_position \in 0 .. FINSH_CMD_SIZE - 1 /\ line_curpos \in 0 .. line_position
    /\ Len(cmd_history) <= FINSH_HISTORY_LINES
    /\ current_history \in 0 .. Len(cmd_history)
    /\ rx_sem \in 0 .. MaxTokens /\ Len(rx) <= UART_RX_BUFSZ

\* finsh_system_init
ShellInit ==
    /\ rx = << >> /\ typing = << >> /\ rx_sem = 0
    /\ at = "take" /\ stat = "WAIT_NORMAL"
    /\ line = Empty /\ line_position = 0 /\ line_curpos = 0
    /\ cmd_history = << >> /\ current_history = 0

-----------------------------------------------------------------------------
(* The serial line *)

\* Nothing is left in the buffer behind the text.
Terminated == \A i \in line_position + 1 .. FINSH_CMD_SIZE : line[i] = NUL

\* The rules of use for the next stroke
Polite(stroke) ==
    /\ stroke = <<"TAB">> => at = "take" /\ rx = << >> /\ Terminated
    /\ Head(stroke) \notin Chars \cup {"CR", "LF"} =>
          at # "next" /\ (rx # << >> => Last(rx) # "CR")

\* uart_irq_handler and finsh_rx_ind
receive(bytes) ==
    /\ Len(rx) < UART_RX_BUFSZ /\ rx_sem < MaxTokens
    /\ rx' = Append(rx, Head(bytes)) /\ typing' = Tail(bytes)
    /\ rx_sem' = rx_sem + 1
    /\ UNCHANGED <<at, stat, edit_vars>>

-----------------------------------------------------------------------------
(* The line *)

\* A text is in the buffer, what was behind it is not touched.
Put(text) == [i \in 1 .. FINSH_CMD_SIZE |-> IF i <= Len(text) THEN text[i] ELSE line[i]]
strlen(l) == Min({i \in 1 .. FINSH_CMD_SIZE : l[i] = NUL}) - 1

At(p, c) == line_position' = p /\ line_curpos' = c
AtEnd(l) == line' = l /\ At(strlen(l), strlen(l))

\* A line that is full is cleared; its text stays in the buffer.
insert(ch) ==
    /\ line' = [i \in 1 .. FINSH_CMD_SIZE |->
                   IF i = line_curpos + 1 THEN ch
                   ELSE IF i \in line_curpos + 2 .. line_position + 1 THEN line[i - 1]
                   ELSE line[i]]
    /\ IF line_position + 1 >= FINSH_CMD_SIZE THEN At(0, 0)
       ELSE At(line_position + 1, line_curpos + 1)
    /\ UNCHANGED <<cmd_history, current_history>>

\* Faulty: only the last character is cut off.
backspace_last ==
    /\ IF line_curpos = 0 THEN UNCHANGED <<line, line_position, line_curpos>>
       ELSE /\ line' = [line EXCEPT ![line_position] = NUL]
            /\ At(line_position - 1, line_curpos - 1)
    /\ UNCHANGED <<cmd_history, current_history>>

backspace ==
    /\ IF line_curpos = 0 THEN UNCHANGED <<line, line_position, line_curpos>>
       ELSE /\ line' = [i \in 1 .. FINSH_CMD_SIZE |->
                           IF i = line_position THEN NUL
                           ELSE IF i \in line_curpos .. line_position - 1 THEN line[i + 1]
                           ELSE line[i]]
            /\ At(line_position - 1, line_curpos - 1)
    /\ UNCHANGED <<cmd_history, current_history>>

\* msh_auto_complete: what all the commands that begin with the text have in
\* common
tab ==
    LET matching == {c \in Commands : IsPrefix(Text, c)}
    IN  /\ AtEnd(IF Text = << >> \/ matching = {} THEN line
                 ELSE Put(LongestCommonPrefix(matching)))
        /\ UNCHANGED <<cmd_history, current_history>>

\* shell_push_history
push_history ==
    /\ cmd_history' = IF line_position = 0 THEN cmd_history
                      ELSE IF Len(cmd_history) < FINSH_HISTORY_LINES
                           THEN Append(cmd_history, Text)
                           ELSE Append(Tail(cmd_history), Text)
    /\ current_history' = Len(cmd_history')

\* The line is remembered and carried out.
enter == push_history /\ line' = Empty /\ At(0, 0)

\* A remembered line, filled up with NULs, is copied into the buffer.
recall(n) ==
    /\ current_history' = n
    /\ AtEnd([i \in 1 .. FINSH_CMD_SIZE |->
                 IF i <= Len(cmd_history[n + 1]) THEN cmd_history[n + 1][i] ELSE NUL])
    /\ UNCHANGED cmd_history

arrow(ch) ==
    CASE ch = "A" -> IF current_history > 0 THEN recall(current_history - 1)
                     ELSE UNCHANGED edit_vars
      [] ch = "B" -> IF current_history < Len(cmd_history) - 1
                     THEN recall(current_history + 1)
                     ELSE IF cmd_history # << >> THEN recall(Len(cmd_history) - 1)
                     ELSE UNCHANGED edit_vars
      [] ch = "C" -> /\ line_curpos' = IF line_curpos < line_position
                                       THEN line_curpos + 1 ELSE line_curpos
                     /\ UNCHANGED <<line, line_position, cmd_history, current_history>>
      [] ch = "D" -> /\ line_curpos' = IF line_curpos > 0 THEN line_curpos - 1 ELSE 0
                     /\ UNCHANGED <<line, line_position, cmd_history, current_history>>

-----------------------------------------------------------------------------
(* The thread *)

take_token ==
    /\ at = "take" /\ rx_sem > 0
    /\ rx_sem' = rx_sem - 1 /\ at' = "read"
    /\ UNCHANGED <<rx, typing, stat, edit_vars>>

read_nothing ==
    /\ at = "read" /\ rx = << >> /\ at' = "take"
    /\ UNCHANGED <<input_vars, stat, edit_vars>>

Read(where) ==
    at = where /\ rx # << >> /\ rx' = Tail(rx) /\ UNCHANGED <<typing, rx_sem>>

\* The bytes of an arrow key: ESC [ A
InEscape(ch) == \/ ch = "ESC"
                \/ stat = "WAIT_SPEC_KEY" /\ ch = "["
                \/ stat = "WAIT_FUNC_KEY" /\ ch \in {"A", "B", "C", "D"}

read_escape ==
    /\ Read("read") /\ InEscape(Head(rx))
    /\ stat' = IF Head(rx) = "ESC" THEN "WAIT_SPEC_KEY"
               ELSE IF Head(rx) = "[" THEN "WAIT_FUNC_KEY" ELSE "WAIT_NORMAL"
    /\ IF Head(rx) \in {"ESC", "["} THEN UNCHANGED edit_vars ELSE arrow(Head(rx))
    /\ UNCHANGED at

read_key ==
    /\ Read("read") /\ ~InEscape(Head(rx))
    /\ stat' = "WAIT_NORMAL"
    /\ CASE Head(rx) = "CR"  -> at' = "next" /\ UNCHANGED edit_vars
         [] Head(rx) = "TAB" -> tab /\ UNCHANGED at
         [] Head(rx) = "BS"  -> backspace /\ UNCHANGED at
         [] Head(rx) = "LF"  -> enter /\ at' = "take"
         [] OTHER            -> insert(Head(rx)) /\ UNCHANGED at

\* Behind a CR: a byte that is there already stands for the CR.
read_next ==
    /\ Read("next")
    /\ IF Head(rx) \in {"CR", "LF"} THEN enter /\ at' = "take"
       ELSE insert(Head(rx)) /\ at' = "read"
    /\ UNCHANGED stat

no_next ==
    /\ at = "next" /\ rx = << >>
    /\ enter /\ at' = "take"
    /\ UNCHANGED <<input_vars, stat>>

ShellNext ==
    \/ typing # << >> /\ receive(typing)
    \/ typing = << >> /\ \E stroke \in Strokes : Polite(stroke) /\ receive(stroke)
    \/ take_token \/ read_nothing \/ read_escape \/ read_key \/ read_next \/ no_next

-----------------------------------------------------------------------------
(* Properties *)

\* No key is stuck: the thread never goes to sleep on its semaphore while bytes
\* are waiting, although it leaves its inner loop at every line end and takes
\* tokens whose bytes it has read already (finsh_thread_entry, finsh_rx_ind).
KeyServed == at = "take" => Len(rx) <= rx_sem

\* Whatever the order of the keys and their timing, each change of the line is
\* one edit of a line editor, and the lines that are recalled are those that
\* were entered (finsh_thread_entry, shell_push_history).
Editor == INSTANCE LineEditor WITH Limit <- FINSH_CMD_SIZE, Depth <- FINSH_HISTORY_LINES,
             text <- Text, cursor <- line_curpos,
             past <- cmd_history, place <- current_history
=============================================================================
