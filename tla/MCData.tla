------------------------------- MODULE MCData --------------------------------
(***************************************************************************)
(* The instances that TLC checks of the parts that no two callers work on  *)
(* at a time: the heap, the heaps of several regions, a ring buffer, the   *)
(* calendar with its menu, the shell and the devices, and of the timers.   *)
(* Each behaviour is about one of them.                                    *)
(***************************************************************************)
EXTENDS Data, Timer, TLC

CONSTANTS t1, t2, t3,           \* three timers
          hp, side,             \* two heaps: a large one and a small one
          uart, modem, pipe0, pipe1, portal0, portal1

MCHeapSize == [h \in Heaps |-> IF h = hp THEN 43 ELSE 22]

\* The last second of a day. The clock is held against the calendar at the end
\* of each day of a cycle of leap years, and around the ends of the years and of
\* February up to 2067 (TLC's integers end in 2068); dates are edited that are at
\* the ends of the years that the menu offers, of January and of February.
DaysBefore(year) == (year - 2000) * 365 + (year - 2000 + 3) \div 4
EndOf(day) == day * 86400 - 1
Ends(years, days) == {EndOf(DaysBefore(year) + day) : year \in years, day \in days}
MCEdited == {0} \cup Ends({2016}, {60}) \cup Ends({2026}, {31})
MCCounters == MCEdited \cup Ends({2000}, 1 .. DaysBefore(2004))
                     \cup Ends(2004 .. 2067, {0, 59, 60})

\* The character y comes into a line by completion.
MCStrokes == {<<"x">>, <<"CR">>, <<"LF">>, <<"CR", "LF">>, <<"TAB">>, <<"BS">>,
              <<"ESC", "[", "A">>, <<"ESC", "[", "B">>, <<"ESC", "[", "C">>,
              <<"ESC", "[", "D">>}

\* All keys are pressed while the shell waits, and fewer at any time.
MCHasty == {"x", "CR", "LF", "BS", "ESC", "[", "D"}
MCCommands == {<<"x", "y">>, <<"y">>}

\* Two portals, back to back on two pipes
MCReadDev  == (portal0 :> pipe0) @@ (portal1 :> pipe1)
MCWriteDev == (portal0 :> pipe1) @@ (portal1 :> pipe0)

-----------------------------------------------------------------------------
(* Three timers of fixed delays and types, one of them periodic ("timers"),  *)
(* and two whose types change, of one at any time, like its delay ("types"). *)

MCTimers == {t1, t2, t3}
MCDelays == {1, 2}
MCCallbackOps == {"none", "stop", "set_time", "set_oneshot", "set_periodic"}
MCRetyped == {t1}

MCSubjects == {"heap", "memheap", "ring", "clock", "calendar", "editor", "keys", "device",
               "timers", "types"}

MCInit ==
    /\ DataInit /\ Init
    /\ IF subject = "timers" THEN periodic = {t1} /\ init_tick[t2] < init_tick[t3]
                             ELSE periodic = {} /\ init_tick = [t \in Timers |-> 1]

Fixed == /\ UNCHANGED <<init_tick, periodic>>
         /\ Range(pc') \cap {"set_oneshot", "set_periodic"} = {}

MCNext ==
    \/ DataNext /\ UNCHANGED vars
    \/ /\ subject = "timers" /\ Next /\ Fixed
       /\ UNCHANGED data_vars
    \/ /\ subject = "types" /\ Next /\ init_tick'[t2] = 1
       /\ attached = Timers => attached' = {t1, t2}
       /\ UNCHANGED data_vars

MCSpec == MCInit /\ [][MCNext]_<<data_vars, vars>>
=============================================================================
