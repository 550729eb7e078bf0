------------------------------ MODULE Calendar -------------------------------
(***************************************************************************)
(* The calendar of Board/datetime.c on the seconds counter of the RTC, and *)
(* the menu of Board/led_key.c in which two keys with two directions each  *)
(* edit a date and save it. What the keys do outside the page of the time  *)
(* is left out.                                                            *)
(***************************************************************************)
EXTENDS Integers, Sequences, FiniteSetsExt

CONSTANTS Counters,     \* values of the RTC counter to start from
          MaxEdits      \* bound on the changes to the date

VARIABLES counter,      \* the RTC counter: seconds since 2000/1/1
          gtp,          \* the date that the menu edits
          menuCnt, timeSel, Key2CntF, Key3CntF,
          edits

calendar_vars == <<counter, gtp, menuCnt, timeSel, Key2CntF, Key3CntF, edits>>

SecsPerDay == 86400
SecsPerFourYear == 126230400
Year_Secs_Accu == <<0, 31622400, 63158400, 94694400, 126230400>>
Month_Secs_Accu_C ==
    <<0, 2678400, 5097600, 7776000, 10368000, 13046400, 15638400, 18316800,
      20995200, 23587200, 26265600, 28857600, 31536000>>
Month_Secs_Accu_L ==
    <<0, 2678400, 5184000, 7862400, 10454400, 13132800, 15724800, 18403200,
      21081600, 23673600, 26352000, 28944000, 31622400>>
Month_Days_Accu_C == <<0, 31, 59, 90, 120, 151, 181, 212, 243, 273, 304, 334, 365>>
Month_Days_Accu_L == <<0, 31, 60, 91, 121, 152, 182, 213, 244, 274, 305, 335, 366>>
Month_Days == <<31, 29, 31, 30, 31, 30, 31, 31, 30, 31, 30, 31>>

-----------------------------------------------------------------------------
(* The conversions *)

\* Faulty: the year 2000 is taken for the first of three common years.
ToSeconds_late(d) ==
    LET LeapY == (d.year - 2000) \div 4
        accu  == IF d.year % 4 # 0 THEN Month_Days_Accu_C ELSE Month_Days_Accu_L
        Days  == LeapY * 366 + (d.year - 2000 - LeapY) * 365 + accu[d.month] + d.day - 1
    IN  Days * SecsPerDay + d.hours * 3600 + d.minute * 60 + d.second

DateTimeToSeconds(d) ==
    LET LeapY == IF d.year = 2000 THEN 0 ELSE (d.year - 2000 - 1) \div 4 + 1
        accu  == IF d.year % 4 # 0 THEN Month_Days_Accu_C ELSE Month_Days_Accu_L
        Days  == LeapY * 366 + (d.year - 2000 - LeapY) * 365 + accu[d.month] + d.day - 1
    IN  Days * SecsPerDay + d.hours * 3600 + d.minute * 60 + d.second

GetWeek(sec) == (sec \div SecsPerDay + 6) % 7

\* The entry of a table of running totals that v falls into, from 1
Item(v, accu) == Min({i \in 1 .. Len(accu) - 1 : v < accu[i + 1]})

\* GetYear, GetMouth and GetDay each take their part off the seconds.
RTC_GetTime(sec) ==
    LET OffSec == sec % SecsPerFourYear
        y      == Item(OffSec, Year_Secs_Accu)
        year   == 2000 + (sec \div SecsPerFourYear) * 4 + y - 1
        inYear == OffSec - Year_Secs_Accu[y]
        accu   == IF year % 4 # 0 THEN Month_Secs_Accu_C ELSE Month_Secs_Accu_L
        month  == Item(inYear, accu)
        rest   == inYear - accu[month]
        inDay  == rest % SecsPerDay
    IN  [week   |-> GetWeek(sec), year |-> year, month |-> month,
         day    |-> rest \div SecsPerDay + 1,
         hours  |-> inDay \div 3600,
         minute |-> (inDay % 3600) \div 60, second |-> (inDay % 3600) % 60]

-----------------------------------------------------------------------------
(* The editor *)

\* One up, or one down, and around at the limits
Turned(v, low, high, down) ==
    IF down THEN IF v - 1 < low THEN high ELSE v - 1
    ELSE IF v + 1 > high THEN low ELSE v + 1

\* The last day that the editor offers: every month of a common year is a day
\* shorter, not only February.
LastDay(d) == Month_Days[d.month] - (IF d.year % 4 # 0 THEN 1 ELSE 0)

Cut(d) == [d EXCEPT !.day = IF @ > LastDay(d) THEN LastDay(d) ELSE @]

\* modifyTime for the fields; the last selection saves.
Modified(d, sel, down) ==
    CASE sel = 0 -> Cut([d EXCEPT !.year  = Turned(@, 2016, 2025, down)])
      [] sel = 1 -> Cut([d EXCEPT !.month = Turned(@, 1, 12, down)])
      [] sel = 2 -> [d EXCEPT !.day    = Turned(@, 1, LastDay(d), down)]
      [] sel = 3 -> [d EXCEPT !.hours  = Turned(@, 0, 23, down)]
      [] sel = 4 -> [d EXCEPT !.minute = Turned(@, 0, 59, down)]
      [] sel = 5 -> [d EXCEPT !.second = Turned(@, 0, 59, down)]

NoDate == [week |-> 0, year |-> 0, month |-> 0, day |-> 0, hours |-> 0, minute |-> 0,
           second |-> 0]

CalendarInit ==
    /\ counter \in Counters
    /\ gtp = NoDate /\ menuCnt = 0 /\ timeSel = 0
    /\ Key2CntF = FALSE /\ Key3CntF = FALSE
    /\ edits = 0

Deselected == timeSel' = IF timeSel = 6 THEN 0 ELSE timeSel

\* eventKey 0: no key was pressed for a while (processOver).
menu_over_time ==
    /\ menuCnt > 0 /\ menuCnt' = 0
    /\ Deselected
    /\ UNCHANGED <<counter, gtp, Key2CntF, Key3CntF, edits>>

\* eventKey 1
key_menu ==
    /\ menuCnt' = (menuCnt + 1) % 4
    /\ IF menuCnt' = 3
       THEN /\ Key2CntF' = FALSE /\ Key3CntF' = FALSE
            /\ gtp' = RTC_GetTime(counter)
            /\ Deselected
       ELSE UNCHANGED <<gtp, timeSel, Key2CntF, Key3CntF>>
    /\ UNCHANGED <<counter, edits>>

\* eventKey 2 on the page of the time
key_next ==
    /\ menuCnt = 3
    /\ timeSel' = Turned(timeSel, 0, 6, Key2CntF)
    /\ UNCHANGED <<counter, gtp, menuCnt, Key2CntF, Key3CntF, edits>>

\* eventKey 3 on the page of the time: a field changes, or the date is saved.
key_modify ==
    /\ menuCnt = 3 /\ timeSel # 6 /\ edits < MaxEdits
    /\ gtp' = Modified(gtp, timeSel, Key3CntF)
    /\ edits' = edits + 1
    /\ UNCHANGED <<counter, menuCnt, timeSel, Key2CntF, Key3CntF>>

key_save ==
    /\ menuCnt = 3 /\ timeSel = 6
    /\ counter' = DateTimeToSeconds(gtp)
    /\ menuCnt' = 0
    /\ UNCHANGED <<gtp, timeSel, Key2CntF, Key3CntF, edits>>

\* scanKey: a key is held down for long and changes its direction.
hold_key ==
    /\ \/ Key2CntF' = ~Key2CntF /\ UNCHANGED Key3CntF
       \/ Key3CntF' = ~Key3CntF /\ UNCHANGED Key2CntF
    /\ UNCHANGED <<counter, gtp, menuCnt, timeSel, edits>>

CalendarNext ==
    \/ menu_over_time \/ key_menu \/ key_next \/ key_modify \/ key_save \/ hold_key

-----------------------------------------------------------------------------
(* The calendar that the conversions are held against *)

Leap(year) == year % 4 = 0 /\ (year % 100 # 0 \/ year % 400 = 0)

DaysIn(year, month) ==
    CASE month = 2             -> IF Leap(year) THEN 29 ELSE 28
      [] month \in {4, 6, 9, 11} -> 30
      [] OTHER                 -> 31

Midnight(d) == [d EXCEPT !.hours = 0, !.minute = 0, !.second = 0, !.week = (@ + 1) % 7]

SecondAfter(d) ==
    CASE d.second < 59 -> [d EXCEPT !.second = @ + 1]
      [] d.second = 59 /\ d.minute < 59 -> [d EXCEPT !.second = 0, !.minute = @ + 1]
      [] d.second = 59 /\ d.minute = 59 /\ d.hours < 23 ->
            [d EXCEPT !.second = 0, !.minute = 0, !.hours = @ + 1]
      [] OTHER ->
            IF d.day < DaysIn(d.year, d.month) THEN [Midnight(d) EXCEPT !.day = @ + 1]
            ELSE IF d.month < 12 THEN [Midnight(d) EXCEPT !.day = 1, !.month = @ + 1]
            ELSE [Midnight(d) EXCEPT !.day = 1, !.month = 1, !.year = @ + 1]

IsDate(d) ==
    /\ d.month \in 1 .. 12 /\ d.day \in 1 .. DaysIn(d.year, d.month)
    /\ d.hours \in 0 .. 23 /\ d.minute \in 0 .. 59 /\ d.second \in 0 .. 59

\* Each second leads to the next date of the Gregorian calendar and to its day
\* of the week (RTC_GetTime).
ClockAdvances == RTC_GetTime(counter + 1) = SecondAfter(RTC_GetTime(counter))

\* After a date was saved the clock shows that date (RTC_SetTime, RTC_GetTime);
\* the day of the week is worked out anew.
SavedIsShown ==
    key_save => [RTC_GetTime(counter') EXCEPT !.week = gtp.week] = gtp

\* Whatever was edited in whichever order, the page of the time holds a date of
\* the calendar (adjYear, adjMonth, adjDay, adjHours, adjMinute, adjSecond).
ValidDate == menuCnt = 3 => IsDate(gtp)
=============================================================================
