-------------------------------- MODULE Data ---------------------------------
(***************************************************************************)
(* The parts that no two callers work on at a time: the heap, the heaps of *)
(* several regions, a ring buffer, the calendar with its menu, the shell   *)
(* and the devices. They share no state; each behaviour is about one of    *)
(* them, its subject.                                                      *)
(***************************************************************************)
EXTENDS Heap, MemHeap, RingBuffer, Calendar, Shell, Device

CONSTANTS Subjects, \* the parts that behaviours are about
          Edited,   \* values of the RTC counter from which dates are edited
          Hasty     \* bytes that are sent while the shell is at work

VARIABLE subject

data_vars == <<heap_vars, memheap_vars, ring_vars, calendar_vars, shell_vars, device_vars,
               subject>>

DataInit ==
    /\ subject \in Subjects
    /\ RingInit /\ (subject # "ring" => buffer[0] = CHOOSE byte \in Bytes : TRUE)
    /\ counter \in CASE subject = "calendar" -> Edited
                     [] subject = "clock"    -> Counters
                     [] OTHER                -> {0}
    /\ HeapInit /\ MemHeapInit /\ CalendarInit /\ ShellInit /\ DeviceInit

\* In "editor" a byte is sent when the shell has come to rest; in "keys" bytes
\* are sent at any time.
Sent(byte) ==
    IF subject = "editor" THEN at = "take" /\ rx = << >> /\ rx_sem = 0 ELSE byte \in Hasty

DataNext ==
    \/ subject = "heap" /\ HeapNext
       /\ UNCHANGED <<memheap_vars, ring_vars, calendar_vars, shell_vars, device_vars, subject>>
    \/ subject = "memheap" /\ MemHeapNext
       /\ UNCHANGED <<heap_vars, ring_vars, calendar_vars, shell_vars, device_vars, subject>>
    \/ subject = "ring" /\ RingNext
       /\ UNCHANGED <<heap_vars, memheap_vars, calendar_vars, shell_vars, device_vars, subject>>
    \/ subject = "calendar" /\ CalendarNext
       /\ UNCHANGED <<heap_vars, memheap_vars, ring_vars, shell_vars, device_vars, subject>>
    \/ subject \in {"editor", "keys"} /\ ShellNext
       /\ (rx_sem' > rx_sem => Sent(Last(rx')))
       /\ UNCHANGED <<heap_vars, memheap_vars, ring_vars, calendar_vars, device_vars, subject>>
    \/ subject = "device" /\ DeviceNext
       /\ UNCHANGED <<heap_vars, memheap_vars, ring_vars, calendar_vars, shell_vars, subject>>

DataSpec == DataInit /\ [][DataNext]_data_vars

-----------------------------------------------------------------------------
(* Properties *)

\* Every variable of the parts keeps its type (mem.c, memheap.c, ringbuffer.c,
\* finsh/shell.c, device.c).
DataType == HeapType /\ MemHeapType /\ RingType /\ ShellType /\ DeviceType

\* Both heaps hold together: the heap is tiled by its blocks, rt_malloc finds the
\* start of its search, and used_mem is right (mem.c); the blocks of a region
\* tile it, the free ones are listed, and the ones that are held stay held
\* (memheap.c).
HeapsOK == Tiled /\ SearchStart /\ UsedMemOK /\ MemHeapOK

\* No call touches a block that another caller holds, or gives one back before
\* it is copied (mem.c, memheap.c).
OthersKept == [][BlocksKept /\ MemBlocksKept]_data_vars

\* The conversions agree with the calendar, one way and the other, and the
\* editor keeps to it (datetime.c).
CalendarOK == []ClockAdvances /\ []ValidDate /\ [][SavedIsShown]_data_vars

\* Every byte that was sent is served, and the line and the history change like
\* those of a line editor (finsh/shell.c).
ShellOK == []KeyServed /\ Editor!Spec
=============================================================================
