-------------------------- MODULE Services_proofs ---------------------------
(***************************************************************************)
(* The properties of the parts of the system that share no state.          *)
(*                                                                         *)
(* The hard timers. The counter wraps, so the list cannot be ordered by    *)
(* timeout_tick: all reasoning is on Gap, the ticks to go, which behaves   *)
(* as a difference of integers within half the range of the counter.       *)
(*                                                                         *)
(* The devices. The count of a device is compared with the opens that are  *)
(* owed to it, `n', and the portals that it is a pipe of.                  *)
(*                                                                         *)
(* The ring buffer: Wrap turns an offset from its start into an index.     *)
(*                                                                         *)
(* The heaps: the headers tile the addresses (Tiles, HeapInv), and every   *)
(* call is followed through the cuts and the joins that it makes.          *)
(*                                                                         *)
(* The shell: the bytes that are on their way spell whole keys (ShellInv), *)
(* and every key changes the line like one of LineEditor.                  *)
(***************************************************************************)
EXTENDS Timer, Data, ListLemmas

\* The ticks from `now' to `due', negative when `due' has passed.
Gap(now, due) == LET d == Sub(due, now) IN IF d <= Half THEN d ELSE d - TickModulus

-----------------------------------------------------------------------------
(* Arithmetic of the tick counter *)

\* Half is half of the counter's range, rounded down.
LEMMA HalfRange ==
    /\ TickModulus \in Nat /\ Half \in Nat /\ Half >= 3
    /\ 2 * Half + 1 <= TickModulus /\ TickModulus <= 2 * Half + 2
  BY TimerAssumption DEF Half, RT_TICK_MAX

\* A difference of two ticks is the integer difference, or that plus the range.
LEMMA SubValue ==
    ASSUME NEW a \in Ticks, NEW b \in Ticks
    PROVE  /\ Sub(a, b) \in Ticks
           /\ Sub(a, b) = IF a >= b THEN a - b ELSE a - b + TickModulus
  BY HalfRange, SMT DEF Sub, Ticks, RT_TICK_MAX

\* A sum of a tick and at most half the range wraps at most once.
LEMMA SumValue ==
    ASSUME NEW a \in Ticks, NEW x \in -Half .. Half
    PROVE  /\ (a + x) % TickModulus \in Ticks
           /\ (a + x) % TickModulus = IF a + x < 0 THEN a + x + TickModulus
                                      ELSE IF a + x > RT_TICK_MAX THEN a + x - TickModulus
                                      ELSE a + x
  BY HalfRange, SMT DEF Ticks, RT_TICK_MAX

\* Gap stays within half the range.
LEMMA GapRange ==
    ASSUME NEW now \in Ticks, NEW due \in Ticks
    PROVE  Gap(now, due) \in -(Half + 1) .. Half
  <1>1. Sub(due, now) \in Ticks  BY SubValue
  <1> QED BY <1>1, HalfRange DEF Gap, Ticks, RT_TICK_MAX

\* x ticks from now are x ticks to go.
LEMMA GapOfSum ==
    ASSUME NEW now \in Ticks, NEW x \in -Half .. Half
    PROVE  (now + x) % TickModulus \in Ticks /\ Gap(now, (now + x) % TickModulus) = x
  <1> DEFINE due == (now + x) % TickModulus
  <1>1. due \in Ticks /\ due = IF now + x < 0 THEN now + x + TickModulus
                             ELSE IF now + x > RT_TICK_MAX THEN now + x - TickModulus
                             ELSE now + x
    BY SumValue
  <1> HIDE DEF due
  <1>2. Sub(due, now) = IF due >= now THEN due - now ELSE due - now + TickModulus
    BY <1>1, SubValue
  <1>3. Gap(now, due) = x  BY <1>1, <1>2, HalfRange DEF Gap, Ticks, RT_TICK_MAX
  <1> QED BY <1>1, <1>3 DEF due

\* One tick less to go after every tick, also when the counter wraps.
LEMMA GapAfterTick ==
    ASSUME NEW now \in Ticks, NEW due \in Ticks, Gap(now, due) > -Half
    PROVE  /\ (now + 1) % TickModulus \in Ticks
           /\ Gap((now + 1) % TickModulus, due) = Gap(now, due) - 1
  <1> DEFINE next == (now + 1) % TickModulus
  <1>1. next \in Ticks /\ next = IF now + 1 > RT_TICK_MAX THEN 0 ELSE now + 1
    <2>1. now \in 0 .. TickModulus - 1  BY DEF Ticks, RT_TICK_MAX
    <2> QED BY <2>1, HalfRange DEF Ticks, RT_TICK_MAX
  <1> HIDE DEF next
  <1>2. Sub(due, next) = IF due >= next THEN due - next ELSE due - next + TickModulus
    BY <1>1, SubValue
  <1>3. Sub(due, now) = IF due >= now THEN due - now ELSE due - now + TickModulus
    BY SubValue
  <1>4. Gap(next, due) = Gap(now, due) - 1
    BY <1>1, <1>2, <1>3, HalfRange DEF Gap, Ticks, RT_TICK_MAX
  <1> QED BY <1>1, <1>4 DEF next

\* The comparison of the search loop of rt_timer_start: of two timers whose
\* times to go are less than half the range apart, it finds the later one.
LEMMA LaterByGap ==
    ASSUME NEW now \in Ticks, NEW a \in Ticks, NEW b \in Ticks,
           Gap(now, a) - Gap(now, b) \in -Half .. Half - 1
    PROVE  Sub(a, b) # 0 /\ Sub(a, b) < Half <=> Gap(now, a) > Gap(now, b)
  <1>1. /\ Sub(a, b) = IF a >= b THEN a - b ELSE a - b + TickModulus
        /\ Sub(a, now) = IF a >= now THEN a - now ELSE a - now + TickModulus
        /\ Sub(b, now) = IF b >= now THEN b - now ELSE b - now + TickModulus
    BY SubValue
  <1> QED BY <1>1, HalfRange DEF Gap, Ticks, RT_TICK_MAX

\* The comparison of rt_timer_check: a timer is due when no ticks are to go.
LEMMA DueByGap ==
    ASSUME NEW now \in Ticks, NEW due \in Ticks, Gap(now, due) > -Half
    PROVE  Sub(now, due) < Half <=> Gap(now, due) <= 0
  <1>1. /\ Sub(now, due) = IF now >= due THEN now - due ELSE now - due + TickModulus
        /\ Sub(due, now) = IF due >= now THEN due - now ELSE due - now + TickModulus
    BY SubValue
  <1> QED BY <1>1, HalfRange DEF Gap, Ticks, RT_TICK_MAX

\* The ticks that passed since a timeout of delay d was computed are those that
\* are missing from d.
LEMMA StallByGap ==
    ASSUME NEW now \in Ticks, NEW due \in Ticks, NEW d \in 1 .. Half - 1,
           NEW s \in Nat, d + s <= Half, Gap(now, due) \in d - s .. d
    PROVE  Sub(now, Sub(due, d)) = d - Gap(now, due)
  <1> DEFINE start == Sub(due, d)
  <1>1. d \in Ticks  BY HalfRange DEF Ticks, RT_TICK_MAX
  <1>2. start \in Ticks /\ start = IF due >= d THEN due - d ELSE due - d + TickModulus
    BY <1>1, SubValue
  <1> HIDE DEF start
  <1>3. /\ Sub(now, start) = IF now >= start THEN now - start ELSE now - start + TickModulus
        /\ Sub(due, now) = IF due >= now THEN due - now ELSE due - now + TickModulus
    BY <1>2, SubValue
  <1>4. Sub(now, start) = d - Gap(now, due)
    BY <1>1, <1>2, <1>3, HalfRange DEF Gap, Ticks, RT_TICK_MAX
  <1> QED BY <1>4 DEF start

-----------------------------------------------------------------------------
(* The list *)

\* A list of timers that names each once, ordered by f.
TimerList(l, f) == l \in Seq(Timers) /\ IsInjective(l) /\ Ordered(l, f)

\* Unlinking a timer keeps the order of the others.
LEMMA UnlinkTimer ==
    ASSUME NEW f \in [Timers -> Int], NEW l, TimerList(l, f), NEW t
    PROVE  /\ TimerList(RemoveFirst(l, t), f)
           /\ \A x : Listed(RemoveFirst(l, t), x) <=> Listed(l, x) /\ x # t
  <1> DEFINE r == RemoveFirst(l, t)
  <1>0. l \in Seq(Timers) /\ IsInjective(l)  BY DEF TimerList
  <1>1. /\ r \in Seq(Timers) /\ IsInjective(r)
        /\ \A x : Listed(r, x) <=> Listed(l, x) /\ x # t
    BY <1>0, RemoveFirstList DEF Listed
  <1>2. Ordered(r, f)  BY <1>0, UnlinkOrdered DEF TimerList
  <1> QED BY <1>1, <1>2 DEF TimerList

\* rt_timer_check unlinks the first timer.
LEMMA UnlinkHead ==
    ASSUME NEW f \in [Timers -> Int], NEW l, TimerList(l, f), l # << >>
    PROVE  /\ Head(l) \in Timers /\ Listed(l, Head(l))
           /\ \A x : Listed(l, x) => f[Head(l)] <= f[x]
           /\ TimerList(Tail(l), f)
           /\ \A x : Listed(Tail(l), x) <=> Listed(l, x) /\ x # Head(l)
  <1>1. l \in Seq(Timers) /\ IsInjective(l) /\ Ordered(l, f)  BY DEF TimerList
  <1>2. /\ Len(l) \in Nat \ {0} /\ DOMAIN l = 1 .. Len(l)
        /\ Head(l) = l[1] /\ l[1] \in Timers
        /\ Tail(l) \in Seq(Timers) /\ Len(Tail(l)) = Len(l) - 1
        /\ \A i \in 1 .. Len(l) - 1 : Tail(l)[i] = l[i + 1]
    BY <1>1, HeadTailProperties, LenProperties, EmptySeq
  <1>3. Listed(l, Head(l))  BY <1>2 DEF Listed, Contains
  <1>4. ASSUME NEW x, Listed(l, x) PROVE f[Head(l)] <= f[x]
    <2>1. PICK i \in 1 .. Len(l) : l[i] = x  BY <1>4 DEF Listed, Contains
    <2>2. CASE i = 1  BY <2>1, <2>2, <1>2
    <2>3. CASE i # 1  BY <2>1, <2>3, <1>1, <1>2 DEF Ordered
    <2> QED BY <2>2, <2>3
  <1> DEFINE r == Tail(l)
  <1>5. DOMAIN r = 1 .. Len(l) - 1  BY <1>2
  <1>6. \A i \in 1 .. Len(l) - 1 : i + 1 \in 1 .. Len(l) /\ r[i] = l[i + 1]  BY <1>2
  <1> HIDE DEF r
  <1>7. IsInjective(r)
    <2>1. ASSUME NEW i \in 1 .. Len(l) - 1, NEW j \in 1 .. Len(l) - 1, r[i] = r[j] PROVE i = j
      <3>1. i + 1 \in 1 .. Len(l) /\ j + 1 \in 1 .. Len(l) /\ l[i + 1] = l[j + 1]
        BY <2>1, <1>6
      <3>2. i + 1 = j + 1  BY <3>1, <1>1, <1>2 DEF IsInjective
      <3> QED BY <3>2
    <2> QED BY <2>1, <1>5 DEF IsInjective
  <1>8. Ordered(r, f)
    <2>1. ASSUME NEW i \in 1 .. Len(l) - 1, NEW j \in 1 .. Len(l) - 1, i < j
          PROVE  f[r[i]] <= f[r[j]]
      <3>1. /\ i + 1 \in 1 .. Len(l) /\ j + 1 \in 1 .. Len(l) /\ i + 1 < j + 1
            /\ r[i] = l[i + 1] /\ r[j] = l[j + 1]
        BY <2>1, <1>6
      <3> QED BY <3>1, <1>1, <1>2, Zenon DEF Ordered
    <2> QED BY <2>1, <1>5 DEF Ordered
  <1>9. ASSUME NEW x PROVE Listed(r, x) <=> Listed(l, x) /\ x # Head(l)
    <2>1. ASSUME NEW i \in 1 .. Len(l) - 1, r[i] = x PROVE Listed(l, x) /\ x # Head(l)
      <3>1. i + 1 \in 1 .. Len(l) /\ l[i + 1] = x  BY <2>1, <1>6
      <3>2. l[i + 1] # l[1]  BY <3>1, <1>1, <1>2 DEF IsInjective
      <3> QED BY <3>1, <3>2, <1>2 DEF Listed, Contains
    <2>2. ASSUME NEW i \in 1 .. Len(l), l[i] = x, x # Head(l) PROVE Listed(r, x)
      <3>1. i - 1 \in 1 .. Len(l) - 1 /\ r[i - 1] = x  BY <2>2, <1>2, <1>6
      <3> QED BY <3>1, <1>2, Zenon DEF Listed, Contains, r
    <2>3. Len(r) = Len(l) - 1  BY <1>2 DEF r
    <2> QED BY <2>1, <2>2, <2>3 DEF Listed, Contains
  <1> QED BY <1>2, <1>3, <1>4, <1>7, <1>8, <1>9 DEF TimerList, r

\* The insertion of rt_timer_start: as long as the listed timers are less than
\* half the range away from the new one, the list stays ordered by time to go,
\* and the new timer is behind those that expire with it.
LEMMA InsertTimerEffect ==
    ASSUME NEW now \in Ticks, NEW to \in [Timers -> Ticks], NEW t \in Timers, NEW l,
           NEW f, f = [x \in Timers |-> Gap(now, to[x])],
           TimerList(l, f), ~Listed(l, t),
           \A x \in Timers : Listed(l, x) => f[x] - f[t] \in -Half .. Half - 1
    PROVE  LET m == InsertTimer(l, to, t)
           IN  /\ TimerList(m, f)
               /\ \A x : Listed(m, x) <=> Listed(l, x) \/ x = t
               /\ \A x : Listed(l, x) /\ to[x] = to[t] =>
                     \E i, j \in DOMAIN m : i < j /\ m[i] = x /\ m[j] = t
  <1> DEFINE later == {i \in DOMAIN l : Sub(to[l[i]], to[t]) # 0 /\ Sub(to[l[i]], to[t]) < Half}
             pos == InsertionPoint(l, to, to[t])
             m == InsertTimer(l, to, t)
  <1>1. l \in Seq(Timers) /\ IsInjective(l) /\ Ordered(l, f) /\ f \in [Timers -> Int]
    BY GapRange, HalfRange DEF TimerList
  <1>2. Len(l) \in Nat /\ DOMAIN l = 1 .. Len(l) /\ \A i \in 1 .. Len(l) : l[i] \in Timers
    BY <1>1
  <1>3. \A i \in DOMAIN l : i \in later <=> f[l[i]] > f[t]
    <2> SUFFICES ASSUME NEW i \in DOMAIN l
                 PROVE  Sub(to[l[i]], to[t]) # 0 /\ Sub(to[l[i]], to[t]) < Half <=> f[l[i]] > f[t]
      OBVIOUS
    <2>1. l[i] \in Timers /\ Listed(l, l[i])  BY <1>2 DEF Listed, Contains
    <2>2. Gap(now, to[l[i]]) - Gap(now, to[t]) \in -Half .. Half - 1  BY <2>1
    <2> QED BY <2>1, <2>2, LaterByGap
  <1>4. pos = IF later = {} THEN Len(l) + 1 ELSE CHOOSE i \in later : \A j \in later : i <= j
    BY DEF InsertionPoint
  <1>5. later \subseteq 1 .. Len(l)  BY <1>2
  <1> HIDE DEF later, pos
  <1>6. later # {} => pos \in later /\ \A j \in later : pos <= j
    <2> SUFFICES ASSUME later # {} PROVE pos \in later /\ \A j \in later : pos <= j
      OBVIOUS
    <2>1. later \in SUBSET Nat  BY <1>2, <1>5
    <2>2. \E i \in later : \A j \in later : i <= j  BY <2>1, LeastElement
    <2> QED BY <2>2, <1>4
  <1>7. pos \in 1 .. Len(l) + 1
    <2>1. CASE later = {}  BY <2>1, <1>2, <1>4
    <2>2. CASE later # {}
      <3>1. pos \in 1 .. Len(l)  BY <2>2, <1>5, <1>6, Zenon
      <3> QED BY <3>1, <1>2
    <2> QED BY <2>1, <2>2
  <1>8. \A i \in 1 .. Len(l) : i < pos => f[l[i]] <= f[t]
    <2> SUFFICES ASSUME NEW i \in 1 .. Len(l), i < pos, ~(f[l[i]] <= f[t]) PROVE FALSE
      OBVIOUS
    <2>1. i \in later
      <3>1. f[l[i]] \in Int /\ f[t] \in Int  BY <1>1, <1>2
      <3>2. f[l[i]] > f[t]  BY <3>1
      <3> QED BY <3>2, <1>2, <1>3, Zenon
    <2> QED BY <2>1, <1>2, <1>6, <1>7
  <1>9. \A i \in 1 .. Len(l) : pos <= i => f[l[i]] > f[t]
    <2> SUFFICES ASSUME NEW i \in 1 .. Len(l), pos <= i PROVE f[l[i]] > f[t]  OBVIOUS
    <2>1. later # {} /\ pos \in 1 .. Len(l)  BY <1>2, <1>4, <1>7
    <2>2. f[l[pos]] > f[t]  BY <2>1, <1>2, <1>3, <1>6, Zenon
    <2>3. f[l[pos]] <= f[l[i]]
      <3>1. CASE pos = i
        <4>1. f[l[i]] \in Int  BY <1>1, <1>2
        <4> QED BY <3>1, <4>1
      <3>2. CASE pos # i
        <4>1. pos < i /\ pos \in DOMAIN l /\ i \in DOMAIN l  BY <3>2, <1>2, <2>1
        <4> QED BY <4>1, <1>1, Zenon DEF Ordered
      <3> QED BY <3>1, <3>2
    <2> QED BY <2>1, <2>2, <2>3, <1>1, <1>2
  <1>10. /\ m \in Seq(Timers) /\ IsInjective(m)
         /\ \A x : Contains(m, x) <=> Contains(l, x) \/ x = t
    <2>1. m = InsertAt(l, pos, t)  BY DEF InsertTimer, pos
    <2> QED BY <2>1, <1>1, <1>7, InsertList DEF Listed
  <1>11. /\ Len(m) = Len(l) + 1
         /\ \A j \in 1 .. Len(l) + 1 :
               m[j] = IF j < pos THEN l[j] ELSE IF j = pos THEN t ELSE l[j - 1]
    <2>1. m = InsertAt(l, pos, t)  BY DEF InsertTimer, pos
    <2>2. /\ Len(InsertAt(l, pos, t)) = Len(l) + 1
          /\ \A j \in 1 .. Len(l) + 1 :
                InsertAt(l, pos, t)[j] = IF j < pos THEN l[j] ELSE IF j = pos THEN t ELSE l[j - 1]
      <3>1. l \in Seq(Timers) /\ pos \in 1 .. Len(l) + 1 /\ t \in Timers  BY <1>1, <1>7
      <3>2. Inserted(Timers, l, pos, t, InsertAt(l, pos, t))
        BY ONLY <3>1, InsertAtIs, Zenon
      <3> QED BY <3>2 DEF Inserted
    <2> HIDE DEF m
    <2> QED BY <2>1, <2>2
  <1> HIDE DEF m
  <1>12. DOMAIN m = 1 .. Len(l) + 1  BY <1>10, <1>11
  <1>14. Ordered(m, f)
    <2>1. \A j \in 1 .. Len(l) : j < pos => f[l[j]] <= f[t]  BY <1>8
    <2>2. pos <= Len(l) => f[t] < f[l[pos]]
      <3>1. pos <= Len(l) => pos \in 1 .. Len(l) /\ f[l[pos]] > f[t] /\ l[pos] \in Timers
        BY <1>2, <1>7, <1>9
      <3>2. \A x \in Timers : f[x] \in Int  BY <1>1
      <3> QED BY <3>1, <3>2
    <2>3. Ordered(InsertAt(l, pos, t), f)
      BY ONLY <1>1, <1>7, <2>1, <2>2, InsertOrdered, t \in Timers, Zenon
    <2> QED BY <2>3 DEF m, InsertTimer, pos
  <1>15. ASSUME NEW x, Listed(l, x), to[x] = to[t]
         PROVE  \E i, j \in DOMAIN m : i < j /\ m[i] = x /\ m[j] = t
    <2>1. PICK i \in 1 .. Len(l) : l[i] = x  BY <1>15 DEF Listed, Contains
    <2>2. f[x] = f[t] /\ f[t] \in Int  BY <2>1, <1>1, <1>2, <1>15
    <2>3. i < pos
      <3> SUFFICES ASSUME pos <= i PROVE FALSE  BY <1>2, <1>7
      <3>1. f[l[i]] > f[t]  BY <1>9
      <3> QED BY <3>1, <2>1, <2>2
    <2>4. m[i] = x /\ m[pos] = t /\ i \in DOMAIN m /\ pos \in DOMAIN m
      BY <2>1, <2>3, <1>2, <1>7, <1>11, <1>12
    <2> QED BY <2>3, <2>4
  <1> QED BY <1>10, <1>14, <1>15 DEF TimerList, Listed, m

\* A list stays ordered when the times to go of its timers change together.
LEMMA OrderKept ==
    ASSUME NEW f \in [Timers -> Int], NEW g \in [Timers -> Int], NEW l, TimerList(l, f),
           \A x, y \in Timers : Listed(l, x) /\ Listed(l, y) /\ f[x] <= f[y] => g[x] <= g[y]
    PROVE  TimerList(l, g)
  <1>1. l \in Seq(Timers) /\ IsInjective(l) /\ Ordered(l, f)  BY DEF TimerList
  <1>2. ASSUME NEW i \in DOMAIN l, NEW j \in DOMAIN l, i < j PROVE g[l[i]] <= g[l[j]]
    <2>1. l[i] \in Timers /\ l[j] \in Timers /\ Listed(l, l[i]) /\ Listed(l, l[j])
      BY <1>1 DEF Listed, Contains
    <2>2. f[l[i]] <= f[l[j]]  BY <1>1, <1>2 DEF Ordered
    <2> QED BY <2>1, <2>2
  <1> QED BY <1>1, <1>2 DEF TimerList, Ordered

-----------------------------------------------------------------------------
(* The inductive invariant *)

Gaps == [t \in Timers |-> Gap(rt_tick, timeout_tick[t])]

\* The bounds that keep the listed timers less than half the range apart: a
\* timer on the list is at most the stall of its start late, one tick more while
\* rt_timer_check has not come to it; and one on the list is not in the middle
\* of a start or a stop.
Resting == {"user", "set_oneshot", "set_periodic"}
ListedBounds ==
    \A t \in Timers : Listed(rt_timer_list, t) =>
        /\ pc[t] \in Resting
        /\ Gaps[t] \in (IF checking THEN -MaxStall ELSE 1 - MaxStall) .. Half - MaxStall

\* The timeout that a start has computed and not used yet is at most MaxStall
\* ticks old.
StartBounds ==
    \A t \in Timers : pc[t] = "starting" =>
        Gaps[t] \in init_tick[t] - MaxStall .. init_tick[t]

TimerInv ==
    /\ TypeOK
    /\ TimerList(rt_timer_list, Gaps)
    /\ ListedBounds
    /\ StartBounds

\* Gaps is a function to integers within half the range.
LEMMA GapsType ==
    ASSUME NEW now \in Ticks, NEW to \in [Timers -> Ticks]
    PROVE  /\ [t \in Timers |-> Gap(now, to[t])] \in [Timers -> Int]
           /\ \A t \in Timers : Gap(now, to[t]) \in -(Half + 1) .. Half
  <1>1. \A t \in Timers : Gap(now, to[t]) \in -(Half + 1) .. Half  BY GapRange
  <1> QED BY <1>1, HalfRange

\* Delays leave room for the stall.
LEMMA DelayRange ==
    ASSUME NEW d \in Delays
    PROVE  d \in 1 .. Half - 1 /\ d \in 1 .. Half - MaxStall /\ d \in -Half .. Half
  BY TimerAssumption, StallAssumption, HalfRange

\* No timer runs at the start.
LEMMA InvInit == Init => TimerInv
  <1> SUFFICES ASSUME Init PROVE TimerInv  OBVIOUS
  <1>1. TypeOK
    <2>1. 0 \in Ticks  BY HalfRange DEF Ticks, RT_TICK_MAX
    <2>2. [t \in Timers |-> 0] \in [Timers -> Ticks]  BY <2>1
    <2>3. [t \in Timers |-> "user"] \in [Timers -> {"user", "starting", "stopping", "set_oneshot", "set_periodic"}]
      OBVIOUS
    <2>4. << >> \in Seq(Timers)  OBVIOUS
    <2>5. /\ rt_tick \in Ticks /\ rt_timer_list \in Seq(Timers)
          /\ timeout_tick \in [Timers -> Ticks] /\ init_tick \in [Timers -> Delays]
      BY <2>1, <2>2, <2>4 DEF Init
    <2>6. /\ activated \subseteq Timers /\ periodic \subseteq Timers /\ attached \subseteq Timers
          /\ pc \in [Timers -> {"user", "starting", "stopping", "set_oneshot", "set_periodic"}]
          /\ seen \subseteq Timers /\ checking \in BOOLEAN
      BY <2>3, Zenon DEF Init
    <2> QED BY <2>5, <2>6 DEF TypeOK
  <1>2. \A x : ~Listed(rt_timer_list, x)  BY DEF Init, Listed, Contains
  <1>3. TimerList(rt_timer_list, Gaps)  BY DEF Init, TimerList, Ordered, IsInjective
  <1> QED BY <1>1, <1>2, <1>3 DEF TimerInv, ListedBounds, StartBounds, Init

\* A call of the thread of t that unlinks t keeps the invariant, whatever it does
\* to the fields of t, as long as a start leaves a fresh timeout behind.
LEMMA UnlinkStep ==
    ASSUME TimerInv, TypeOK', NEW t \in Timers,
           rt_timer_list' = RemoveFirst(rt_timer_list, t),
           \A x \in Timers \ {t} : timeout_tick'[x] = timeout_tick[x] /\ pc'[x] = pc[x],
           pc'[t] = "starting" => Gaps'[t] = init_tick[t],
           UNCHANGED <<rt_tick, checking, init_tick>>
    PROVE  TimerInv'
  <1>1. Gaps \in [Timers -> Int] /\ Gaps' \in [Timers -> Int] /\ init_tick \in [Timers -> Delays]
    BY GapsType, Zenon DEF TimerInv, TypeOK, Gaps
  <1>2. /\ TimerList(rt_timer_list', Gaps)
        /\ \A x : Listed(rt_timer_list', x) <=> Listed(rt_timer_list, x) /\ x # t
    BY <1>1, UnlinkTimer DEF TimerInv
  <1>3. \A x \in Timers \ {t} : Gaps'[x] = Gaps[x]  BY DEF Gaps
  <1> HIDE DEF Gaps
  <1>4. TimerList(rt_timer_list', Gaps')  BY <1>1, <1>2, <1>3, OrderKept
  <1>5. ListedBounds'
    <2> SUFFICES ASSUME NEW x \in Timers, Listed(rt_timer_list', x)
                 PROVE  /\ pc'[x] \in Resting
                        /\ Gaps'[x] \in (IF checking THEN -MaxStall ELSE 1 - MaxStall) .. Half - MaxStall
      BY DEF ListedBounds
    <2> QED BY <1>2, <1>3 DEF TimerInv, ListedBounds
  <1>6. StartBounds'
    <2> SUFFICES ASSUME NEW x \in Timers, pc'[x] = "starting"
                 PROVE  Gaps'[x] \in init_tick[x] - MaxStall .. init_tick[x]
      BY DEF StartBounds
    <2>1. CASE x = t
      <3>1. Gaps'[x] = init_tick[x] /\ init_tick[x] \in Int /\ MaxStall \in Nat
        BY <2>1, <1>1, DelayRange, TimerAssumption
      <3> QED BY <3>1
    <2>2. CASE x # t  BY <2>2, <1>3 DEF TimerInv, StartBounds
    <2> QED BY <2>1, <2>2
  <1> QED BY <1>4, <1>5, <1>6 DEF TimerInv

\* A step that keeps the list, the counter and the timeouts keeps the invariant,
\* when it leaves calls alone that are on their way to a list.
LEMMA QuietStep ==
    ASSUME TimerInv, TypeOK',
           UNCHANGED <<rt_tick, rt_timer_list, timeout_tick, checking>>,
           \A x \in Timers : Listed(rt_timer_list, x) => pc'[x] = pc[x] \/ pc'[x] \in Resting,
           \A x \in Timers : pc'[x] = "starting" =>
              pc[x] = "starting" /\ init_tick'[x] = init_tick[x]
    PROVE  TimerInv'
  <1>1. Gaps' = Gaps  BY DEF Gaps
  <1> HIDE DEF Gaps
  <1>2. TimerList(rt_timer_list', Gaps')  BY <1>1 DEF TimerInv
  <1>3. ListedBounds'  BY <1>1 DEF TimerInv, ListedBounds
  <1>4. StartBounds'  BY <1>1 DEF TimerInv, StartBounds
  <1> QED BY <1>2, <1>3, <1>4 DEF TimerInv

\* rt_timer_start computes a timeout that is exactly the delay away.
LEMMA FreshTimeout ==
    ASSUME TypeOK, NEW t \in Timers
    PROVE  /\ Expiry(t) \in Ticks /\ Gap(rt_tick, Expiry(t)) = init_tick[t]
           /\ init_tick[t] \in Delays
  <1>1. rt_tick \in Ticks /\ init_tick[t] \in Delays  BY DEF TypeOK
  <1>2. init_tick[t] \in -Half .. Half  BY <1>1, DelayRange
  <1> QED BY <1>1, <1>2, GapOfSum DEF Expiry

\* The first half of rt_timer_start keeps the invariant.
LEMMA StartStep ==
    ASSUME TimerInv, NEW t \in Timers, rt_timer_start(t)
    PROVE  TimerInv'
  <1>1. TypeOK /\ Expiry(t) \in Ticks /\ Gap(rt_tick, Expiry(t)) = init_tick[t]
    BY FreshTimeout DEF TimerInv
  <1>2. RemoveFirst(rt_timer_list, t) \in Seq(Timers)
    BY RemoveFirstList DEF TimerInv, TimerList
  <1>3. TypeOK'  BY <1>1, <1>2 DEF rt_timer_start, TypeOK
  <1>4. Gaps'[t] = init_tick[t]  BY <1>1 DEF Gaps, rt_timer_start, TypeOK
  <1>5. \A x \in Timers \ {t} : timeout_tick'[x] = timeout_tick[x] /\ pc'[x] = pc[x]
    BY <1>1 DEF rt_timer_start, TypeOK
  <1>6. /\ rt_timer_list' = RemoveFirst(rt_timer_list, t)
        /\ UNCHANGED <<rt_tick, checking, init_tick>>
    BY DEF rt_timer_start
  <1> QED BY ONLY <1>3, <1>4, <1>5, <1>6, TimerInv, UnlinkStep

\* rt_timer_stop keeps the invariant.
LEMMA StopStep ==
    ASSUME TimerInv, NEW t \in Timers, rt_timer_stop(t)
    PROVE  TimerInv'
  <1>1. TypeOK /\ 0 \in Ticks  BY HalfRange DEF TimerInv, Ticks, RT_TICK_MAX
  <1>2. RemoveFirst(rt_timer_list, t) \in Seq(Timers)
    BY RemoveFirstList DEF TimerInv, TimerList
  <1>3. TypeOK'  BY <1>1, <1>2 DEF rt_timer_stop, TypeOK
  <1>4. pc'[t] # "starting"  BY <1>1 DEF rt_timer_stop, TypeOK
  <1>5. \A x \in Timers \ {t} : timeout_tick'[x] = timeout_tick[x] /\ pc'[x] = pc[x]
    BY <1>1 DEF rt_timer_stop, TypeOK
  <1>6. /\ rt_timer_list' = RemoveFirst(rt_timer_list, t)
        /\ UNCHANGED <<rt_tick, checking, init_tick>>
    BY DEF rt_timer_stop
  <1> QED BY ONLY <1>3, <1>4, <1>5, <1>6, TimerInv, UnlinkStep

\* rt_timer_detach keeps the invariant.
LEMMA DetachStep ==
    ASSUME TimerInv, NEW t \in Timers, rt_timer_detach(t)
    PROVE  TimerInv'
  <1>1. TypeOK /\ 0 \in Ticks  BY HalfRange DEF TimerInv, Ticks, RT_TICK_MAX
  <1>2. RemoveFirst(rt_timer_list, t) \in Seq(Timers)
    BY RemoveFirstList DEF TimerInv, TimerList
  <1>3. TypeOK'  BY <1>1, <1>2 DEF rt_timer_detach, TypeOK
  <1>4. pc'[t] # "starting"  BY DEF rt_timer_detach, Thread
  <1>5. \A x \in Timers \ {t} : timeout_tick'[x] = timeout_tick[x] /\ pc'[x] = pc[x]
    BY <1>1 DEF rt_timer_detach, TypeOK
  <1>6. /\ rt_timer_list' = RemoveFirst(rt_timer_list, t)
        /\ UNCHANGED <<rt_tick, checking, init_tick>>
    BY DEF rt_timer_detach
  <1> QED BY ONLY <1>3, <1>4, <1>5, <1>6, TimerInv, UnlinkStep

\* The second half of rt_timer_start: the timer that enters the list is less
\* than half the range away from all that are on it, and behind those that
\* expire with it.
LEMMA StartInsertion ==
    ASSUME TimerInv, NEW t \in Timers, start_insert(t)
    PROVE  /\ ~Listed(rt_timer_list, t)
           /\ Gaps' = Gaps
           /\ Gaps[t] \in 1 - MaxStall .. Half - MaxStall /\ Gaps[t] \in 1 - MaxStall .. Half - 1
           /\ TimerList(rt_timer_list', Gaps)
           /\ \A x : Listed(rt_timer_list', x) <=> Listed(rt_timer_list, x) \/ x = t
           /\ \A x : Listed(rt_timer_list, x) /\ timeout_tick[x] = timeout_tick[t] =>
                 \E i, j \in DOMAIN rt_timer_list' :
                    i < j /\ rt_timer_list'[i] = x /\ rt_timer_list'[j] = t
  <1>1. ~checking /\ pc[t] = "starting"  BY DEF start_insert, Thread
  <1>2. ~Listed(rt_timer_list, t)  BY <1>1 DEF TimerInv, ListedBounds, Resting
  <1>3. /\ rt_tick \in Ticks /\ timeout_tick \in [Timers -> Ticks]
        /\ init_tick[t] \in Delays /\ MaxStall \in Nat /\ Half \in Nat
    BY TimerAssumption, HalfRange DEF TimerInv, TypeOK
  <1>4. Gaps' = Gaps  BY DEF Gaps, start_insert
  <1>5. Gaps[t] \in 1 - MaxStall .. Half - MaxStall /\ Gaps[t] \in 1 - MaxStall .. Half - 1
    <2>1. Gaps[t] \in init_tick[t] - MaxStall .. init_tick[t]
      BY <1>1 DEF TimerInv, StartBounds
    <2>2. init_tick[t] \in 1 .. Half - MaxStall /\ init_tick[t] \in 1 .. Half - 1
      BY <1>3, DelayRange
    <2> QED BY <2>1, <2>2, <1>3
  <1>6. ASSUME NEW x \in Timers, Listed(rt_timer_list, x)
        PROVE  Gaps[x] - Gaps[t] \in -Half .. Half - 1
    <2>1. Gaps[x] \in 1 - MaxStall .. Half - MaxStall
      BY <1>1, <1>6 DEF TimerInv, ListedBounds
    <2>2. MaxStall <= Half - 1 \/ MaxStall = 0
      <3>1. init_tick[t] \in 1 .. Half - MaxStall  BY <1>3, DelayRange
      <3> QED BY <3>1, <1>3
    <2> QED BY <2>1, <2>2, <1>3, <1>5
  <1>7. Gaps = [x \in Timers |-> Gap(rt_tick, timeout_tick[x])]  BY DEF Gaps
  <1>8. TimerList(rt_timer_list, Gaps)  BY DEF TimerInv
  <1>9. rt_timer_list' = InsertTimer(rt_timer_list, timeout_tick, t)  BY DEF start_insert
  <1> HIDE DEF Gaps
  <1>10. LET m == InsertTimer(rt_timer_list, timeout_tick, t)
         IN  /\ TimerList(m, Gaps)
             /\ \A x : Listed(m, x) <=> Listed(rt_timer_list, x) \/ x = t
             /\ \A x : Listed(rt_timer_list, x) /\ timeout_tick[x] = timeout_tick[t] =>
                   \E i, j \in DOMAIN m : i < j /\ m[i] = x /\ m[j] = t
    BY ONLY <1>2, <1>3, <1>6, <1>7, <1>8, InsertTimerEffect
  <1> QED BY <1>2, <1>4, <1>5, <1>9, <1>10

\* The second half of rt_timer_start keeps the invariant.
LEMMA InsertStep ==
    ASSUME TimerInv, NEW t \in Timers, start_insert(t)
    PROVE  TimerInv'
  <1>1. /\ Gaps' = Gaps
        /\ Gaps[t] \in 1 - MaxStall .. Half - MaxStall
        /\ TimerList(rt_timer_list', Gaps)
        /\ \A x : Listed(rt_timer_list', x) <=> Listed(rt_timer_list, x) \/ x = t
    BY StartInsertion
  <1> HIDE DEF Gaps
  <1>2. TypeOK'
    <2>1. rt_timer_list' \in Seq(Timers)  BY <1>1 DEF TimerList
    <2> QED BY <2>1 DEF TimerInv, TypeOK, start_insert
  <1>3. pc' = [pc EXCEPT ![t] = "user"] /\ ~checking /\ UNCHANGED <<checking, init_tick>>
    BY DEF start_insert, Thread
  <1>4. pc \in [Timers -> Resting \cup {"starting", "stopping"}]
    BY DEF TimerInv, TypeOK, Resting
  <1>5. ListedBounds'
    <2> SUFFICES ASSUME NEW x \in Timers, Listed(rt_timer_list', x)
                 PROVE  /\ pc'[x] \in Resting
                        /\ Gaps'[x] \in 1 - MaxStall .. Half - MaxStall
      BY <1>3 DEF ListedBounds
    <2>1. CASE x = t  BY <2>1, <1>1, <1>3, <1>4 DEF Resting
    <2>2. CASE x # t  BY <2>2, <1>1, <1>3, <1>4 DEF TimerInv, ListedBounds
    <2> QED BY <2>1, <2>2
  <1>6. StartBounds'
    <2> SUFFICES ASSUME NEW x \in Timers, pc'[x] = "starting"
                 PROVE  Gaps'[x] \in init_tick[x] - MaxStall .. init_tick[x]
      BY <1>3 DEF StartBounds
    <2>1. pc[x] = "starting"  BY <1>3, <1>4
    <2> QED BY <2>1, <1>1 DEF TimerInv, StartBounds
  <1> QED BY <1>1, <1>2, <1>5, <1>6 DEF TimerInv

\* A timer that is on the list or on its way to it has one tick less to go after
\* every tick, whether or not the counter wraps.
LEMMA TickGaps ==
    ASSUME TimerInv, rt_tick_increase
    PROVE  /\ ~checking /\ rt_tick' \in Ticks
           /\ Gaps \in [Timers -> Int] /\ Gaps' \in [Timers -> Int]
           /\ \A x \in Timers : Listed(rt_timer_list, x) \/ pc[x] = "starting" =>
                 Gaps[x] >= 1 - MaxStall /\ Gaps'[x] = Gaps[x] - 1
           /\ \A x \in Timers : pc[x] = "starting" => Gaps[x] > init_tick[x] - MaxStall
  <1>1. /\ rt_tick \in Ticks /\ timeout_tick \in [Timers -> Ticks]
        /\ init_tick \in [Timers -> Delays] /\ MaxStall \in Nat
    BY TimerAssumption DEF TimerInv, TypeOK
  <1>2. ~checking /\ rt_tick' = (rt_tick + 1) % TickModulus /\ timeout_tick' = timeout_tick
    BY DEF rt_tick_increase
  <1>3. rt_tick' \in Ticks  BY <1>1, <1>2, GapOfSum, HalfRange
  <1>4. ASSUME NEW x \in Timers PROVE init_tick[x] >= 1 /\ init_tick[x] + MaxStall <= Half
    BY <1>1, DelayRange, HalfRange, StallAssumption
  <1>5. ASSUME NEW x \in Timers, pc[x] = "starting"
        PROVE  Gaps[x] > init_tick[x] - MaxStall /\ Gaps[x] <= init_tick[x]
    <2>1. Gap(rt_tick, timeout_tick[x]) \in init_tick[x] - MaxStall .. init_tick[x]
      BY <1>5 DEF TimerInv, StartBounds, Gaps
    <2>2. init_tick[x] \in 1 .. Half - 1  BY <1>1, DelayRange
    <2>3. Stall(x) = init_tick[x] - Gap(rt_tick, timeout_tick[x])
      BY <2>1, <2>2, <1>1, <1>4, StallByGap DEF Stall
    <2>4. Stall(x) < MaxStall  BY <1>5 DEF rt_tick_increase
    <2> QED BY <2>1, <2>2, <2>3, <2>4, <1>1 DEF Gaps
  <1>6. ASSUME NEW x \in Timers, Listed(rt_timer_list, x) \/ pc[x] = "starting"
        PROVE  Gaps[x] >= 1 - MaxStall /\ Gaps[x] > -Half
    <2>1. CASE Listed(rt_timer_list, x)
      <3>1. Gaps[x] \in 1 - MaxStall .. Half - MaxStall
        BY <2>1, <1>2 DEF TimerInv, ListedBounds
      <3>2. init_tick[x] \in 1 .. Half - MaxStall  BY <1>1, DelayRange
      <3> QED BY <3>1, <3>2, <1>1, HalfRange
    <2>2. CASE pc[x] = "starting"
      <3>1. Gaps[x] > init_tick[x] - MaxStall  BY <2>2, <1>5
      <3>2. Gaps[x] \in Int  BY <1>1, GapsType DEF Gaps
      <3>3. init_tick[x] \in Int  BY <1>1, DelayRange
      <3> QED BY <3>1, <3>2, <3>3, <1>1, <1>4, HalfRange
    <2> QED BY <1>6, <2>1, <2>2
  <1>7. ASSUME NEW x \in Timers, Listed(rt_timer_list, x) \/ pc[x] = "starting"
        PROVE  Gaps'[x] = Gaps[x] - 1
    <2>1. Gap(rt_tick, timeout_tick[x]) > -Half  BY <1>6, <1>7 DEF Gaps
    <2> QED BY <2>1, <1>1, <1>2, GapAfterTick DEF Gaps
  <1>8. Gaps \in [Timers -> Int] /\ Gaps' \in [Timers -> Int]
    BY <1>1, <1>2, <1>3, GapsType DEF Gaps
  <1> QED BY <1>2, <1>3, <1>5, <1>6, <1>7, <1>8

\* rt_tick_increase keeps the invariant.
LEMMA TickStep ==
    ASSUME TimerInv, rt_tick_increase
    PROVE  TimerInv'
  <1>1. /\ ~checking /\ rt_tick' \in Ticks
        /\ Gaps \in [Timers -> Int] /\ Gaps' \in [Timers -> Int]
        /\ \A x \in Timers : Listed(rt_timer_list, x) \/ pc[x] = "starting" =>
              Gaps[x] >= 1 - MaxStall /\ Gaps'[x] = Gaps[x] - 1
        /\ \A x \in Timers : pc[x] = "starting" => Gaps[x] > init_tick[x] - MaxStall
    BY TickGaps
  <1>2. checking' /\ UNCHANGED <<rt_timer_list, timeout_tick, init_tick, pc>>
    BY DEF rt_tick_increase
  <1>3. TypeOK'  BY <1>1 DEF TimerInv, TypeOK, rt_tick_increase
  <1>4. MaxStall \in Nat /\ Half \in Nat /\ init_tick \in [Timers -> Delays]
    BY TimerAssumption, HalfRange DEF TimerInv, TypeOK
  <1> HIDE DEF Gaps
  <1>5. TimerList(rt_timer_list', Gaps')
    <2>1. TimerList(rt_timer_list, Gaps)  BY DEF TimerInv
    <2>2. \A x, y \in Timers : Listed(rt_timer_list, x) /\ Listed(rt_timer_list, y) /\ Gaps[x] <= Gaps[y]
             => Gaps'[x] <= Gaps'[y]
      BY <1>1
    <2>3. TimerList(rt_timer_list, Gaps')  BY <1>1, <2>1, <2>2, OrderKept
    <2> QED BY <2>3, <1>2
  <1>6. ListedBounds'
    <2> SUFFICES ASSUME NEW x \in Timers, Listed(rt_timer_list, x)
                 PROVE  pc[x] \in Resting /\ Gaps'[x] \in -MaxStall .. Half - MaxStall
      BY <1>2 DEF ListedBounds
    <2>1. pc[x] \in Resting /\ Gaps[x] \in 1 - MaxStall .. Half - MaxStall
      BY <1>1 DEF TimerInv, ListedBounds
    <2> QED BY <2>1, <1>1, <1>4
  <1>7. StartBounds'
    <2> SUFFICES ASSUME NEW x \in Timers, pc[x] = "starting"
                 PROVE  Gaps'[x] \in init_tick[x] - MaxStall .. init_tick[x]
      BY <1>2 DEF StartBounds
    <2>1. Gaps[x] \in init_tick[x] - MaxStall .. init_tick[x] /\ Gaps[x] > init_tick[x] - MaxStall
      BY <1>1 DEF TimerInv, StartBounds
    <2>2. init_tick[x] \in Int  BY <1>4, DelayRange
    <2> QED BY <2>1, <2>2, <1>1, <1>4
  <1> QED BY <1>3, <1>5, <1>6, <1>7 DEF TimerInv

\* What rt_timer_check finds at the head of the list: the timer that is due is
\* the one with the fewest ticks to go, and none are left.
LEMMA HeadGap ==
    ASSUME TimerInv, checking, rt_timer_list # << >>
    PROVE  LET t == Head(rt_timer_list)
           IN  /\ t \in Timers /\ Listed(rt_timer_list, t)
               /\ Gaps[t] \in -MaxStall .. Half - MaxStall
               /\ HeadExpired <=> Gaps[t] <= 0
               /\ \A x \in Timers : Listed(rt_timer_list, x) => Gaps[t] <= Gaps[x]
  <1> DEFINE t == Head(rt_timer_list)
  <1>1. /\ rt_tick \in Ticks /\ timeout_tick \in [Timers -> Ticks]
        /\ MaxStall \in Nat /\ Half \in Nat /\ TimerList(rt_timer_list, Gaps)
    BY TimerAssumption, HalfRange DEF TimerInv, TypeOK
  <1>2. Gaps \in [Timers -> Int]  BY <1>1, GapsType DEF Gaps
  <1>3. /\ t \in Timers /\ Listed(rt_timer_list, t)
        /\ \A x : Listed(rt_timer_list, x) => Gaps[t] <= Gaps[x]
    BY <1>1, <1>2, UnlinkHead
  <1>4. Gaps[t] \in -MaxStall .. Half - MaxStall  BY <1>3 DEF TimerInv, ListedBounds
  <1>5. Gaps[t] = Gap(rt_tick, timeout_tick[t])  BY <1>3 DEF Gaps
  <1>6. init_tick[t] \in 1 .. Half - MaxStall  BY <1>3, DelayRange DEF TimerInv, TypeOK
  <1>7. Gaps[t] > -Half  BY <1>1, <1>4, <1>6
  <1>8. Sub(rt_tick, timeout_tick[t]) < Half <=> Gaps[t] <= 0
    <2>1. Gap(rt_tick, timeout_tick[t]) > -Half  BY <1>5, <1>7
    <2> QED BY <2>1, <1>1, <1>3, <1>5, DueByGap
  <1> QED BY <1>3, <1>4, <1>8 DEF HeadExpired

\* The two ways in which rt_timer_check keeps timer t on the list: it restarts a
\* periodic one, or the callback has started it.
Restarts(t, op) == t \in periodic' /\ (op = "start" \/ (op # "stop" /\ t \in activated))
Returns(t, op) == Restarts(t, op) \/ op = "start"

\* One turn of the loop of rt_timer_check: the first timer, which is due, leaves
\* the list or returns to it with its whole delay ahead; no other one moves.
LEMMA CheckEffect ==
    ASSUME TimerInv, NEW op, rt_timer_check(op)
    PROVE  LET t == Head(rt_timer_list)
           IN  /\ checking /\ checking'
               /\ t \in Timers /\ Listed(rt_timer_list, t) /\ pc[t] \in Resting
               /\ Gaps[t] <= 0
               /\ \A x \in Timers : Listed(rt_timer_list, x) => Gaps[t] <= Gaps[x]
               /\ TypeOK'
               /\ \A x \in Timers \ {t} : Gaps'[x] = Gaps[x] /\ init_tick'[x] = init_tick[x]
               /\ TimerList(rt_timer_list', Gaps')
               /\ \A x : Listed(rt_timer_list', x) <=>
                            Listed(rt_timer_list, x) /\ (x = t => Returns(t, op))
               /\ Returns(t, op) => /\ Gaps'[t] \in 1 .. Half - MaxStall
                                    /\ Gaps'[t] \in 1 .. Half - 1
               /\ activated' = IF Restarts(t, op) THEN activated \cup {t} ELSE activated \ {t}
               /\ attached' = IF op = "detach" THEN attached \ {t} ELSE attached
               /\ UNCHANGED pc
  <1> DEFINE t == Head(rt_timer_list)
             l == Tail(rt_timer_list)
  <1>1. /\ rt_tick \in Ticks /\ timeout_tick \in [Timers -> Ticks]
        /\ init_tick \in [Timers -> Delays]
        /\ MaxStall \in Nat /\ Half \in Nat /\ TimerList(rt_timer_list, Gaps)
        /\ 0 \in Ticks
    BY TimerAssumption, HalfRange DEF TimerInv, TypeOK, Ticks, RT_TICK_MAX
  <1>2. checking /\ HeadExpired /\ rt_timer_list # << >>
    BY DEF rt_timer_check, HeadExpired
  <1>3. /\ t \in Timers /\ Listed(rt_timer_list, t)
        /\ Gaps[t] \in -MaxStall .. Half - MaxStall /\ Gaps[t] <= 0
        /\ \A x \in Timers : Listed(rt_timer_list, x) => Gaps[t] <= Gaps[x]
    BY <1>2, HeadGap
  <1>4. Gaps \in [Timers -> Int]  BY <1>1, GapsType DEF Gaps
  <1>5. /\ TimerList(l, Gaps)
        /\ \A x : Listed(l, x) <=> Listed(rt_timer_list, x) /\ x # t
    BY <1>1, <1>2, <1>4, UnlinkHead
  <1> HIDE DEF t, l
  <1>6. PICK d \in Delays : init_tick' = [init_tick EXCEPT ![t] = d]
    <2>1. init_tick' \in {[init_tick EXCEPT ![t] = d] :
                             d \in IF op = "set_time" THEN Delays ELSE {init_tick[t]}}
      BY DEF rt_timer_check, t
    <2> QED BY <2>1, <1>1, <1>3
  <1>7. init_tick' \in [Timers -> Delays] /\ init_tick'[t] = d  BY <1>1, <1>3, <1>6
  <1>8. /\ (rt_tick + d) % TickModulus \in Ticks
        /\ Gap(rt_tick, (rt_tick + d) % TickModulus) = d
        /\ d \in 1 .. Half - MaxStall /\ d \in 1 .. Half - 1
    BY <1>1, DelayRange, GapOfSum
  <1>9. /\ timeout_tick' = [timeout_tick EXCEPT ![t] =
                               IF Returns(t, op) THEN (rt_tick + d) % TickModulus ELSE 0]
        /\ rt_timer_list' = IF Returns(t, op) THEN InsertTimer(l, timeout_tick', t) ELSE l
        /\ activated' = IF Restarts(t, op) THEN activated \cup {t} ELSE activated \ {t}
        /\ attached' = IF op = "detach" THEN attached \ {t} ELSE attached
        /\ UNCHANGED <<rt_tick, pc, seen, checking>>
    BY <1>7 DEF rt_timer_check, Returns, Restarts, t, l
  <1>10. timeout_tick' \in [Timers -> Ticks]  BY <1>1, <1>8, <1>9, Zenon
  <1>11. Gaps' = [x \in Timers |-> Gap(rt_tick, timeout_tick'[x])] /\ Gaps' \in [Timers -> Int]
    <2>1. Gaps' = [x \in Timers |-> Gap(rt_tick, timeout_tick'[x])]  BY <1>9 DEF Gaps
    <2>2. [x \in Timers |-> Gap(rt_tick, timeout_tick'[x])] \in [Timers -> Int]
      BY <1>1, <1>10, GapsType
    <2> QED BY <2>1, <2>2
  <1>12. /\ \A x \in Timers \ {t} : Gaps'[x] = Gaps[x] /\ init_tick'[x] = init_tick[x]
         /\ Returns(t, op) => Gaps'[t] = d
    BY <1>1, <1>3, <1>6, <1>8, <1>9, <1>11 DEF Gaps
  <1> HIDE DEF Gaps
  <1>13. TimerList(l, Gaps') /\ ~Listed(l, t)  BY <1>4, <1>5, <1>11, <1>12, OrderKept
  <1>17. periodic' \subseteq Timers
    <2>1. periodic' \in {periodic, periodic \ {t}, periodic \cup {t}}
      BY DEF rt_timer_check, t
    <2> QED BY <2>1, <1>3 DEF TimerInv, TypeOK
  <1>14. pc[t] \in Resting  BY <1>3 DEF TimerInv, ListedBounds
  <1>15. CASE ~Returns(t, op)
    <2>1. TypeOK'
      BY <1>7, <1>9, <1>10, <1>13, <1>15, <1>17 DEF TimerInv, TypeOK, TimerList
    <2> QED BY <1>2, <1>3, <1>5, <1>9, <1>12, <1>13, <1>14, <1>15, <2>1 DEF t
  <1>16. CASE Returns(t, op)
    <2>1. ASSUME NEW x \in Timers, Listed(l, x) PROVE Gaps'[x] - Gaps'[t] \in -Half .. Half - 1
      <3>1. Gaps'[x] = Gaps[x] /\ Gaps[x] \in -MaxStall .. Half - MaxStall
        BY <2>1, <1>2, <1>5, <1>12 DEF TimerInv, ListedBounds
      <3> QED BY <3>1, <1>1, <1>8, <1>12, <1>16
    <2>2. /\ TimerList(InsertTimer(l, timeout_tick', t), Gaps')
          /\ \A x : Listed(InsertTimer(l, timeout_tick', t), x) <=> Listed(l, x) \/ x = t
      <3> DEFINE to == timeout_tick'
                 g == Gaps'
      <3>1. /\ rt_tick \in Ticks /\ to \in [Timers -> Ticks] /\ t \in Timers
            /\ g = [x \in Timers |-> Gap(rt_tick, to[x])]
            /\ TimerList(l, g) /\ ~Listed(l, t)
            /\ \A x \in Timers : Listed(l, x) => g[x] - g[t] \in -Half .. Half - 1
        BY <2>1, <1>1, <1>3, <1>10, <1>11, <1>13
      <3> HIDE DEF to, g
      <3>2. /\ TimerList(InsertTimer(l, to, t), g)
            /\ \A x : Listed(InsertTimer(l, to, t), x) <=> Listed(l, x) \/ x = t
        BY <3>1, InsertTimerEffect
      <3> QED BY <3>2 DEF to, g
    <2>3. rt_timer_list' = InsertTimer(l, timeout_tick', t)  BY <1>9, <1>16
    <2>4. TypeOK'
      BY <2>2, <2>3, <1>3, <1>7, <1>9, <1>10, <1>17 DEF TimerInv, TypeOK, TimerList
    <2> QED BY <1>2, <1>3, <1>5, <1>8, <1>9, <1>12, <1>13, <1>14, <1>16, <2>2, <2>3, <2>4, Zenon DEF t
  <1> QED BY <1>15, <1>16

\* rt_timer_check keeps the invariant.
LEMMA CheckStep ==
    ASSUME TimerInv, NEW op, rt_timer_check(op)
    PROVE  TimerInv'
  <1> DEFINE t == Head(rt_timer_list)
  <1>1. /\ checking /\ checking'
        /\ t \in Timers /\ Listed(rt_timer_list, t) /\ pc[t] \in Resting
        /\ TypeOK'
        /\ \A x \in Timers \ {t} : Gaps'[x] = Gaps[x] /\ init_tick'[x] = init_tick[x]
        /\ TimerList(rt_timer_list', Gaps')
        /\ \A x : Listed(rt_timer_list', x) <=>
                     Listed(rt_timer_list, x) /\ (x = t => Returns(t, op))
        /\ Returns(t, op) => Gaps'[t] \in 1 .. Half - MaxStall
        /\ UNCHANGED pc
    BY CheckEffect
  <1>2. MaxStall \in Nat /\ Half \in Nat  BY TimerAssumption, HalfRange
  <1> HIDE DEF t, Gaps
  <1>3. ListedBounds'
    <2> SUFFICES ASSUME NEW x \in Timers, Listed(rt_timer_list', x)
                 PROVE  pc[x] \in Resting /\ Gaps'[x] \in -MaxStall .. Half - MaxStall
      BY <1>1 DEF ListedBounds
    <2>1. CASE x = t  BY <2>1, <1>1, <1>2
    <2>2. CASE x # t  BY <2>2, <1>1 DEF TimerInv, ListedBounds
    <2> QED BY <2>1, <2>2
  <1>4. StartBounds'
    <2> SUFFICES ASSUME NEW x \in Timers, pc[x] = "starting"
                 PROVE  Gaps'[x] \in init_tick'[x] - MaxStall .. init_tick'[x]
      BY <1>1 DEF StartBounds
    <2>1. x # t  BY <1>1 DEF Resting
    <2> QED BY <2>1, <1>1 DEF TimerInv, StartBounds
  <1> QED BY <1>1, <1>3, <1>4 DEF TimerInv

\* When the first timer is not due, none is: the check ends with all of them at
\* least one tick away.
LEMMA EndStep ==
    ASSUME TimerInv, check_end
    PROVE  TimerInv'
  <1>1. Gaps' = Gaps  BY DEF Gaps, check_end
  <1>2. /\ checking /\ ~checking' /\ ~HeadExpired
        /\ UNCHANGED <<rt_timer_list, init_tick, pc>>
    BY DEF check_end
  <1>3. /\ Gaps \in [Timers -> Int] /\ MaxStall \in Nat /\ Half \in Nat
        /\ TimerList(rt_timer_list, Gaps)
    BY TimerAssumption, HalfRange, GapsType DEF TimerInv, TypeOK, Gaps
  <1>4. TypeOK'  BY Zenon DEF TimerInv, TypeOK, check_end
  <1> HIDE DEF Gaps
  <1>5. ListedBounds'
    <2> SUFFICES ASSUME NEW x \in Timers, Listed(rt_timer_list, x)
                 PROVE  pc[x] \in Resting /\ Gaps[x] \in 1 - MaxStall .. Half - MaxStall
      BY <1>1, <1>2 DEF ListedBounds
    <2>1. rt_timer_list # << >>  BY DEF Listed, Contains
    <2>2. /\ Head(rt_timer_list) \in Timers /\ ~(Gaps[Head(rt_timer_list)] <= 0)
          /\ Gaps[Head(rt_timer_list)] <= Gaps[x]
      BY <2>1, <1>2, HeadGap
    <2>3. pc[x] \in Resting /\ Gaps[x] \in -MaxStall .. Half - MaxStall
      BY <1>2 DEF TimerInv, ListedBounds
    <2> QED BY <2>2, <2>3, <1>3
  <1>6. StartBounds'  BY <1>1, <1>2 DEF TimerInv, StartBounds
  <1> QED BY <1>1, <1>2, <1>3, <1>4, <1>5, <1>6 DEF TimerInv

\* Every step keeps the invariant.
LEMMA InvStep == TimerInv /\ [Next]_vars => TimerInv'
  <1> SUFFICES ASSUME TimerInv, [Next]_vars PROVE TimerInv'  OBVIOUS
  <1>1. ASSUME NEW t \in Timers, rt_timer_start(t) PROVE TimerInv'  BY <1>1, StartStep
  <1>2. ASSUME NEW t \in Timers, start_insert(t) PROVE TimerInv'  BY <1>2, InsertStep
  <1>3. ASSUME NEW t \in Timers, rt_timer_stop(t) PROVE TimerInv'  BY <1>3, StopStep
  <1>4. ASSUME NEW t \in Timers, stop_flag(t) PROVE TimerInv'
    <2>1. TypeOK' /\ UNCHANGED <<rt_tick, rt_timer_list, timeout_tick, checking>>
      BY <1>4 DEF TimerInv, TypeOK, stop_flag
    <2>2. \A x \in Timers : Listed(rt_timer_list, x) => pc'[x] = pc[x]
      BY <1>4 DEF TimerInv, TypeOK, ListedBounds, Resting, stop_flag, Thread
    <2>3. \A x \in Timers : pc'[x] = "starting" => pc[x] = "starting" /\ init_tick'[x] = init_tick[x]
      BY <1>4 DEF TimerInv, TypeOK, stop_flag
    <2> QED BY <2>1, <2>2, <2>3, QuietStep
  <1>5. ASSUME NEW t \in Timers, rt_timer_control(t) PROVE TimerInv'
    <2>1. TypeOK' /\ UNCHANGED <<rt_tick, rt_timer_list, timeout_tick, checking>>
      BY <1>5 DEF TimerInv, TypeOK, rt_timer_control
    <2>2. \A x \in Timers : pc'[x] = pc[x] \/ pc'[x] \in Resting
      BY <1>5 DEF TimerInv, TypeOK, rt_timer_control, Resting
    <2>3. \A x \in Timers : pc'[x] = "starting" => pc[x] = "starting" /\ init_tick'[x] = init_tick[x]
      BY <1>5 DEF TimerInv, TypeOK, rt_timer_control, Thread
    <2> QED BY <2>1, <2>2, <2>3, QuietStep
  <1>11. ASSUME NEW t \in Timers, control_write(t) PROVE TimerInv'
    <2>1. TypeOK' /\ UNCHANGED <<rt_tick, rt_timer_list, timeout_tick, checking>>
      BY <1>11 DEF TimerInv, TypeOK, control_write
    <2>2. \A x \in Timers : pc'[x] = pc[x] \/ pc'[x] \in Resting
      BY <1>11 DEF TimerInv, TypeOK, control_write, Resting
    <2>3. \A x \in Timers : pc'[x] = "starting" => pc[x] = "starting" /\ init_tick'[x] = init_tick[x]
      BY <1>11 DEF TimerInv, TypeOK, control_write
    <2> QED BY <2>1, <2>2, <2>3, QuietStep
  <1>6. ASSUME NEW t \in Timers, rt_timer_detach(t) PROVE TimerInv'  BY <1>6, DetachStep
  <1>7. ASSUME rt_tick_increase PROVE TimerInv'  BY <1>7, TickStep
  <1>8. ASSUME NEW op \in CallbackOps, rt_timer_check(op) PROVE TimerInv'
    BY <1>8, CheckStep
  <1>9. ASSUME check_end PROVE TimerInv'  BY <1>9, EndStep
  <1>10. CASE UNCHANGED vars
    BY <1>10 DEF vars, TimerInv, TypeOK, ListedBounds, StartBounds, Gaps
  <1> QED BY <1>1, <1>2, <1>3, <1>4, <1>5, <1>6, <1>7, <1>8, <1>9, <1>10, <1>11 DEF Next

-----------------------------------------------------------------------------
(* Theorems *)

\* The inductive invariant holds in every reachable state, whatever the
\* callbacks do to their timers.
THEOREM Invariance == Spec => []TimerInv
  BY InvInit, InvStep, PTL DEF Spec

\* Every variable keeps its type.
THEOREM TypeCorrect == Spec => []TypeOK
  <1>1. TimerInv => TypeOK  BY DEF TimerInv
  <1> QED BY <1>1, Invariance, PTL

\* The search loop of rt_timer_start keeps the list ordered by time to go, and
\* every timer on it once, for every width of the counter and however often it
\* wraps.
THEOREM OrderedList == Spec => []ListOrdered
  <1>1. TimerInv => ListOrdered
    <2> SUFFICES ASSUME TimerInv, NEW i \in DOMAIN rt_timer_list, NEW j \in DOMAIN rt_timer_list, i < j
                 PROVE  /\ rt_timer_list[i] # rt_timer_list[j]
                        /\ Left(rt_timer_list[i]) <= Left(rt_timer_list[j])
      BY DEF ListOrdered
    <2>1. /\ rt_timer_list \in Seq(Timers) /\ IsInjective(rt_timer_list)
          /\ Gaps[rt_timer_list[i]] <= Gaps[rt_timer_list[j]]
      BY DEF TimerInv, TimerList, Ordered
    <2>2. rt_timer_list[i] \in Timers /\ rt_timer_list[j] \in Timers  BY <2>1
    <2>3. Left(rt_timer_list[i]) = Gaps[rt_timer_list[i]] /\ Left(rt_timer_list[j]) = Gaps[rt_timer_list[j]]
      BY <2>2 DEF Left, Gaps, Gap
    <2>4. i \in Int /\ j \in Int  BY <2>1
    <2>5. rt_timer_list[i] # rt_timer_list[j]  BY <2>1, <2>4 DEF IsInjective
    <2> QED BY <2>1, <2>3, <2>5
  <1> QED BY <1>1, Invariance, PTL

\* Only the second half of rt_timer_start puts a timer on the list that was not
\* there.
LEMMA OnlyStartInserts ==
    ASSUME TimerInv, [Next]_vars, NEW u, ~Listed(rt_timer_list, u), Listed(rt_timer_list', u)
    PROVE  u \in Timers /\ start_insert(u)
  <1>1. TimerList(rt_timer_list, Gaps) /\ Gaps \in [Timers -> Int]
    BY GapsType DEF TimerInv, TypeOK, Gaps
  <1>2. \A t, x : Listed(RemoveFirst(rt_timer_list, t), x) <=> Listed(rt_timer_list, x) /\ x # t
    BY <1>1, UnlinkTimer
  <1>3. ASSUME NEW t \in Timers, start_insert(t) PROVE u = t  BY <1>3, StartInsertion
  <1>4. \A op \in CallbackOps : ~rt_timer_check(op)  BY CheckEffect
  <1>5. \A t \in Timers : ~rt_timer_start(t) /\ ~rt_timer_stop(t) /\ ~rt_timer_detach(t)
    BY <1>2 DEF rt_timer_start, rt_timer_stop, rt_timer_detach
  <1>6. rt_timer_list' # rt_timer_list  OBVIOUS
  <1> QED BY <1>3, <1>4, <1>5, <1>6
          DEF Next, vars, stop_flag, rt_timer_control, control_write, rt_tick_increase, check_end

\* A timer enters the list behind those that expire at the same tick, so timers
\* with the same timeout ring in the order of their starts.
THEOREM EarlyInsertedFirst == Spec => EarlyFirst
  <1> DEFINE Early(t, u) ==
          /\ Listed(rt_timer_list, t) /\ Listed(rt_timer_list', t) /\ timeout_tick'[t] = timeout_tick[t]
          /\ ~Listed(rt_timer_list, u) /\ Listed(rt_timer_list', u) /\ timeout_tick'[u] = timeout_tick[t]
          => \E i, j \in DOMAIN rt_timer_list' :
                i < j /\ rt_timer_list'[i] = t /\ rt_timer_list'[j] = u
  <1>1. ASSUME TimerInv, [Next]_vars, NEW t \in Timers, NEW u \in Timers PROVE Early(t, u)
    <2> SUFFICES ASSUME Listed(rt_timer_list, t), ~Listed(rt_timer_list, u), Listed(rt_timer_list', u),
                        timeout_tick'[u] = timeout_tick[t]
                 PROVE  \E i, j \in DOMAIN rt_timer_list' :
                            i < j /\ rt_timer_list'[i] = t /\ rt_timer_list'[j] = u
      OBVIOUS
    <2>1. start_insert(u)  BY <1>1, OnlyStartInserts
    <2>2. timeout_tick[t] = timeout_tick[u]  BY <2>1 DEF start_insert
    <2> QED BY <1>1, <2>1, <2>2, StartInsertion
  <1>2. TimerInv /\ [Next]_vars => [\A t, u \in Timers : Early(t, u)]_vars  BY <1>1
  <1> QED BY <1>2, Invariance, PTL DEF Spec, EarlyFirst

\* What the calls that unlink a timer leave on the list.
LEMMA StillListed ==
    ASSUME TimerInv
    PROVE  \A t, x : Listed(RemoveFirst(rt_timer_list, t), x) <=> Listed(rt_timer_list, x) /\ x # t
  <1>1. TimerList(rt_timer_list, Gaps) /\ Gaps \in [Timers -> Int]
    BY GapsType DEF TimerInv, TypeOK, Gaps
  <1> QED BY <1>1, UnlinkTimer

\* What FlagShowsList is proved with: a timer is remembered as ACTIVATED only in
\* the middle of rt_timer_control, and one that is not retyped while it runs is
\* at rest there.
FlagInv ==
    /\ ActivatedIffListed
    /\ \A t \in seen : pc[t] \in {"set_oneshot", "set_periodic"}
    /\ \A t \in attached \ Retyped :
          pc[t] \in {"set_oneshot", "set_periodic"}
          => t \notin activated \cup seen /\ ~Listed(rt_timer_list, t)

\* What FlagInv says of timer x
Flag(x) ==
    /\ x \in attached \ Retyped /\ pc[x] = "user" => (x \in activated <=> Listed(rt_timer_list, x))
    /\ x \in seen => pc[x] \in {"set_oneshot", "set_periodic"}
    /\ x \in attached \ Retyped /\ pc[x] \in {"set_oneshot", "set_periodic"}
          => x \notin activated \cup seen /\ ~Listed(rt_timer_list, x)

LEMMA FlagStep ==
    ASSUME "start" \notin CallbackOps, TimerInv, FlagInv, [Next]_vars, NEW x \in Timers
    PROVE  Flag(x)'
  <1>1. /\ pc \in [Timers -> Resting \cup {"starting", "stopping"}] /\ attached \subseteq Timers
        /\ activated \subseteq Timers /\ seen \subseteq Timers
        /\ Listed(rt_timer_list, x) => pc[x] \in Resting
    BY DEF TimerInv, TypeOK, ListedBounds, Resting
  <1>2. Flag(x)  BY DEF FlagInv, Flag, ActivatedIffListed
  <1>3. \A t, y : Listed(RemoveFirst(rt_timer_list, t), y) <=> Listed(rt_timer_list, y) /\ y # t
    BY StillListed
  <1>4. ASSUME NEW t \in Timers, rt_timer_start(t) \/ rt_timer_stop(t) \/ rt_timer_detach(t)
        PROVE  Flag(x)'
    BY <1>1, <1>2, <1>3, <1>4 DEF rt_timer_start, rt_timer_stop, rt_timer_detach, Thread, Flag
  <1>5. ASSUME NEW t \in Timers, start_insert(t) PROVE Flag(x)'
    <2>1. \A y : Listed(rt_timer_list', y) <=> Listed(rt_timer_list, y) \/ y = t
      BY <1>5, StartInsertion
    <2> QED BY <2>1, <1>1, <1>2, <1>5 DEF start_insert, Thread, Flag
  <1>6. ASSUME NEW t \in Timers, stop_flag(t) PROVE Flag(x)'
    BY <1>1, <1>2, <1>6 DEF stop_flag, Thread, Flag, Resting
  <1>7. ASSUME NEW t \in Timers, rt_timer_control(t) PROVE Flag(x)'
    BY <1>1, <1>2, <1>7 DEF rt_timer_control, Thread, Flag
  <1>8. ASSUME NEW t \in Timers, control_write(t) PROVE Flag(x)'
    BY <1>1, <1>2, <1>8 DEF control_write, Flag
  <1>9. ASSUME NEW op \in CallbackOps, rt_timer_check(op) PROVE Flag(x)'
    <2> DEFINE t == Head(rt_timer_list)
    <2>1. /\ t \in Timers /\ Listed(rt_timer_list, t) /\ pc[t] \in Resting
          /\ \A y : Listed(rt_timer_list', y) <=>
                       Listed(rt_timer_list, y) /\ (y = t => Returns(t, op))
          /\ activated' = IF Restarts(t, op) THEN activated \cup {t} ELSE activated \ {t}
          /\ attached' = IF op = "detach" THEN attached \ {t} ELSE attached
          /\ UNCHANGED <<pc, seen>>
      BY <1>9, CheckEffect DEF rt_timer_check
    <2>2. Returns(t, op) <=> Restarts(t, op)  BY <1>9 DEF Returns
    <2> HIDE DEF t
    <2> QED BY <2>1, <2>2, <1>1, <1>2 DEF Flag
  <1>10. ASSUME rt_tick_increase \/ check_end \/ UNCHANGED vars PROVE Flag(x)'
    BY <1>2, <1>10 DEF rt_tick_increase, check_end, vars, Flag
  <1> QED BY <1>4, <1>5, <1>6, <1>7, <1>8, <1>9, <1>10 DEF Next

\* Outside the calls of its thread the flag of an attached timer says whether it
\* is on the list, under two rules of use: no callback starts its own timer
\* (rt_timer_check clears the flag of a one-shot timer that its callback has just
\* started), and the timer is not made one-shot or periodic while it may run
\* (rt_timer_control may write back a flag that rt_timer_check has cleared).
THEOREM FlagShowsList ==
    ASSUME "start" \notin CallbackOps
    PROVE  Spec => []ActivatedIffListed
  <1>1. Init => FlagInv  BY DEF Init, FlagInv, ActivatedIffListed, Listed, Contains
  <1>2. TimerInv /\ TimerInv' /\ FlagInv /\ [Next]_vars => FlagInv'
    <2> SUFFICES ASSUME TimerInv, TimerInv', FlagInv, [Next]_vars PROVE FlagInv'  OBVIOUS
    <2>1. \A x \in Timers : Flag(x)'  BY FlagStep
    <2>2. attached' \subseteq Timers /\ seen' \subseteq Timers  BY DEF TimerInv, TypeOK
    <2> QED BY <2>1, <2>2 DEF FlagInv, Flag, ActivatedIffListed
  <1>3. FlagInv => ActivatedIffListed  BY DEF FlagInv
  <1> QED BY <1>1, <1>2, <1>3, Invariance, PTL DEF Spec

\* A detached timer is off the list for good, as long as no callback detaches its
\* own timer: rt_timer_check would put a periodic one back.
THEOREM DetachedGone ==
    ASSUME "detach" \notin CallbackOps
    PROVE  Spec => []DetachedNotListed
  <1>1. Init => DetachedNotListed  BY DEF Init, DetachedNotListed
  <1>2. TimerInv /\ DetachedNotListed /\ [Next]_vars => DetachedNotListed'
    <2> SUFFICES ASSUME TimerInv, DetachedNotListed, [Next]_vars,
                        NEW x \in Timers, x \notin attached', Listed(rt_timer_list', x)
                 PROVE  FALSE
      BY DEF DetachedNotListed
    <2>1. CASE ~Listed(rt_timer_list, x)
      <3>1. start_insert(x)  BY <2>1, OnlyStartInserts
      <3> QED BY <3>1 DEF start_insert, Thread
    <2>2. CASE Listed(rt_timer_list, x)
      <3>1. x \in attached  BY <2>2 DEF DetachedNotListed
      <3>2. ASSUME NEW t \in Timers, rt_timer_detach(t) PROVE FALSE
        BY <3>1, <3>2, StillListed DEF rt_timer_detach
      <3>3. ASSUME NEW op \in CallbackOps, rt_timer_check(op) PROVE FALSE
        BY <3>1, <3>3, CheckEffect
      <3> QED BY <3>1, <3>2, <3>3 DEF Next, vars, rt_timer_start, start_insert, rt_timer_stop,
                                      stop_flag, rt_timer_control, control_write, rt_tick_increase, check_end
    <2> QED BY <2>1, <2>2
  <1> QED BY <1>1, <1>2, Invariance, PTL DEF Spec

-----------------------------------------------------------------------------
(* The timers implement AlarmClock *)

\* The time to go of every alarm, as AlarmClock sees it.
Alarm == [t \in Timers |-> IF Listed(rt_timer_list, t) THEN Left(t) ELSE Off]

\* An alarm is running when its timer is on the list.
LEMMA AlarmValue ==
    ASSUME TimerInv, NEW t \in Timers
    PROVE  /\ Alarm[t] = IF Listed(rt_timer_list, t) THEN Gaps[t] ELSE Off
           /\ Gaps[t] \in Int /\ Gaps[t] # Off
           /\ Listed(rt_timer_list, t) <=> Alarm[t] # Off
  <1>1. Gaps[t] \in -(Half + 1) .. Half  BY GapsType DEF TimerInv, TypeOK, Gaps
  <1>2. Left(t) = Gaps[t]  BY DEF Left, Gaps, Gap
  <1> QED BY <1>1, <1>2, HalfRange DEF Alarm, Off

\* A call that unlinks timer t cancels its alarm.
LEMMA UnlinkCancels ==
    ASSUME TimerInv, TimerInv', NEW t \in Timers,
           rt_timer_list' = RemoveFirst(rt_timer_list, t),
           \A x \in Timers \ {t} : Gaps'[x] = Gaps[x]
    PROVE  Alarm' = [Alarm EXCEPT ![t] = Off]
  <1>1. \A x \in Timers : Alarm[x] = IF Listed(rt_timer_list, x) THEN Gaps[x] ELSE Off
    BY AlarmValue
  <1>2. \A x \in Timers : Alarm'[x] = IF Listed(rt_timer_list', x) THEN Gaps'[x] ELSE Off
    BY DEF Alarm, Left, Gaps, Gap
  <1>3. \A x : Listed(rt_timer_list', x) <=> Listed(rt_timer_list, x) /\ x # t
    BY StillListed
  <1>4. /\ Alarm = [x \in Timers |-> Alarm[x]]
        /\ Alarm' = [x \in Timers |-> Alarm'[x]]
    BY DEF Alarm
  <1> HIDE DEF Alarm, Gaps
  <1> QED BY <1>1, <1>2, <1>3, <1>4

\* Every step of the timers is a step of the alarms or leaves them alone: the
\* halves of a start cancel and set, a tick counts down, rt_timer_check rings the
\* alarm with the earliest deadline.
LEMMA AlarmStep ==
    ASSUME TimerInv, TimerInv', [Next]_vars
    PROVE  [Alarms!Next]_Alarm
  <1>1. \A x \in Timers : /\ Alarm[x] = IF Listed(rt_timer_list, x) THEN Gaps[x] ELSE Off
                          /\ Gaps[x] \in Int /\ Gaps[x] # Off
    BY AlarmValue
  <1>2. \A x \in Timers : Alarm'[x] = IF Listed(rt_timer_list', x) THEN Gaps'[x] ELSE Off
    BY DEF Alarm, Left, Gaps, Gap
  <1>3. /\ Alarm = [x \in Timers |-> Alarm[x]]
        /\ Alarm' = [x \in Timers |-> Alarm'[x]]
    BY DEF Alarm
  <1>4. ASSUME NEW t \in Timers, Alarm' = [Alarm EXCEPT ![t] = Off] PROVE Alarms!Next
    BY <1>4, Zenon DEF Alarms!Next, Alarms!Cancel, Alarm
  <1>5. ASSUME NEW t \in Timers, rt_timer_start(t) \/ rt_timer_stop(t) \/ rt_timer_detach(t)
        PROVE  Alarms!Next
    <2>1. /\ rt_timer_list' = RemoveFirst(rt_timer_list, t) /\ rt_tick' = rt_tick
          /\ \A x \in Timers \ {t} : timeout_tick'[x] = timeout_tick[x]
      BY <1>5 DEF TimerInv, TypeOK, rt_timer_start, rt_timer_stop, rt_timer_detach
    <2>2. \A x \in Timers \ {t} : Gaps'[x] = Gaps[x]  BY <2>1 DEF Gaps
    <2> QED BY <2>1, <2>2, <1>4, UnlinkCancels
  <1>6. ASSUME NEW t \in Timers, start_insert(t) PROVE Alarms!Next
    <2>1. /\ Gaps' = Gaps /\ Gaps[t] \in 1 - MaxStall .. Half - 1
          /\ \A x : Listed(rt_timer_list', x) <=> Listed(rt_timer_list, x) \/ x = t
      BY <1>6, StartInsertion
    <2>2. Alarm' = [Alarm EXCEPT ![t] = Gaps[t]]
      <3> HIDE DEF Alarm, Gaps
      <3> QED BY <2>1, <1>1, <1>2, <1>3
    <2> QED BY <2>1, <2>2, Zenon DEF Alarms!Next, Alarms!Set, Alarm
  <1>7. ASSUME rt_tick_increase PROVE Alarms!Next
    <2>1. /\ \A x \in Timers : Listed(rt_timer_list, x) =>
                Gaps[x] >= 1 - MaxStall /\ Gaps'[x] = Gaps[x] - 1
          /\ rt_timer_list' = rt_timer_list /\ MaxStall \in Nat
      BY <1>7, TickGaps, TimerAssumption DEF rt_tick_increase
    <2>2. Alarm' = [x \in Timers |-> IF Alarm[x] # Off THEN Alarm[x] - 1 ELSE Off]
      <3> HIDE DEF Alarm, Gaps, Off
      <3> QED BY <2>1, <1>1, <1>2, <1>3
    <2>3. \A x \in Timers : Alarm[x] # Off => Alarm[x] > -MaxStall
      <3> HIDE DEF Alarm, Gaps, Off
      <3> QED BY <2>1, <1>1
    <2> QED BY <2>2, <2>3 DEF Alarms!Next, Alarms!Tick, Alarms!Running, Alarm
  <1>8. ASSUME NEW op \in CallbackOps, rt_timer_check(op) PROVE Alarms!Next
    <2> DEFINE t == Head(rt_timer_list)
    <2>1. /\ t \in Timers /\ Listed(rt_timer_list, t) /\ Gaps[t] <= 0
          /\ \A x \in Timers : Listed(rt_timer_list, x) => Gaps[t] <= Gaps[x]
          /\ \A x \in Timers \ {t} : Gaps'[x] = Gaps[x]
          /\ \A x : Listed(rt_timer_list', x) <=>
                       Listed(rt_timer_list, x) /\ (x = t => Returns(t, op))
          /\ Returns(t, op) => Gaps'[t] \in 1 .. Half - 1
      BY <1>8, CheckEffect
    <2> HIDE DEF t
    <2>2. /\ Alarm[t] # Off /\ Alarm[t] <= 0
          /\ \A x \in Timers : Alarm[x] # Off => Alarm[t] <= Alarm[x]
      <3> HIDE DEF Alarm, Gaps, Off
      <3> QED BY <2>1, <1>1
    <2>3. Alarm' = [Alarm EXCEPT ![t] = IF Returns(t, op) THEN Gaps'[t] ELSE Off]
      <3> HIDE DEF Alarm, Gaps, Off
      <3> QED BY <2>1, <1>1, <1>2, <1>3
    <2>4. Alarms!Ring(t)
      BY <2>1, <2>2, <2>3, Zenon DEF Alarms!Ring, Alarms!Running, Alarm
    <2> QED BY <2>1, <2>4 DEF Alarms!Next
  <1>9. ASSUME UNCHANGED <<rt_tick, rt_timer_list, timeout_tick>> PROVE UNCHANGED Alarm
    BY <1>9 DEF Alarm, Left
  <1> QED BY <1>5, <1>6, <1>7, <1>8, <1>9
          DEF Next, vars, stop_flag, rt_timer_control, control_write, check_end

\* The timers implement the alarms of AlarmClock: never early, late by the stall
\* of their start at most, and in the order of their deadlines.
THEOREM AlarmsImplemented == Spec => ImplementsAlarms
  <1>1. Init => Alarms!Init  BY DEF Init, Alarms!Init, Listed, Contains
  <1>2. TimerInv /\ TimerInv' /\ [Next]_vars => [Alarms!Next]_Alarm  BY AlarmStep
  <1>3. TimerInv /\ TimerInv' /\ [Next]_vars =>
           [Alarms!Next]_([t \in Timers |-> IF Listed(rt_timer_list, t) THEN Left(t) ELSE Off])
    BY <1>2 DEF Alarm
  <1> QED BY <1>1, <1>3, Invariance, PTL DEF Spec, ImplementsAlarms, Alarms!Spec
-----------------------------------------------------------------------------
(* Devices *)

Records == [activated : BOOLEAN, open : BOOLEAN, rx_indicate : BOOLEAN, ref_count : Nat]

\* The open portals that have opened pipe d
Joining(D, d) == {p \in Portals : D[p].open /\ d \in Pipes(p)}

\* A device d in use is open; e, not in use, is open if its close handler failed.
OpenFor(e, d) ==
    /\ e.ref_count > 0 => e.open
    /\ e.open => e.ref_count > 0 \/ d \in Unclosing

\* The devices D agree with the opens n owed to callers, console and shell.
Agree(D, n) ==
    /\ D \in [Devices -> Records] /\ n \in [Devices -> Nat]
    /\ \A d \in Devices : /\ D[d].ref_count = n[d] + Cardinality(Joining(D, d))
                          /\ OpenFor(D[d], d)
                          /\ D[d].open => D[d].activated
    /\ \A p \in Portals : D[p].ref_count <= 1

\* The opens owed when console and shell are c and s
One(b) == IF b THEN 1 ELSE 0
Owed(h, c, s) == [d \in Devices |-> h[d] + One(d = c) + One(d = s)]

More(n, d) == [n EXCEPT ![d] = @ + 1]
Less(n, d) == [n EXCEPT ![d] = @ - 1]

\* The inductive invariant
Heard == \A d \in Devices : devices[d].rx_indicate <=> d = shell_device
DeviceInv ==
    /\ DeviceType /\ Agree(devices, Owed(holds, _console_device, shell_device)) /\ Heard

-----------------------------------------------------------------------------
(* Counting portals *)

\* The portals of a pipe are finitely many.
LEMMA JoiningCount ==
    ASSUME NEW D, NEW d
    PROVE  IsFiniteSet(Joining(D, d)) /\ Cardinality(Joining(D, d)) \in Nat
  <1>1. Joining(D, d) \in SUBSET Portals  BY DEF Joining
  <1>2. IsFiniteSet(Joining(D, d))  BY <1>1, DeviceAssumption, FS_Subset
  <1> QED BY <1>2, FS_CardinalityType

\* A change that leaves the portals as open as they were joins nothing.
LEMMA JoiningSame ==
    ASSUME NEW D, NEW E, \A p \in Portals : E[p].open = D[p].open, NEW d
    PROVE  Joining(E, d) = Joining(D, d)
  BY DEF Joining

\* No portal is a pipe.
LEMMA PortalJoinsNone ==
    ASSUME NEW D, NEW p \in Portals
    PROVE  Joining(D, p) = {}
  BY DeviceAssumption DEF Joining

\* A portal that opens adds itself to its own pipes, and only to them.
LEMMA PortalJoins ==
    ASSUME NEW D, NEW E, NEW p \in Portals, ~D[p].open, E[p].open,
           \A r \in Portals : r # p => E[r].open = D[r].open, NEW d
    PROVE  Cardinality(Joining(E, d)) = Cardinality(Joining(D, d)) + One(d \in Pipes(p))
  <1>1. CASE d \in Pipes(p)
    <2>1. Joining(E, d) = Joining(D, d) \cup {p} /\ p \notin Joining(D, d)
      BY <1>1 DEF Joining
    <2>2. IsFiniteSet(Joining(D, d))  BY JoiningCount
    <2> QED BY ONLY <1>1, <2>1, <2>2, FS_AddElement, Zenon DEF One
  <1>2. CASE d \notin Pipes(p)
    <2>1. Joining(E, d) = Joining(D, d)  BY <1>2 DEF Joining
    <2> QED BY <1>2, <2>1, JoiningCount DEF One
  <1> QED BY <1>1, <1>2

-----------------------------------------------------------------------------
(* Single calls *)

\* One open owed less
LEMMA LessEffect ==
    ASSUME NEW n \in [Devices -> Int], NEW d \in Devices
    PROVE  /\ Less(n, d) = [x \in Devices |-> n[x] - One(x = d)]
           /\ Less(n, d) \in [Devices -> Int]
  <1>1. ASSUME NEW x \in Devices PROVE Less(n, d)[x] = n[x] - One(x = d) /\ Less(n, d)[x] \in Int
    BY DEF Less, One
  <1>2. Less(n, d) = [x \in Devices |-> Less(n, d)[x]]  BY Zenon DEF Less
  <1> QED BY <1>1, <1>2

\* What acquire does to one device
LEMMA AcquireEffect ==
    ASSUME NEW D \in [Devices -> Records], NEW d \in Devices
    PROVE  /\ acquire(D, d) \in [Devices -> Records]
           /\ \A x \in Devices : x # d => acquire(D, d)[x] = D[x]
           /\ acquire(D, d)[d].open /\ acquire(D, d)[d].activated
           /\ acquire(D, d)[d].ref_count = D[d].ref_count + 1
           /\ acquire(D, d)[d].rx_indicate = D[d].rx_indicate
  <1>1. D[d] \in Records /\ D[d].ref_count + 1 \in Nat  BY DEF Records
  <1>2. PICK e : e = [D[d] EXCEPT !.activated = TRUE, !.open = TRUE, !.ref_count = D[d].ref_count + 1]
    OBVIOUS
  <1>3. e \in Records /\ e.ref_count = D[d].ref_count + 1 /\ e.rx_indicate = D[d].rx_indicate
    BY ONLY <1>1, <1>2, Zenon DEF Records
  <1>4. e.open  BY ONLY <1>1, <1>2 DEF Records
  <1>5. e.activated  BY ONLY <1>1, <1>2 DEF Records
  <1>6. acquire(D, d)[d] = e  BY <1>2 DEF acquire, Records
  <1>7. \A x \in Devices : x # d => acquire(D, d)[x] = D[x]  BY DEF acquire
  <1>8. acquire(D, d) \in [Devices -> Records]
    <2>1. acquire(D, d) = [x \in Devices |-> acquire(D, d)[x]]  BY Zenon DEF acquire
    <2>2. \A x \in Devices : acquire(D, d)[x] \in Records  BY <1>3, <1>6, <1>7
    <2> QED BY <2>1, <2>2
  <1> QED BY <1>3, <1>4, <1>5, <1>6, <1>7, <1>8

\* What release does to a device that is open
LEMMA ReleaseEffect ==
    ASSUME NEW D \in [Devices -> Records], NEW d \in Devices, NEW K, D[d].ref_count > 0
    PROVE  /\ release(D, d, K) \in [Devices -> Records]
           /\ \A x \in Devices : x # d => release(D, d, K)[x] = D[x]
           /\ release(D, d, K)[d].open <=> D[d].open /\ (D[d].ref_count # 1 \/ d \in K)
           /\ release(D, d, K)[d].activated = D[d].activated
           /\ release(D, d, K)[d].ref_count = D[d].ref_count - 1
           /\ release(D, d, K)[d].rx_indicate = D[d].rx_indicate
  <1>1. D[d] \in Records /\ D[d].ref_count - 1 \in Nat /\ D[d].ref_count # 0
    BY DEF Records
  <1>2. PICK b \in BOOLEAN : b = (D[d].open /\ (D[d].ref_count # 1 \/ d \in K))  BY Zenon
  <1>3. PICK e : e = [D[d] EXCEPT !.open = b, !.ref_count = D[d].ref_count - 1]  OBVIOUS
  <1>4. /\ e \in Records /\ e.ref_count = D[d].ref_count - 1 /\ e.rx_indicate = D[d].rx_indicate
        /\ e.activated = D[d].activated
    BY ONLY <1>1, <1>2, <1>3, Zenon DEF Records
  <1>5. e.open = b  BY ONLY <1>1, <1>3 DEF Records
  <1>6. release(D, d, K)[d] = e  BY <1>1, <1>2, <1>3, Zenon DEF release, Records
  <1>7. \A x \in Devices : x # d => release(D, d, K)[x] = D[x]  BY <1>1 DEF release
  <1>8. release(D, d, K) \in [Devices -> Records]
    <2>1. release(D, d, K) = [x \in Devices |-> release(D, d, K)[x]]
      BY <1>1, Zenon DEF release
    <2>2. \A x \in Devices : release(D, d, K)[x] \in Records  BY <1>4, <1>6, <1>7
    <2> QED BY <2>1, <2>2
  <1> QED BY <1>2, <1>4, <1>5, <1>6, <1>7, <1>8

\* A device that is no portal is opened.
LEMMA AcquireAgrees ==
    ASSUME NEW D, NEW n, Agree(D, n), NEW d \in Devices \ Portals
    PROVE  Agree(acquire(D, d), More(n, d))
  <1>0. PICK E : E = acquire(D, d)  OBVIOUS
  <1>1. /\ D \in [Devices -> Records] /\ n \in [Devices -> Nat] /\ More(n, d) \in [Devices -> Nat]
        /\ \A x \in Devices : More(n, d)[x] = n[x] + One(x = d)
    BY DEF Agree, More, One
  <1>2. /\ E \in [Devices -> Records]
        /\ \A x \in Devices : x # d => E[x] = D[x]
        /\ E[d].open /\ E[d].activated /\ E[d].ref_count = D[d].ref_count + 1
    BY <1>0, <1>1, AcquireEffect
  <1>3. Portals \subseteq Devices  BY DeviceAssumption
  <1>4. \A x \in Devices : Joining(E, x) = Joining(D, x)
    BY <1>2, <1>3, JoiningSame, Zenon
  <1>5. ASSUME NEW x \in Devices
        PROVE  /\ E[x].ref_count = More(n, d)[x] + Cardinality(Joining(E, x))
               /\ OpenFor(E[x], x)
               /\ E[x].open => E[x].activated
    <2>1. Cardinality(Joining(D, x)) \in Nat /\ n[x] \in Nat /\ D[x].ref_count \in Nat
      BY <1>1, JoiningCount DEF Records
    <2>2. /\ D[x].ref_count = n[x] + Cardinality(Joining(D, x))
          /\ OpenFor(D[x], x)
          /\ D[x].open => D[x].activated
      BY DEF Agree
    <2> QED BY <1>1, <1>2, <1>4, <2>1, <2>2 DEF One, OpenFor
  <1>6. \A p \in Portals : E[p].ref_count <= 1  BY <1>2, <1>3 DEF Agree
  <1> QED BY <1>0, <1>1, <1>2, <1>5, <1>6 DEF Agree

\* A device that is no portal is closed.
LEMMA ReleaseAgrees ==
    ASSUME NEW D, NEW n, Agree(D, n), NEW d \in Devices \ Portals, n[d] > 0,
           NEW K \in SUBSET Unclosing
    PROVE  Agree(release(D, d, K), Less(n, d))
  <1>0. PICK E : E = release(D, d, K)  OBVIOUS
  <1>1. /\ D \in [Devices -> Records] /\ n \in [Devices -> Nat] /\ Less(n, d) \in [Devices -> Nat]
        /\ \A x \in Devices : Less(n, d)[x] = n[x] - One(x = d)
    BY DEF Agree, Less, One
  <1>2. \A x \in Devices : /\ Cardinality(Joining(D, x)) \in Nat /\ n[x] \in Nat
                           /\ D[x].ref_count \in Nat
                           /\ D[x].ref_count = n[x] + Cardinality(Joining(D, x))
    BY <1>1, JoiningCount DEF Records, Agree
  <1>3. D[d].ref_count > 0  BY <1>2
  <1>4. /\ E \in [Devices -> Records]
        /\ \A x \in Devices : x # d => E[x] = D[x]
        /\ E[d].open <=> D[d].open /\ (D[d].ref_count # 1 \/ d \in K)
        /\ E[d].activated = D[d].activated /\ E[d].ref_count = D[d].ref_count - 1
    BY <1>0, <1>1, <1>3, ReleaseEffect
  <1>5. Portals \subseteq Devices  BY DeviceAssumption
  <1>6. \A x \in Devices : Joining(E, x) = Joining(D, x)  BY <1>4, <1>5, JoiningSame
  <1>7. ASSUME NEW x \in Devices
        PROVE  /\ E[x].ref_count = Less(n, d)[x] + Cardinality(Joining(E, x))
               /\ OpenFor(E[x], x)
               /\ E[x].open => E[x].activated
    <2>1. /\ OpenFor(D[x], x)
          /\ D[x].open => D[x].activated
      BY DEF Agree
    <2>2. CASE x # d  BY <1>1, <1>2, <1>4, <1>6, <2>1, <2>2 DEF One
    <2>3. CASE x = d
      <3>1. Less(n, d)[d] = n[d] - 1 /\ Joining(E, d) = Joining(D, d)
        BY <1>1, <1>6 DEF One
      <3>2. K \subseteq Unclosing  OBVIOUS
      <3> QED BY ONLY <1>2, <1>3, <1>4, <2>1, <2>3, <3>1, <3>2 DEF OpenFor
    <2> QED BY <2>2, <2>3
  <1>8. \A p \in Portals : E[p].ref_count <= 1  BY <1>4, <1>5 DEF Agree
  <1> QED BY <1>0, <1>1, <1>4, <1>7, <1>8 DEF Agree

\* A portal opens whose pipes somebody has just opened: from here on that is
\* the portal.
LEMMA PortalOpens ==
    ASSUME NEW D, NEW n, Agree(D, n), NEW p \in Portals, D[p].ref_count = 0,
           NEW m \in [Devices -> Nat], \A x \in Devices : n[x] = m[x] + One(x \in Pipes(p))
    PROVE  Agree(acquire(D, p), More(m, p))
  <1>0. PICK E : E = acquire(D, p)  OBVIOUS
  <1>1. /\ D \in [Devices -> Records] /\ More(m, p) \in [Devices -> Nat]
        /\ \A x \in Devices : More(m, p)[x] = m[x] + One(x = p)
        /\ p \in Devices /\ Portals \subseteq Devices
    BY DeviceAssumption DEF Agree, More, One
  <1>2. /\ E \in [Devices -> Records]
        /\ \A x \in Devices : x # p => E[x] = D[x]
        /\ E[p].open /\ E[p].activated /\ E[p].ref_count = 1
    BY <1>0, <1>1, AcquireEffect
  <1>3. ~D[p].open /\ p \notin Pipes(p)  BY <1>1, DeviceAssumption DEF Agree, OpenFor
  <1>4. \A x \in Devices :
           Cardinality(Joining(E, x)) = Cardinality(Joining(D, x)) + One(x \in Pipes(p))
    BY <1>1, <1>2, <1>3, PortalJoins
  <1>5. ASSUME NEW x \in Devices
        PROVE  /\ E[x].ref_count = More(m, p)[x] + Cardinality(Joining(E, x))
               /\ OpenFor(E[x], x)
               /\ E[x].open => E[x].activated
    <2>1. /\ Cardinality(Joining(D, x)) \in Nat /\ m[x] \in Nat
          /\ D[x].ref_count = n[x] + Cardinality(Joining(D, x))
          /\ OpenFor(D[x], x)
          /\ D[x].open => D[x].activated
      BY JoiningCount DEF Agree
    <2>2. One(x \in Pipes(p)) \in {0, 1} /\ n[x] = m[x] + One(x \in Pipes(p))  BY DEF One
    <2>3. CASE x = p
      <3>1. One(x \in Pipes(p)) = 0 /\ More(m, p)[x] = m[x] + 1
        BY <1>1, <1>3, <2>3 DEF One
      <3>2. Cardinality(Joining(E, x)) = Cardinality(Joining(D, x)) /\ D[x].ref_count = 0
        BY <1>4, <2>1, <2>3, <3>1
      <3>3. Cardinality(Joining(D, x)) = 0 /\ m[x] = 0  BY ONLY <2>1, <2>2, <3>1, <3>2
      <3>4. E[x].ref_count = 1 /\ E[x].open /\ E[x].activated  BY <1>2, <2>3
      <3>5. More(m, p)[x] = 1 /\ Cardinality(Joining(E, x)) = 0  BY ONLY <3>1, <3>2, <3>3
      <3> QED BY ONLY <3>4, <3>5 DEF OpenFor
    <2>4. CASE x # p
      <3>1. More(m, p)[x] = m[x] /\ E[x] = D[x]  BY <1>1, <1>2, <2>1, <2>4 DEF One
      <3>2. Cardinality(Joining(E, x)) = Cardinality(Joining(D, x)) + One(x \in Pipes(p))
        BY <1>4
      <3> QED BY ONLY <2>1, <2>2, <3>1, <3>2
    <2> QED BY <2>3, <2>4
  <1>6. \A r \in Portals : E[r].ref_count <= 1  BY <1>1, <1>2 DEF Agree
  <1> QED BY <1>0, <1>1, <1>2, <1>5, <1>6 DEF Agree

\* A portal closes: its pipes are left to be closed.
LEMMA PortalCloses ==
    ASSUME NEW D, NEW n, Agree(D, n), NEW p \in Portals, n[p] > 0, NEW K \in SUBSET Unclosing,
           NEW m \in [Devices -> Nat],
           \A x \in Devices : m[x] = n[x] + One(x \in Pipes(p)) - One(x = p)
    PROVE  D[p].ref_count = 1 /\ Agree(release(D, p, K), m)
  <1>0. PICK E : E = release(D, p, K)  OBVIOUS
  <1>1. /\ D \in [Devices -> Records] /\ n \in [Devices -> Nat]
        /\ p \in Devices /\ Portals \subseteq Devices /\ p \notin Pipes(p)
    BY DeviceAssumption DEF Agree
  <1>2. \A x \in Devices : /\ Cardinality(Joining(D, x)) \in Nat /\ n[x] \in Nat
                           /\ D[x].ref_count = n[x] + Cardinality(Joining(D, x))
                           /\ OpenFor(D[x], x)
                           /\ D[x].open => D[x].activated
    BY <1>1, JoiningCount DEF Agree
  <1>3. D[p].ref_count = 1
    <2>1. D[p].ref_count <= 1  BY DEF Agree
    <2> QED BY <1>1, <1>2, <2>1
  <1>4. /\ E \in [Devices -> Records]
        /\ \A x \in Devices : x # p => E[x] = D[x]
        /\ ~E[p].open /\ E[p].ref_count = 0
    <2>1. p \notin K  BY DeviceAssumption
    <2> QED BY <1>0, <1>1, <1>3, <2>1, ReleaseEffect
  <1>5. \A x \in Devices :
           Cardinality(Joining(D, x)) = Cardinality(Joining(E, x)) + One(x \in Pipes(p))
    <2>1. D[p].open  BY <1>1, <1>2, <1>3 DEF OpenFor
    <2>2. \A r \in Portals : r # p => D[r].open = E[r].open  BY <1>1, <1>4
    <2>3. ASSUME NEW x \in Devices
          PROVE  Cardinality(Joining(D, x)) = Cardinality(Joining(E, x)) + One(x \in Pipes(p))
      BY ONLY p \in Portals, <1>4, <2>1, <2>2, PortalJoins
    <2> QED BY <2>3
  <1>6. ASSUME NEW x \in Devices
        PROVE  /\ E[x].ref_count = m[x] + Cardinality(Joining(E, x))
               /\ OpenFor(E[x], x)
               /\ E[x].open => E[x].activated
    <2>1. /\ Cardinality(Joining(E, x)) \in Nat
          /\ Cardinality(Joining(D, x)) = Cardinality(Joining(E, x)) + One(x \in Pipes(p))
          /\ m[x] = n[x] + One(x \in Pipes(p)) - One(x = p) /\ m[x] \in Nat
          /\ One(x \in Pipes(p)) \in {0, 1}
      BY <1>5, JoiningCount DEF One
    <2>2. CASE x = p
      <3>1. One(x \in Pipes(p)) = 0 /\ One(x = p) = 1  BY <1>1, <2>2 DEF One
      <3>2. n[x] \in Nat /\ n[x] > 0 /\ 1 = n[x] + Cardinality(Joining(D, x))
        BY <1>2, <1>3, <2>2
      <3>3. m[x] = 0 /\ Cardinality(Joining(E, x)) = 0  BY ONLY <2>1, <3>1, <3>2
      <3>4. E[x].ref_count = 0 /\ ~E[x].open  BY <1>4, <2>2
      <3> QED BY ONLY <3>3, <3>4 DEF OpenFor
    <2>3. CASE x # p
      <3>1. One(x = p) = 0 /\ E[x] = D[x]  BY <1>4, <2>3 DEF One
      <3> QED BY <1>2, <2>1, <3>1
    <2> QED BY <2>2, <2>3
  <1>7. \A r \in Portals : E[r].ref_count <= 1  BY <1>1, <1>4 DEF Agree
  <1> QED BY <1>0, <1>3, <1>4, <1>6, <1>7 DEF Agree

\* Neither touches who is heard.
LEMMA SameHeard ==
    ASSUME NEW D \in [Devices -> Records], NEW d \in Devices
    PROVE  /\ \A x \in Devices : acquire(D, d)[x].rx_indicate = D[x].rx_indicate
           /\ D[d].ref_count > 0 =>
                 \A K, x : x \in Devices => release(D, d, K)[x].rx_indicate = D[x].rx_indicate
  <1>1. ASSUME NEW x \in Devices PROVE acquire(D, d)[x].rx_indicate = D[x].rx_indicate
    BY AcquireEffect
  <1>2. ASSUME D[d].ref_count > 0, NEW K, NEW x \in Devices
        PROVE  release(D, d, K)[x].rx_indicate = D[x].rx_indicate
    BY <1>2, ReleaseEffect
  <1> QED BY <1>1, <1>2

-----------------------------------------------------------------------------
(* rt_device_open and rt_device_close *)

\* A device that may be opened is open once more.
LEMMA OpenAgrees ==
    ASSUME NEW D, NEW n, Agree(D, n), NEW d \in Devices, MayOpen(D, d)
    PROVE  /\ Agree(rt_device_open(D, d), More(n, d))
           /\ \A x \in Devices : rt_device_open(D, d)[x].rx_indicate = D[x].rx_indicate
  <1>1. D \in [Devices -> Records] /\ n \in [Devices -> Nat]  BY DEF Agree
  <1>2. CASE d \notin Portals  BY <1>1, <1>2, AcquireAgrees, SameHeard DEF rt_device_open
  <1>3. CASE d \in Portals
    <2>1. PICK a, b : a = read_dev[d] /\ b = write_dev[d]  OBVIOUS
    <2>2. a # b /\ a \in Devices \ Portals /\ b \in Devices \ Portals /\ Pipes(d) = {a, b}
      BY <1>3, <2>1, DeviceAssumption DEF Pipes
    <2>3. PICK F, l : F = acquire(D, a) /\ l = More(n, a)  OBVIOUS
    <2>4. PICK G, m : G = acquire(F, b) /\ m = More(l, b)  OBVIOUS
    <2>5. Agree(F, l) /\ \A x \in Devices : F[x].rx_indicate = D[x].rx_indicate
      BY <1>1, <2>2, <2>3, AcquireAgrees, SameHeard
    <2>6. F \in [Devices -> Records] /\ l \in [Devices -> Nat]  BY <2>5 DEF Agree
    <2>7. Agree(G, m) /\ \A x \in Devices : G[x].rx_indicate = F[x].rx_indicate
      BY <2>2, <2>4, <2>5, <2>6, AcquireAgrees, SameHeard
    <2>8. \A x \in Devices : m[x] = n[x] + One(x \in Pipes(d))
      BY <1>1, <2>2, <2>3, <2>4 DEF More, One
    <2>9. G[d].ref_count = 0 /\ G \in [Devices -> Records]
      <3>1. G[d] = F[d] /\ F[d] = D[d]
        BY <1>1, <1>3, <2>2, <2>3, <2>4, <2>6, AcquireEffect
      <3> QED BY <1>3, <2>7, <3>1 DEF MayOpen, Agree
    <2>10. Agree(acquire(G, d), More(n, d))
      BY ONLY <1>1, <1>3, <2>7, <2>8, <2>9, PortalOpens
    <2>11. rt_device_open(D, d) = acquire(G, d)
      BY <1>3, <2>1, <2>3, <2>4 DEF rt_device_open
    <2> QED BY <2>5, <2>7, <2>9, <2>10, <2>11, SameHeard
  <1> QED BY <1>2, <1>3

\* A device that somebody has open is open once less.
LEMMA CloseAgrees ==
    ASSUME NEW D, NEW n, Agree(D, n), NEW d \in Devices, n[d] > 0, NEW K \in SUBSET Unclosing
    PROVE  /\ Agree(rt_device_close(D, d, K), Less(n, d))
           /\ \A x \in Devices : rt_device_close(D, d, K)[x].rx_indicate = D[x].rx_indicate
  <1>1. D \in [Devices -> Records] /\ n \in [Devices -> Nat]  BY DEF Agree
  <1>2. ASSUME NEW C, NEW c, Agree(C, c), NEW x \in Devices, c[x] > 0
        PROVE  C[x].ref_count > 0 /\ C \in [Devices -> Records] /\ c \in [Devices -> Nat]
    <2>1. /\ C \in [Devices -> Records] /\ c[x] \in Nat /\ Cardinality(Joining(C, x)) \in Nat
          /\ C[x].ref_count = c[x] + Cardinality(Joining(C, x)) /\ c \in [Devices -> Nat]
      BY <1>2, JoiningCount DEF Agree
    <2> QED BY <1>2, <2>1
  <1>3. CASE d \notin Portals
    BY <1>1, <1>2, <1>3, ReleaseAgrees, SameHeard DEF rt_device_close
  <1>4. CASE d \in Portals
    <2>1. PICK a, b : a = read_dev[d] /\ b = write_dev[d]  OBVIOUS
    <2>2. a # b /\ a \in Devices \ Portals /\ b \in Devices \ Portals /\ Pipes(d) = {a, b}
      BY <1>4, <2>1, DeviceAssumption DEF Pipes
    <2>3. PICK F, l : /\ F = release(D, d, K)
                      /\ l = [x \in Devices |-> n[x] + One(x \in Pipes(d)) - One(x = d)]
      BY Zenon
    <2>4. PICK G, m : G = release(F, b, K) /\ m = Less(l, b)  OBVIOUS
    <2>5. /\ \A x \in Devices : l[x] = n[x] + One(x \in Pipes(d)) - One(x = d)
          /\ l \in [Devices -> Nat] /\ l[a] > 0 /\ l[b] > 0
      BY <1>1, <1>4, <2>2, <2>3 DEF One
    <2>6. D[d].ref_count = 1 /\ Agree(F, l) /\ \A x \in Devices : F[x].rx_indicate = D[x].rx_indicate
      <3>1. D[d].ref_count = 1 /\ Agree(F, l)  BY <1>4, <2>3, <2>5, PortalCloses
      <3> QED BY <1>1, <2>3, <3>1, SameHeard
    <2>7. Agree(G, m) /\ \A x \in Devices : G[x].rx_indicate = F[x].rx_indicate
      <3>1. F[b].ref_count > 0 /\ F \in [Devices -> Records]  BY <1>2, <2>2, <2>5, <2>6
      <3>2. Agree(G, m)  BY <2>2, <2>4, <2>5, <2>6, ReleaseAgrees
      <3> QED BY <2>2, <2>4, <3>1, <3>2, SameHeard
    <2>8. m[a] > 0 /\ Less(m, a) = Less(n, d)
      <3>1. \A x \in Devices : /\ One(x \in Pipes(d)) = One(x = a) + One(x = b)
                               /\ n[x] \in Nat /\ One(x = a) \in {0, 1} /\ One(x = b) \in {0, 1}
                               /\ One(x = d) \in {0, 1}
        BY <1>1, <2>2 DEF One
      <3>2. \A x \in Devices : m[x] = l[x] - One(x = b) /\ l[x] \in Nat
        BY <2>4, <2>5 DEF Less, One
      <3>3. \A x \in Devices : m[x] - One(x = a) = n[x] - One(x = d) /\ m[x] \in Int
        BY ONLY <2>5, <3>1, <3>2
      <3>4. m[a] > 0
        <4>1. One(a = b) = 0 /\ m[a] = l[a]  BY <2>2, <3>2, <2>4 DEF One, Less
        <4> QED BY <2>5, <4>1
      <3>5. /\ Less(m, a) = [x \in Devices |-> m[x] - One(x = a)]
            /\ Less(n, d) = [x \in Devices |-> n[x] - One(x = d)]
        <4>1. l \in [Devices -> Int] /\ n \in [Devices -> Int]  BY <1>1, <2>5
        <4>2. m \in [Devices -> Int]  BY <2>2, <2>4, <4>1, LessEffect
        <4> QED BY <2>2, <4>1, <4>2, LessEffect
      <3> QED BY <3>3, <3>4, <3>5
    <2>9. /\ Agree(release(G, a, K), Less(n, d))
          /\ \A x \in Devices : release(G, a, K)[x].rx_indicate = G[x].rx_indicate
      <3>1. G[a].ref_count > 0 /\ G \in [Devices -> Records]  BY <1>2, <2>2, <2>7, <2>8
      <3>2. Agree(release(G, a, K), Less(m, a))  BY <2>2, <2>7, <2>8, ReleaseAgrees
      <3> QED BY <2>2, <2>8, <3>1, <3>2, SameHeard
    <2>10. rt_device_close(D, d, K) = release(G, a, K)
      BY <1>4, <2>1, <2>3, <2>4, <2>6 DEF rt_device_close
    <2> QED BY <2>6, <2>7, <2>9, <2>10
  <1> QED BY <1>3, <1>4

\* The old console or shell is closed, if there is one.
LEMMA ClosedForAgrees ==
    ASSUME NEW D, NEW n, Agree(D, n), NEW d \in Devices \cup {NoDevice}, d \in Devices => n[d] > 0,
           NEW K \in SUBSET Unclosing
    PROVE  /\ Agree(ClosedFor(D, d, K), IF d = NoDevice THEN n ELSE Less(n, d))
           /\ \A x \in Devices : ClosedFor(D, d, K)[x].rx_indicate = D[x].rx_indicate
  <1>1. CASE d = NoDevice  BY <1>1 DEF ClosedFor
  <1>2. CASE d \in Devices
    <2>1. d # NoDevice  BY <1>2, DeviceAssumption
    <2> QED BY <1>2, <2>1, CloseAgrees DEF ClosedFor
  <1> QED BY <1>1, <1>2

\* Initializing a device and setting its rx_indicate open nothing.
LEMMA SameAgree ==
    ASSUME NEW D, NEW n, Agree(D, n), NEW E \in [Devices -> Records],
           \A x \in Devices : /\ E[x].open = D[x].open /\ E[x].ref_count = D[x].ref_count
                              /\ D[x].activated => E[x].activated
    PROVE  Agree(E, n)
  <1>1. Portals \subseteq Devices  BY DeviceAssumption
  <1>2. \A x \in Devices : Joining(E, x) = Joining(D, x)  BY <1>1, JoiningSame
  <1>3. ASSUME NEW x \in Devices
        PROVE  /\ E[x].ref_count = n[x] + Cardinality(Joining(E, x))
               /\ OpenFor(E[x], x)
               /\ E[x].open => E[x].activated
    BY <1>2 DEF Agree, OpenFor
  <1>4. \A p \in Portals : E[p].ref_count <= 1  BY <1>1 DEF Agree
  <1> QED BY <1>3, <1>4 DEF Agree

-----------------------------------------------------------------------------
(* Who is owed an open *)

\* One open owed more
LEMMA MoreEffect ==
    ASSUME NEW n \in [Devices -> Int], NEW d \in Devices
    PROVE  /\ More(n, d) = [x \in Devices |-> n[x] + One(x = d)]
           /\ More(n, d) \in [Devices -> Int]
  <1>1. ASSUME NEW x \in Devices PROVE More(n, d)[x] = n[x] + One(x = d) /\ More(n, d)[x] \in Int
    BY DEF More, One
  <1>2. More(n, d) = [x \in Devices |-> More(n, d)[x]]  BY Zenon DEF More
  <1> QED BY <1>1, <1>2

\* What is owed to one device
LEMMA OwedEffect ==
    ASSUME NEW h \in [Devices -> 0 .. MaxOpens], NEW c, NEW s
    PROVE  /\ Owed(h, c, s) \in [Devices -> Nat] /\ Owed(h, c, s) \in [Devices -> Int]
           /\ h \in [Devices -> Int]
           /\ \A x \in Devices : /\ Owed(h, c, s)[x] = h[x] + One(x = c) + One(x = s)
                                 /\ h[x] \in Nat /\ One(x = c) \in {0, 1} /\ One(x = s) \in {0, 1}
                                 /\ One(x = NoDevice) = 0 /\ One(x = x) = 1
  <1>1. MaxOpens \in Nat /\ NoDevice \notin Devices /\ h \in [Devices -> Nat]
    BY DeviceAssumption
  <1> QED BY <1>1 DEF Owed, One

\* Caller's holds g after h: one more of device d, one less
Opened(g, h, d) == g = [h EXCEPT ![d] = @ + 1]
Closed(g, h, d) == g = [h EXCEPT ![d] = @ - 1]

\* A caller that opens
LEMMA CallerOpens ==
    ASSUME NEW h \in [Devices -> 0 .. MaxOpens], NEW c, NEW s, NEW d \in Devices,
           NEW g, Opened(g, h, d)
    PROVE  Owed(g, c, s) = More(Owed(h, c, s), d)
  <1>1. PICK n : n = Owed(h, c, s)  OBVIOUS
  <1>2. /\ n \in [Devices -> Int] /\ h \in [Devices -> Int]
        /\ \A x \in Devices : /\ n[x] = h[x] + One(x = c) + One(x = s)
                              /\ h[x] \in Nat /\ One(x = c) \in {0, 1} /\ One(x = s) \in {0, 1}
    BY <1>1, OwedEffect
  <1>3. \A x \in Devices : g[x] = h[x] + One(x = d) /\ One(x = d) \in {0, 1}
    BY <1>2 DEF One, Opened
  <1>4. \A x \in Devices : g[x] + One(x = c) + One(x = s) = n[x] + One(x = d)
    BY ONLY <1>2, <1>3
  <1>5. More(n, d) = [x \in Devices |-> n[x] + One(x = d)]  BY <1>2, MoreEffect
  <1>6. Owed(g, c, s) = More(n, d)  BY ONLY <1>4, <1>5 DEF Owed
  <1> QED BY <1>1, <1>6

\* A caller that closes
LEMMA CallerCloses ==
    ASSUME NEW h \in [Devices -> 0 .. MaxOpens], NEW c, NEW s, NEW d \in Devices,
           NEW g, Closed(g, h, d)
    PROVE  Owed(g, c, s) = Less(Owed(h, c, s), d)
  <1>1. PICK n : n = Owed(h, c, s)  OBVIOUS
  <1>2. /\ n \in [Devices -> Int] /\ h \in [Devices -> Int]
        /\ \A x \in Devices : /\ n[x] = h[x] + One(x = c) + One(x = s)
                              /\ h[x] \in Nat /\ One(x = c) \in {0, 1} /\ One(x = s) \in {0, 1}
    BY <1>1, OwedEffect
  <1>3. \A x \in Devices : g[x] = h[x] - One(x = d) /\ One(x = d) \in {0, 1}
    BY <1>2 DEF One, Closed
  <1>4. \A x \in Devices : g[x] + One(x = c) + One(x = s) = n[x] - One(x = d)
    BY ONLY <1>2, <1>3
  <1>5. Less(n, d) = [x \in Devices |-> n[x] - One(x = d)]  BY <1>2, LessEffect
  <1>6. Owed(g, c, s) = Less(n, d)  BY ONLY <1>4, <1>5 DEF Owed
  <1> QED BY <1>1, <1>6

\* The console, set and closed
LEMMA ConsoleOwed ==
    ASSUME NEW h \in [Devices -> 0 .. MaxOpens], NEW s, NEW d \in Devices
    PROVE  /\ Owed(h, d, s) = More(Owed(h, NoDevice, s), d)
           /\ Owed(h, NoDevice, s) = Less(Owed(h, d, s), d)
           /\ Owed(h, d, s)[d] > 0
  <1>1. PICK l, m : l = Owed(h, NoDevice, s) /\ m = Owed(h, d, s)  OBVIOUS
  <1>2. /\ l \in [Devices -> Int] /\ l = [x \in Devices |-> l[x]]
        /\ \A x \in Devices : /\ l[x] = h[x] + One(x = s) /\ h[x] \in Nat /\ One(x = s) \in {0, 1}
                              /\ One(x = x) = 1
    BY <1>1, OwedEffect
  <1>3. /\ m \in [Devices -> Int] /\ m = [x \in Devices |-> m[x]]
        /\ \A x \in Devices : m[x] = h[x] + One(x = d) + One(x = s) /\ One(x = d) \in {0, 1}
    BY <1>1, OwedEffect
  <1>4. \A x \in Devices : m[x] = l[x] + One(x = d) /\ l[x] = m[x] - One(x = d)
    BY ONLY <1>2, <1>3
  <1>5. /\ More(l, d) = [x \in Devices |-> l[x] + One(x = d)]
        /\ Less(m, d) = [x \in Devices |-> m[x] - One(x = d)]
    BY <1>2, <1>3, MoreEffect, LessEffect, Zenon
  <1>6. m = More(l, d) /\ l = Less(m, d)  BY ONLY <1>2, <1>3, <1>4, <1>5
  <1>7. m[d] > 0  BY <1>2, <1>3
  <1> QED BY <1>1, <1>6, <1>7

\* Console and shell are owed alike.
LEMMA OwedSymmetric ==
    ASSUME NEW h \in [Devices -> 0 .. MaxOpens], NEW c, NEW s
    PROVE  Owed(h, c, s) = Owed(h, s, c)
  <1>1. \A x \in Devices : h[x] + One(x = c) + One(x = s) = h[x] + One(x = s) + One(x = c)
    BY OwedEffect
  <1> QED BY <1>1 DEF Owed

\* The shell, begun and closed
LEMMA ShellOwed ==
    ASSUME NEW h \in [Devices -> 0 .. MaxOpens], NEW c, NEW d \in Devices
    PROVE  /\ Owed(h, c, d) = More(Owed(h, c, NoDevice), d)
           /\ Owed(h, c, NoDevice) = Less(Owed(h, c, d), d)
           /\ Owed(h, c, d)[d] > 0
  <1>1. Owed(h, c, d) = Owed(h, d, c) /\ Owed(h, c, NoDevice) = Owed(h, NoDevice, c)
    BY OwedSymmetric
  <1> QED BY <1>1, ConsoleOwed

-----------------------------------------------------------------------------
(* The invariant *)

\* At the start nothing is open and nobody is owed anything.
LEMMA InitHolds == DeviceInit => DeviceInv
  <1> SUFFICES ASSUME DeviceInit PROVE DeviceInv  OBVIOUS
  <1>1. DeviceType  BY DeviceAssumption DEF DeviceInit, DeviceType
  <1>2. Heard  BY DeviceAssumption DEF DeviceInit, Heard
  <1>3. PICK n : n = Owed(holds, NoDevice, NoDevice)  OBVIOUS
  <1>4. n \in [Devices -> Nat] /\ \A d \in Devices : n[d] = 0
    BY <1>3, DeviceAssumption DEF DeviceInit, Owed, One
  <1>5. /\ devices \in [Devices -> Records]
        /\ \A d \in Devices : devices[d].ref_count = 0 /\ ~devices[d].open
    BY DEF DeviceInit, Records
  <1>6. \A d \in Devices : Cardinality(Joining(devices, d)) = 0
    <2>1. \A d \in Devices : Joining(devices, d) = {}
      BY <1>5, DeviceAssumption DEF Joining
    <2> QED BY <2>1, FS_EmptySet
  <1>7. Agree(devices, n)  BY <1>4, <1>5, <1>6, DeviceAssumption DEF Agree, OpenFor
  <1> QED BY <1>1, <1>2, <1>3, <1>7 DEF DeviceInv, DeviceInit

\* What the invariant says of the state
LEMMA Known ==
    ASSUME DeviceInv
    PROVE  /\ devices \in [Devices -> Records] /\ holds \in [Devices -> 0 .. MaxOpens]
           /\ _console_device \in Devices \cup {NoDevice}
           /\ shell_device \in Devices \cup {NoDevice}
           /\ Agree(devices, Owed(holds, _console_device, shell_device))
           /\ \A d \in Devices : devices[d].rx_indicate <=> d = shell_device
  BY DEF DeviceInv, DeviceType, Agree, Heard

\* What has to be shown of a step
LEMMA StepGoal ==
    ASSUME Agree(devices', Owed(holds', _console_device', shell_device')),
           holds' \in [Devices -> 0 .. MaxOpens],
           _console_device' \in Devices \cup {NoDevice},
           shell_device' \in Devices \cup {NoDevice},
           \A d \in Devices : devices'[d].rx_indicate <=> d = shell_device'
    PROVE  DeviceInv'
  BY DEF DeviceInv, DeviceType, Agree, Heard, Records

\* A caller opens a device.
LEMMA OpenStep ==
    ASSUME DeviceInv, NEW d \in Devices, open(d)
    PROVE  DeviceInv'
  <1>1. PICK n : n = Owed(holds, _console_device, shell_device)  OBVIOUS
  <1>2. /\ Agree(devices', More(n, d))
        /\ \A x \in Devices : devices'[x].rx_indicate = devices[x].rx_indicate
    BY <1>1, Known, OpenAgrees DEF open
  <1>3. Owed(holds', _console_device', shell_device') = More(n, d)
    <2>1. /\ holds \in [Devices -> 0 .. MaxOpens] /\ holds' = [holds EXCEPT ![d] = @ + 1]
          /\ _console_device' = _console_device /\ shell_device' = shell_device
      BY Known DEF open
    <2>2. PICK h, g, c, s : /\ h = holds /\ g = holds' /\ c = _console_device /\ s = shell_device
      OBVIOUS
    <2>3. h \in [Devices -> 0 .. MaxOpens] /\ Opened(g, h, d)
      BY ONLY <2>1, <2>2 DEF Opened
    <2>4. Owed(g, c, s) = More(Owed(h, c, s), d)
      BY ONLY d \in Devices, <2>3, CallerOpens
    <2> QED BY ONLY <1>1, <2>1, <2>2, <2>4
  <1>4. holds' \in [Devices -> 0 .. MaxOpens]  BY Known, DeviceAssumption DEF open
  <1> QED BY <1>2, <1>3, <1>4, Known, StepGoal DEF open

\* A device refuses.
LEMMA RefusedStep ==
    ASSUME DeviceInv, NEW d \in Devices, open_refused(d)
    PROVE  DeviceInv'
  <1>1. PICK n : n = Owed(holds, _console_device, shell_device)  OBVIOUS
  <1>2. /\ devices' \in [Devices -> Records]
        /\ \A x \in Devices : /\ devices'[x].open = devices[x].open
                              /\ devices'[x].ref_count = devices[x].ref_count
                              /\ devices'[x].rx_indicate = devices[x].rx_indicate
                              /\ devices[x].activated => devices'[x].activated
    <2>1. CASE UNCHANGED devices  BY <2>1, Known
    <2>2. CASE devices' = [devices EXCEPT ![d].activated = TRUE]
      BY <2>2, Known, Zenon DEF Records
    <2> QED BY <2>1, <2>2 DEF open_refused
  <1>3. Agree(devices', n)  BY <1>1, <1>2, Known, SameAgree
  <1> QED BY <1>1, <1>2, <1>3, Known, StepGoal DEF open_refused

\* A caller closes a device.
LEMMA CloseStep ==
    ASSUME DeviceInv, NEW d \in Devices, NEW K \in SUBSET Unclosing, close(d, K)
    PROVE  DeviceInv'
  <1>1. PICK n : n = Owed(holds, _console_device, shell_device)  OBVIOUS
  <1>2. n[d] > 0  BY <1>1, Known, OwedEffect DEF close
  <1>3. /\ Agree(devices', Less(n, d))
        /\ \A x \in Devices : devices'[x].rx_indicate = devices[x].rx_indicate
    BY <1>1, <1>2, Known, CloseAgrees DEF close
  <1>4. Owed(holds', _console_device', shell_device') = Less(n, d)
    <2>1. /\ holds \in [Devices -> 0 .. MaxOpens] /\ holds' = [holds EXCEPT ![d] = @ - 1]
          /\ _console_device' = _console_device /\ shell_device' = shell_device
      BY Known DEF close
    <2>2. PICK h, g, c, s : /\ h = holds /\ g = holds' /\ c = _console_device /\ s = shell_device
      OBVIOUS
    <2>3. h \in [Devices -> 0 .. MaxOpens] /\ Closed(g, h, d)
      BY ONLY <2>1, <2>2 DEF Closed
    <2>4. Owed(g, c, s) = Less(Owed(h, c, s), d)
      BY ONLY d \in Devices, <2>3, CallerCloses
    <2> QED BY ONLY <1>1, <2>1, <2>2, <2>4
  <1>5. holds' \in [Devices -> 0 .. MaxOpens]  BY Known, DeviceAssumption DEF close
  <1> QED BY <1>3, <1>4, <1>5, Known, StepGoal DEF close

\* The console moves.
LEMMA ConsoleStep ==
    ASSUME DeviceInv, NEW d \in Devices, NEW K \in SUBSET Unclosing,
           rt_console_set_device(d, K)
    PROVE  DeviceInv'
  <1>1. PICK n, D : /\ n = Owed(holds, NoDevice, shell_device)
                    /\ D = ClosedFor(devices, _console_device, K)
    OBVIOUS
  <1>2. Agree(D, n) /\ \A x \in Devices : D[x].rx_indicate = devices[x].rx_indicate
    <2>1. _console_device \in Devices => Owed(holds, _console_device, shell_device)[_console_device] > 0
      BY Known, ConsoleOwed
    <2>2. n = IF _console_device = NoDevice THEN Owed(holds, _console_device, shell_device)
              ELSE Less(Owed(holds, _console_device, shell_device), _console_device)
      <3>1. CASE _console_device = NoDevice  BY <1>1, <3>1
      <3>2. CASE _console_device \in Devices
        BY <1>1, <3>2, Known, ConsoleOwed, DeviceAssumption
      <3> QED BY <3>1, <3>2, Known
    <2> QED BY <1>1, <2>1, <2>2, Known, ClosedForAgrees
  <1>3. /\ Agree(devices', More(n, d))
        /\ \A x \in Devices : devices'[x].rx_indicate = D[x].rx_indicate
    BY <1>1, <1>2, OpenAgrees DEF rt_console_set_device
  <1>4. Owed(holds', _console_device', shell_device') = More(n, d)
    BY <1>1, Known, ConsoleOwed DEF rt_console_set_device
  <1> QED BY <1>2, <1>3, <1>4, Known, StepGoal DEF rt_console_set_device

\* The shell begins.
LEMMA ShellStartsStep ==
    ASSUME DeviceInv, shell_starts
    PROVE  DeviceInv'
  <1>1. PICK n, d, D : /\ n = Owed(holds, _console_device, NoDevice) /\ d = _console_device
                       /\ D = rt_device_open(devices, d)
    OBVIOUS
  <1>2. shell_device = NoDevice /\ d \in Devices /\ MayOpen(devices, d)
    BY <1>1, Known DEF shell_starts
  <1>3. Agree(D, More(n, d)) /\ \A x \in Devices : D[x].rx_indicate = devices[x].rx_indicate
    BY <1>1, <1>2, Known, OpenAgrees
  <1>4. D \in [Devices -> Records] /\ devices' = [D EXCEPT ![d].rx_indicate = TRUE]
    BY <1>1, <1>3 DEF shell_starts, Agree
  <1>5. /\ devices' \in [Devices -> Records]
        /\ \A x \in Devices : /\ devices'[x].open = D[x].open
                              /\ devices'[x].ref_count = D[x].ref_count
                              /\ devices'[x].activated = D[x].activated
                              /\ devices'[x].rx_indicate = IF x = d THEN TRUE ELSE D[x].rx_indicate
    BY ONLY <1>2, <1>4, Zenon DEF Records
  <1>6. Agree(devices', More(n, d))  BY <1>3, <1>5, SameAgree, Zenon
  <1>7. Owed(holds', _console_device', shell_device') = More(n, d)
    BY <1>1, <1>2, Known, ShellOwed DEF shell_starts
  <1>8. \A x \in Devices : devices'[x].rx_indicate <=> x = shell_device'
    BY <1>1, <1>2, <1>3, <1>5, Known, DeviceAssumption DEF shell_starts
  <1> QED BY <1>1, <1>2, <1>6, <1>7, <1>8, Known, StepGoal DEF shell_starts

\* The shell moves.
LEMMA ShellMovesStep ==
    ASSUME DeviceInv, NEW d \in Devices, NEW K \in SUBSET Unclosing, finsh_set_device(d, K)
    PROVE  DeviceInv'
  <1>1. PICK e, n, F, D : /\ e = shell_device /\ n = Owed(holds, _console_device, shell_device)
                          /\ F = rt_device_open(devices, d) /\ D = ClosedFor(F, e, K)
    OBVIOUS
  <1>2. e \in Devices \cup {NoDevice} /\ d # e /\ n \in [Devices -> Nat] /\ NoDevice \notin Devices
    BY <1>1, Known, OwedEffect, DeviceAssumption DEF finsh_set_device
  <1>3. Agree(F, More(n, d)) /\ \A x \in Devices : F[x].rx_indicate = devices[x].rx_indicate
    BY <1>1, Known, OpenAgrees DEF finsh_set_device
  <1>4. e \in Devices => More(n, d)[e] > 0
    <2>1. e \in Devices => n[e] > 0  BY <1>1, Known, ShellOwed
    <2> QED BY <1>2, <2>1 DEF More
  <1>5. PICK m : m = IF e = NoDevice THEN More(n, d) ELSE Less(More(n, d), e)  OBVIOUS
  <1>6. Agree(D, m) /\ \A x \in Devices : D[x].rx_indicate = F[x].rx_indicate
    BY <1>1, <1>2, <1>3, <1>4, <1>5, ClosedForAgrees
  <1>7. m = Owed(holds, _console_device, d)
    <2>1. Owed(holds, _console_device, d) = More(Owed(holds, _console_device, NoDevice), d)
      BY Known, ShellOwed
    <2>2. CASE e = NoDevice  BY <1>1, <1>5, <2>1, <2>2
    <2>3. CASE e \in Devices
      <3>1. Owed(holds, _console_device, NoDevice) = Less(n, e)
        BY <1>1, <2>3, Known, ShellOwed
      <3>2. Less(More(n, d), e) = More(Less(n, e), d)
        BY <1>2, <2>3, Zenon DEF Less, More
      <3> QED BY <1>2, <1>5, <2>1, <2>3, <3>1, <3>2
    <2> QED BY <1>2, <2>2, <2>3
  <1>8. /\ D \in [Devices -> Records]
        /\ devices' = [x \in Devices |->
                          [D[x] EXCEPT !.rx_indicate = IF x = d THEN TRUE
                                                       ELSE IF x = e THEN FALSE
                                                       ELSE D[x].rx_indicate]]
    BY <1>1, <1>6 DEF finsh_set_device, Agree
  <1>9. /\ devices' \in [Devices -> Records]
        /\ \A x \in Devices : /\ devices'[x].open = D[x].open
                              /\ devices'[x].ref_count = D[x].ref_count
                              /\ devices'[x].activated = D[x].activated
                              /\ devices'[x].rx_indicate = IF x = d THEN TRUE
                                                           ELSE IF x = e THEN FALSE
                                                           ELSE D[x].rx_indicate
    BY ONLY <1>2, <1>8, Zenon DEF Records
  <1>10. Agree(devices', m)
    <2>1. \A x \in Devices : /\ devices'[x].open = D[x].open /\ devices'[x].ref_count = D[x].ref_count
                             /\ D[x].activated => devices'[x].activated
      BY <1>9, Zenon
    <2>2. Agree(D, m) /\ devices' \in [Devices -> Records]  BY <1>6, <1>9
    <2> QED BY ONLY <2>1, <2>2, SameAgree
  <1>11. \A x \in Devices : devices'[x].rx_indicate <=> x = d
    <2>1. ASSUME NEW x \in Devices PROVE D[x].rx_indicate <=> x = e
      BY <1>1, <1>3, <1>6, Known
    <2>2. ASSUME NEW x \in Devices PROVE devices'[x].rx_indicate <=> x = d
      <3>1. devices'[x].rx_indicate = IF x = d THEN TRUE ELSE IF x = e THEN FALSE ELSE D[x].rx_indicate
        BY <1>9, Zenon
      <3> QED BY ONLY <1>2, <2>1, <3>1
    <2> QED BY <2>2
  <1> QED BY <1>7, <1>10, <1>11, Known, StepGoal, Zenon DEF finsh_set_device

\* Every step keeps the invariant.
LEMMA StepHolds == DeviceInv /\ [DeviceNext]_device_vars => DeviceInv'
  <1> SUFFICES ASSUME DeviceInv, [DeviceNext]_device_vars PROVE DeviceInv'  OBVIOUS
  <1>1. ASSUME NEW d \in Devices, open(d) \/ open_refused(d)
        PROVE  DeviceInv'
    BY <1>1, OpenStep, RefusedStep
  <1>4. ASSUME NEW d \in Devices, NEW K \in SUBSET Unclosing,
               close(d, K) \/ rt_console_set_device(d, K) \/ finsh_set_device(d, K)
        PROVE  DeviceInv'
    BY <1>4, CloseStep, ConsoleStep, ShellMovesStep
  <1>2. ASSUME shell_starts PROVE DeviceInv'  BY <1>2, ShellStartsStep
  <1>3. ASSUME UNCHANGED device_vars PROVE DeviceInv'
    <2>1. UNCHANGED <<devices, _console_device, shell_device, holds>>
      BY <1>3 DEF device_vars
    <2> QED BY <2>1, Known, StepGoal
  <1> QED BY <1>1, <1>2, <1>3, <1>4 DEF DeviceNext

\* Console and shell, as the property counts them
Users(c, s, d) == {u \in {"console", "shell"} : d = IF u = "console" THEN c ELSE s}

\* They are owed one open each.
LEMMA UsersCounted ==
    ASSUME NEW c, NEW s, NEW d
    PROVE  Cardinality(Users(c, s, d)) = One(d = c) + One(d = s)
  <1>1. /\ IsFiniteSet({}) /\ Cardinality({}) = 0
        /\ \A x : IsFiniteSet({x}) /\ Cardinality({x}) = 1
    BY FS_EmptySet, FS_Singleton, Zenon
  <1>2. CASE d = c /\ d = s
    <2>1. Users(c, s, d) = {"console"} \cup {"shell"} /\ "shell" \notin {"console"}
      BY <1>2 DEF Users
    <2>2. IsFiniteSet({"console"}) /\ Cardinality({"console"}) = 1  BY <1>1, Zenon
    <2>3. Cardinality({"console"} \cup {"shell"}) = Cardinality({"console"}) + 1
      BY ONLY <2>1, <2>2, FS_AddElement
    <2>4. One(d = c) = 1 /\ One(d = s) = 1  BY <1>2 DEF One
    <2> QED BY ONLY <2>1, <2>2, <2>3, <2>4
  <1>3. CASE d = c /\ d # s
    <2>1. Users(c, s, d) = {"console"}  BY <1>3 DEF Users
    <2>2. One(d = c) = 1 /\ One(d = s) = 0  BY <1>3 DEF One
    <2>3. Cardinality({"console"}) = 1  BY <1>1
    <2> QED BY ONLY <2>1, <2>2, <2>3
  <1>4. CASE d # c /\ d = s
    <2>1. Users(c, s, d) = {"shell"}  BY <1>4 DEF Users
    <2>2. One(d = c) = 0 /\ One(d = s) = 1  BY <1>4 DEF One
    <2>3. Cardinality({"shell"}) = 1  BY <1>1
    <2> QED BY ONLY <2>1, <2>2, <2>3
  <1>5. CASE d # c /\ d # s
    <2>1. Users(c, s, d) = {}  BY <1>5 DEF Users
    <2>2. One(d = c) = 0 /\ One(d = s) = 0  BY <1>5 DEF One
    <2> QED BY ONLY <1>1, <2>1, <2>2
  <1> QED BY <1>2, <1>3, <1>4, <1>5

\* The inductive invariant holds: for each device the opens that callers, the
\* console, the shell and the open portals still owe a close are counted.
THEOREM DeviceInvariance == DeviceSpec => []DeviceInv
  <1> QED BY InitHolds, StepHolds, PTL DEF DeviceSpec

\* The invariant counts the users of every device.
LEMMA HoldersCounted ==
    ASSUME DeviceInv
    PROVE  DevicesHeld
  <1> SUFFICES ASSUME DeviceInv, NEW d \in Devices
               PROVE  /\ devices[d].ref_count = Holders(d)
                      /\ Holders(d) > 0 => devices[d].open
                      /\ devices[d].open => Holders(d) > 0 \/ d \in Unclosing
                      /\ devices[d].open => devices[d].activated
                      /\ devices[d].rx_indicate <=> d = shell_device
    BY DEF DevicesHeld
  <1>1. PICK n : n = Owed(holds, _console_device, shell_device)  OBVIOUS
  <1>2. /\ devices[d].ref_count = n[d] + Cardinality(Joining(devices, d))
        /\ OpenFor(devices[d], d)
        /\ devices[d].open => devices[d].activated
    BY <1>1, Known DEF Agree
  <1>3. n[d] = holds[d] + One(d = _console_device) + One(d = shell_device)
    BY <1>1 DEF Owed
  <1>4. Holders(d) = holds[d] + (One(d = _console_device) + One(d = shell_device))
                     + Cardinality(Joining(devices, d))
    <2>1. Holders(d) = holds[d] + Cardinality(Users(_console_device, shell_device, d))
                       + Cardinality(Joining(devices, d))
      BY DEF Holders, Users, Joining
    <2> QED BY <2>1, UsersCounted
  <1>5. holds[d] \in Int /\ One(d = _console_device) \in Int /\ One(d = shell_device) \in Int
    BY Known DEF One
  <1>6. Cardinality(Joining(devices, d)) \in Int  BY JoiningCount
  <1>7. devices[d].ref_count = Holders(d)  BY ONLY <1>2, <1>3, <1>4, <1>5, <1>6
  <1> QED BY <1>2, <1>7, Known DEF OpenFor

\* A device is open as long as somebody has it open, whichever of its users
\* closes it first, and after the last of them only if its close handler failed;
\* its count names its users, and only the device of the shell reports its input
\* to the shell: for every set of devices, every way the portals join pipes and
\* all close handlers that may fail.
THEOREM DevicesStayHeld == DeviceSpec => []DevicesHeld
  <1>1. DeviceInv => DevicesHeld  BY HoldersCounted
  <1> QED BY <1>1, DeviceInvariance, PTL

BufSize == buffer_size

\* Indices around the end of the buffer
Wrap(i) == IF i < BufSize THEN i ELSE i - BufSize

\* Two ends that belong together: the write end is ahead of the read end, on the
\* same side of the mirror, or behind it on the other side.
Ends(r, w) ==
    /\ r \in End /\ w \in End
    /\ r.mirror = w.mirror => r.index <= w.index
    /\ r.mirror # w.mirror => w.index <= r.index

\* The bytes between them, and n bytes from index x on
Fullness(r, w) == IF r.mirror = w.mirror THEN w.index - r.index ELSE BufSize - (r.index - w.index)
Bytes_(b, x, n) == [i \in 1 .. n |-> b[Wrap(x + i - 1)]]

RingInv == Ends(read, write) /\ buffer \in [Index -> Bytes] /\ got \in Seq(Bytes) /\ Len(got) <= BufSize

\* The buffer holds at least one word.
LEMMA BufferSize == BufSize \in Nat /\ BufSize >= 4
  BY RingAssumption, SMT DEF BufSize, buffer_size, RT_ALIGN_SIZE

\* The remainder of an index that is at most one turn ahead
LEMMA WrapIs ==
    ASSUME NEW i \in 0 .. 2 * BufSize - 1
    PROVE  i % BufSize = Wrap(i) /\ Wrap(i) \in Index
  <1>1. BufSize \in Nat \ {0} /\ i \in Nat  BY BufferSize
  <1>2. CASE i < BufSize  BY <1>1, <1>2, SMT DEF Wrap, Index, BufSize
  <1>3. CASE i >= BufSize
    <2>1. i - BufSize \in 0 .. BufSize - 1  BY <1>1, <1>3
    <2>2. (i - BufSize) % BufSize = i - BufSize  BY <1>1, <2>1, SMT
    <2>3. i % BufSize = (i - BufSize) % BufSize  BY <1>1, <1>3, SMT
    <2> QED BY <1>1, <1>3, <2>1, <2>2, <2>3 DEF Wrap, Index, BufSize
  <1> QED BY <1>1, <1>2, <1>3

\* data_len of ends that belong together
LEMMA FullnessIs ==
    ASSUME Ends(read, write)
    PROVE  /\ data_len = Fullness(read, write) /\ data_len \in 0 .. BufSize
           /\ Full <=> data_len = BufSize
           /\ write.index = Wrap(read.index + data_len)
           /\ write.mirror = read.mirror <=> read.index + data_len < BufSize
  <1>1. PICK a, b, n : a = read.index /\ b = write.index /\ n = BufSize  OBVIOUS
  <1>2. PICK l : l = data_len  OBVIOUS
  <1>3. a \in 0 .. n - 1 /\ b \in 0 .. n - 1 /\ n \in Nat /\ n >= 4 /\ n = buffer_size
    BY <1>1, BufferSize DEF Ends, End, Index, BufSize
  <1>4. CASE read.mirror = write.mirror
    <2>1. a <= b /\ l = b - a  BY <1>1, <1>2, <1>3, <1>4 DEF Ends, data_len, Full
    <2>2. l \in 0 .. n /\ l # n /\ a + l < n /\ b = a + l /\ Fullness(read, write) = l
      BY <1>1, <1>3, <1>4, <2>1 DEF Fullness
    <2> QED BY <1>1, <1>2, <1>4, <2>2 DEF Wrap, Full
  <1>5. CASE read.mirror # write.mirror
    <2>1. b <= a /\ l = n - (a - b)  BY <1>1, <1>2, <1>3, <1>5 DEF Ends, data_len, Full
    <2>2. l \in 0 .. n /\ (l = n <=> a = b) /\ ~(a + l < n) /\ b = a + l - n /\ Fullness(read, write) = l
      BY <1>1, <1>3, <1>5, <2>1 DEF Fullness
    <2>3. write.index = Wrap(read.index + data_len) /\ ~(read.index + data_len < BufSize)
      BY ONLY <1>1, <1>2, <1>3, <2>2 DEF Wrap
    <2> QED BY <1>1, <1>2, <1>5, <2>2, <2>3, Zenon DEF Full
  <1> QED BY <1>4, <1>5

\* An end that moves on by n bytes
LEMMA AdvanceIs ==
    ASSUME NEW e \in End, NEW n \in 0 .. BufSize
    PROVE  /\ Advance(e, n) \in End
           /\ Advance(e, n).index = Wrap(e.index + n)
           /\ Advance(e, n).mirror = IF e.index + n < BufSize THEN e.mirror ELSE 1 - e.mirror
  <1>1. PICK i, m : i = e.index /\ m = e.mirror  OBVIOUS
  <1>2. i \in 0 .. BufSize - 1 /\ m \in {0, 1} /\ BufSize \in Nat /\ e = [mirror |-> m, index |-> i]
    BY <1>1, BufferSize DEF End, Index, BufSize
  <1>3. CASE i + n < BufSize
    <2>1. buffer_size - i > n /\ i + n \in Index /\ Wrap(i + n) = i + n
      BY <1>2, <1>3 DEF BufSize, Index, Wrap
    <2>2. Advance(e, n) = [mirror |-> m, index |-> i + n]
      BY <1>1, <1>2, <2>1 DEF Advance
    <2> QED BY <1>1, <1>2, <1>3, <2>1, <2>2 DEF End
  <1>4. CASE ~(i + n < BufSize)
    <2>1. ~(buffer_size - i > n) /\ n - (buffer_size - i) = i + n - BufSize /\ i + n - BufSize \in Index
          /\ Wrap(i + n) = i + n - BufSize
      BY <1>2, <1>4 DEF BufSize, Index, Wrap
    <2>2. Advance(e, n) = [mirror |-> 1 - m, index |-> i + n - BufSize]
      BY <1>1, <1>2, <2>1 DEF Advance
    <2> QED BY <1>1, <1>2, <1>4, <2>1, <2>2 DEF End
  <1> QED BY <1>3, <1>4

\* A byte that is stored, or is not
LEMMA StoredIs ==
    ASSUME NEW x \in Index, x = write.index, NEW s \in Seq(Bytes), Len(s) <= BufSize,
           buffer \in [Index -> Bytes]
    PROVE  /\ Stored(s) \in [Index -> Bytes]
           /\ \A i \in 1 .. Len(s) : Stored(s)[Wrap(x + i - 1)] = s[i]
           /\ \A i \in Len(s) + 1 .. BufSize : Stored(s)[Wrap(x + i - 1)] = buffer[Wrap(x + i - 1)]
  <1>1. BufSize \in Nat /\ BufSize >= 4 /\ x \in 0 .. BufSize - 1 /\ Index = 0 .. BufSize - 1 /\ Len(s) \in Nat
    BY BufferSize DEF Index, BufSize
  <1>2. ASSUME NEW j \in Index
        PROVE  LET n == Wrap(j + BufSize - x)
               IN  /\ n \in Index
                   /\ Stored(s)[j] = IF n < Len(s) THEN s[n + 1] ELSE buffer[j]
    <2>1. j + BufSize - x \in 0 .. 2 * BufSize - 1  BY <1>1
    <2>2. (j + BufSize - x) % BufSize = Wrap(j + BufSize - x) /\ Wrap(j + BufSize - x) \in Index
      BY <2>1, WrapIs
    <2> QED BY <1>2, <2>2 DEF Stored, BufSize
  <1>3. ASSUME NEW i \in 1 .. BufSize
        PROVE  Wrap(x + i - 1) \in Index /\ Wrap(Wrap(x + i - 1) + BufSize - x) = i - 1
    BY <1>1, <1>3 DEF Wrap
  <1>4. Stored(s) \in [Index -> Bytes]
    <2>1. \A j \in Index : Stored(s)[j] \in Bytes
      <3> SUFFICES ASSUME NEW j \in Index PROVE Stored(s)[j] \in Bytes  OBVIOUS
      <3>1. PICK n : n = Wrap(j + BufSize - x)  OBVIOUS
      <3>2. n \in Index /\ Stored(s)[j] = IF n < Len(s) THEN s[n + 1] ELSE buffer[j]
        BY <1>2, <3>1
      <3>3. n < Len(s) => n + 1 \in 1 .. Len(s)  BY <1>1, <3>2
      <3> QED BY <3>2, <3>3
    <2> QED BY <2>1 DEF Stored
  <1>5. ASSUME NEW i \in 1 .. BufSize
        PROVE  Stored(s)[Wrap(x + i - 1)] = IF i - 1 < Len(s) THEN s[i] ELSE buffer[Wrap(x + i - 1)]
    <2>1. PICK j : j = Wrap(x + i - 1)  OBVIOUS
    <2>2. j \in Index /\ Wrap(j + BufSize - x) = i - 1 /\ i - 1 + 1 = i  BY <1>3, <2>1
    <2> QED BY <1>2, <2>1, <2>2
  <1>6. ASSUME NEW i \in 1 .. Len(s) PROVE Stored(s)[Wrap(x + i - 1)] = s[i]
    <2>1. i \in 1 .. BufSize /\ i - 1 < Len(s)  BY <1>1, <1>6
    <2> QED BY <1>5, <2>1
  <1>7. ASSUME NEW i \in Len(s) + 1 .. BufSize
        PROVE  Stored(s)[Wrap(x + i - 1)] = buffer[Wrap(x + i - 1)]
    <2>1. i \in 1 .. BufSize /\ ~(i - 1 < Len(s))  BY <1>1, <1>7
    <2> QED BY <1>5, <2>1
  <1> QED BY <1>4, <1>6, <1>7

\* Sequences with the same elements are the same.
LEMMA SameSeq ==
    ASSUME NEW T, NEW p, NEW q, p \in Seq(T), q \in Seq(T), Len(p) = Len(q),
           \A i \in 1 .. Len(p) : p[i] = q[i]
    PROVE  p = q
  OBVIOUS

\* Two sequences one after the other
LEMMA JoinedSeq ==
    ASSUME NEW T, NEW p, NEW q, NEW r, p \in Seq(T), q \in Seq(T), r \in Seq(T),
           Len(r) = Len(p) + Len(q),
           \A i \in 1 .. Len(r) : r[i] = IF i <= Len(p) THEN p[i] ELSE q[i - Len(p)]
    PROVE  r = p \o q
  <1>1. p \o q \in Seq(T) /\ Len(p \o q) = Len(r)  OBVIOUS
  <1>2. \A i \in 1 .. Len(r) : r[i] = (p \o q)[i]  OBVIOUS
  <1> QED BY <1>1, <1>2, SameSeq, Zenon

\* The two places of ends that belong together
LEMMA EndsAre ==
    ASSUME NEW r \in End, NEW w \in End, NEW a, NEW v, a = r.index, v = w.index
    PROVE  /\ r.mirror = w.mirror /\ a <= v => Ends(r, w) /\ Fullness(r, w) = v - a
           /\ r.mirror # w.mirror /\ v <= a => Ends(r, w) /\ Fullness(r, w) = BufSize - (a - v)
  BY DEF Ends, Fullness

-----------------------------------------------------------------------------
(* What a store and a get do to the bytes between the ends *)

QueueOf(b, r, w) == Bytes_(b, r.index, Fullness(r, w))

\* The queue of the refinement mapping
LEMMA StretchIs ==
    ASSUME RingInv
    PROVE  /\ Stretch(data_len) = QueueOf(buffer, read, write)
           /\ \A n \in 0 .. data_len : Stretch(n) = Bytes_(buffer, read.index, n)
  <1>1. data_len = Fullness(read, write) /\ data_len \in 0 .. BufSize
    BY FullnessIs DEF RingInv
  <1>2. ASSUME NEW n \in 0 .. data_len
        PROVE  Stretch(n) = Bytes_(buffer, read.index, n)
    <2>1. BufSize \in Nat /\ BufSize >= 4 /\ read.index \in 0 .. BufSize - 1
      BY BufferSize DEF RingInv, Ends, End, Index, BufSize
    <2>2. ASSUME NEW i \in 1 .. n PROVE (read.index + i - 1) % BufSize = Wrap(read.index + i - 1)
      <3>1. read.index + i - 1 \in 0 .. 2 * BufSize - 1  BY <1>1, <1>2, <2>1, <2>2
      <3> QED BY <3>1, WrapIs
    <2> QED BY <2>2 DEF Stretch, Bytes_, BufSize
  <1> QED BY <1>1, <1>2 DEF QueueOf

\* A queue of bytes is a sequence of them.
LEMMA QueueSeq ==
    ASSUME NEW b \in [Index -> Bytes], NEW x \in Index, NEW n \in 0 .. BufSize
    PROVE  /\ Bytes_(b, x, n) \in Seq(Bytes) /\ Len(Bytes_(b, x, n)) = n
           /\ \A i \in 1 .. n : Bytes_(b, x, n)[i] = b[Wrap(x + i - 1)]
  <1>1. BufSize \in Nat /\ BufSize >= 4 /\ x \in 0 .. BufSize - 1 /\ Index = 0 .. BufSize - 1
    BY BufferSize DEF Index, BufSize
  <1>2. \A i \in 1 .. n : Wrap(x + i - 1) \in Index  BY <1>1 DEF Wrap
  <1>3. \A i \in 1 .. n : b[Wrap(x + i - 1)] \in Bytes  BY <1>2
  <1> QED BY <1>3 DEF Bytes_

\* Bytes are stored behind those that are there.
LEMMA StoreAppends ==
    ASSUME RingInv, NEW s \in Seq(Bytes), Len(s) <= BufSize - data_len, store(s)
    PROVE  /\ Ends(read, write') /\ buffer' \in [Index -> Bytes]
           /\ QueueOf(buffer', read, write') = QueueOf(buffer, read, write) \o s
  <1>1. PICK a, w, l, m : a = read.index /\ w = write.index /\ l = data_len /\ m = Len(s)
    OBVIOUS
  <1>2. /\ BufSize \in Nat /\ BufSize >= 4 /\ a \in 0 .. BufSize - 1 /\ w \in 0 .. BufSize - 1 /\ l \in 0 .. BufSize
        /\ m \in Nat /\ l + m <= BufSize
    BY <1>1, BufferSize, FullnessIs DEF RingInv, Ends, End, Index, BufSize
  <1>3. /\ w = Wrap(a + l) /\ (write.mirror = read.mirror <=> a + l < BufSize)
        /\ Fullness(read, write) = l
    BY <1>1, FullnessIs DEF RingInv
  <1>4. /\ write'.index = Wrap(w + m) /\ write' \in End
        /\ write'.mirror = IF w + m < BufSize THEN write.mirror ELSE 1 - write.mirror
    <2>1. write \in End /\ m \in 0 .. BufSize /\ write' = Advance(write, m)
      BY <1>1, <1>2 DEF store, RingInv, Ends
    <2> QED BY <1>1, <2>1, AdvanceIs
  <1>5. read \in End /\ write \in End /\ read.mirror \in {0, 1} /\ write.mirror \in {0, 1}
    BY DEF RingInv, Ends, End
  <1>6. Ends(read, write') /\ Fullness(read, write') = l + m
    <2> PICK v : v = write'.index  OBVIOUS
    <2>0. /\ read.mirror = write'.mirror /\ a <= v => Ends(read, write') /\ Fullness(read, write') = v - a
          /\ read.mirror # write'.mirror /\ v <= a => Ends(read, write') /\ Fullness(read, write') = BufSize - (a - v)
      BY <1>1, <1>4, <1>5, EndsAre
    <2>1. CASE a + l < BufSize /\ a + l + m < BufSize
      <3>1. w = a + l /\ w + m < BufSize /\ write'.index = a + l + m /\ write'.mirror = read.mirror
        BY <1>2, <1>3, <1>4, <2>1 DEF Wrap
      <3> QED BY <1>2, <2>0, <3>1
    <2>2. CASE a + l < BufSize /\ ~(a + l + m < BufSize)
      <3>1. w = a + l /\ ~(w + m < BufSize) /\ write'.index = a + l + m - BufSize /\ write'.mirror # read.mirror
        BY <1>2, <1>3, <1>4, <1>5, <2>2 DEF Wrap
      <3> QED BY <1>2, <2>0, <3>1
    <2>3. CASE ~(a + l < BufSize)
      <3>1. w = a + l - BufSize /\ w + m < BufSize /\ write'.index = a + l + m - BufSize /\ write'.mirror # read.mirror
        BY <1>2, <1>3, <1>4, <1>5, <2>3 DEF Wrap
      <3> QED BY <1>2, <2>0, <3>1
    <2> QED BY <2>1, <2>2, <2>3
  <1>7. /\ buffer' \in [Index -> Bytes]
        /\ \A i \in 1 .. m : buffer'[Wrap(w + i - 1)] = s[i]
        /\ \A i \in m + 1 .. BufSize : buffer'[Wrap(w + i - 1)] = buffer[Wrap(w + i - 1)]
    <2>1. buffer' = Stored(s) /\ w \in Index /\ m <= BufSize
      BY <1>2 DEF store, Index, BufSize
    <2> QED BY <1>1, <2>1, StoredIs, Zenon DEF RingInv
  <1>8. PICK q, q2 : q = QueueOf(buffer, read, write) /\ q2 = QueueOf(buffer', read, write')
    OBVIOUS
  <1>9. /\ q \in Seq(Bytes) /\ Len(q) = l /\ \A i \in 1 .. l : q[i] = buffer[Wrap(a + i - 1)]
    <2>1. a \in Index /\ l \in 0 .. BufSize  BY <1>2 DEF Index, BufSize
    <2> QED BY <1>1, <1>3, <1>8, <2>1, QueueSeq DEF QueueOf, RingInv
  <1>10. /\ q2 \in Seq(Bytes) /\ Len(q2) = l + m
         /\ \A i \in 1 .. l + m : q2[i] = buffer'[Wrap(a + i - 1)]
    <2>1. a \in Index /\ l + m \in 0 .. BufSize  BY <1>2 DEF Index, BufSize
    <2> QED BY <1>1, <1>6, <1>7, <1>8, <2>1, QueueSeq DEF QueueOf
  <1>11. ASSUME NEW i \in 1 .. l + m PROVE q2[i] = IF i <= l THEN q[i] ELSE s[i - l]
    <2>1. CASE i <= l
      <3>1. PICK j : j = i + BufSize - l  OBVIOUS
      <3>2. j \in m + 1 .. BufSize /\ Wrap(w + j - 1) = Wrap(a + i - 1) /\ i \in 1 .. l
        <4>1. /\ BufSize \in Int /\ a \in Int /\ l \in Int /\ m \in Int /\ w \in Int /\ i \in Int /\ j \in Int
              /\ 0 <= a /\ a < BufSize /\ 0 <= m /\ l + m <= BufSize /\ 1 <= i /\ i <= l
              /\ w = (IF a + l < BufSize THEN a + l ELSE a + l - BufSize) /\ j = i + BufSize - l
          BY <1>2, <1>3, <1>11, <2>1, <3>1 DEF Wrap
        <4>2. j \in m + 1 .. BufSize /\ i \in 1 .. l  BY ONLY <4>1
        <4>3. CASE a + l < BufSize
          <5>1. PICK x, y : x = w + j - 1 /\ y = a + i - 1  BY Zenon
          <5>2. ~(x < BufSize) /\ x - BufSize = y /\ y < BufSize
            BY ONLY <4>1, <4>3, <5>1
          <5>3. Wrap(x) = Wrap(y)  BY ONLY <5>2 DEF Wrap
          <5> QED BY ONLY <4>2, <5>1, <5>3
        <4>4. CASE ~(a + l < BufSize)
          <5>1. w + j - 1 = a + i - 1  BY ONLY <4>1, <4>4
          <5> QED BY ONLY <4>2, <5>1
        <4> QED BY <4>3, <4>4
      <3> QED BY <1>7, <1>9, <1>10, <2>1, <3>2
    <2>2. CASE i > l
      <3>1. PICK j : j = i - l  OBVIOUS
      <3>2. j \in 1 .. m /\ Wrap(w + j - 1) = Wrap(a + i - 1)
        BY <1>2, <1>3, <1>11, <2>2, <3>1 DEF Wrap
      <3>3. ~(i <= l)  BY <1>2, <1>11, <2>2
      <3> QED BY <1>7, <1>10, <3>1, <3>2, <3>3
    <2> QED BY <1>2, <1>11, <2>1, <2>2
  <1>12. q2 = q \o s
    <2>1. Len(q2) = Len(q) + Len(s)  BY <1>1, <1>9, <1>10
    <2>2. \A i \in 1 .. Len(q2) : q2[i] = IF i <= Len(q) THEN q[i] ELSE s[i - Len(q)]
      BY ONLY <1>9, <1>10, <1>11
    <2>3. q \in Seq(Bytes) /\ q2 \in Seq(Bytes) /\ s \in Seq(Bytes)  BY <1>9, <1>10
    <2> QED BY ONLY <2>1, <2>2, <2>3, JoinedSeq, Zenon
  <1> QED BY <1>6, <1>7, <1>8, <1>12

\* The oldest k bytes are taken.
LEMMA AdvanceTakes ==
    ASSUME RingInv, NEW k \in 0 .. data_len, read' = Advance(read, k)
    PROVE  /\ Ends(read', write)
           /\ QueueOf(buffer, read', write) = SubSeq(QueueOf(buffer, read, write), k + 1, data_len)
  <1>1. PICK a, w, l : a = read.index /\ w = write.index /\ l = data_len  OBVIOUS
  <1>2. /\ BufSize \in Nat /\ BufSize >= 4 /\ a \in 0 .. BufSize - 1 /\ w \in 0 .. BufSize - 1 /\ l \in 0 .. BufSize /\ k \in 0 .. l
    BY <1>1, BufferSize, FullnessIs DEF RingInv, Ends, End, Index, BufSize
  <1>3. /\ w = Wrap(a + l) /\ (write.mirror = read.mirror <=> a + l < BufSize)
        /\ Fullness(read, write) = l
    BY <1>1, FullnessIs DEF RingInv
  <1>4. /\ read'.index = Wrap(a + k) /\ read' \in End
        /\ read'.mirror = IF a + k < BufSize THEN read.mirror ELSE 1 - read.mirror
    <2>1. read \in End /\ k \in 0 .. BufSize  BY <1>2 DEF RingInv, Ends
    <2> QED BY <1>1, <2>1, AdvanceIs
  <1>5. write \in End /\ read.mirror \in {0, 1} /\ write.mirror \in {0, 1}
    BY DEF RingInv, Ends, End
  <1>6. Ends(read', write) /\ Fullness(read', write) = l - k
    <2>1. CASE a + l < BufSize
      <3>1. w = a + l /\ a + k < BufSize /\ read'.index = a + k /\ read'.mirror = write.mirror
        BY <1>2, <1>3, <1>4, <2>1 DEF Wrap
      <3> QED BY <1>1, <1>2, <1>4, <1>5, <3>1 DEF Ends, Fullness
    <2>2. CASE ~(a + l < BufSize) /\ a + k < BufSize
      <3>1. w = a + l - BufSize /\ read'.index = a + k /\ read'.mirror # write.mirror
        BY <1>2, <1>3, <1>4, <2>2 DEF Wrap
      <3> QED BY <1>1, <1>2, <1>4, <1>5, <3>1 DEF Ends, Fullness
    <2>3. CASE ~(a + l < BufSize) /\ ~(a + k < BufSize)
      <3>1. w = a + l - BufSize /\ read'.index = a + k - BufSize /\ read'.mirror = write.mirror
        BY <1>2, <1>3, <1>4, <1>5, <2>3 DEF Wrap
      <3> QED BY <1>1, <1>2, <1>4, <1>5, <3>1 DEF Ends, Fullness
    <2> QED BY <2>1, <2>2, <2>3
  <1>7. PICK q, q2 : q = QueueOf(buffer, read, write) /\ q2 = QueueOf(buffer, read', write)
    OBVIOUS
  <1>8. /\ q \in Seq(Bytes) /\ Len(q) = l /\ \A i \in 1 .. l : q[i] = buffer[Wrap(a + i - 1)]
    <2>1. a \in Index /\ l \in 0 .. BufSize /\ buffer \in [Index -> Bytes]
      BY <1>2 DEF RingInv, Index, BufSize
    <2>2. /\ Bytes_(buffer, a, l) \in Seq(Bytes) /\ Len(Bytes_(buffer, a, l)) = l
          /\ \A i \in 1 .. l : Bytes_(buffer, a, l)[i] = buffer[Wrap(a + i - 1)]
      BY ONLY <2>1, QueueSeq
    <2> QED BY ONLY <1>1, <1>3, <1>7, <2>2, Zenon DEF QueueOf
  <1>9. /\ q2 \in Seq(Bytes) /\ Len(q2) = l - k
        /\ \A i \in 1 .. l - k : q2[i] = buffer[Wrap(Wrap(a + k) + i - 1)]
    <2>1. Wrap(a + k) \in Index /\ l - k \in 0 .. BufSize
      BY <1>2 DEF Index, BufSize, Wrap
    <2> QED BY <1>4, <1>6, <1>7, <2>1, QueueSeq DEF QueueOf, RingInv
  <1>10. ASSUME NEW i \in 1 .. l - k PROVE q2[i] = q[i + k]
    <2>1. PICK j : j = i + k  OBVIOUS
    <2>2. j \in 1 .. l /\ Wrap(Wrap(a + k) + i - 1) = Wrap(a + j - 1)
      BY <1>2, <1>10, <2>1 DEF Wrap
    <2> QED BY <1>8, <1>9, <2>1, <2>2
  <1>11. q2 = SubSeq(q, k + 1, l)  BY <1>2, <1>8, <1>9, <1>10
  <1> QED BY <1>1, <1>6, <1>7, <1>11

-----------------------------------------------------------------------------
(* The calls *)

\* What fits of a sequence behind another one
LEMMA FirstIs ==
    ASSUME NEW T, NEW q \in Seq(T), NEW s \in Seq(T), NEW n \in Nat, Len(q) <= n,
           NEW m, m = IF n - Len(q) < Len(s) THEN n - Len(q) ELSE Len(s)
    PROVE  Queue!First(n, q \o s) = q \o SubSeq(s, 1, m)
  <1>1. PICK a, b, c : a = Len(q) /\ b = Len(s) /\ c = q \o s  BY Zenon
  <1>2. c \in Seq(T) /\ Len(c) = a + b /\ a \in Nat /\ b \in Nat  BY <1>1
  <1>3. m \in 0 .. b /\ a + m \in 0 .. a + b /\ a + m = IF n < a + b THEN n ELSE a + b
    BY <1>1, <1>2
  <1>4. Queue!First(n, c) = SubSeq(c, 1, a + m)  BY <1>2, <1>3, Zenon DEF Queue!First
  <1>5. PICK r, t : r = SubSeq(c, 1, a + m) /\ t = SubSeq(s, 1, m)  BY Zenon
  <1>6. r \in Seq(T) /\ Len(r) = a + m /\ \A i \in 1 .. a + m : r[i] = c[i]
    <2>1. a + m \in Nat /\ 1 \in 1 .. Len(c) + 1 /\ a + m \in 0 .. Len(c)  BY <1>2, <1>3
    <2>2. PICK z : z = a + m  BY Zenon
    <2>3. SubSeq(c, 1, z) \in Seq(T) /\ Len(SubSeq(c, 1, z)) = z /\ \A i \in 1 .. z : SubSeq(c, 1, z)[i] = c[i]
      BY ONLY <1>2, <2>1, <2>2
    <2> QED BY ONLY <1>5, <2>2, <2>3, Zenon
  <1>7. t \in Seq(T) /\ Len(t) = m /\ \A i \in 1 .. m : t[i] = s[i]
    <2>1. s \in Seq(T) /\ m \in 0 .. Len(s)  BY <1>1, <1>3
    <2> QED BY ONLY <1>5, <2>1
  <1>8. \A i \in 1 .. a + b : c[i] = IF i <= a THEN q[i] ELSE s[i - a]  BY <1>1
  <1>9. \A i \in 1 .. Len(r) : r[i] = IF i <= Len(q) THEN q[i] ELSE t[i - Len(q)]
    <2> SUFFICES ASSUME NEW i \in 1 .. a + m
                 PROVE  r[i] = IF i <= a THEN q[i] ELSE t[i - a]
      BY <1>1, <1>6
    <2>1. i \in 1 .. a + b /\ (~(i <= a) => i - a \in 1 .. m)  BY <1>2, <1>3
    <2> QED BY <1>6, <1>7, <1>8, <2>1, Zenon
  <1>10. Len(r) = Len(q) + Len(t)  BY <1>1, <1>6, <1>7
  <1>11. r = q \o t  BY ONLY q \in Seq(T), <1>6, <1>7, <1>9, <1>10, JoinedSeq, Zenon
  <1> QED BY <1>1, <1>4, <1>5, <1>11, Zenon

\* The end of two sequences that fit
LEMMA LastAll ==
    ASSUME NEW T, NEW q \in Seq(T), NEW s \in Seq(T), NEW n \in Nat, Len(q) + Len(s) <= n
    PROVE  Queue!Last(n, q \o s) = q \o s
  <1>1. PICK c : c = q \o s  BY Zenon
  <1>2. c \in Seq(T) /\ ~(n < Len(c))  BY <1>1
  <1>3. SubSeq(c, 1, Len(c)) = c  BY <1>2
  <1> QED BY <1>1, <1>2, <1>3 DEF Queue!Last

\* All but the first k
LEMMA LastDrop ==
    ASSUME NEW T, NEW q \in Seq(T), NEW k \in 0 .. Len(q)
    PROVE  Queue!Last(Len(q) - k, q) = SubSeq(q, k + 1, Len(q))
  BY DEF Queue!Last

\* The queue of the refinement mapping is the bytes between the ends.
Queued == QueueOf(buffer, read, write)
Shown  == Stretch(data_len)
Mapping == Shown = Queued
LEMMA Mapped == RingInv => Mapping
  BY StretchIs DEF Queued, Shown, Mapping

\* Those bytes
LEMMA MappedFacts ==
    ASSUME RingInv
    PROVE  /\ Stretch(data_len) \in Seq(Bytes) /\ Len(Stretch(data_len)) = data_len
           /\ data_len \in 0 .. BufSize /\ BufSize \in Nat /\ BufSize >= 4 /\ space_len = BufSize - data_len
  <1>1. /\ Stretch(data_len) = Bytes_(buffer, read.index, data_len)
        /\ data_len \in 0 .. BufSize
    BY StretchIs, FullnessIs DEF RingInv, QueueOf
  <1>2. read.index \in Index  BY DEF RingInv, Ends, End
  <1> QED BY <1>1, <1>2, QueueSeq, BufferSize DEF RingInv, space_len, BufSize

\* A step of the queue
QueueStep == [Queue!Next]_<<Stretch(data_len), got>>

\* rt_ringbuffer_put and rt_ringbuffer_putchar
LEMMA PutStep ==
    ASSUME RingInv, NEW n \in 0 .. BufSize + 1, NEW s \in [1 .. n -> Bytes],
           rt_ringbuffer_put(s) \/ (n = 1 /\ rt_ringbuffer_putchar(s[1]))
    PROVE  RingInv' /\ QueueStep
  <1>1. PICK q, l : q = Stretch(data_len) /\ l = data_len  OBVIOUS
  <1>2. /\ q \in Seq(Bytes) /\ Len(q) = l /\ l \in 0 .. BufSize /\ BufSize \in Nat /\ BufSize >= 4
        /\ space_len = BufSize - l /\ s \in Seq(Bytes) /\ Len(s) = n
    BY <1>1, MappedFacts
  <1>3. PICK m : m = IF BufSize - l < n THEN BufSize - l ELSE n  OBVIOUS
  <1>4. PICK t : t = SubSeq(s, 1, m)  BY Zenon
  <1>5. m \in 0 .. n /\ m <= BufSize - l /\ t \in Seq(Bytes) /\ Len(t) = m
    BY <1>2, <1>3, <1>4
  <1>6. Queue!First(BufSize, q \o s) = q \o t
    <2>1. /\ q \in Seq(Bytes) /\ s \in Seq(Bytes) /\ BufSize \in Nat /\ Len(q) <= BufSize
          /\ m = IF BufSize - Len(q) < Len(s) THEN BufSize - Len(q) ELSE Len(s)
      BY <1>2, <1>3
    <2>2. Queue!First(BufSize, q \o s) = q \o SubSeq(s, 1, m)
      BY ONLY <2>1, FirstIs, Zenon
    <2> QED BY <1>4, <2>2
  <1>7. RingInv' /\ Stretch(data_len)' = q \o t /\ got' = << >>
    <2>1. CASE space_len = 0
      <3>1. t = << >>  BY <1>2, <1>3, <1>4, <2>1
      <3>2. UNCHANGED <<read, write, buffer>> /\ got' = << >>
        BY <2>1 DEF rt_ringbuffer_put, rt_ringbuffer_putchar
      <3>3. RingInv'  BY <3>2, <1>2 DEF RingInv
      <3>4. Stretch(data_len)' = q  BY <3>2, <1>1 DEF Stretch, data_len, Full
      <3> QED BY <1>2, <3>1, <3>2, <3>3, <3>4
    <2>2. CASE space_len # 0
      <3>1. store(t) /\ read' = read
        <4>1. CASE rt_ringbuffer_put(s)
          <5>1. Least(space_len, Len(s)) = m  BY <1>2, <1>3 DEF Least
          <5> QED BY <1>4, <2>2, <4>1, <5>1 DEF rt_ringbuffer_put
        <4>2. CASE n = 1 /\ rt_ringbuffer_putchar(s[1])
          <5>1. m = 1  BY <1>2, <1>3, <2>2, <4>2
          <5>2. PICK u : u = <<s[1]>>  BY Zenon
          <5>3. u \in Seq(Bytes) /\ Len(u) = 1 /\ u[1] = s[1] /\ s[1] \in Bytes
            BY <4>2, <5>2
          <5>4. Len(t) = 1 /\ t[1] = s[1]  BY <1>2, <1>4, <1>5, <4>2, <5>1
          <5>5. t = u  BY <1>5, <5>3, <5>4, SameSeq
          <5> QED BY <2>2, <4>2, <5>2, <5>5 DEF rt_ringbuffer_putchar
        <4> QED BY <4>1, <4>2
      <3>2. /\ Ends(read, write') /\ buffer' \in [Index -> Bytes]
            /\ QueueOf(buffer', read, write') = QueueOf(buffer, read, write) \o t
        BY <1>1, <1>5, <3>1, StoreAppends
      <3>3. got' = << >>  BY <3>1 DEF store
      <3>4. RingInv'  BY <1>2, <3>1, <3>2, <3>3 DEF RingInv
      <3>5. Stretch(data_len)' = QueueOf(buffer', read', write')
        <4>1. Mapping'  BY <3>4, Mapped, PTL
        <4> QED BY <4>1 DEF Queued, Shown, Mapping
      <3> QED BY <1>1, <3>1, <3>2, <3>3, <3>4, <3>5, Mapped, Zenon DEF Queued, Shown, Mapping
    <2> QED BY <2>1, <2>2
  <1>8. Queue!Put(s)  BY <1>1, <1>6, <1>7 DEF Queue!Put, BufSize
  <1> QED BY <1>7, <1>8 DEF QueueStep, Queue!Next, BufSize

\* rt_ringbuffer_get and rt_ringbuffer_getchar
LEMMA GetStep ==
    ASSUME RingInv, NEW n \in 0 .. BufSize + 1,
           rt_ringbuffer_get(n) \/ (n = 1 /\ rt_ringbuffer_getchar)
    PROVE  RingInv' /\ QueueStep
  <1>1. PICK q, l : q = Stretch(data_len) /\ l = data_len  OBVIOUS
  <1>2. /\ q \in Seq(Bytes) /\ Len(q) = l /\ l \in 0 .. BufSize /\ BufSize \in Nat /\ BufSize >= 4
    BY <1>1, MappedFacts
  <1>3. PICK k : k = IF l < n THEN l ELSE n  OBVIOUS
  <1>4. k \in 0 .. l  BY <1>2, <1>3
  <1>5. PICK t : t = Stretch(k)  OBVIOUS
  <1>6. t = SubSeq(q, 1, k) /\ t \in Seq(Bytes) /\ Len(t) = k
    <2>1. t = Bytes_(buffer, read.index, k) /\ q = Bytes_(buffer, read.index, l)
      BY <1>1, <1>2, <1>4, <1>5, StretchIs
    <2>2. read.index \in Index /\ k \in 0 .. BufSize /\ l \in 0 .. BufSize
      BY <1>2, <1>4 DEF RingInv, Ends, End
    <2>3. /\ t \in Seq(Bytes) /\ Len(t) = k
          /\ \A i \in 1 .. k : t[i] = buffer[Wrap(read.index + i - 1)]
      BY <2>1, <2>2, QueueSeq, Zenon DEF RingInv
    <2>4. \A i \in 1 .. l : q[i] = buffer[Wrap(read.index + i - 1)]
      <3>1. buffer \in [Index -> Bytes]  BY DEF RingInv
      <3> QED BY ONLY <2>1, <2>2, <3>1, QueueSeq
    <2>5. PICK u : u = SubSeq(q, 1, k)  BY Zenon
    <2>6. u \in Seq(Bytes) /\ Len(u) = k /\ \A i \in 1 .. k : u[i] = q[i]
      BY <1>2, <1>4, <2>5
    <2>7. \A i \in 1 .. k : t[i] = u[i]  BY <1>2, <1>4, <2>3, <2>4, <2>6
    <2>8. t = u  BY ONLY <2>3, <2>6, <2>7, SameSeq
    <2> QED BY <2>3, <2>5, <2>8
  <1>7. got' = t /\ UNCHANGED <<write, buffer>> /\ read' = IF l = 0 THEN read ELSE Advance(read, k)
    <2>1. CASE rt_ringbuffer_get(n)
      <3>1. Least(data_len, n) = k  BY <1>1, <1>3 DEF Least
      <3> QED BY <1>1, <1>5, <1>6, <2>1, <3>1, Zenon DEF rt_ringbuffer_get
    <2>2. CASE n = 1 /\ rt_ringbuffer_getchar
      <3>1. Least(data_len, 1) = k /\ (l # 0 => k = 1)
        BY <1>1, <1>2, <1>3, <2>2 DEF Least
      <3> QED BY <1>1, <1>5, <1>6, <2>2, <3>1, Zenon DEF rt_ringbuffer_getchar
    <2> QED BY <2>1, <2>2
  <1>8. RingInv' /\ Stretch(data_len)' = SubSeq(q, k + 1, l)
    <2>0. Len(t) <= BufSize  BY <1>2, <1>4, <1>6
    <2>1. CASE l = 0
      <3>1. UNCHANGED <<read, write, buffer>>  BY <1>7, <2>1
      <3>2. RingInv'  BY <1>6, <1>7, <2>0, <3>1 DEF RingInv
      <3>3. Stretch(data_len)' = q  BY <3>1, <1>1 DEF Stretch, data_len, Full
      <3>4. SubSeq(q, k + 1, l) = q  BY <1>2, <1>4, <2>1
      <3> QED BY <3>2, <3>3, <3>4
    <2>2. CASE l # 0
      <3>1. /\ Ends(read', write)
            /\ QueueOf(buffer, read', write) = SubSeq(QueueOf(buffer, read, write), k + 1, l)
        BY <1>1, <1>4, <1>7, <2>2, AdvanceTakes
      <3>2. RingInv'  BY <1>6, <1>7, <2>0, <3>1 DEF RingInv
      <3>3. Stretch(data_len)' = QueueOf(buffer', read', write')
        <4>1. Mapping'  BY <3>2, Mapped, PTL
        <4> QED BY <4>1 DEF Queued, Shown, Mapping
      <3> QED BY <1>1, <1>7, <3>1, <3>2, <3>3, Mapped DEF Queued, Shown, Mapping
    <2> QED BY <2>1, <2>2
  <1>9. Queue!First(n, q) = t  BY <1>2, <1>3, <1>6 DEF Queue!First
  <1>10. Queue!Last(Len(q) - Len(t), q) = SubSeq(q, k + 1, l)
    <2>1. k \in 0 .. Len(q)  BY <1>2, <1>4
    <2> QED BY <1>2, <1>6, <2>1, LastDrop, Zenon
  <1>11. Queue!Get(n)  BY <1>1, <1>7, <1>8, <1>9, <1>10 DEF Queue!Get
  <1> QED BY <1>8, <1>11 DEF QueueStep, Queue!Next, BufSize

\* A whole buffer of bytes that starts where the write end was
LEMMA Whole ==
    ASSUME RingInv', NEW s \in Seq(Bytes), Len(s) = BufSize,
           read'.index = write'.index, read'.mirror # write'.mirror,
           \A i \in 1 .. BufSize : buffer'[Wrap(read'.index + i - 1)] = s[i]
    PROVE  Stretch(data_len)' = s
  <1>1. Stretch(data_len)' = QueueOf(buffer', read', write')
    <2>1. Mapping'  BY Mapped, PTL
    <2> QED BY <2>1 DEF Mapping, Queued, Shown
  <1>2. read' \in End /\ BufSize \in Nat /\ buffer' \in [Index -> Bytes]
    BY BufferSize DEF RingInv, Ends
  <1>3. Fullness(read', write') = BufSize  BY <1>2 DEF Fullness, End, Index, BufSize
  <1>4. read'.index \in Index /\ BufSize \in 0 .. BufSize  BY <1>2 DEF End
  <1>5. PICK q : q = Bytes_(buffer', read'.index, BufSize)  OBVIOUS
  <1>6. /\ q \in Seq(Bytes) /\ Len(q) = BufSize
        /\ \A i \in 1 .. BufSize : q[i] = buffer'[Wrap(read'.index + i - 1)]
    BY ONLY <1>2, <1>4, <1>5, QueueSeq, Zenon
  <1>7. \A i \in 1 .. Len(q) : q[i] = s[i]  BY <1>6
  <1>8. q = s  BY ONLY s \in Seq(Bytes), Len(s) = BufSize, <1>6, <1>7, SameSeq, Zenon
  <1> QED BY <1>1, <1>3, <1>5, <1>8 DEF QueueOf

\* The newest bytes of a full queue and a byte, and of any and a whole buffer
LEMMA LastNewest ==
    ASSUME NEW T, NEW q \in Seq(T), NEW s \in Seq(T), NEW n \in Nat, n > 0
    PROVE  /\ Len(s) = n => Queue!Last(n, q \o s) = s
           /\ Len(q) = n /\ Len(s) = 1 =>
                 /\ Queue!Last(n, q \o s) \in Seq(T) /\ Len(Queue!Last(n, q \o s)) = n
                 /\ \A i \in 1 .. n : Queue!Last(n, q \o s)[i] = IF i < n THEN q[i + 1] ELSE s[1]
  <1>1. PICK c, a, b : c = q \o s /\ a = Len(q) /\ b = Len(s)  BY Zenon
  <1>2. /\ c \in Seq(T) /\ Len(c) = a + b /\ a \in Nat /\ b \in Nat
        /\ \A i \in 1 .. a + b : c[i] = IF i <= a THEN q[i] ELSE s[i - a]
    BY <1>1
  <1>3. ASSUME b = n PROVE Queue!Last(n, c) = s
    <2>1. Queue!Last(n, c) = SubSeq(c, a + 1, a + n)
      <3>1. (IF n < Len(c) THEN Len(c) - n + 1 ELSE 1) = a + 1 /\ Len(c) = a + n
        BY <1>2, <1>3
      <3> QED BY ONLY <3>1, Zenon DEF Queue!Last
    <2>2. PICK r : r = SubSeq(c, a + 1, a + n)  BY Zenon
    <2>3. r \in Seq(T) /\ Len(r) = n /\ \A i \in 1 .. n : r[i] = c[a + i]
      BY <1>2, <1>3, <2>2
    <2>4. \A i \in 1 .. n : c[a + i] = s[i]
      <3> SUFFICES ASSUME NEW i \in 1 .. n PROVE c[a + i] = s[i]  OBVIOUS
      <3>1. a + i \in 1 .. a + b /\ ~(a + i <= a) /\ (a + i) - a = i  BY <1>2, <1>3
      <3> QED BY <1>2, <3>1
    <2>5. \A i \in 1 .. Len(r) : r[i] = s[i]  BY <2>3, <2>4
    <2>6. r = s  BY ONLY s \in Seq(T), <1>1, <1>3, <2>3, <2>5, SameSeq, Zenon
    <2> QED BY <2>1, <2>2, <2>6
  <1>4. ASSUME a = n, b = 1
        PROVE  /\ Queue!Last(n, c) \in Seq(T) /\ Len(Queue!Last(n, c)) = n
               /\ \A i \in 1 .. n : Queue!Last(n, c)[i] = IF i < n THEN q[i + 1] ELSE s[1]
    <2>1. Queue!Last(n, c) = SubSeq(c, 2, n + 1)  BY <1>2, <1>4 DEF Queue!Last
    <2>2. PICK r : r = SubSeq(c, 2, n + 1)  BY Zenon
    <2>3. r \in Seq(T) /\ Len(r) = n /\ \A i \in 1 .. n : r[i] = c[i + 1]
      BY <1>2, <1>4, <2>2
    <2>4. ASSUME NEW i \in 1 .. n PROVE r[i] = IF i < n THEN q[i + 1] ELSE s[1]
      <3>1. i + 1 \in 1 .. a + b /\ (i + 1 <= a <=> i < n) /\ (~(i < n) => (i + 1) - a = 1)
        BY <1>2, <1>4
      <3> QED BY <1>2, <2>3, <3>1
    <2> QED BY <2>1, <2>2, <2>3, <2>4
  <1> QED BY <1>1, <1>3, <1>4

\* rt_ringbuffer_put_force
LEMMA ForceStep ==
    ASSUME RingInv, NEW n \in 0 .. BufSize + 1, NEW s \in [1 .. n -> Bytes], rt_ringbuffer_put_force(s)
    PROVE  RingInv' /\ (ForceAllowed(s) /\ Forced = {} => QueueStep)
  <1>1. PICK q, l : q = Stretch(data_len) /\ l = data_len  OBVIOUS
  <1>2. /\ q \in Seq(Bytes) /\ Len(q) = l /\ l \in 0 .. BufSize /\ BufSize \in Nat /\ BufSize >= 4
        /\ space_len = BufSize - l /\ s \in Seq(Bytes) /\ Len(s) = n
    BY <1>1, MappedFacts
  <1>3. got' = << >>  BY DEF rt_ringbuffer_put_force, store
  <1>4. CASE n <= BufSize - l
    <2>1. store(s) /\ read' = read  BY <1>2, <1>4 DEF rt_ringbuffer_put_force
    <2>2. /\ Ends(read, write') /\ buffer' \in [Index -> Bytes]
          /\ QueueOf(buffer', read, write') = QueueOf(buffer, read, write) \o s
      BY <1>1, <1>2, <1>4, <2>1, StoreAppends, Zenon
    <2>3. RingInv'  BY <1>2, <1>3, <2>1, <2>2 DEF RingInv
    <2>4. Mapping'  BY <2>3, Mapped, PTL
    <2>5. Stretch(data_len)' = q \o s
      BY <1>1, <2>1, <2>2, <2>4, Mapped, Zenon DEF Queued, Shown, Mapping
    <2>6. Queue!Last(BufSize, q \o s) = q \o s
      <3>1. Len(q) + Len(s) <= BufSize  BY <1>2, <1>4
      <3> QED BY <1>2, <3>1, LastAll, Zenon
    <2>7. Queue!Force(s)  BY <1>1, <1>3, <2>5, <2>6 DEF Queue!Force, BufSize
    <2> QED BY <2>3, <2>7 DEF QueueStep, Queue!Next, BufSize
  <1>5. CASE ~(n <= BufSize - l)
    <2>1. PICK b \in Copies(s) :
             store(b) /\ read' = [mirror |-> 1 - read.mirror, index |-> write'.index]
      <3>1. Len(s) > space_len /\ ~(Len(s) <= space_len)  BY <1>2, <1>5
      <3> QED BY <3>1, Zenon DEF rt_ringbuffer_put_force
    <2>2. b \in Seq(Bytes) /\ Len(b) = BufSize /\ (n = BufSize => b = s)
      <3>1. /\ b \in [1 .. BufSize -> Bytes]
            /\ \A i \in 1 .. Least(BufSize, Len(s)) : b[i] = s[i]
        BY DEF Copies, BufSize
      <3>2. b \in Seq(Bytes) /\ Len(b) = BufSize  BY <1>2, <3>1
      <3>3. ASSUME n = BufSize PROVE b = s
        <4>1. \A i \in 1 .. Len(b) : b[i] = s[i]  BY <1>2, <3>1, <3>2, <3>3 DEF Least
        <4> QED BY <1>2, <3>2, <3>3, <4>1, SameSeq, Zenon
      <3> QED BY <3>2, <3>3
    <2>3. /\ write' = Advance(write, BufSize) /\ write \in End /\ write.index \in Index /\ write.mirror \in {0, 1}
          /\ read \in End /\ read.mirror \in {0, 1} /\ buffer \in [Index -> Bytes] /\ buffer' = Stored(b)
      BY <2>1, <2>2 DEF store, RingInv, Ends, End
    <2>4. /\ write' \in End /\ write'.index = write.index /\ write'.mirror = 1 - write.mirror
      <3>1. PICK x : x = write.index  OBVIOUS
      <3>2. x \in 0 .. BufSize - 1 /\ BufSize \in 0 .. BufSize
        BY <1>2, <2>3, <3>1 DEF Index, BufSize
      <3>3. ~(x + BufSize < BufSize) /\ Wrap(x + BufSize) = x  BY <1>2, <3>2 DEF Wrap
      <3>4. /\ Advance(write, BufSize) \in End /\ Advance(write, BufSize).index = Wrap(x + BufSize)
            /\ Advance(write, BufSize).mirror = IF x + BufSize < BufSize THEN write.mirror ELSE 1 - write.mirror
        BY <2>3, <3>1, <3>2, AdvanceIs
      <3> QED BY <2>3, <3>1, <3>3, <3>4
    <2>5. /\ read' \in End /\ read'.index = write'.index
          /\ read.mirror # write.mirror => read'.mirror # write'.mirror
      BY <2>1, <2>3, <2>4 DEF End
    <2>6. /\ buffer' \in [Index -> Bytes]
          /\ \A i \in 1 .. BufSize : buffer'[Wrap(write.index + i - 1)] = b[i]
      <3>1. PICK x : x = write.index  OBVIOUS
      <3>2. /\ Stored(b) \in [Index -> Bytes]
            /\ \A i \in 1 .. Len(b) : Stored(b)[Wrap(x + i - 1)] = b[i]
        <4>1. /\ x \in Index /\ x = write.index /\ b \in Seq(Bytes) /\ Len(b) <= BufSize
              /\ buffer \in [Index -> Bytes]
          BY <1>2, <2>2, <2>3, <3>1
        <4> QED BY ONLY <4>1, StoredIs
      <3> QED BY <2>2, <2>3, <3>1, <3>2
    <2>7. RingInv'
      <3>1. write'.index \in Int  BY <2>4 DEF End, Index
      <3> QED BY <1>2, <1>3, <2>4, <2>5, <2>6, <3>1 DEF RingInv, Ends
    <2>8. ASSUME ForceAllowed(s), Forced = {} PROVE QueueStep
      <3>1. n = BufSize /\ read.mirror # write.mirror
        BY <1>2, <1>5, <2>8 DEF ForceAllowed, BufSize
      <3>2. b = s /\ read'.mirror # write'.mirror  BY <2>2, <2>5, <3>1
      <3>3. Stretch(data_len)' = s  BY <2>2, <2>4, <2>5, <2>6, <2>7, <3>2, Whole
      <3>4. Queue!Last(BufSize, q \o s) = s  BY <1>2, <3>1, LastNewest
      <3>5. Queue!Force(s)  BY <1>1, <1>3, <3>3, <3>4 DEF Queue!Force, BufSize
      <3> QED BY <3>5 DEF QueueStep, Queue!Next, BufSize
    <2> QED BY <2>7, <2>8
  <1> QED BY <1>4, <1>5

\* rt_ringbuffer_putchar_force
LEMMA ForceCharStep ==
    ASSUME RingInv, NEW ch \in Bytes, rt_ringbuffer_putchar_force(ch)
    PROVE  RingInv' /\ QueueStep
  <1>1. PICK q, l, s : q = Stretch(data_len) /\ l = data_len /\ s = <<ch>>  BY Zenon
  <1>2. /\ q \in Seq(Bytes) /\ Len(q) = l /\ l \in 0 .. BufSize /\ BufSize \in Nat /\ BufSize >= 4
        /\ s \in Seq(Bytes) /\ Len(s) = 1 /\ s[1] = ch /\ s \in [1 .. 1 -> Bytes] /\ 1 \in 0 .. BufSize + 1
    BY <1>1, MappedFacts
  <1>3. store(s) /\ got' = << >>  BY <1>1 DEF rt_ringbuffer_putchar_force, store
  <1>4. Full <=> l = BufSize  BY <1>1, FullnessIs DEF RingInv
  <1>5. CASE l # BufSize
    <2>1. read' = read  BY <1>4, <1>5 DEF rt_ringbuffer_putchar_force
    <2>2. Len(s) <= BufSize - data_len  BY <1>1, <1>2, <1>5
    <2>3. /\ Ends(read, write') /\ buffer' \in [Index -> Bytes]
          /\ QueueOf(buffer', read, write') = QueueOf(buffer, read, write) \o s
      BY <1>2, <1>3, <2>2, StoreAppends, Zenon
    <2>4. RingInv'  BY <1>2, <1>3, <2>1, <2>3 DEF RingInv
    <2>5. Mapping'  BY <2>4, Mapped, PTL
    <2>6. Stretch(data_len)' = q \o s
      BY <1>1, <2>1, <2>3, <2>5, Mapped DEF Queued, Shown, Mapping
    <2>7. Queue!Last(BufSize, q \o s) = q \o s
      <3>1. Len(q) + Len(s) <= BufSize  BY <1>2, <1>5
      <3> QED BY <1>2, <3>1, LastAll, Zenon
    <2>8. Queue!Force(s)  BY <1>1, <1>3, <2>6, <2>7, Zenon DEF Queue!Force, BufSize
    <2> QED BY <1>2, <2>4, <2>8, Zenon DEF QueueStep, Queue!Next, BufSize
  <1>6. CASE l = BufSize
    <2>1. PICK x, y, e : x = write.index /\ y = Wrap(x + 1) /\ e = write'  OBVIOUS
    <2>2. /\ read.index = x /\ read.mirror # write.mirror /\ x \in Index /\ x \in 0 .. BufSize - 1
          /\ write \in End /\ read.mirror \in {0, 1} /\ write.mirror \in {0, 1}
          /\ buffer \in [Index -> Bytes] /\ buffer' = Stored(s) /\ e = Advance(write, 1)
      BY <1>1, <1>2, <1>3, <1>4, <1>6, <2>1 DEF Full, RingInv, Ends, End, Index, BufSize, store
    <2>3. e \in End /\ e.index = y /\ e.mirror = IF x + 1 < BufSize THEN write.mirror ELSE 1 - write.mirror
      <3>1. 1 \in 0 .. BufSize  BY <1>2
      <3> QED BY <2>1, <2>2, <3>1, AdvanceIs
    <2>4. y = (IF x + 1 < BufSize THEN x + 1 ELSE 0) /\ y \in 0 .. BufSize - 1
      BY <1>2, <2>1, <2>2 DEF Wrap
    <2>5. read' = [mirror |-> IF y = 0 THEN 1 - read.mirror ELSE read.mirror, index |-> y]
      BY <1>4, <1>6, <2>1, <2>3 DEF rt_ringbuffer_putchar_force
    <2>6. read' \in End /\ read'.index = y /\ read'.mirror # e.mirror
      BY <1>2, <2>2, <2>3, <2>4, <2>5 DEF End, Index, BufSize
    <2>7. /\ buffer' \in [Index -> Bytes] /\ buffer'[Wrap(x + 1 - 1)] = ch
          /\ \A i \in 2 .. BufSize : buffer'[Wrap(x + i - 1)] = buffer[Wrap(x + i - 1)]
      <3>1. /\ Stored(s) \in [Index -> Bytes]
            /\ \A i \in 1 .. Len(s) : Stored(s)[Wrap(x + i - 1)] = s[i]
            /\ \A i \in Len(s) + 1 .. BufSize : Stored(s)[Wrap(x + i - 1)] = buffer[Wrap(x + i - 1)]
        <4>1. /\ x \in Index /\ x = write.index /\ s \in Seq(Bytes) /\ Len(s) <= BufSize
              /\ buffer \in [Index -> Bytes]
          BY <1>2, <2>1, <2>2
        <4> QED BY ONLY <4>1, StoredIs, Zenon
      <3>2. 1 \in 1 .. Len(s) /\ Len(s) + 1 = 2  BY <1>2
      <3> QED BY <1>2, <2>2, <3>1, <3>2
    <2>8. RingInv'  BY <1>2, <1>3, <2>1, <2>3, <2>4, <2>6, <2>7 DEF RingInv, Ends
    <2>9. PICK p : p = Queue!Last(BufSize, q \o s)  OBVIOUS
    <2>10. /\ p \in Seq(Bytes) /\ Len(p) = BufSize
           /\ \A i \in 1 .. BufSize : p[i] = IF i < BufSize THEN q[i + 1] ELSE ch
      <3>1. /\ q \in Seq(Bytes) /\ s \in Seq(Bytes) /\ BufSize \in Nat /\ BufSize > 0
            /\ Len(q) = BufSize /\ Len(s) = 1 /\ s[1] = ch
        BY <1>2, <1>6
      <3>2. /\ p \in Seq(Bytes) /\ Len(p) = BufSize
            /\ \A i \in 1 .. BufSize : p[i] = IF i < BufSize THEN q[i + 1] ELSE s[1]
        BY ONLY <3>1, <2>9, LastNewest
      <3> QED BY ONLY <3>1, <3>2
    <2>11. \A i \in 1 .. BufSize : q[i] = buffer[Wrap(x + i - 1)]
      <3>1. q = Bytes_(buffer, x, BufSize)  BY <1>1, <1>2, <1>6, <2>2, StretchIs
      <3>2. BufSize \in 0 .. BufSize  BY <1>2
      <3> QED BY <2>2, <3>1, <3>2, QueueSeq, Zenon
    <2>12. ASSUME NEW i \in 1 .. BufSize PROVE buffer'[Wrap(y + i - 1)] = p[i]
      <3>1. CASE i < BufSize
        <4>1. PICK j : j = i + 1  OBVIOUS
        <4>2. j \in 2 .. BufSize /\ j \in 1 .. BufSize /\ Wrap(y + i - 1) = Wrap(x + j - 1)
          BY <1>2, <2>2, <2>4, <2>12, <3>1, <4>1 DEF Wrap
        <4> QED BY <2>7, <2>10, <2>11, <3>1, <4>1, <4>2
      <3>2. CASE ~(i < BufSize)
        <4>1. Wrap(y + i - 1) = Wrap(x + 1 - 1)
          BY <1>2, <2>2, <2>4, <2>12, <3>2 DEF Wrap
        <4> QED BY <2>7, <2>10, <3>2, <4>1
      <3> QED BY <3>1, <3>2
    <2>13. Stretch(data_len)' = p  BY <2>1, <2>3, <2>6, <2>8, <2>10, <2>12, Whole
    <2>14. Queue!Force(s)  BY <1>1, <1>3, <2>9, <2>13 DEF Queue!Force, BufSize
    <2> QED BY <1>2, <2>8, <2>14 DEF QueueStep, Queue!Next, BufSize
  <1> QED BY <1>5, <1>6

\* The ring buffer at the start, and a step of it
LEMMA RingStarts ==
    ASSUME RingInit
    PROVE  RingInv /\ Queue!Init
  <1>1. RingInv  BY BufferSize DEF RingInit, RingInv, Ends, End, Index, BufSize
  <1>2. data_len = 0  BY DEF RingInit, data_len, Full
  <1>3. Stretch(data_len) = << >>  BY <1>2 DEF Stretch
  <1> QED BY <1>1, <1>3 DEF Queue!Init, RingInit

\* Every call keeps the ends together, and is a step of the queue unless a block
\* is forced in that does not fit.
LEMMA RingSteps ==
    ASSUME RingInv, RingNext
    PROVE  RingInv' /\ (Forced = {} => QueueStep)
  <1>1. BufSize = buffer_size /\ 1 \in 0 .. BufSize + 1  BY BufferSize DEF BufSize
  <1>2. ASSUME NEW n \in 0 .. BufSize + 1, NEW s \in [1 .. n -> Bytes], rt_ringbuffer_put(s)
        PROVE  RingInv' /\ QueueStep
    BY <1>2, PutStep
  <1>3. ASSUME NEW n \in 0 .. BufSize + 1, NEW s \in [1 .. n -> Bytes],
               ForceAllowed(s) /\ rt_ringbuffer_put_force(s)
        PROVE  RingInv' /\ (Forced = {} => QueueStep)
    BY <1>3, ForceStep
  <1>4. ASSUME NEW n \in 0 .. BufSize + 1, rt_ringbuffer_get(n) PROVE RingInv' /\ QueueStep
    BY <1>4, GetStep
  <1>5. ASSUME NEW ch \in Bytes, rt_ringbuffer_putchar(ch) PROVE RingInv' /\ QueueStep
    <2>1. PICK s : s = <<ch>>  BY Zenon
    <2>2. s \in [1 .. 1 -> Bytes] /\ s[1] = ch  BY <2>1
    <2> QED BY <1>1, <1>5, <2>2, PutStep, Zenon
  <1>6. ASSUME NEW ch \in Bytes, rt_ringbuffer_putchar_force(ch) PROVE RingInv' /\ QueueStep
    BY <1>6, ForceCharStep
  <1>7. ASSUME rt_ringbuffer_getchar PROVE RingInv' /\ QueueStep  BY <1>1, <1>7, GetStep
  <1> QED BY <1>1, <1>2, <1>3, <1>4, <1>5, <1>6, <1>7 DEF RingNext

-----------------------------------------------------------------------------
(* The heap of mem.c *)

\* The headers tile the heap; free blocks may be neighbours.
Chain(h) ==
    /\ DOMAIN h \subseteq 0 .. heap_end /\ {0, heap_end} \subseteq DOMAIN h
    /\ h[heap_end].used /\ h[0].prev = 0
    /\ \A m \in DOMAIN h :
          /\ h[m] \in Header
          /\ m # heap_end =>
                /\ h[m].next \in DOMAIN h /\ m + SIZEOF_STRUCT_MEM <= h[m].next
                /\ (h[m].next # heap_end => h[h[m].next].prev = m)
                /\ \A i \in DOMAIN h : i <= m \/ h[m].next <= i
          /\ (m # 0 /\ m # heap_end => h[m].prev \in DOMAIN h /\ h[h[m].prev].next = m)

\* No two free blocks are neighbours, except perhaps one of X and the next.
Apart(h, X) ==
    \A i \in DOMAIN h : i = heap_end \/ i \in X \/ h[i].used \/ h[h[i].next].used

\* A search may start at l.
Starts(h, l) == l \in DOMAIN h /\ (~h[l].used \/ l = heap_end)

\* A used block begins at m.
UsedAt(h, m) == m \in DOMAIN h /\ h[m].used

\* The same used blocks, except the one at m
SameBut(h, g, m) ==
    \A i \in 0 .. heap_end :
        i # m => /\ UsedAt(h, i) <=> UsedAt(g, i)
                 /\ UsedAt(h, i) => h[i].next = g[i].next

\* The same used blocks
SameUsed(h, g) ==
    \A i \in 0 .. heap_end :
        /\ UsedAt(h, i) <=> UsedAt(g, i)
        /\ UsedAt(h, i) => h[i].next = g[i].next

\* The words of each block, and of each used one
Room(h) ==
    [m \in 0 .. heap_end |-> IF m \in DOMAIN h /\ m # heap_end THEN h[m].next - m ELSE 0]
Taken(h) ==
    [m \in 0 .. heap_end |-> IF UsedAt(h, m) /\ m # heap_end THEN h[m].next - m ELSE 0]

\* The heap in words
LEMMA HeapEnd ==
    /\ heap_end \in Nat /\ SIZEOF_STRUCT_MEM \in Nat /\ SIZEOF_STRUCT_MEM > 0
    /\ MIN_SIZE_ALIGNED \in Nat /\ MIN_SIZE_ALIGNED > 0 /\ mem_size_aligned \in Nat
    /\ heap_end = mem_size_aligned + SIZEOF_STRUCT_MEM
    /\ 0 \in 0 .. heap_end /\ heap_end \in 0 .. heap_end /\ heap_end > 0
    /\ mem_size_aligned >= MIN_SIZE_ALIGNED
    /\ IsFiniteSet(0 .. heap_end)
  <1>1. heap_end \in Nat  BY HeapAssumption DEF heap_end
  <1>2. IsFiniteSet(0 .. heap_end)  BY <1>1, FS_Interval
  <1> QED BY <1>1, <1>2, HeapAssumption DEF heap_end

\* A block of a chain and the next one
LEMMA ChainAt ==
    ASSUME NEW h, NEW m, Chain(h), m \in DOMAIN h, m # heap_end
    PROVE  /\ m \in 0 .. heap_end /\ h[m].next \in 0 .. heap_end /\ h[m].next \in DOMAIN h
           /\ m + SIZEOF_STRUCT_MEM <= h[m].next /\ m < h[m].next
           /\ (h[m].next # heap_end => h[h[m].next].prev = m)
           /\ \A i \in DOMAIN h : i <= m \/ h[m].next <= i
  <1>1. m \in 0 .. heap_end /\ h[m].next \in DOMAIN h /\ DOMAIN h \subseteq 0 .. heap_end
    BY DEF Chain
  <1>2. m + SIZEOF_STRUCT_MEM <= h[m].next  BY DEF Chain
  <1>3. m < h[m].next  BY <1>1, <1>2, HeapEnd
  <1> QED BY <1>1, <1>2, <1>3 DEF Chain

\* What merge leaves of h
Merged(h, g, m, n) ==
    /\ DOMAIN g = DOMAIN h \ {n}
    /\ \A i \in DOMAIN g :
          /\ g[i] \in Header /\ g[i].used = h[i].used
          /\ g[i].next = IF i = m THEN h[n].next ELSE h[i].next
          /\ g[i].prev = IF i = h[n].next THEN m ELSE h[i].prev

\* Block n follows m.
FollowsIn(h, m, n) == Chain(h) /\ m \in DOMAIN h /\ m # heap_end /\ n = h[m].next /\ n # heap_end

\* A block that follows another one
LEMMA FollowsAt ==
    ASSUME NEW h, NEW m, NEW n, FollowsIn(h, m, n)
    PROVE  /\ n \in DOMAIN h /\ h[n].next \in DOMAIN h
           /\ {m, n, h[n].next} \subseteq 0 .. heap_end
           /\ m < n /\ n < h[n].next /\ m + SIZEOF_STRUCT_MEM <= n /\ h[n].prev = m
           /\ h[m] \in Header /\ h[n] \in Header /\ h[h[n].next] \in Header
  <1>1. n \in DOMAIN h  BY ChainAt DEF FollowsIn
  <1>2. h[n].next \in DOMAIN h /\ n < h[n].next /\ h[n].next \in 0 .. heap_end /\ n \in 0 .. heap_end
    BY <1>1, ChainAt DEF FollowsIn
  <1>3. m < n /\ m + SIZEOF_STRUCT_MEM <= n /\ h[n].prev = m /\ m \in 0 .. heap_end
    BY ChainAt DEF FollowsIn
  <1>4. \A i \in DOMAIN h : h[i] \in Header  BY DEF FollowsIn, Chain
  <1> QED BY <1>1, <1>2, <1>3, <1>4 DEF FollowsIn

\* merge
LEMMA MergeIs ==
    ASSUME NEW r, NEW h, NEW m, NEW n, h = r.heap, FollowsIn(h, m, n)
    PROVE  /\ Merged(h, merge(r, m, n).heap, m, n)
           /\ merge(r, m, n).lfree = IF r.lfree = n THEN m ELSE r.lfree
  <1>1. PICK e : e = h[n].next  OBVIOUS
  <1>2. /\ n \in DOMAIN h /\ e \in DOMAIN h /\ m \in 0 .. heap_end /\ e \in 0 .. heap_end /\ n \in 0 .. heap_end
        /\ m < n /\ n < e /\ m \in DOMAIN h
    BY <1>1, FollowsAt DEF FollowsIn
  <1>3. m # n /\ n # e /\ m # e  BY ONLY <1>2, HeapEnd
  <1>4. PICK g : g = merge(r, m, n).heap  OBVIOUS
  <1>5. PICK k : k = [i \in DOMAIN h \ {n} |-> h[i]]  BY Zenon
  <1>6. PICK k1 : k1 = [k EXCEPT ![m].next = e]  BY Zenon
  <1>7. g = [k1 EXCEPT ![e].prev = m]  BY <1>1, <1>4, <1>5, <1>6 DEF merge
  <1>8. DOMAIN g = DOMAIN h \ {n} /\ DOMAIN k1 = DOMAIN h \ {n}  BY <1>5, <1>6, <1>7
  <1>9. \A i \in DOMAIN g : h[i] \in Header  BY <1>8 DEF FollowsIn, Chain
  <1>10. k1[m] = [used |-> h[m].used, next |-> e, prev |-> h[m].prev]
    BY <1>2, <1>3, <1>5, <1>6, <1>8, <1>9, Zenon DEF Header
  <1>11. g[e] = [used |-> h[e].used, next |-> h[e].next, prev |-> m]
    BY <1>2, <1>3, <1>5, <1>6, <1>7, <1>8, <1>9, Zenon DEF Header
  <1>12. g[m] = k1[m]  BY <1>2, <1>3, <1>7, <1>8
  <1>13. ASSUME NEW i \in DOMAIN g
         PROVE  /\ g[i] \in Header /\ g[i].used = h[i].used
                /\ g[i].next = IF i = m THEN h[n].next ELSE h[i].next
                /\ g[i].prev = IF i = h[n].next THEN m ELSE h[i].prev
    <2>1. CASE i = m  BY <1>1, <1>2, <1>3, <1>9, <1>10, <1>12, <2>1 DEF Header
    <2>2. CASE i = e  BY <1>1, <1>2, <1>3, <1>9, <1>11, <2>2 DEF Header
    <2>3. CASE i # m /\ i # e
      <3>1. g[i] = h[i]  BY <1>5, <1>6, <1>7, <1>8, <2>3
      <3> QED BY <1>1, <1>9, <2>3, <3>1
    <2> QED BY <2>1, <2>2, <2>3
  <1>14. Merged(h, g, m, n)  BY <1>8, <1>13 DEF Merged
  <1> QED BY <1>4, <1>14 DEF merge

\* A chain stays one.
LEMMA MergeChain ==
    ASSUME NEW h, NEW g, NEW m, NEW n, FollowsIn(h, m, n), Merged(h, g, m, n)
    PROVE  Chain(g)
  <1>1. PICK e : e = h[n].next  OBVIOUS
  <1>2. /\ n \in DOMAIN h /\ e \in DOMAIN h /\ m \in 0 .. heap_end /\ e \in 0 .. heap_end /\ n \in 0 .. heap_end
        /\ m < n /\ n < e /\ m \in DOMAIN h /\ m + SIZEOF_STRUCT_MEM <= n
        /\ n = h[m].next /\ n # heap_end /\ m # heap_end /\ h[n].prev = m
    BY <1>1, FollowsAt DEF FollowsIn
  <1>3. /\ DOMAIN g = DOMAIN h \ {n} /\ DOMAIN g \subseteq 0 .. heap_end
        /\ \A i \in DOMAIN g : g[i] \in Header /\ g[i].used = h[i].used
    BY DEF Merged, FollowsIn, Chain
  <1>4. n # 0 /\ e # 0  BY <1>2, HeapEnd
  <1>5. 0 \in DOMAIN g /\ heap_end \in DOMAIN g /\ g[heap_end].used /\ g[0].prev = 0
    <2>1. 0 \in DOMAIN h /\ heap_end \in DOMAIN h /\ h[heap_end].used /\ h[0].prev = 0
      BY DEF FollowsIn, Chain
    <2>2. 0 \in DOMAIN g /\ heap_end \in DOMAIN g  BY <1>2, <1>3, <1>4, <2>1
    <2> QED BY <1>1, <1>3, <1>4, <2>1, <2>2 DEF Merged
  <1>6. \A i \in DOMAIN g : /\ g[i].next = IF i = m THEN e ELSE h[i].next
                            /\ g[i].prev = IF i = e THEN m ELSE h[i].prev
    BY <1>1 DEF Merged
  <1>7. \A i \in DOMAIN h : i # heap_end =>
           /\ h[i].next \in DOMAIN h /\ i + SIZEOF_STRUCT_MEM <= h[i].next
           /\ (h[i].next # heap_end => h[h[i].next].prev = i)
           /\ \A j \in DOMAIN h : j <= i \/ h[i].next <= j
    BY DEF FollowsIn, Chain
  <1>8. \A i \in DOMAIN h : i # 0 /\ i # heap_end => h[i].prev \in DOMAIN h /\ h[h[i].prev].next = i
    BY DEF FollowsIn, Chain
  <1>9. ASSUME NEW i \in DOMAIN g, i # heap_end
        PROVE  /\ g[i].next \in DOMAIN g /\ i + SIZEOF_STRUCT_MEM <= g[i].next
               /\ (g[i].next # heap_end => g[g[i].next].prev = i)
               /\ \A j \in DOMAIN g : j <= i \/ g[i].next <= j
    <2>1. CASE i = m
      <3>1. g[i].next = e /\ e \in DOMAIN g /\ g[e].prev = m  BY <1>2, <1>3, <1>6, <2>1
      <3>2. i + SIZEOF_STRUCT_MEM <= e  BY <1>2, <2>1, HeapEnd
      <3>3. ASSUME NEW j \in DOMAIN g PROVE j <= i \/ e <= j
        <4>1. j \in DOMAIN h /\ j # n /\ j \in 0 .. heap_end  BY <1>3
        <4>2. (j <= m \/ n <= j) /\ (j <= n \/ e <= j)  BY <1>1, <1>2, <1>7, <4>1
        <4> QED BY <1>2, <2>1, <4>1, <4>2
      <3> QED BY <2>1, <3>1, <3>2, <3>3
    <2>2. CASE i # m
      <3>1. PICK k : k = h[i].next  OBVIOUS
      <3>2. i \in DOMAIN h /\ i # n /\ g[i].next = k  BY <1>3, <1>6, <2>2, <3>1
      <3>3. /\ k \in DOMAIN h /\ i + SIZEOF_STRUCT_MEM <= k
            /\ (k # heap_end => h[k].prev = i)
            /\ \A j \in DOMAIN h : j <= i \/ k <= j
        BY <1>7, <1>9, <3>1, <3>2
      <3>4. k # n  BY <1>2, <2>2, <3>3
      <3>5. k \in DOMAIN g  BY <1>3, <3>3, <3>4
      <3>6. e # heap_end => h[e].prev = n  BY <1>1, <1>2, <1>7
      <3>7. k # heap_end => g[k].prev = i  BY <1>6, <3>2, <3>3, <3>5, <3>6
      <3> QED BY <1>3, <3>2, <3>3, <3>5, <3>7
    <2> QED BY <2>1, <2>2
  <1>10. ASSUME NEW i \in DOMAIN g, i # 0, i # heap_end
         PROVE  g[i].prev \in DOMAIN g /\ g[g[i].prev].next = i
    <2>1. CASE i = e
      <3>1. g[i].prev = m /\ m \in DOMAIN g /\ g[m].next = e  BY <1>2, <1>3, <1>6, <2>1
      <3> QED BY <2>1, <3>1
    <2>2. CASE i # e
      <3>1. PICK p : p = h[i].prev  OBVIOUS
      <3>2. i \in DOMAIN h /\ i # n /\ g[i].prev = p  BY <1>3, <1>6, <2>2, <3>1
      <3>3. p \in DOMAIN h /\ h[p].next = i  BY <1>8, <1>10, <3>1, <3>2
      <3>4. p # n /\ p # m  BY <1>1, <1>2, <2>2, <3>2, <3>3
      <3>5. p \in DOMAIN g /\ g[p].next = i  BY <1>3, <1>6, <3>3, <3>4
      <3> QED BY <3>2, <3>5
    <2> QED BY <2>1, <2>2
  <1> QED BY <1>3, <1>5, <1>9, <1>10 DEF Chain

\* The room of a block is an integer, and what is taken is no more.
LEMMA RoomInt ==
    ASSUME NEW h, Chain(h)
    PROVE  /\ \A i \in 0 .. heap_end : /\ Room(h)[i] \in Nat /\ Taken(h)[i] \in Nat
                                       /\ Room(h)[i] \in Int /\ Taken(h)[i] \in Int
                                       /\ Taken(h)[i] <= Room(h)[i]
           /\ Total(Room(h), 0 .. heap_end) \in Int /\ Total(Taken(h), 0 .. heap_end) \in Int
  <1>1. ASSUME NEW i \in 0 .. heap_end
        PROVE  Room(h)[i] \in Nat /\ Taken(h)[i] \in Nat /\ Taken(h)[i] <= Room(h)[i]
    <2>1. CASE i \in DOMAIN h /\ i # heap_end
      <3>1. PICK k : k = h[i].next  OBVIOUS
      <3>2. k \in 0 .. heap_end /\ i < k  BY <2>1, <3>1, ChainAt
      <3>3. k - i \in Nat /\ 0 <= k - i /\ k - i <= k - i
        BY ONLY <3>2, i \in 0 .. heap_end, HeapEnd
      <3>4. Room(h)[i] = k - i  BY <2>1, <3>1 DEF Room
      <3>5. Taken(h)[i] = k - i \/ Taken(h)[i] = 0  BY <2>1, <3>1 DEF Taken
      <3> QED BY ONLY <3>3, <3>4, <3>5
    <2>2. CASE ~(i \in DOMAIN h /\ i # heap_end)
      <3>1. Room(h)[i] = 0 /\ Taken(h)[i] = 0  BY <2>2 DEF Room, Taken, UsedAt
      <3> QED BY ONLY <3>1
    <2> QED BY <2>1, <2>2
  <1>2. \A i \in 0 .. heap_end : Room(h)[i] \in Int  BY ONLY <1>1
  <1>3. \A i \in 0 .. heap_end : Taken(h)[i] \in Int  BY ONLY <1>1
  <1>4. IsFiniteSet(0 .. heap_end) /\ 0 .. heap_end \in SUBSET (0 .. heap_end) /\ Int \in {Int, Nat}
    BY HeapEnd
  <1>5. Total(Room(h), 0 .. heap_end) \in Int  BY <1>2, <1>4, TotalInt, Zenon
  <1>6. Total(Taken(h), 0 .. heap_end) \in Int  BY <1>3, <1>4, TotalInt, Zenon
  <1> QED BY ONLY <1>1, <1>2, <1>3, <1>5, <1>6

\* merge keeps the room of the heap and, of free blocks, the used blocks.
LEMMA MergeKeeps ==
    ASSUME NEW h, NEW g, NEW m, NEW n, FollowsIn(h, m, n), Merged(h, g, m, n)
    PROVE  /\ Total(Room(g), 0 .. heap_end) = Total(Room(h), 0 .. heap_end)
           /\ (~h[m].used /\ ~h[n].used => SameUsed(h, g))
  <1>1. PICK e : e = h[n].next  OBVIOUS
  <1>2. /\ n \in DOMAIN h /\ e \in DOMAIN h /\ m \in 0 .. heap_end /\ e \in 0 .. heap_end /\ n \in 0 .. heap_end
        /\ m < n /\ n < e /\ m \in DOMAIN h
        /\ n = h[m].next /\ n # heap_end /\ m # heap_end
    BY <1>1, FollowsAt DEF FollowsIn
  <1>3. m # n  BY ONLY <1>2, HeapEnd
  <1>4. DOMAIN g = DOMAIN h \ {n} /\ \A i \in DOMAIN g : /\ g[i].used = h[i].used
                                                       /\ g[i].next = IF i = m THEN e ELSE h[i].next
    BY <1>1 DEF Merged
  <1>5. Chain(g) /\ Chain(h)  BY MergeChain DEF FollowsIn
  <1>6. PICK f, k : f = Room(h) /\ k = Room(g)  OBVIOUS
  <1>7. \A i \in 0 .. heap_end : f[i] \in Int /\ k[i] \in Int
    BY ONLY <1>5, <1>6, RoomInt
  <1>8. f[m] = n - m /\ f[n] = e - n  BY <1>1, <1>2, <1>6 DEF Room
  <1>9. k[m] = e - m /\ k[n] = 0  BY <1>2, <1>3, <1>4, <1>6 DEF Room
  <1>10. \A i \in 0 .. heap_end : i # m /\ i # n => k[i] = f[i]  BY <1>4, <1>6 DEF Room
  <1>11. IsFiniteSet(0 .. heap_end) /\ m \in 0 .. heap_end /\ n \in 0 .. heap_end
    BY <1>2, HeapEnd
  <1>12. /\ Total(f, 0 .. heap_end) \in Int /\ Total(k, 0 .. heap_end) \in Int
         /\ Total(k, 0 .. heap_end) = Total(f, 0 .. heap_end) - f[m] - f[n] + k[m] + k[n]
    <2>1. PICK S : S = 0 .. heap_end  OBVIOUS
    <2>2. IsFiniteSet(S) /\ m \in S /\ n \in S /\ m # n /\ DifferAtBoth(f, k, S, m, n)
      BY <1>3, <1>7, <1>10, <1>11, <2>1 DEF DifferAtBoth
    <2>3. /\ Total(f, S) \in Int /\ Total(k, S) \in Int
          /\ Total(k, S) = Total(f, S) - f[m] - f[n] + k[m] + k[n]
      BY ONLY <2>2, TotalChanges
    <2> QED BY ONLY <2>1, <2>3
  <1>13. m \in Int /\ n \in Int /\ e \in Int  BY <1>2, HeapEnd
  <1>14. Total(k, 0 .. heap_end) = Total(f, 0 .. heap_end)
    BY ONLY <1>8, <1>9, <1>12, <1>13
  <1>15. ~h[m].used /\ ~h[n].used => SameUsed(h, g)  BY <1>4 DEF SameUsed, UsedAt
  <1> QED BY <1>6, <1>14, <1>15

\* merge keeps blocks apart: what was two free neighbours is one free block.
LEMMA MergeApart ==
    ASSUME NEW h, NEW g, NEW m, NEW n, NEW X, FollowsIn(h, m, n), Merged(h, g, m, n),
           Apart(h, X \cup {m}), n \notin X, ~h[n].used
    PROVE  Apart(g, X) /\ g[g[m].next].used
  <1>1. PICK e : e = h[n].next  OBVIOUS
  <1>2. /\ n \in DOMAIN h /\ e \in DOMAIN h /\ m \in 0 .. heap_end /\ e \in 0 .. heap_end /\ n \in 0 .. heap_end
        /\ m < n /\ n < e /\ m \in DOMAIN h /\ h[n].prev = m
        /\ n = h[m].next /\ n # heap_end /\ m # heap_end
    BY <1>1, FollowsAt DEF FollowsIn
  <1>3. m # n /\ e # n  BY ONLY <1>2, HeapEnd
  <1>4. DOMAIN g = DOMAIN h \ {n} /\ \A i \in DOMAIN g : /\ g[i].used = h[i].used
                                                       /\ g[i].next = IF i = m THEN e ELSE h[i].next
    BY <1>1 DEF Merged
  <1>5. h[e].used  BY <1>1, <1>2, <1>3 DEF Apart
  <1>6. e \in DOMAIN g /\ m \in DOMAIN g  BY <1>2, <1>3, <1>4
  <1>7. g[m].next = e /\ g[e].used  BY <1>4, <1>5, <1>6
  <1>8. ASSUME NEW i \in DOMAIN g, i # heap_end, i \notin X, ~g[i].used, i # m
        PROVE  g[g[i].next].used
    <2>1. PICK k : k = h[i].next  OBVIOUS
    <2>2. i \in DOMAIN h /\ ~h[i].used /\ g[i].next = k /\ Chain(h)
      BY <1>4, <1>8, <2>1 DEF FollowsIn
    <2>3. h[k].used /\ k \in DOMAIN h  BY <1>8, <2>1, <2>2, ChainAt DEF Apart
    <2>4. k # n  BY <2>3
    <2>5. k \in DOMAIN g  BY <1>4, <2>3, <2>4
    <2> QED BY <1>4, <2>2, <2>3, <2>5
  <1> QED BY <1>7, <1>8 DEF Apart

\* What split makes of h
Divided(h, g, m, n) ==
    /\ DOMAIN g = DOMAIN h \cup {n}
    /\ g[n] = [used |-> FALSE, next |-> h[m].next, prev |-> m]
    /\ \A i \in DOMAIN h :
          /\ g[i] \in Header /\ g[i].used = h[i].used
          /\ g[i].next = IF i = m THEN n ELSE h[i].next
          /\ g[i].prev = IF i = h[m].next /\ i # heap_end THEN n ELSE h[i].prev

\* A header fits at n into block m.
FitsIn(h, m, n) ==
    /\ Chain(h) /\ m \in DOMAIN h /\ m # heap_end /\ n \in Nat
    /\ m + SIZEOF_STRUCT_MEM <= n /\ n + SIZEOF_STRUCT_MEM <= h[m].next

\* There is none yet.
LEMMA FitsInAt ==
    ASSUME NEW h, NEW m, NEW n, FitsIn(h, m, n)
    PROVE  /\ n \notin DOMAIN h /\ n \in 0 .. heap_end /\ m < n /\ n < h[m].next
           /\ m \in 0 .. heap_end /\ h[m].next \in 0 .. heap_end /\ h[m].next \in DOMAIN h
           /\ h[m] \in Header /\ h[h[m].next] \in Header
  <1>1. PICK e : e = h[m].next  OBVIOUS
  <1>2. m \in 0 .. heap_end /\ e \in 0 .. heap_end /\ e \in DOMAIN h /\ \A i \in DOMAIN h : i <= m \/ e <= i
    BY <1>1, ChainAt DEF FitsIn
  <1>3. n \in Nat /\ m + SIZEOF_STRUCT_MEM <= n /\ n + SIZEOF_STRUCT_MEM <= e
    BY <1>1 DEF FitsIn
  <1>4. m < n /\ n < e /\ n \in 0 .. heap_end  BY ONLY <1>2, <1>3, HeapEnd
  <1>5. ~(n <= m) /\ ~(e <= n)  BY ONLY <1>2, <1>4, HeapEnd
  <1>6. n \notin DOMAIN h  BY <1>2, <1>5
  <1>7. \A i \in DOMAIN h : h[i] \in Header  BY DEF FitsIn, Chain
  <1> QED BY <1>1, <1>2, <1>4, <1>6, <1>7 DEF FitsIn

\* split
LEMMA SplitIs ==
    ASSUME NEW h, NEW m, NEW n, FitsIn(h, m, n)
    PROVE  Divided(h, split(h, m, n), m, n)
  <1>1. PICK e : e = h[m].next  OBVIOUS
  <1>2. /\ n \notin DOMAIN h /\ n \in 0 .. heap_end /\ m < n /\ n < e /\ e \in DOMAIN h /\ m \in DOMAIN h
        /\ m \in 0 .. heap_end /\ e \in 0 .. heap_end
    BY <1>1, FitsInAt DEF FitsIn
  <1>3. m # n /\ n # e /\ m # e  BY ONLY <1>2, HeapEnd
  <1>4. \A i \in DOMAIN h : h[i] \in Header  BY DEF FitsIn, Chain
  <1>5. PICK b : b = [used |-> FALSE, next |-> e, prev |-> m]  BY Zenon
  <1>6. PICK k : k = [h EXCEPT ![m].next = n]  BY Zenon
  <1>7. PICK h2 : h2 = [i \in DOMAIN h \cup {n} |-> IF i = n THEN b ELSE k[i]]  BY Zenon
  <1>8. PICK g : g = split(h, m, n)  OBVIOUS
  <1>9. g = IF e # heap_end THEN [h2 EXCEPT ![e].prev = n] ELSE h2
    BY <1>1, <1>5, <1>6, <1>7, <1>8 DEF split
  <1>10. DOMAIN k = DOMAIN h /\ k[m] = [used |-> h[m].used, next |-> n, prev |-> h[m].prev]
         /\ \A i \in DOMAIN h : i # m => k[i] = h[i]
    BY <1>2, <1>4, <1>6 DEF Header
  <1>11. DOMAIN h2 = DOMAIN h \cup {n} /\ h2[n] = b /\ \A i \in DOMAIN h : h2[i] = k[i]
    BY <1>2, <1>7, <1>10
  <1>12. DOMAIN g = DOMAIN h \cup {n} /\ g[n] = b /\ \A i \in DOMAIN h : i # e => g[i] = k[i]
    BY <1>2, <1>3, <1>9, <1>11
  <1>13. e # heap_end => g[e] = [used |-> h[e].used, next |-> h[e].next, prev |-> n]
    BY <1>2, <1>3, <1>4, <1>9, <1>10, <1>11 DEF Header
  <1>14. e = heap_end => g[e] = h[e]  BY <1>2, <1>3, <1>9, <1>10, <1>11
  <1>15. ASSUME NEW i \in DOMAIN h
         PROVE  /\ g[i] \in Header /\ g[i].used = h[i].used
                /\ g[i].next = IF i = m THEN n ELSE h[i].next
                /\ g[i].prev = IF i = h[m].next /\ i # heap_end THEN n ELSE h[i].prev
    <2>1. CASE i = m  BY <1>1, <1>2, <1>3, <1>4, <1>10, <1>12, <2>1 DEF Header
    <2>2. CASE i = e  BY <1>1, <1>2, <1>3, <1>4, <1>13, <1>14, <2>2 DEF Header
    <2>3. CASE i # m /\ i # e
      <3>1. g[i] = h[i]  BY <1>10, <1>12, <2>3
      <3> QED BY <1>1, <1>4, <2>3, <3>1
    <2> QED BY <2>1, <2>2, <2>3
  <1> QED BY <1>1, <1>5, <1>8, <1>12, <1>15 DEF Divided

\* A chain stays one.
LEMMA SplitChain ==
    ASSUME NEW h, NEW g, NEW m, NEW n, FitsIn(h, m, n), Divided(h, g, m, n)
    PROVE  Chain(g)
  <1>1. PICK e : e = h[m].next  OBVIOUS
  <1>2. /\ n \notin DOMAIN h /\ n \in 0 .. heap_end /\ m < n /\ n < e /\ e \in DOMAIN h /\ m \in DOMAIN h
        /\ m \in 0 .. heap_end /\ e \in 0 .. heap_end /\ m # heap_end
        /\ m + SIZEOF_STRUCT_MEM <= n /\ n + SIZEOF_STRUCT_MEM <= e
    BY <1>1, FitsInAt, Zenon DEF FitsIn
  <1>3. m # n /\ n # e /\ m # e /\ n # 0 /\ n # heap_end /\ e # 0  BY ONLY <1>2, HeapEnd
  <1>4. /\ DOMAIN g = DOMAIN h \cup {n} /\ DOMAIN g \subseteq 0 .. heap_end
        /\ \A i \in DOMAIN h : g[i] \in Header /\ g[i].used = h[i].used
    BY <1>2 DEF Divided, FitsIn, Chain
  <1>5. g[n].next = e /\ g[n].prev = m /\ g[n] \in Header
    <2>1. g[n] = [used |-> FALSE, next |-> e, prev |-> m]  BY <1>1 DEF Divided
    <2>2. FALSE \in BOOLEAN  OBVIOUS
    <2> QED BY <1>2, <2>1, <2>2 DEF Header
  <1>6. \A i \in DOMAIN h : /\ g[i].next = IF i = m THEN n ELSE h[i].next
                            /\ g[i].prev = IF i = e /\ i # heap_end THEN n ELSE h[i].prev
    BY <1>1 DEF Divided
  <1>7. 0 \in DOMAIN g /\ heap_end \in DOMAIN g /\ g[heap_end].used /\ g[0].prev = 0
    <2>1. 0 \in DOMAIN h /\ heap_end \in DOMAIN h /\ h[heap_end].used /\ h[0].prev = 0
      BY DEF FitsIn, Chain
    <2> QED BY <1>3, <1>4, <1>6, <2>1
  <1>8. \A i \in DOMAIN h : i # heap_end =>
           /\ h[i].next \in DOMAIN h /\ i + SIZEOF_STRUCT_MEM <= h[i].next
           /\ (h[i].next # heap_end => h[h[i].next].prev = i)
           /\ \A j \in DOMAIN h : j <= i \/ h[i].next <= j
    BY DEF FitsIn, Chain
  <1>9. \A i \in DOMAIN h : i # 0 /\ i # heap_end => h[i].prev \in DOMAIN h /\ h[h[i].prev].next = i
    BY DEF FitsIn, Chain
  <1>10. \A j \in DOMAIN h : j \in 0 .. heap_end /\ (j <= m \/ e <= j)
    BY <1>1, <1>2, <1>4, <1>8
  <1>11. ASSUME NEW i \in DOMAIN g, i # heap_end
         PROVE  /\ g[i].next \in DOMAIN g /\ i + SIZEOF_STRUCT_MEM <= g[i].next
                /\ (g[i].next # heap_end => g[g[i].next].prev = i)
                /\ \A j \in DOMAIN g : j <= i \/ g[i].next <= j
    <2>1. CASE i = n
      <3>1. g[i].next = e /\ e \in DOMAIN g /\ (e # heap_end => g[e].prev = i)
        BY <1>2, <1>4, <1>5, <1>6, <2>1
      <3>2. ASSUME NEW j \in DOMAIN g PROVE j <= n \/ e <= j
        <4>1. CASE j = n  BY <1>2, <4>1, HeapEnd
        <4>2. CASE j # n
          <5>1. j \in 0 .. heap_end /\ (j <= m \/ e <= j)  BY <1>4, <1>10, <4>2
          <5> QED BY ONLY <1>2, <5>1, HeapEnd
        <4> QED BY <4>1, <4>2
      <3> QED BY <1>2, <2>1, <3>1, <3>2
    <2>2. CASE i = m
      <3>1. g[i].next = n /\ n \in DOMAIN g /\ g[n].prev = i
        BY <1>2, <1>4, <1>5, <1>6, <2>2
      <3>2. ASSUME NEW j \in DOMAIN g PROVE j <= m \/ n <= j
        <4>1. CASE j = n  BY <1>2, <4>1, HeapEnd
        <4>2. CASE j # n
          <5>1. j \in 0 .. heap_end /\ (j <= m \/ e <= j)  BY <1>4, <1>10, <4>2
          <5> QED BY ONLY <1>2, <5>1, HeapEnd
        <4> QED BY <4>1, <4>2
      <3> QED BY <1>2, <2>2, <3>1, <3>2
    <2>3. CASE i # m /\ i # n
      <3>1. PICK k : k = h[i].next  OBVIOUS
      <3>2. i \in DOMAIN h /\ g[i].next = k  BY <1>4, <1>6, <2>3, <3>1
      <3>3. /\ k \in DOMAIN h /\ i + SIZEOF_STRUCT_MEM <= k
            /\ (k # heap_end => h[k].prev = i)
            /\ \A j \in DOMAIN h : j <= i \/ k <= j
        BY <1>8, <1>11, <3>1, <3>2
      <3>4. e # heap_end => h[e].prev = m  BY <1>1, <1>2, <1>8
      <3>5. k # heap_end => g[k].prev = i  BY <1>6, <2>3, <3>2, <3>3, <3>4
      <3>6. n <= i \/ k <= n
        <4>1. (m <= i \/ k <= m) /\ (e <= i \/ k <= e) /\ i \in 0 .. heap_end /\ k \in 0 .. heap_end
          BY <1>2, <1>10, <3>2, <3>3
        <4>2. (i <= m \/ e <= i) /\ (k <= m \/ e <= k)  BY <1>10, <3>2, <3>3
        <4>3. k = e => i = m
          <5>1. k = e /\ e # heap_end => i = m  BY <3>3, <3>4
          <5>2. k = heap_end /\ e = heap_end => i = m
            <6>1. i < k /\ i \in Nat /\ m \in Nat /\ i # m /\ m < e /\ k \in Nat
              BY <1>2, <2>3, <3>2, <3>3, <4>1, HeapEnd
            <6>2. i < m \/ m < i  BY ONLY <6>1
            <6> QED BY ONLY <4>1, <4>2, <6>1, <6>2
          <5> QED BY <5>1, <5>2
        <4>4. k # e  BY <2>3, <4>3
        <4>5. i < k  BY <3>2, <3>3, <4>1, HeapEnd
        <4> QED BY ONLY <1>2, <4>1, <4>2, <4>4, <4>5, HeapEnd
      <3>7. \A j \in DOMAIN g : j <= i \/ k <= j  BY <1>4, <3>2, <3>3, <3>6
      <3> QED BY <1>4, <3>2, <3>3, <3>5, <3>7
    <2> QED BY <2>1, <2>2, <2>3
  <1>12. ASSUME NEW i \in DOMAIN g, i # 0, i # heap_end
         PROVE  g[i].prev \in DOMAIN g /\ g[g[i].prev].next = i
    <2>1. CASE i = n  BY <1>2, <1>4, <1>5, <1>6, <2>1
    <2>2. CASE i = e  BY <1>2, <1>3, <1>4, <1>5, <1>6, <1>12, <2>2
    <2>3. CASE i # n /\ i # e
      <3>1. PICK p : p = h[i].prev  OBVIOUS
      <3>2. i \in DOMAIN h /\ g[i].prev = p  BY <1>4, <1>6, <2>3, <3>1
      <3>3. p \in DOMAIN h /\ h[p].next = i  BY <1>9, <1>12, <3>1, <3>2
      <3>4. p # m  BY <1>1, <2>3, <3>3
      <3> QED BY <1>4, <1>6, <3>2, <3>3, <3>4
    <2> QED BY <2>1, <2>2, <2>3
  <1>13. \A i \in DOMAIN g : g[i] \in Header  BY <1>4, <1>5
  <1> QED BY <1>4, <1>7, <1>11, <1>12, <1>13 DEF Chain

\* split keeps the room of the heap, and the used blocks except the one it cuts.
LEMMA SplitKeeps ==
    ASSUME NEW h, NEW g, NEW m, NEW n, FitsIn(h, m, n), Divided(h, g, m, n)
    PROVE  /\ Total(Room(g), 0 .. heap_end) = Total(Room(h), 0 .. heap_end)
           /\ SameBut(h, g, m)
  <1>1. PICK e : e = h[m].next  OBVIOUS
  <1>2. /\ n \notin DOMAIN h /\ n \in 0 .. heap_end /\ m < n /\ n < e /\ e \in DOMAIN h /\ m \in DOMAIN h
        /\ m \in 0 .. heap_end /\ e \in 0 .. heap_end /\ m # heap_end
    BY <1>1, FitsInAt, Zenon DEF FitsIn
  <1>3. m # n /\ n # heap_end  BY ONLY <1>2, HeapEnd
  <1>4. /\ DOMAIN g = DOMAIN h \cup {n} /\ g[n].next = e /\ ~g[n].used
        /\ \A i \in DOMAIN h : g[i].used = h[i].used /\ g[i].next = IF i = m THEN n ELSE h[i].next
    BY <1>1 DEF Divided
  <1>5. Chain(g) /\ Chain(h)  BY SplitChain DEF FitsIn
  <1>6. PICK f, k, S : f = Room(h) /\ k = Room(g) /\ S = 0 .. heap_end  OBVIOUS
  <1>7. \A i \in S : f[i] \in Int /\ k[i] \in Int  BY ONLY <1>5, <1>6, RoomInt
  <1>8. f[m] = e - m /\ f[n] = 0  BY <1>1, <1>2, <1>6 DEF Room
  <1>9. k[m] = n - m /\ k[n] = e - n  BY <1>2, <1>3, <1>4, <1>6 DEF Room
  <1>10. \A i \in S : i # m /\ i # n => k[i] = f[i]  BY <1>4, <1>6 DEF Room
  <1>11. IsFiniteSet(S) /\ m \in S /\ n \in S /\ m # n /\ DifferAtBoth(f, k, S, m, n)
    BY <1>2, <1>3, <1>6, <1>7, <1>10, HeapEnd DEF DifferAtBoth
  <1>12. /\ Total(f, S) \in Int /\ Total(k, S) \in Int
         /\ Total(k, S) = Total(f, S) - f[m] - f[n] + k[m] + k[n]
    BY ONLY <1>11, TotalChanges
  <1>13. m \in Int /\ n \in Int /\ e \in Int  BY <1>2, HeapEnd
  <1>14. Total(k, S) = Total(f, S)  BY ONLY <1>8, <1>9, <1>12, <1>13
  <1>15. SameBut(h, g, m)  BY <1>2, <1>4 DEF SameBut, UsedAt
  <1> QED BY <1>6, <1>14, <1>15

\* The used flag of block m is set to v.
Marked(h, g, m, v) ==
    /\ DOMAIN g = DOMAIN h
    /\ \A i \in DOMAIN h :
          /\ g[i] \in Header /\ g[i].next = h[i].next /\ g[i].prev = h[i].prev
          /\ g[i].used = IF i = m THEN v ELSE h[i].used

\* An assignment to the flag
LEMMA MarkIs ==
    ASSUME NEW h, NEW m, NEW v, Chain(h), m \in DOMAIN h, v \in BOOLEAN
    PROVE  Marked(h, [h EXCEPT ![m].used = v], m, v)
  <1>1. PICK g : g = [h EXCEPT ![m].used = v]  BY Zenon
  <1>2. \A i \in DOMAIN h : h[i] \in Header  BY DEF Chain
  <1>3. g[m] = [used |-> v, next |-> h[m].next, prev |-> h[m].prev]
    BY <1>1, <1>2 DEF Header
  <1>4. DOMAIN g = DOMAIN h /\ \A i \in DOMAIN h : i # m => g[i] = h[i]  BY <1>1
  <1>5. g[m] \in Header  BY <1>2, <1>3 DEF Header
  <1>6. Marked(h, g, m, v)  BY <1>2, <1>3, <1>4, <1>5 DEF Marked
  <1> QED BY <1>1, <1>6

\* It changes nothing else.
LEMMA MarkKeeps ==
    ASSUME NEW h, NEW g, NEW m, NEW v, Chain(h), m \in DOMAIN h, m # heap_end, Marked(h, g, m, v)
    PROVE  /\ Chain(g) /\ SameBut(h, g, m)
           /\ Total(Room(g), 0 .. heap_end) = Total(Room(h), 0 .. heap_end)
  <1>1. /\ DOMAIN g = DOMAIN h
        /\ \A i \in DOMAIN h :
              /\ g[i] \in Header /\ g[i].next = h[i].next /\ g[i].prev = h[i].prev
              /\ g[i].used = IF i = m THEN v ELSE h[i].used
    BY DEF Marked
  <1>2. Chain(g)  BY <1>1 DEF Chain
  <1>3. SameBut(h, g, m)  BY <1>1 DEF SameBut, UsedAt
  <1>4. Room(g) = Room(h)  BY <1>1 DEF Room
  <1> QED BY <1>2, <1>3, <1>4

\* A search may still start where lfree leads it.
LEMMA MergeStarts ==
    ASSUME NEW h, NEW g, NEW m, NEW n, NEW l, FollowsIn(h, m, n), Merged(h, g, m, n), ~h[m].used, Starts(h, l)
    PROVE  Starts(g, IF l = n THEN m ELSE l)
  <1>1. /\ DOMAIN g = DOMAIN h \ {n} /\ m \in DOMAIN h /\ m # n
        /\ \A i \in DOMAIN g : g[i].used = h[i].used
    <2>1. m < n /\ m \in 0 .. heap_end /\ n \in 0 .. heap_end  BY FollowsAt
    <2>2. m # n  BY ONLY <2>1, HeapEnd
    <2> QED BY <2>2 DEF Merged, FollowsIn
  <1>2. l \in DOMAIN h /\ (~h[l].used \/ l = heap_end)  BY DEF Starts
  <1>3. CASE l = n  BY <1>1, <1>3 DEF Starts
  <1>4. CASE l # n  BY <1>1, <1>2, <1>4 DEF Starts
  <1> QED BY <1>3, <1>4

\* Block m has been freed or cut off, and may be next to free blocks.
Holes(h, l, m) ==
    /\ Chain(h) /\ m \in DOMAIN h /\ ~h[m].used
    /\ Starts(h, l) /\ Apart(h, {m, h[m].prev})

\* The heap r is h with free blocks merged, except perhaps one of X and the next.
Plugged(h, r, X) ==
    /\ Chain(r.heap) /\ SameUsed(h, r.heap)
    /\ Total(Room(r.heap), 0 .. heap_end) = Total(Room(h), 0 .. heap_end)
    /\ Starts(r.heap, r.lfree) /\ Apart(r.heap, X)

\* What plug_holes makes of block m and the next one
Forward(h, l, m) ==
    LET n == h[m].next
    IN  IF n # m /\ ~h[n].used /\ n # heap_end THEN merge([heap |-> h, lfree |-> l], m, n)
        ELSE [heap |-> h, lfree |-> l]

\* Its first step
LEMMA PlugForward ==
    ASSUME NEW h, NEW l, NEW m, NEW f, Holes(h, l, m), f = Forward(h, l, m)
    PROVE  /\ Plugged(h, f, {h[m].prev} \ {m})
           /\ m \in DOMAIN f.heap /\ ~f.heap[m].used /\ f.heap[m].prev = h[m].prev
  <1>1. PICK n, p, X : n = h[m].next /\ p = h[m].prev /\ X = {p} \ {m}  BY Zenon
  <1>2. /\ Chain(h) /\ m \in DOMAIN h /\ ~h[m].used /\ m # heap_end
        /\ Starts(h, l) /\ Apart(h, X \cup {m})
    BY <1>1 DEF Holes, Apart, Chain
  <1>3. m \in 0 .. heap_end /\ n \in 0 .. heap_end /\ n \in DOMAIN h /\ m < n
    BY <1>1, <1>2, ChainAt
  <1>4. n # m  BY ONLY <1>3, HeapEnd
  <1>5. SameUsed(h, h)  BY DEF SameUsed
  <1>6. CASE ~h[n].used /\ n # heap_end
    <2>1. FollowsIn(h, m, n)  BY <1>1, <1>2, <1>6 DEF FollowsIn
    <2>2. PICK r : r = [heap |-> h, lfree |-> l]  BY Zenon
    <2>3. h = r.heap /\ r.lfree = l  BY <2>2
    <2>4. f = merge(r, m, n)  BY <1>1, <1>4, <1>6, <2>2 DEF Forward
    <2>5. Merged(h, f.heap, m, n) /\ f.lfree = IF l = n THEN m ELSE l
      BY <2>1, <2>3, <2>4, MergeIs
    <2>6. PICK g : g = f.heap  OBVIOUS
    <2>7. Chain(g)  BY <2>1, <2>5, <2>6, MergeChain
    <2>8. SameUsed(h, g) /\ Total(Room(g), 0 .. heap_end) = Total(Room(h), 0 .. heap_end)
      BY <1>2, <1>6, <2>1, <2>5, <2>6, MergeKeeps
    <2>9. Starts(g, f.lfree)  BY <1>2, <2>1, <2>5, <2>6, MergeStarts
    <2>10. n \notin X
      <3> SUFFICES ASSUME n = p, p # m PROVE FALSE  BY <1>1
      <3>1. m # 0  BY <1>1, <1>2, Zenon DEF Chain
      <3>2. h[n].next = m  BY <1>1, <1>2, <3>1, Zenon DEF Chain
      <3>3. n < h[n].next  BY <2>1, FollowsAt
      <3> QED BY ONLY <1>3, <3>2, <3>3, HeapEnd
    <2>11. Apart(g, X)  BY <1>2, <1>6, <2>1, <2>5, <2>6, <2>10, MergeApart
    <2>12. m \in DOMAIN g /\ ~g[m].used /\ g[m].prev = p
      <3>1. n < h[n].next /\ h[n].next \in 0 .. heap_end  BY <2>1, FollowsAt
      <3>2. m # h[n].next  BY ONLY <1>3, <3>1, HeapEnd
      <3> QED BY <1>1, <1>2, <1>4, <2>5, <2>6, <3>2 DEF Merged
    <2> QED BY <1>1, <2>6, <2>7, <2>8, <2>9, <2>11, <2>12 DEF Plugged
  <1>7. CASE ~(~h[n].used /\ n # heap_end)
    <2>1. f = [heap |-> h, lfree |-> l]  BY <1>1, <1>7 DEF Forward
    <2>2. f.heap = h /\ f.lfree = l  BY <2>1
    <2>3. h[n].used  BY <1>2, <1>7 DEF Chain
    <2>4. Apart(h, X)  BY <1>1, <1>2, <2>3 DEF Apart
    <2> QED BY <1>1, <1>2, <1>5, <2>2, <2>4 DEF Plugged
  <1> QED BY <1>6, <1>7

\* plug_holes leaves no two free neighbours, and nothing else changed.
LEMMA PlugHoles ==
    ASSUME NEW h, NEW l, NEW m, Holes(h, l, m)
    PROVE  Plugged(h, plug_holes([heap |-> h, lfree |-> l], m), {})
  <1>1. PICK f : f = Forward(h, l, m)  OBVIOUS
  <1>2. PICK p, X : p = h[m].prev /\ X = {p} \ {m}  BY Zenon
  <1>3. /\ Plugged(h, f, X)
        /\ m \in DOMAIN f.heap /\ ~f.heap[m].used /\ f.heap[m].prev = p
    BY <1>1, <1>2, PlugForward
  <1>4. PICK k : k = f.heap  OBVIOUS
  <1>5. /\ Chain(k) /\ SameUsed(h, k) /\ Starts(k, f.lfree) /\ Apart(k, X)
        /\ Total(Room(k), 0 .. heap_end) = Total(Room(h), 0 .. heap_end)
    BY <1>3, <1>4 DEF Plugged
  <1>6. PICK r : r = plug_holes([heap |-> h, lfree |-> l], m)  OBVIOUS
  <1>7. r = IF p # m /\ ~k[p].used THEN merge(f, p, m) ELSE f
    <2>1. [heap |-> h, lfree |-> l].heap = h  OBVIOUS
    <2>2. r = IF f.heap[m].prev # m /\ ~f.heap[f.heap[m].prev].used
              THEN merge(f, f.heap[m].prev, m) ELSE f
      BY <1>1, <1>6, <2>1 DEF plug_holes, Forward
    <2> QED BY <1>3, <1>4, <2>2
  <1>8. CASE p # m /\ ~k[p].used
    <2>1. m # 0 /\ m # heap_end  BY <1>3, <1>4, <1>5, <1>8 DEF Chain
    <2>2. p \in DOMAIN k /\ k[p].next = m  BY <1>3, <1>4, <1>5, <2>1 DEF Chain
    <2>3. p # heap_end  BY <1>5, <1>8 DEF Chain
    <2>4. FollowsIn(k, p, m)  BY <1>5, <2>1, <2>2, <2>3 DEF FollowsIn
    <2>5. Merged(k, r.heap, p, m) /\ r.lfree = IF f.lfree = m THEN p ELSE f.lfree
      BY <1>4, <1>7, <1>8, <2>4, MergeIs
    <2>6. PICK g : g = r.heap  OBVIOUS
    <2>7. Chain(g)  BY <2>4, <2>5, <2>6, MergeChain
    <2>8. SameUsed(k, g) /\ Total(Room(g), 0 .. heap_end) = Total(Room(k), 0 .. heap_end)
      BY <1>3, <1>4, <1>8, <2>4, <2>5, <2>6, MergeKeeps
    <2>9. Starts(g, r.lfree)  BY <1>5, <1>8, <2>4, <2>5, <2>6, MergeStarts
    <2>10. PICK Y : Y = {}  BY Zenon
    <2>11. Apart(k, Y \cup {p}) /\ m \notin Y  BY <1>2, <1>5, <2>10 DEF Apart
    <2>12. Apart(g, Y)  BY <1>3, <1>4, <2>4, <2>5, <2>6, <2>11, MergeApart
    <2>13. SameUsed(h, g)  BY <1>5, <2>8 DEF SameUsed
    <2> QED BY <1>5, <1>6, <2>6, <2>7, <2>8, <2>9, <2>10, <2>12, <2>13 DEF Plugged
  <1>9. CASE ~(p # m /\ ~k[p].used)
    <2>1. r = f  BY <1>7, <1>9
    <2>2. Apart(k, {})  BY <1>2, <1>5, <1>9 DEF Apart
    <2> QED BY <1>4, <1>5, <1>6, <2>1, <2>2 DEF Plugged
  <1> QED BY <1>8, <1>9

\* A change of one used block changes the sum of the used blocks by as much.
LEMMA TakenChange ==
    ASSUME NEW h, NEW g, NEW m, Chain(h), Chain(g), SameBut(h, g, m), m \in 0 .. heap_end
    PROVE  /\ Total(Taken(h), 0 .. heap_end) \in Int /\ Total(Taken(g), 0 .. heap_end) \in Int
           /\ Total(Taken(g), 0 .. heap_end) =
                  Total(Taken(h), 0 .. heap_end) - Taken(h)[m] + Taken(g)[m]
  <1>1. PICK f, k, S : f = Taken(h) /\ k = Taken(g) /\ S = 0 .. heap_end  OBVIOUS
  <1>2. \A i \in S : f[i] \in Int /\ k[i] \in Int
    BY ONLY <1>1, RoomInt, Chain(h), Chain(g)
  <1>3. \A i \in S : i # m => k[i] = f[i]  BY <1>1 DEF Taken, SameBut
  <1>4. IsFiniteSet(S) /\ m \in S /\ DifferAt(f, k, S, m)
    BY <1>1, <1>2, <1>3, HeapEnd DEF DifferAt
  <1>5. /\ Total(f, S) \in Int /\ Total(k, S) \in Int
        /\ Total(k, S) = Total(f, S) - f[m] + k[m]
    BY ONLY <1>4, TotalChange
  <1> QED BY <1>1, <1>5

\* What BlocksKept says of a step from h to g
KeptFrom(h, g) ==
    LET gone  == Held(h) \ Held(g)
        fresh == Held(g) \ Held(h)
    IN  Cardinality(gone) <= 1 /\ Cardinality(fresh) <= 1
        /\ \A a \in gone, b \in fresh : a[1] = b[1] /\ b[2] < a[2]

\* A set without two members
LEMMA AtMostOne ==
    ASSUME NEW S, NEW x, S \subseteq {x}
    PROVE  Cardinality(S) <= 1
  <1>1. CASE S = {}  BY <1>1, FS_EmptySet
  <1>2. CASE S # {}
    <2>1. S = {x}  BY <1>2
    <2>2. Cardinality(S) = 1  BY <2>1, FS_Singleton
    <2> QED BY <2>2
  <1> QED BY <1>1, <1>2

\* It holds when one block is taken, given back or cut.
LEMMA KeptAt ==
    ASSUME NEW h, NEW g, NEW m, Chain(h), Chain(g), SameBut(h, g, m), m \in 0 .. heap_end,
           UsedAt(h, m) /\ UsedAt(g, m) => g[m].next < h[m].next
    PROVE  KeptFrom(h, g)
  <1>1. DOMAIN h \subseteq 0 .. heap_end /\ DOMAIN g \subseteq 0 .. heap_end
    BY DEF Chain
  <1>2. PICK gone, fresh : gone = Held(h) \ Held(g) /\ fresh = Held(g) \ Held(h)
    BY Zenon
  <1>3. \A a \in gone : a = <<m, h[m].next>> /\ UsedAt(h, m)
    <2> SUFFICES ASSUME NEW a \in gone PROVE a = <<m, h[m].next>> /\ UsedAt(h, m)
      OBVIOUS
    <2>1. PICK i : i \in DOMAIN h /\ h[i].used /\ a = <<i, h[i].next>>  BY <1>2 DEF Held
    <2>2. UsedAt(h, i) /\ i \in 0 .. heap_end  BY <1>1, <2>1 DEF UsedAt
    <2>3. i = m
      <3> SUFFICES ASSUME i # m PROVE FALSE  OBVIOUS
      <3>1. UsedAt(g, i) /\ h[i].next = g[i].next  BY <2>2 DEF SameBut
      <3>2. a \in Held(g)  BY <2>1, <3>1 DEF Held, UsedAt
      <3> QED BY <1>2, <3>2
    <2> QED BY <2>1, <2>2, <2>3
  <1>4. \A b \in fresh : b = <<m, g[m].next>> /\ UsedAt(g, m)
    <2> SUFFICES ASSUME NEW b \in fresh PROVE b = <<m, g[m].next>> /\ UsedAt(g, m)
      OBVIOUS
    <2>1. PICK i : i \in DOMAIN g /\ g[i].used /\ b = <<i, g[i].next>>  BY <1>2 DEF Held
    <2>2. UsedAt(g, i) /\ i \in 0 .. heap_end  BY <1>1, <2>1 DEF UsedAt
    <2>3. i = m
      <3> SUFFICES ASSUME i # m PROVE FALSE  OBVIOUS
      <3>1. UsedAt(h, i) /\ h[i].next = g[i].next  BY <2>2 DEF SameBut
      <3>2. b \in Held(h)  BY <2>1, <3>1 DEF Held, UsedAt
      <3> QED BY <1>2, <3>2
    <2> QED BY <2>1, <2>2, <2>3
  <1>5. Cardinality(gone) <= 1 /\ Cardinality(fresh) <= 1
    <2>1. gone \subseteq {<<m, h[m].next>>} /\ fresh \subseteq {<<m, g[m].next>>}
      BY <1>3, <1>4
    <2> QED BY <2>1, AtMostOne, Zenon
  <1>6. ASSUME NEW a \in gone, NEW b \in fresh PROVE a[1] = b[1] /\ b[2] < a[2]
    BY <1>3, <1>4
  <1> QED BY <1>2, <1>5, <1>6 DEF KeptFrom

\* The state of the heap: what the inductive invariant says of it
SoundHeap(h, l, u, mv) ==
    /\ Chain(h) /\ Apart(h, {}) /\ Starts(h, l)
    /\ mv \subseteq {m \in DOMAIN h : h[m].used /\ m # heap_end}
    /\ Total(Room(h), 0 .. heap_end) = heap_end
    /\ u = Total(Taken(h), 0 .. heap_end)

\* The inductive invariant of the heap
HeapInv == SoundHeap(heap, lfree, used_mem, moving)

\* Only block m has changed hands.
OneBlock(h, g, m) ==
    /\ m \in DOMAIN h /\ m # heap_end
    /\ Chain(g) /\ SameBut(h, g, m) /\ Apart(g, {})
    /\ Total(Room(g), 0 .. heap_end) = Total(Room(h), 0 .. heap_end)
    /\ UsedAt(h, m) /\ UsedAt(g, m) => g[m].next < h[m].next

\* Then the heap stays sound, if lfree, used_mem and moving keep up.
LEMMA OneBlockSound ==
    ASSUME NEW h, NEW g, NEW l, NEW lf, NEW u, NEW uf, NEW mv, NEW mf, NEW m,
           SoundHeap(h, l, u, mv), OneBlock(h, g, m),
           Starts(g, lf),
           uf = u - Taken(h)[m] + Taken(g)[m],
           mf \subseteq {i \in DOMAIN h : h[i].used /\ i # heap_end},
           m \in mf => UsedAt(g, m)
    PROVE  SoundHeap(g, lf, uf, mf) /\ KeptFrom(h, g)
  <1>1. /\ Chain(h) /\ Chain(g) /\ SameBut(h, g, m) /\ m \in 0 .. heap_end
        /\ DOMAIN h \subseteq 0 .. heap_end
    BY DEF SoundHeap, OneBlock, Chain
  <1>2. KeptFrom(h, g)  BY <1>1, KeptAt DEF OneBlock
  <1>3. uf = Total(Taken(g), 0 .. heap_end)  BY <1>1, TakenChange DEF SoundHeap
  <1>4. mf \subseteq {i \in DOMAIN g : g[i].used /\ i # heap_end}
    <2> SUFFICES ASSUME NEW i \in mf PROVE UsedAt(g, i) /\ i # heap_end  BY DEF UsedAt
    <2>1. i \in 0 .. heap_end /\ UsedAt(h, i) /\ i # heap_end  BY <1>1 DEF UsedAt
    <2>2. CASE i = m  BY <2>1, <2>2
    <2>3. CASE i # m  BY <1>1, <2>1, <2>3 DEF SameBut
    <2> QED BY <2>2, <2>3
  <1> QED BY <1>2, <1>3, <1>4 DEF SoundHeap, OneBlock

\* free: the block goes back, and is merged with free neighbours.
LEMMA FreeOne ==
    ASSUME NEW h, NEW l, NEW u, NEW mv, NEW mf, NEW m, NEW k, NEW r,
           SoundHeap(h, l, u, mv), UsedAt(h, m), m # heap_end,
           mf \subseteq mv, m \notin mf,
           k = [h EXCEPT ![m].used = FALSE],
           r = plug_holes([heap |-> k, lfree |-> IF m < l THEN m ELSE l], m)
    PROVE  SoundHeap(r.heap, r.lfree, u - (h[m].next - m), mf) /\ KeptFrom(h, r.heap)
  <1>1. Chain(h) /\ m \in DOMAIN h /\ Apart(h, {}) /\ Starts(h, l) /\ m \in 0 .. heap_end
    BY DEF SoundHeap, UsedAt, Chain
  <1>2. Marked(h, k, m, FALSE)  BY <1>1, MarkIs, Zenon
  <1>3. /\ Chain(k) /\ SameBut(h, k, m)
        /\ Total(Room(k), 0 .. heap_end) = Total(Room(h), 0 .. heap_end)
    BY <1>1, <1>2, MarkKeeps, Zenon
  <1>4. PICK ll : ll = IF m < l THEN m ELSE l  OBVIOUS
  <1>5. /\ DOMAIN k = DOMAIN h /\ ~k[m].used
        /\ \A i \in DOMAIN h : /\ k[i].next = h[i].next /\ k[i].prev = h[i].prev
                               /\ i # m => k[i].used = h[i].used
    BY <1>1, <1>2, Zenon DEF Marked
  <1>6. Starts(k, ll)  BY <1>1, <1>4, <1>5 DEF Starts
  <1>7. Apart(k, {m, k[m].prev})
    <2> SUFFICES ASSUME NEW i \in DOMAIN k, i # heap_end, i # m, i # k[m].prev, ~k[i].used
                 PROVE  k[k[i].next].used
      BY DEF Apart
    <2>1. i \in DOMAIN h /\ ~h[i].used /\ i # h[m].prev /\ k[i].next = h[i].next
      BY <1>1, <1>5, Zenon
    <2>2. h[h[i].next].used /\ h[i].next \in DOMAIN h  BY <1>1, <2>1, ChainAt DEF Apart
    <2>3. h[i].next # m  BY <1>1, <2>1, ChainAt
    <2> QED BY <1>5, <2>1, <2>2, <2>3
  <1>8. Holes(k, ll, m)  BY <1>1, <1>3, <1>5, <1>6, <1>7 DEF Holes
  <1>9. Plugged(k, r, {})  BY <1>4, <1>8, PlugHoles, Zenon
  <1>10. PICK g : g = r.heap  OBVIOUS
  <1>11. /\ Chain(g) /\ SameUsed(k, g) /\ Starts(g, r.lfree) /\ Apart(g, {})
         /\ Total(Room(g), 0 .. heap_end) = Total(Room(k), 0 .. heap_end)
    BY <1>9, <1>10 DEF Plugged
  <1>12. ~UsedAt(g, m) /\ ~UsedAt(k, m)  BY <1>1, <1>5, <1>11 DEF SameUsed, UsedAt
  <1>13. SameBut(h, g, m)  BY <1>3, <1>11, Zenon DEF SameUsed, SameBut
  <1>14. OneBlock(h, g, m)  BY <1>1, <1>3, <1>11, <1>12, <1>13 DEF OneBlock
  <1>15. u - (h[m].next - m) = u - Taken(h)[m] + Taken(g)[m]
    <2>1. Taken(h)[m] = h[m].next - m /\ Taken(g)[m] = 0  BY <1>1, <1>12 DEF Taken
    <2>2. PICK e : e = h[m].next  OBVIOUS
    <2>3. e \in 0 .. heap_end  BY <1>1, <2>2, ChainAt
    <2>4. u \in Int  BY <1>1, RoomInt DEF SoundHeap
    <2>5. u - (e - m) = u - (e - m) + 0  BY ONLY <1>1, <2>3, <2>4, HeapEnd
    <2> QED BY <2>1, <2>2, <2>5
  <1>16. mf \subseteq {i \in DOMAIN h : h[i].used /\ i # heap_end}  BY DEF SoundHeap
  <1> QED BY <1>10, <1>11, <1>14, <1>15, <1>16, OneBlockSound

\* rt_realloc in place: what is cut off is merged with a free successor.
LEMMA CutOne ==
    ASSUME NEW h, NEW l, NEW u, NEW mv, NEW m, NEW n, NEW k, NEW r,
           SoundHeap(h, l, u, mv), UsedAt(h, m), m # heap_end, FitsIn(h, m, n),
           k = split(h, m, n),
           r = plug_holes([heap |-> k, lfree |-> l], n)
    PROVE  SoundHeap(r.heap, r.lfree, u - (h[m].next - n), mv) /\ KeptFrom(h, r.heap)
  <1>1. Chain(h) /\ m \in DOMAIN h /\ Apart(h, {}) /\ Starts(h, l) /\ m \in 0 .. heap_end /\ h[m].used
    BY DEF SoundHeap, UsedAt, Chain
  <1>2. PICK e : e = h[m].next  OBVIOUS
  <1>3. /\ n \notin DOMAIN h /\ n \in 0 .. heap_end /\ m < n /\ n < e
        /\ e \in 0 .. heap_end /\ e \in DOMAIN h
    BY <1>2, FitsInAt
  <1>4. Divided(h, k, m, n)  BY SplitIs
  <1>5. /\ Chain(k) /\ SameBut(h, k, m)
        /\ Total(Room(k), 0 .. heap_end) = Total(Room(h), 0 .. heap_end)
    BY <1>4, SplitChain, SplitKeeps
  <1>6. /\ DOMAIN k = DOMAIN h \cup {n} /\ ~k[n].used /\ k[n].next = e /\ k[n].prev = m
        /\ \A i \in DOMAIN h : /\ k[i].next = IF i = m THEN n ELSE h[i].next
                               /\ k[i].used = h[i].used
    BY <1>2, <1>4 DEF Divided
  <1>7. Starts(k, l)  BY <1>1, <1>6 DEF Starts
  <1>8. Apart(k, {n, k[n].prev})
    <2> SUFFICES ASSUME NEW i \in DOMAIN k, i # heap_end, i # n, i # m, ~k[i].used
                 PROVE  k[k[i].next].used
      BY <1>6 DEF Apart
    <2>1. i \in DOMAIN h /\ ~h[i].used /\ k[i].next = h[i].next  BY <1>6
    <2>2. h[h[i].next].used /\ h[i].next \in DOMAIN h  BY <1>1, <2>1, ChainAt DEF Apart
    <2> QED BY <1>6, <2>1, <2>2
  <1>9. Holes(k, l, n)  BY <1>5, <1>6, <1>7, <1>8 DEF Holes
  <1>10. Plugged(k, r, {})  BY <1>9, PlugHoles
  <1>11. PICK g : g = r.heap  OBVIOUS
  <1>12. /\ Chain(g) /\ SameUsed(k, g) /\ Starts(g, r.lfree) /\ Apart(g, {})
         /\ Total(Room(g), 0 .. heap_end) = Total(Room(k), 0 .. heap_end)
    BY <1>10, <1>11 DEF Plugged
  <1>13. UsedAt(k, m) /\ k[m].next = n  BY <1>1, <1>6 DEF UsedAt
  <1>14. UsedAt(g, m) /\ g[m].next = n  BY <1>1, <1>12, <1>13 DEF SameUsed
  <1>15. SameBut(h, g, m)  BY <1>5, <1>12 DEF SameUsed, SameBut
  <1>16. OneBlock(h, g, m)  BY <1>1, <1>2, <1>3, <1>5, <1>12, <1>14, <1>15 DEF OneBlock
  <1>17. u - (e - n) = u - Taken(h)[m] + Taken(g)[m]
    <2>1. Taken(h)[m] = e - m /\ Taken(g)[m] = n - m
      BY <1>1, <1>2, <1>14 DEF Taken, UsedAt
    <2>2. u \in Int  BY <1>1, RoomInt DEF SoundHeap
    <2>3. u - (e - n) = u - (e - m) + (n - m)  BY ONLY <1>1, <1>3, <2>2, HeapEnd
    <2> QED BY <2>1, <2>3
  <1>18. mv \subseteq {i \in DOMAIN h : h[i].used /\ i # heap_end}  BY DEF SoundHeap
  <1> QED BY <1>2, <1>11, <1>12, <1>14, <1>16, <1>17, <1>18, OneBlockSound

\* The first fitting block is free and large enough.
LEMMA FitsAt ==
    ASSUME NEW h, NEW l, NEW size, NEW F, NEW m, h = heap, Chain(h), size \in Nat, F = Fits(size), F # {}, m = Min(F)
    PROVE  /\ m \in DOMAIN h /\ ~h[m].used /\ m # heap_end /\ m \in 0 .. heap_end
           /\ h[m].next - m - SIZEOF_STRUCT_MEM >= size
  <1>1. F \subseteq DOMAIN h /\ DOMAIN h \subseteq 0 .. heap_end  BY DEF Fits, Chain
  <1>2. F \in SUBSET Nat  BY <1>1, HeapEnd
  <1>3. \E p \in F : \A q \in F : p <= q  BY <1>2, LeastElement
  <1>4. m \in F  BY <1>3 DEF Min
  <1>5. /\ ~h[m].used /\ m < mem_size_aligned - size
        /\ h[m].next - m - SIZEOF_STRUCT_MEM >= size
    BY <1>4 DEF Fits, DataSize
  <1>6. m \in 0 .. heap_end /\ m \in DOMAIN h  BY <1>1, <1>4
  <1>7. m # heap_end  BY ONLY <1>5, <1>6, size \in Nat, HeapEnd
  <1> QED BY <1>5, <1>6, <1>7

\* The next free block is one, or the end.
LEMMA NextFreeAt ==
    ASSUME NEW h, NEW m, Chain(h), m \in DOMAIN h
    PROVE  Starts(h, NextFree(h, m))
  <1>1. PICK F : F = {i \in DOMAIN h : i >= m /\ (~h[i].used \/ i = heap_end)}  BY Zenon
  <1>2. DOMAIN h \subseteq 0 .. heap_end /\ heap_end \in DOMAIN h  BY DEF Chain
  <1>3. m \in 0 .. heap_end  BY <1>2
  <1>4. heap_end >= m  BY <1>3, HeapEnd
  <1>5. F # {} /\ F \in SUBSET Nat  BY <1>1, <1>2, <1>4, HeapEnd
  <1>6. \E p \in F : \A q \in F : p <= q  BY <1>5, LeastElement
  <1>7. Min(F) \in F  BY <1>6 DEF Min
  <1> QED BY <1>1, <1>7 DEF NextFree, Starts

\* Block m is taken from h as it is, or what is left over is cut off at n.
CutFor(h, k, m, n) == k = h \/ (FitsIn(h, m, n) /\ k = split(h, m, n))

\* The block is used from now on, and lfree moves up.
TakenAt(k, g, l, lf, m) ==
    g = [k EXCEPT ![m].used = TRUE] /\ lf = IF m = l THEN NextFree(g, m) ELSE l

\* allocate: a free block, or its first part, is taken.
LEMMA TakeOne ==
    ASSUME NEW h, NEW l, NEW u, NEW mv, NEW mf, NEW m, NEW n, NEW k, NEW g, NEW lf,
           SoundHeap(h, l, u, mv), m \in DOMAIN h, m # heap_end, ~h[m].used,
           mf \subseteq {i \in DOMAIN h : h[i].used /\ i # heap_end},
           CutFor(h, k, m, n),
           TakenAt(k, g, l, lf, m)
    PROVE  SoundHeap(g, lf, u + (g[m].next - m), mf) /\ KeptFrom(h, g)
  <1>1. Chain(h) /\ Apart(h, {}) /\ Starts(h, l) /\ m \in 0 .. heap_end
    BY DEF SoundHeap, Chain
  <1>2. /\ Chain(k) /\ SameBut(h, k, m)
        /\ Total(Room(k), 0 .. heap_end) = Total(Room(h), 0 .. heap_end)
        /\ DOMAIN h \subseteq DOMAIN k
        /\ \A i \in DOMAIN h : /\ i # m => k[i].next = h[i].next
                               /\ k[i].used = h[i].used
        /\ \A i \in DOMAIN k : i \in DOMAIN h \/ k[i].next = h[m].next
    <2>1. CASE k = h  BY <1>1, <2>1 DEF SameBut
    <2>2. CASE FitsIn(h, m, n) /\ k = split(h, m, n)
      <3>1. Divided(h, k, m, n)  BY <2>2, SplitIs
      <3>2. /\ Chain(k) /\ SameBut(h, k, m)
            /\ Total(Room(k), 0 .. heap_end) = Total(Room(h), 0 .. heap_end)
        BY <2>2, <3>1, SplitChain, SplitKeeps
      <3>3. k[n].next = h[m].next  BY <3>1 DEF Divided
      <3>4. /\ DOMAIN k = DOMAIN h \cup {n}
            /\ \A i \in DOMAIN h : /\ i # m => k[i].next = h[i].next
                                   /\ k[i].used = h[i].used
        BY <3>1 DEF Divided
      <3> QED BY <3>2, <3>3, <3>4
    <2> QED BY <2>1, <2>2 DEF CutFor
  <1>3. m \in DOMAIN k /\ TRUE \in BOOLEAN  BY <1>2
  <1>4. Marked(k, g, m, TRUE)  BY <1>2, <1>3, MarkIs, Zenon DEF TakenAt
  <1>5. /\ Chain(g) /\ SameBut(k, g, m)
        /\ Total(Room(g), 0 .. heap_end) = Total(Room(k), 0 .. heap_end)
    BY <1>2, <1>3, <1>4, MarkKeeps, Zenon
  <1>6. /\ DOMAIN g = DOMAIN k /\ g[m].used
        /\ \A i \in DOMAIN k : g[i].next = k[i].next /\ (i # m => g[i].used = k[i].used)
    BY <1>3, <1>4, Zenon DEF Marked
  <1>7. SameBut(h, g, m)  BY <1>2, <1>5 DEF SameBut
  <1>8. \A j \in DOMAIN h : h[j].used => g[j].used  BY <1>2, <1>6
  <1>9. Apart(g, {})
    <2> SUFFICES ASSUME NEW i \in DOMAIN g, i # heap_end, ~g[i].used PROVE g[g[i].next].used
      BY DEF Apart
    <2>1. i # m /\ i \in DOMAIN k /\ ~k[i].used /\ g[i].next = k[i].next  BY <1>6
    <2>2. CASE i \in DOMAIN h
      <3>1. ~h[i].used /\ g[i].next = h[i].next  BY <1>2, <2>1, <2>2
      <3>2. h[h[i].next].used /\ h[i].next \in DOMAIN h
        BY <1>1, <2>2, <3>1, ChainAt DEF Apart
      <3> QED BY <1>8, <3>1, <3>2
    <2>3. CASE i \notin DOMAIN h
      <3>1. g[i].next = h[m].next  BY <1>2, <2>1, <2>3
      <3>2. h[h[m].next].used /\ h[m].next \in DOMAIN h  BY <1>1, ChainAt DEF Apart
      <3> QED BY <1>8, <3>1, <3>2
    <2> QED BY <2>2, <2>3
  <1>10. UsedAt(g, m) /\ ~UsedAt(h, m)  BY <1>3, <1>6 DEF UsedAt
  <1>11. OneBlock(h, g, m)  BY <1>1, <1>2, <1>5, <1>7, <1>9, <1>10 DEF OneBlock
  <1>12. Starts(g, lf)
    <2>1. CASE m = l  BY <1>3, <1>5, <1>6, <2>1, NextFreeAt, Zenon DEF TakenAt
    <2>2. CASE m # l  BY <1>1, <1>2, <1>6, <2>2 DEF Starts, TakenAt
    <2> QED BY <2>1, <2>2
  <1>13. u + (g[m].next - m) = u - Taken(h)[m] + Taken(g)[m]
    <2>1. PICK e : e = g[m].next  OBVIOUS
    <2>2. e \in 0 .. heap_end  BY <1>3, <1>5, <1>6, <2>1, ChainAt
    <2>3. Taken(h)[m] = 0 /\ Taken(g)[m] = e - m  BY <1>1, <1>10, <2>1 DEF Taken
    <2>4. u \in Int  BY <1>1, RoomInt DEF SoundHeap
    <2>5. u + (e - m) = u - 0 + (e - m)  BY ONLY <1>1, <2>2, <2>4, HeapEnd
    <2> QED BY <2>1, <2>3, <2>5
  <1>14. m \in mf => UsedAt(g, m)  BY <1>10
  <1>15. PICK uf : uf = u + (g[m].next - m)  OBVIOUS
  <1>16. SoundHeap(g, lf, uf, mf) /\ KeptFrom(h, g)
    BY <1>11, <1>12, <1>13, <1>14, <1>15, OneBlockSound
  <1> QED BY <1>15, <1>16

\* rt_malloc and rt_realloc with a new block
LEMMA AllocateSound ==
    ASSUME HeapInv, NEW size, size \in Nat, size >= MIN_SIZE_ALIGNED, allocate(size),
           moving' \subseteq {i \in DOMAIN heap : heap[i].used /\ i # heap_end}
    PROVE  HeapInv' /\ BlocksKept
  <1>1. PICK F : F = Fits(size)  OBVIOUS
  <1>2. PICK m : m = Min(F)  OBVIOUS
  <1>3. PICK n : n = m + SIZEOF_STRUCT_MEM + size  OBVIOUS
  <1>4. PICK h, l, u, mv : h = heap /\ l = lfree /\ u = used_mem /\ mv = moving  OBVIOUS
  <1>5. PICK k : k = IF Splits(m, size) THEN split(h, m, n) ELSE h  OBVIOUS
  <1>6. PICK g : g = [k EXCEPT ![m].used = TRUE]  BY Zenon
  <1>7. PICK lf : lf = IF m = l THEN NextFree(g, m) ELSE l  OBVIOUS
  <1>8. F # {} /\ heap' = g /\ used_mem' = u + (g[m].next - m) /\ lfree' = lf
    BY <1>1, <1>2, <1>3, <1>4, <1>5, <1>6, <1>7 DEF allocate
  <1>9. SoundHeap(h, l, u, mv) /\ Chain(h)  BY <1>4 DEF HeapInv, SoundHeap
  <1>10. /\ m \in DOMAIN h /\ ~h[m].used /\ m # heap_end /\ m \in 0 .. heap_end
         /\ h[m].next - m - SIZEOF_STRUCT_MEM >= size
    BY <1>1, <1>2, <1>4, <1>8, <1>9, FitsAt
  <1>11. CutFor(h, k, m, n)
    <2>1. CASE Splits(m, size)
      <3>1. PICK e : e = h[m].next  OBVIOUS
      <3>2. e - m - SIZEOF_STRUCT_MEM >= size + SIZEOF_STRUCT_MEM + MIN_SIZE_ALIGNED
        BY <1>4, <2>1, <3>1 DEF Splits, DataSize
      <3>3. e \in 0 .. heap_end  BY <1>9, <1>10, <3>1, ChainAt
      <3>4. n \in Nat /\ m + SIZEOF_STRUCT_MEM <= n /\ n + SIZEOF_STRUCT_MEM <= e
        BY ONLY <1>3, <1>10, <3>2, <3>3, size \in Nat, HeapEnd
      <3>5. FitsIn(h, m, n)  BY <1>9, <1>10, <3>1, <3>4 DEF FitsIn
      <3> QED BY <1>5, <2>1, <3>5 DEF CutFor
    <2>2. CASE ~Splits(m, size)  BY <1>5, <2>2 DEF CutFor
    <2> QED BY <2>1, <2>2
  <1>12. PICK mf : mf = moving'  OBVIOUS
  <1>13. mf \subseteq {i \in DOMAIN h : h[i].used /\ i # heap_end}  BY <1>4, <1>12
  <1>14. SoundHeap(g, lf, u + (g[m].next - m), mf) /\ KeptFrom(h, g)
    <2>1. TakenAt(k, g, l, lf, m)  BY <1>6, <1>7 DEF TakenAt
    <2> QED BY <1>9, <1>10, <1>11, <1>13, <2>1, TakeOne, Zenon
  <1> QED BY <1>4, <1>8, <1>12, <1>14 DEF HeapInv, KeptFrom, BlocksKept

\* rt_free, and the end of rt_realloc with a new block
LEMMA FreeSound ==
    ASSUME HeapInv, NEW m, m \in DOMAIN heap, heap[m].used, m # heap_end, free(m),
           moving' \subseteq moving, m \notin moving'
    PROVE  HeapInv' /\ BlocksKept
  <1>1. PICK h, l, u, mv, mf : h = heap /\ l = lfree /\ u = used_mem /\ mv = moving /\ mf = moving'
    OBVIOUS
  <1>2. PICK k : k = [h EXCEPT ![m].used = FALSE]  BY Zenon
  <1>3. PICK r : r = plug_holes([heap |-> k, lfree |-> IF m < l THEN m ELSE l], m)
    OBVIOUS
  <1>4. heap' = r.heap /\ lfree' = r.lfree /\ used_mem' = u - (h[m].next - m)
    BY <1>1, <1>2, <1>3 DEF free
  <1>5. SoundHeap(h, l, u, mv) /\ UsedAt(h, m) /\ mf \subseteq mv /\ m \notin mf
    BY <1>1 DEF HeapInv, UsedAt
  <1>6. SoundHeap(r.heap, r.lfree, u - (h[m].next - m), mf) /\ KeptFrom(h, r.heap)
    BY <1>2, <1>3, <1>5, FreeOne
  <1> QED BY <1>1, <1>4, <1>6 DEF HeapInv, KeptFrom, BlocksKept

\* rt_realloc in place
LEMMA ShrinkSound ==
    ASSUME HeapInv, NEW m, NEW newsize, newsize \in Nat, rt_realloc_shrink(m, newsize)
    PROVE  HeapInv' /\ BlocksKept
  <1>1. PICK h, l, u, mv : h = heap /\ l = lfree /\ u = used_mem /\ mv = moving  OBVIOUS
  <1>2. PICK n : n = m + SIZEOF_STRUCT_MEM + newsize  OBVIOUS
  <1>3. PICK k : k = split(h, m, n)  OBVIOUS
  <1>4. PICK r : r = plug_holes([heap |-> k, lfree |-> l], n)  OBVIOUS
  <1>5. /\ m \in Live /\ Shrinks(m, newsize)
        /\ heap' = r.heap /\ lfree' = r.lfree /\ moving' = mv
        /\ used_mem' = u - (DataSize(heap, m) - newsize)
    BY <1>1, <1>2, <1>3, <1>4 DEF rt_realloc_shrink
  <1>6. SoundHeap(h, l, u, mv) /\ Chain(h)  BY <1>1 DEF HeapInv, SoundHeap
  <1>7. UsedAt(h, m) /\ m # heap_end /\ m \in DOMAIN h  BY <1>1, <1>5 DEF Live, UsedAt
  <1>8. PICK e : e = h[m].next  OBVIOUS
  <1>9. e \in 0 .. heap_end /\ m \in 0 .. heap_end  BY <1>6, <1>7, <1>8, ChainAt
  <1>10. newsize + SIZEOF_STRUCT_MEM + MIN_SIZE_ALIGNED < e - m - SIZEOF_STRUCT_MEM
    BY <1>1, <1>5, <1>8 DEF Shrinks, DataSize
  <1>11. n \in Nat /\ m + SIZEOF_STRUCT_MEM <= n /\ n + SIZEOF_STRUCT_MEM <= e
    BY ONLY <1>2, <1>9, <1>10, newsize \in Nat, HeapEnd
  <1>12. FitsIn(h, m, n)  BY <1>6, <1>7, <1>8, <1>11 DEF FitsIn
  <1>13. used_mem' = u - (e - n)
    <2>1. used_mem' = u - ((e - m - SIZEOF_STRUCT_MEM) - newsize)
      BY <1>1, <1>5, <1>8 DEF DataSize
    <2>2. (e - m - SIZEOF_STRUCT_MEM) - newsize = e - n
      BY ONLY <1>2, <1>9, newsize \in Nat, HeapEnd
    <2> QED BY <2>1, <2>2
  <1>14. SoundHeap(r.heap, r.lfree, u - (h[m].next - n), mv) /\ KeptFrom(h, r.heap)
    BY <1>3, <1>4, <1>6, <1>7, <1>12, CutOne, Zenon
  <1> QED BY <1>1, <1>5, <1>8, <1>13, <1>14 DEF HeapInv, KeptFrom, BlocksKept

\* Every call keeps the heap sound and touches no block of another caller.
LEMMA HeapSteps ==
    ASSUME HeapInv, HeapNext
    PROVE  HeapInv' /\ BlocksKept
  <1>1. moving \subseteq {i \in DOMAIN heap : heap[i].used /\ i # heap_end}
    BY DEF HeapInv, SoundHeap
  <1>2. Sizes \subseteq Nat  BY HeapAssumption
  <1>3. \A size \in Nat : Asked(size) \in Nat /\ Asked(size) >= MIN_SIZE_ALIGNED
    BY HeapEnd DEF Asked
  <1>4. ASSUME NEW size \in Sizes, rt_malloc(size) PROVE HeapInv' /\ BlocksKept
    <2>1. PICK s : s = Asked(size)  OBVIOUS
    <2>2. s \in Nat /\ s >= MIN_SIZE_ALIGNED /\ allocate(s) /\ moving' = moving
      BY <1>2, <1>3, <1>4, <2>1 DEF rt_malloc
    <2> QED BY <1>1, <2>2, AllocateSound
  <1>5. ASSUME NEW m \in DOMAIN heap, rt_free(m) PROVE HeapInv' /\ BlocksKept
    <2>1. free(m) /\ moving' = moving /\ heap[m].used /\ m # heap_end /\ m \notin moving
      BY <1>5 DEF rt_free, Live
    <2>2. moving' \subseteq moving /\ m \notin moving'  BY <2>1
    <2> QED BY <2>1, <2>2, FreeSound
  <1>6. ASSUME NEW m \in DOMAIN heap, NEW size \in Sizes, rt_realloc_shrink(m, size)
        PROVE  HeapInv' /\ BlocksKept
    BY <1>2, <1>6, ShrinkSound
  <1>7. ASSUME NEW m \in DOMAIN heap, NEW size \in Sizes, rt_realloc_move(m, size)
        PROVE  HeapInv' /\ BlocksKept
    <2>1. PICK s : s = Asked(size)  OBVIOUS
    <2>2. s \in Nat /\ s >= MIN_SIZE_ALIGNED /\ allocate(s) /\ moving' = moving \cup {m} /\ m \in Live
      BY <1>2, <1>3, <1>7, <2>1 DEF rt_realloc_move
    <2>3. moving' \subseteq {i \in DOMAIN heap : heap[i].used /\ i # heap_end}
      BY <1>1, <2>2 DEF Live
    <2> QED BY <2>2, <2>3, AllocateSound
  <1>8. ASSUME NEW m \in DOMAIN heap, realloc_free(m) PROVE HeapInv' /\ BlocksKept
    <2>1. free(m) /\ moving' = moving \ {m} /\ m \in moving  BY <1>8 DEF realloc_free
    <2>2. heap[m].used /\ m # heap_end /\ moving' \subseteq moving /\ m \notin moving'
      BY <1>1, <2>1
    <2> QED BY <2>1, <2>2, FreeSound
  <1> QED BY <1>4, <1>5, <1>6, <1>7, <1>8 DEF HeapNext

\* The heap starts sound.
LEMMA HeapStarts ==
    ASSUME HeapInit
    PROVE  HeapInv
  <1>1. PICK h, E, S : h = heap /\ E = heap_end /\ S = 0 .. heap_end  OBVIOUS
  <1>2. h = [m \in {0, E} |-> [used |-> m = E, next |-> E, prev |-> m]]
    BY <1>1 DEF HeapInit
  <1>3. /\ E \in Nat /\ E > 0 /\ 0 \in 0 .. E /\ E \in 0 .. E /\ 0 # E /\ SIZEOF_STRUCT_MEM \in Nat
        /\ SIZEOF_STRUCT_MEM <= E /\ S = 0 .. E /\ IsFiniteSet(S)
    BY <1>1, HeapEnd
  <1>4. /\ DOMAIN h = {0, E} /\ ~h[0].used /\ h[E].used
        /\ h[0].next = E /\ h[E].next = E /\ h[0].prev = 0 /\ h[E].prev = E
    BY <1>2, <1>3, Zenon
  <1>5. h[0] \in Header /\ h[E] \in Header
    <2>1. h[0] = [used |-> FALSE, next |-> E, prev |-> 0] /\ h[E] = [used |-> TRUE, next |-> E, prev |-> E]
      BY <1>2, <1>3, Zenon
    <2> QED BY <1>1, <1>3, <2>1 DEF Header
  <1>6. 0 + SIZEOF_STRUCT_MEM <= E  BY ONLY <1>3
  <1>7. Chain(h)  BY <1>1, <1>3, <1>4, <1>5, <1>6 DEF Chain
  <1>8. Apart(h, {}) /\ Starts(h, 0)  BY <1>1, <1>3, <1>4 DEF Apart, Starts
  <1>9. Total(Taken(h), S) = 0
    <2>1. PICK f : f = Taken(h)  OBVIOUS
    <2>2. \A i \in S : f[i] = 0  BY <1>1, <1>4, <2>1 DEF Taken, UsedAt
    <2>3. PICK U : U = {}  OBVIOUS
    <2>4. U \subseteq S /\ (\A i \in S : f[i] \in Int) /\ (\A i \in S \ U : f[i] = 0) /\ IsFiniteSet(S)
      BY <1>3, <2>2, <2>3
    <2>5. Total(f, S) = Total(f, U)  BY ONLY <2>4, TotalZeros
    <2>6. Total(f, {}) = 0  BY <1>3, TotalStep
    <2> QED BY <2>1, <2>3, <2>5, <2>6
  <1>10. Total(Room(h), S) = E
    <2>1. PICK f : f = Room(h)  OBVIOUS
    <2>2. f[0] = E - 0 /\ \A i \in S : i # 0 => f[i] = 0
      BY <1>1, <1>3, <1>4, <2>1 DEF Room
    <2>3. f[0] = E  BY ONLY <1>3, <2>2
    <2>4. \A i \in S : f[i] \in Int  BY ONLY <1>3, <2>2, <2>3
    <2>5. PICK U : U = {0}  BY Zenon
    <2>6. U \subseteq S /\ (\A i \in S : f[i] \in Int) /\ (\A i \in S \ U : f[i] = 0) /\ IsFiniteSet(S)
      BY <1>3, <2>2, <2>4, <2>5
    <2>7. Total(f, S) = Total(f, U)  BY ONLY <2>6, TotalZeros
    <2>8. Total(f, U) = f[0] + Total(f, U \ {0})
      <3>1. 0 \in S /\ 0 \in U /\ U \in SUBSET S  BY <1>3, <2>5
      <3>2. PICK z : z = 0  OBVIOUS
      <3>3. Total(f, U) = f[z] + Total(f, U \ {z})  BY ONLY <2>6, <3>1, <3>2, TotalRemove
      <3> QED BY <3>2, <3>3
    <2>9. Total(f, U \ {0}) = 0
      <3>1. U \ {0} = {}  BY <2>5
      <3> QED BY <1>3, <3>1, TotalStep, Zenon
    <2> QED BY ONLY <1>3, <2>1, <2>3, <2>7, <2>8, <2>9
  <1> QED BY <1>1, <1>7, <1>8, <1>9, <1>10 DEF HeapInit, HeapInv, SoundHeap

\* A step of another part leaves the heap alone.
LEMMA HeapRests ==
    ASSUME HeapInv, UNCHANGED heap_vars
    PROVE  HeapInv' /\ BlocksKept
  <1>1. heap' = heap /\ lfree' = lfree /\ used_mem' = used_mem /\ moving' = moving
    BY DEF heap_vars
  <1>2. PICK h : h = heap  OBVIOUS
  <1>3. Held(heap) \ Held(heap') = {} /\ Held(heap') \ Held(heap) = {}
    <2>1. Held(h) \ Held(h) = {}  OBVIOUS
    <2> QED BY <1>1, <1>2, <2>1
  <1>4. Cardinality({}) <= 1  BY FS_EmptySet
  <1>5. BlocksKept  BY <1>3, <1>4 DEF BlocksKept
  <1> QED BY <1>1, <1>5 DEF HeapInv

\* The sum that UsedMemOK names
WordsOf(h, S) == MapThenSumSet(LAMBDA m : h[m].next - m, S)

\* It is that of the words of the blocks.
LEMMA UsedSum ==
    ASSUME NEW h, NEW S, NEW f, IsFiniteSet(S), \A m \in S : f[m] = h[m].next - m
    PROVE  WordsOf(h, S) = Total(f, S)
  <1>1. PICK g : Adds(g, f, S)  BY AddsExists
  <1>2. PICK e : e = CHOOSE i : i = [s \in SUBSET S |-> IF s = {} THEN 0
                                   ELSE (h[AnyOf(s)].next - AnyOf(s)) + i[s \ {AnyOf(s)}]]
    BY Zenon
  <1>3. WordsOf(h, S) = e[S]  BY <1>2 DEF WordsOf, MapThenSumSet, MapThenFoldSet, AnyOf
  <1>4. PICK i : i = [s \in SUBSET S |-> g[s]]  BY Zenon
  <1>5. ASSUME NEW s \in SUBSET S
        PROVE  i[s] = IF s = {} THEN 0 ELSE (h[AnyOf(s)].next - AnyOf(s)) + i[s \ {AnyOf(s)}]
    <2>1. i[s] = g[s]  BY <1>4, <1>5
    <2>2. s # {} => i[Rest(s)] = g[Rest(s)] /\ f[AnyOf(s)] = h[AnyOf(s)].next - AnyOf(s)
      BY <1>4, <1>5, RestFacts
    <2> QED BY <1>1, <1>5, <2>1, <2>2, Zenon DEF Adds, Rest
  <1>6. i = [s \in SUBSET S |-> IF s = {} THEN 0
                ELSE (h[AnyOf(s)].next - AnyOf(s)) + i[s \ {AnyOf(s)}]]
    BY <1>4, <1>5, Zenon
  <1>7. e = [s \in SUBSET S |-> IF s = {} THEN 0
                ELSE (h[AnyOf(s)].next - AnyOf(s)) + e[s \ {AnyOf(s)}]]
    BY <1>2, <1>6, Zenon
  <1>8. Adds(e, f, S)
    <2> SUFFICES ASSUME NEW s \in SUBSET S
                 PROVE  e[s] = IF s = {} THEN 0 ELSE f[AnyOf(s)] + e[Rest(s)]
      BY DEF Adds
    <2>1. s # {} => f[AnyOf(s)] = h[AnyOf(s)].next - AnyOf(s)  BY RestFacts
    <2> QED BY <1>7, <2>1, Zenon DEF Rest
  <1>9. e[S] = g[S]  BY <1>1, <1>8, AddsUnique
  <1> QED BY <1>1, <1>3, <1>9, TotalIs

\* The invariant implies what the runs check of the heap.
LEMMA HeapHolds ==
    ASSUME HeapInv
    PROVE  HeapType /\ Tiled /\ SearchStart /\ UsedMemOK
  <1>1. PICK h, S : h = heap /\ S = 0 .. heap_end  OBVIOUS
  <1>2. /\ Chain(h) /\ Apart(h, {}) /\ Starts(h, lfree) /\ DOMAIN h \subseteq 0 .. heap_end
        /\ moving \subseteq DOMAIN h /\ IsFiniteSet(S)
        /\ Total(Room(h), S) = heap_end /\ used_mem = Total(Taken(h), S)
    BY <1>1, HeapEnd DEF HeapInv, SoundHeap, Chain
  <1>3. used_mem \in 0 .. heap_end
    <2>1. PICK f, g : f = Taken(h) /\ g = Room(h)  OBVIOUS
    <2>2. \A i \in S : f[i] \in Int /\ g[i] \in Int /\ f[i] <= g[i]
      BY ONLY <1>1, <1>2, <2>1, RoomInt
    <2>3. Total(f, S) <= Total(g, S)  BY <1>2, <2>2, TotalLeq
    <2>4. \A i \in S : f[i] \in Nat  BY ONLY <1>1, <1>2, <2>1, RoomInt
    <2>5. S \in SUBSET S /\ Nat \in {Int, Nat}  OBVIOUS
    <2>6. Total(f, S) \in Nat  BY <1>2, <2>4, <2>5, TotalInt, Zenon
    <2> QED BY ONLY <1>2, <2>1, <2>3, <2>6, HeapEnd
  <1>4. HeapType  BY <1>1, <1>2, <1>3 DEF HeapType, Chain, Starts
  <1>5. Tiled
    <2> SUFFICES ASSUME NEW m \in DOMAIN h \ {heap_end}, NEW n, n = h[m].next
                 PROVE  /\ n \in DOMAIN h /\ n - m - SIZEOF_STRUCT_MEM >= 0
                        /\ \A i \in DOMAIN h : ~(m < i /\ i < n)
                        /\ n # heap_end => h[n].prev = m
                        /\ h[m].used \/ h[n].used
      BY <1>1, <1>2 DEF Tiled, DataSize, Chain
    <2>1. /\ m \in 0 .. heap_end /\ n \in 0 .. heap_end /\ n \in DOMAIN h
          /\ m + SIZEOF_STRUCT_MEM <= n
          /\ (n # heap_end => h[n].prev = m)
          /\ \A i \in DOMAIN h : i <= m \/ n <= i
      BY <1>2, ChainAt
    <2>2. n - m - SIZEOF_STRUCT_MEM >= 0  BY ONLY <2>1, HeapEnd
    <2>3. ASSUME NEW i \in DOMAIN h PROVE ~(m < i /\ i < n)
      <3>1. i \in 0 .. heap_end /\ (i <= m \/ n <= i)  BY <1>2, <2>1
      <3> QED BY ONLY <2>1, <3>1, HeapEnd
    <2>4. h[m].used \/ h[n].used  BY <1>2 DEF Apart
    <2> QED BY <2>1, <2>2, <2>3, <2>4
  <1>6. SearchStart  BY <1>1, <1>2 DEF SearchStart, Starts
  <1>7. UsedMemOK
    <2>1. PICK f, U : f = Taken(h) /\ U = {m \in DOMAIN h : h[m].used /\ m # heap_end}
      OBVIOUS
    <2>2. U \subseteq S /\ (\A i \in S : f[i] \in Int)
      <3>1. \A i \in S : f[i] \in Int  BY ONLY <1>1, <1>2, <2>1, RoomInt
      <3> QED BY <1>1, <1>2, <2>1, <3>1
    <2>3. \A i \in S \ U : f[i] = 0  BY <1>1, <2>1 DEF Taken, UsedAt
    <2>4. \A m \in U : f[m] = h[m].next - m  BY <1>1, <1>2, <2>1 DEF Taken, UsedAt
    <2>5. Total(f, S) = Total(f, U)  BY <1>2, <2>2, <2>3, TotalZeros
    <2>6. IsFiniteSet(U)  BY <1>2, <2>2, FS_Subset
    <2>7. WordsOf(h, U) = Total(f, U)  BY <2>4, <2>6, UsedSum
    <2>8. used_mem = WordsOf(heap, {m \in DOMAIN heap : heap[m].used /\ m # heap_end})
      BY <1>1, <1>2, <2>1, <2>5, <2>7
    <2> QED BY <2>8 DEF UsedMemOK, WordsOf
  <1> QED BY <1>4, <1>5, <1>6, <1>7

-----------------------------------------------------------------------------
(* The heaps of memheap.c *)

\* The numbers of a heap whose tailer is at t
Pool(t) ==
    /\ t \in Nat /\ t > 0
    /\ RT_MEMHEAP_SIZE \in Nat /\ RT_MEMHEAP_SIZE > 0
    /\ RT_MEMHEAP_MINIALLOC \in Nat /\ RT_MEMHEAP_MINIALLOC > 0
    /\ IsFiniteSet(0 .. t) /\ 0 \in 0 .. t /\ t \in 0 .. t /\ 0 # t

\* The headers in a heap whose tailer is at t
Links(t) == [used : BOOLEAN, next : 0 .. t, prev : 0 .. t]

\* The blocks tile the heap, in a ring; free blocks may be neighbours.
Tiles(i, t) ==
    /\ Pool(t) /\ DOMAIN i \subseteq 0 .. t /\ {0, t} \subseteq DOMAIN i
    /\ i[t].used /\ i[t].next = 0
    /\ \A m \in DOMAIN i :
          /\ i[m] \in Links(t)
          /\ i[m].next \in DOMAIN i /\ i[m].prev \in DOMAIN i
          /\ i[i[m].next].prev = m /\ i[i[m].prev].next = m
          /\ m # t => /\ m + RT_MEMHEAP_SIZE + RT_MEMHEAP_MINIALLOC <= i[m].next
                      /\ \A j \in DOMAIN i : j <= m \/ i[m].next <= j

\* No two free blocks are neighbours, except perhaps one of X and the next.
Separate(i, X) == \A m \in DOMAIN i : m \in X \/ i[m].used \/ i[i[m].next].used

\* The used blocks of i and k are the same, except the one at m.
SameOthers(i, k, m) ==
    \A a : a # m => /\ UsedAt(i, a) <=> UsedAt(k, a)
                    /\ UsedAt(i, a) => i[a].next = k[a].next

\* The words of each block, and the data of each free one
Words(i, t) ==
    [m \in 0 .. t |-> IF m \in DOMAIN i /\ m # t THEN i[m].next - m ELSE 0]
FreeWords(i, t) ==
    [m \in 0 .. t |-> IF m \in DOMAIN i /\ ~i[m].used THEN i[m].next - m - RT_MEMHEAP_SIZE ELSE 0]

\* A block and its neighbours
LEMMA TilesAt ==
    ASSUME NEW i, NEW t, NEW m, Tiles(i, t), m \in DOMAIN i
    PROVE  /\ m \in 0 .. t /\ i[m] \in Links(t)
           /\ i[m].next \in DOMAIN i /\ i[m].next \in 0 .. t
           /\ i[m].prev \in DOMAIN i /\ i[m].prev \in 0 .. t
           /\ i[i[m].next].prev = m /\ i[i[m].prev].next = m
  BY Zenon DEF Tiles

\* A block that is not the tailer
LEMMA TilesLess ==
    ASSUME NEW i, NEW t, NEW m, Tiles(i, t), m \in DOMAIN i, m # t
    PROVE  /\ m + RT_MEMHEAP_SIZE + RT_MEMHEAP_MINIALLOC <= i[m].next /\ m < i[m].next
           /\ \A j \in DOMAIN i : j <= m \/ i[m].next <= j
  <1>1. PICK e : e = i[m].next  OBVIOUS
  <1>2. m \in 0 .. t /\ e \in 0 .. t /\ Pool(t)  BY <1>1, TilesAt, Zenon DEF Tiles
  <1>3. m + RT_MEMHEAP_SIZE + RT_MEMHEAP_MINIALLOC <= e  BY <1>1 DEF Tiles
  <1>4. m < e  BY <1>2, <1>3 DEF Pool
  <1> QED BY <1>1, <1>3, <1>4 DEF Tiles

\* Block n can be joined to p.
Joinable(i, t, p, n) ==
    Tiles(i, t) /\ n \in DOMAIN i /\ p \in DOMAIN i /\ p # t /\ n # t /\ i[p].next = n

\* The places of two such blocks
LEMMA JoinableAt ==
    ASSUME NEW i, NEW t, NEW p, NEW n, NEW e, Joinable(i, t, p, n), e = i[n].next
    PROVE  /\ p \in 0 .. t /\ n \in 0 .. t /\ e \in 0 .. t /\ e \in DOMAIN i
           /\ p < n /\ n < e /\ p # n /\ n # e /\ p # e /\ n # 0 /\ e # 0
           /\ i[n].prev = p /\ i[e].prev = n
           /\ p + RT_MEMHEAP_SIZE + RT_MEMHEAP_MINIALLOC <= n
  <1>1. Tiles(i, t) /\ n \in DOMAIN i /\ p \in DOMAIN i /\ p # t /\ n # t /\ i[p].next = n /\ Pool(t)
    BY DEF Joinable, Tiles
  <1>2. p \in 0 .. t /\ n \in 0 .. t /\ e \in 0 .. t /\ e \in DOMAIN i /\ i[n].prev = p /\ i[e].prev = n
    BY <1>1, TilesAt
  <1>3. p < n /\ n < e /\ p + RT_MEMHEAP_SIZE + RT_MEMHEAP_MINIALLOC <= n
    BY <1>1, TilesLess
  <1>4. p # n /\ n # e /\ p # e /\ n # 0 /\ e # 0  BY ONLY <1>1, <1>2, <1>3 DEF Pool
  <1> QED BY <1>2, <1>3, <1>4

\* The blocks that join leaves
JoinOf(i, p, n) ==
    LET e == i[n].next
        k == [i EXCEPT ![p].next = e, ![e].prev = p]
    IN  [a \in DOMAIN k \ {n} |-> k[a]]

\* Block by block: n is part of p, and e is behind it.
AreJoined(i, g, t, p, n, e) ==
    /\ DOMAIN g = DOMAIN i \ {n}
    /\ \A a \in DOMAIN g :
          /\ g[a] \in Links(t) /\ g[a].used = i[a].used
          /\ g[a].next = IF a = p THEN e ELSE i[a].next
          /\ g[a].prev = IF a = e THEN p ELSE i[a].prev

\* What JoinOf leaves of each block
LEMMA JoinOfIs ==
    ASSUME NEW i, NEW t, NEW p, NEW n, NEW e, NEW g,
           Joinable(i, t, p, n), e = i[n].next, g = JoinOf(i, p, n)
    PROVE  AreJoined(i, g, t, p, n, e)
  <1>2. /\ p \in 0 .. t /\ n \in 0 .. t /\ e \in 0 .. t /\ e \in DOMAIN i
        /\ p # n /\ n # e /\ p # e /\ p \in DOMAIN i
    <2>1. p \in DOMAIN i  BY DEF Joinable
    <2> QED BY <2>1, JoinableAt
  <1>3. \A a \in DOMAIN i : i[a] \in Links(t)  BY DEF Joinable, Tiles
  <1>4. PICK k1 : k1 = [i EXCEPT ![p].next = e]  BY Zenon
  <1>5. PICK k : k = [k1 EXCEPT ![e].prev = p]  BY Zenon
  <1>6. g = [a \in DOMAIN k \ {n} |-> k[a]]  BY <1>4, <1>5 DEF JoinOf
  <1>7. k1[p] = [used |-> i[p].used, next |-> e, prev |-> i[p].prev]
    BY <1>2, <1>3, <1>4 DEF Links
  <1>8. k[e] = [used |-> i[e].used, next |-> i[e].next, prev |-> p]
    BY <1>2, <1>3, <1>4, <1>5 DEF Links
  <1>9. k[p] = k1[p] /\ DOMAIN k = DOMAIN i /\ \A a \in DOMAIN i : a # p /\ a # e => k[a] = i[a]
    BY <1>2, <1>4, <1>5
  <1>10. DOMAIN g = DOMAIN i \ {n} /\ \A a \in DOMAIN g : g[a] = k[a]  BY <1>6, <1>9
  <1>11. ASSUME NEW a \in DOMAIN g
         PROVE  /\ g[a] \in Links(t) /\ g[a].used = i[a].used
                /\ g[a].next = IF a = p THEN e ELSE i[a].next
                /\ g[a].prev = IF a = e THEN p ELSE i[a].prev
    <2>1. CASE a = p  BY <1>2, <1>3, <1>7, <1>9, <1>10, <2>1 DEF Links
    <2>2. CASE a = e  BY <1>2, <1>3, <1>8, <1>10, <2>2 DEF Links
    <2>3. CASE a # p /\ a # e  BY <1>3, <1>9, <1>10, <2>3
    <2> QED BY <2>1, <2>2, <2>3
  <1> QED BY <1>10, <1>11 DEF AreJoined

\* Joined blocks still tile the heap.
LEMMA JoinTiles ==
    ASSUME NEW i, NEW g, NEW t, NEW p, NEW n, Joinable(i, t, p, n), g = JoinOf(i, p, n)
    PROVE  Tiles(g, t)
  <1>1. PICK e : e = i[n].next  OBVIOUS
  <1>2. /\ p \in 0 .. t /\ n \in 0 .. t /\ e \in 0 .. t /\ e \in DOMAIN i
        /\ p < n /\ n < e /\ p # n /\ n # e /\ p # e /\ n # 0 /\ e # 0
        /\ i[n].prev = p /\ i[e].prev = n
        /\ p + RT_MEMHEAP_SIZE + RT_MEMHEAP_MINIALLOC <= n
    BY <1>1, JoinableAt
  <1>3. /\ Tiles(i, t) /\ Pool(t) /\ n \in DOMAIN i /\ p \in DOMAIN i /\ p # t /\ n # t /\ i[p].next = n
        /\ DOMAIN i \subseteq 0 .. t /\ {0, t} \subseteq DOMAIN i /\ i[t].used /\ i[t].next = 0
    BY Zenon DEF Joinable, Tiles
  <1>4. /\ DOMAIN g = DOMAIN i \ {n}
        /\ \A a \in DOMAIN g : /\ g[a] \in Links(t) /\ g[a].used = i[a].used
                               /\ g[a].next = IF a = p THEN e ELSE i[a].next
                               /\ g[a].prev = IF a = e THEN p ELSE i[a].prev
    <2>1. Joinable(i, t, p, n) /\ e = i[n].next /\ g = JoinOf(i, p, n)  BY <1>1
    <2>2. AreJoined(i, g, t, p, n, e)  BY ONLY <2>1, JoinOfIs
    <2> QED BY <2>2 DEF AreJoined
  <1>5. {0, t} \subseteq DOMAIN g /\ g[t].used /\ g[t].next = 0 /\ DOMAIN g \subseteq 0 .. t
    BY <1>2, <1>3, <1>4
  <1>6. ASSUME NEW a \in DOMAIN g
        PROVE  /\ g[a].next \in DOMAIN g /\ g[a].prev \in DOMAIN g
               /\ g[g[a].next].prev = a /\ g[g[a].prev].next = a
    <2>1. PICK b, c : b = i[a].next /\ c = i[a].prev  OBVIOUS
    <2>2. a \in DOMAIN i /\ a # n /\ b \in DOMAIN i /\ c \in DOMAIN i /\ i[b].prev = a /\ i[c].next = a
      BY <1>3, <1>4, <2>1, TilesAt
    <2>3. g[a].next \in DOMAIN g /\ g[g[a].next].prev = a
      <3>1. CASE a = p  BY <1>2, <1>4, <3>1
      <3>2. CASE a # p
        <4>1. b # n /\ b # e  BY <1>2, <2>2, <3>2
        <4> QED BY <1>4, <2>1, <2>2, <3>2, <4>1
      <3> QED BY <3>1, <3>2
    <2>4. g[a].prev \in DOMAIN g /\ g[g[a].prev].next = a
      <3>1. CASE a = e  BY <1>2, <1>3, <1>4, <3>1
      <3>2. CASE a # e
        <4>1. c # n /\ c # p  BY <1>1, <1>3, <2>2, <3>2
        <4> QED BY <1>4, <2>1, <2>2, <3>2, <4>1
      <3> QED BY <3>1, <3>2
    <2> QED BY <2>3, <2>4
  <1>7. ASSUME NEW a \in DOMAIN g, a # t
        PROVE  /\ a + RT_MEMHEAP_SIZE + RT_MEMHEAP_MINIALLOC <= g[a].next
               /\ \A j \in DOMAIN g : j <= a \/ g[a].next <= j
    <2>1. CASE a = p
      <3>1. p + RT_MEMHEAP_SIZE + RT_MEMHEAP_MINIALLOC <= e  BY ONLY <1>2, <1>3 DEF Pool
      <3>2. ASSUME NEW j \in DOMAIN g PROVE j <= p \/ e <= j
        <4>1. (j <= p \/ n <= j) /\ (j <= n \/ e <= j) /\ j # n /\ j \in 0 .. t
          BY <1>1, <1>3, <1>4, TilesLess
        <4> QED BY ONLY <1>2, <1>3, <4>1 DEF Pool
      <3> QED BY <1>4, <2>1, <3>1, <3>2
    <2>2. CASE a # p
      <3>1. a \in DOMAIN i /\ g[a].next = i[a].next  BY <1>4, <2>2
      <3> QED BY <1>3, <1>4, <1>7, <3>1, TilesLess
    <2> QED BY <2>1, <2>2
  <1> QED BY <1>3, <1>4, <1>5, <1>6, <1>7, Zenon DEF Tiles

\* The words of a block and its free words are integers.
LEMMA WordsInt ==
    ASSUME NEW i, NEW t, Tiles(i, t)
    PROVE  \A a \in 0 .. t : /\ Words(i, t)[a] \in Int /\ FreeWords(i, t)[a] \in Int
                             /\ FreeWords(i, t)[a] \in Nat
                             /\ FreeWords(i, t)[a] <= Words(i, t)[a]
  <1> SUFFICES ASSUME NEW a, a \in 0 .. t
               PROVE  /\ Words(i, t)[a] \in Int /\ FreeWords(i, t)[a] \in Int
                      /\ FreeWords(i, t)[a] \in Nat
                      /\ FreeWords(i, t)[a] <= Words(i, t)[a]
    OBVIOUS
  <1>1. Pool(t) /\ t \in DOMAIN i /\ i[t].used  BY DEF Tiles
  <1>2. CASE a \in DOMAIN i /\ a # t
    <2>1. PICK e : e = i[a].next  OBVIOUS
    <2>2. e \in 0 .. t /\ a + RT_MEMHEAP_SIZE + RT_MEMHEAP_MINIALLOC <= e
      BY <1>2, <2>1, TilesAt, TilesLess
    <2>3. /\ e - a - RT_MEMHEAP_SIZE \in Nat /\ e - a \in Nat
          /\ e - a - RT_MEMHEAP_SIZE <= e - a /\ 0 <= e - a
      BY ONLY <1>1, <2>2, a \in 0 .. t DEF Pool
    <2>4. Words(i, t)[a] = e - a  BY <1>2, <2>1 DEF Words
    <2>5. FreeWords(i, t)[a] = e - a - RT_MEMHEAP_SIZE \/ FreeWords(i, t)[a] = 0
      BY <1>2, <2>1 DEF FreeWords
    <2> QED BY ONLY <2>3, <2>4, <2>5
  <1>3. CASE ~(a \in DOMAIN i /\ a # t)
    <2>1. Words(i, t)[a] = 0 /\ FreeWords(i, t)[a] = 0
      BY <1>1, <1>3 DEF Words, FreeWords
    <2> QED BY ONLY <2>1
  <1> QED BY <1>2, <1>3

\* The sums when a block is joined
JoinedSums(i, g, t, p, n, e) ==
    /\ Total(Words(g, t), 0 .. t) = Total(Words(i, t), 0 .. t)
    /\ Total(FreeWords(i, t), 0 .. t) \in Int
    /\ ~i[p].used => Total(FreeWords(g, t), 0 .. t) =
                        Total(FreeWords(i, t), 0 .. t) + RT_MEMHEAP_SIZE
    /\ i[p].used => Total(FreeWords(g, t), 0 .. t) =
                        Total(FreeWords(i, t), 0 .. t) - (e - n - RT_MEMHEAP_SIZE)

\* Joining keeps the words of the heap; a header becomes free, or what was free
\* is taken.
LEMMA JoinSums ==
    ASSUME NEW i, NEW g, NEW t, NEW p, NEW n, NEW e,
           Joinable(i, t, p, n), g = JoinOf(i, p, n), e = i[n].next, ~i[n].used
    PROVE  JoinedSums(i, g, t, p, n, e)
  <1>1. /\ p \in 0 .. t /\ n \in 0 .. t /\ e \in 0 .. t /\ e \in DOMAIN i
        /\ p < n /\ n < e /\ p # n /\ n # e /\ p # e
    BY JoinableAt
  <1>2. /\ Tiles(i, t) /\ Pool(t) /\ n \in DOMAIN i /\ p \in DOMAIN i /\ p # t /\ n # t /\ i[p].next = n
    BY DEF Joinable, Tiles
  <1>3. Tiles(g, t)  BY JoinTiles
  <1>4. /\ DOMAIN g = DOMAIN i \ {n}
        /\ \A a \in DOMAIN g : g[a].used = i[a].used /\ g[a].next = IF a = p THEN e ELSE i[a].next
    <2>1. Joinable(i, t, p, n) /\ e = i[n].next /\ g = JoinOf(i, p, n)  OBVIOUS
    <2>2. AreJoined(i, g, t, p, n, e)  BY ONLY <2>1, JoinOfIs
    <2> QED BY <2>2 DEF AreJoined
  <1>5. PICK f, k, S : f = Words(i, t) /\ k = Words(g, t) /\ S = 0 .. t  OBVIOUS
  <1>6. PICK ff, fk : ff = FreeWords(i, t) /\ fk = FreeWords(g, t)  OBVIOUS
  <1>7. \A a \in S : f[a] \in Int /\ k[a] \in Int /\ ff[a] \in Int /\ fk[a] \in Int
    BY ONLY <1>2, <1>3, <1>5, <1>6, WordsInt
  <1>8. \A a \in S : a # p /\ a # n => k[a] = f[a] /\ fk[a] = ff[a]
    BY <1>4, <1>5, <1>6 DEF Words, FreeWords
  <1>9. f[p] = n - p /\ f[n] = e - n /\ k[p] = e - p /\ k[n] = 0
    BY <1>1, <1>2, <1>4, <1>5 DEF Words
  <1>10. /\ ff[n] = e - n - RT_MEMHEAP_SIZE /\ fk[n] = 0
         /\ i[p].used => ff[p] = 0 /\ fk[p] = 0
         /\ ~i[p].used => ff[p] = n - p - RT_MEMHEAP_SIZE /\ fk[p] = e - p - RT_MEMHEAP_SIZE
    BY <1>1, <1>2, <1>4, <1>6 DEF FreeWords
  <1>11. IsFiniteSet(S) /\ p \in S /\ n \in S /\ p # n /\ DifferAtBoth(f, k, S, p, n)
    BY <1>1, <1>2, <1>5, <1>7, <1>8 DEF DifferAtBoth, Pool
  <1>12. IsFiniteSet(S) /\ p \in S /\ n \in S /\ p # n /\ DifferAtBoth(ff, fk, S, p, n)
    BY <1>7, <1>8, <1>11 DEF DifferAtBoth
  <1>13. Total(f, S) \in Int /\ Total(k, S) = Total(f, S) - f[p] - f[n] + k[p] + k[n]
    BY ONLY <1>11, TotalChanges
  <1>14. Total(ff, S) \in Int /\ Total(fk, S) = Total(ff, S) - ff[p] - ff[n] + fk[p] + fk[n]
    BY ONLY <1>12, TotalChanges
  <1>15. p \in Int /\ n \in Int /\ e \in Int /\ RT_MEMHEAP_SIZE \in Int
    BY ONLY <1>1, <1>2 DEF Pool
  <1>16. Total(k, S) = Total(f, S)  BY ONLY <1>9, <1>13, <1>15
  <1>17. i[p].used => Total(fk, S) = Total(ff, S) - (e - n - RT_MEMHEAP_SIZE)
    BY ONLY <1>10, <1>14, <1>15
  <1>18. ~i[p].used => Total(fk, S) = Total(ff, S) + RT_MEMHEAP_SIZE
    BY ONLY <1>10, <1>14, <1>15
  <1> QED BY <1>5, <1>6, <1>14, <1>16, <1>17, <1>18 DEF JoinedSums

\* A free block can be joined to p, and what that leaves
JoinFor(i, g, t, p, n) ==
    Joinable(i, t, p, n) /\ g = JoinOf(i, p, n) /\ ~i[n].used /\ Separate(i, {p, n})
JoinKept(i, g, p, n) ==
    /\ SameOthers(i, g, p) /\ Separate(g, {p})
    /\ p \in DOMAIN g /\ g[p].used = i[p].used /\ g[p].next = i[n].next
    /\ i[i[n].next].used => Separate(g, {}) /\ g[g[p].next].used

\* Joining a free block keeps the other used blocks, and blocks apart.
LEMMA JoinKeeps ==
    ASSUME NEW i, NEW g, NEW t, NEW p, NEW n, JoinFor(i, g, t, p, n)
    PROVE  JoinKept(i, g, p, n)
  <1> USE DEF JoinFor
  <1>1. PICK e : e = i[n].next  OBVIOUS
  <1>2. /\ p \in 0 .. t /\ n \in 0 .. t /\ e \in 0 .. t /\ e \in DOMAIN i
        /\ p # n /\ n # e /\ p # e
    BY <1>1, JoinableAt
  <1>3. /\ Tiles(i, t) /\ n \in DOMAIN i /\ p \in DOMAIN i /\ i[p].next = n
    BY DEF Joinable
  <1>4. /\ DOMAIN g = DOMAIN i \ {n}
        /\ \A a \in DOMAIN g : g[a].used = i[a].used /\ g[a].next = IF a = p THEN e ELSE i[a].next
    <2>1. Joinable(i, t, p, n) /\ e = i[n].next /\ g = JoinOf(i, p, n)  BY <1>1
    <2>2. AreJoined(i, g, t, p, n, e)  BY ONLY <2>1, JoinOfIs
    <2> QED BY <2>2 DEF AreJoined
  <1>5. SameOthers(i, g, p)  BY <1>4 DEF SameOthers, UsedAt
  <1>6. g[p].next = e /\ g[e].used = i[e].used /\ p \in DOMAIN g /\ g[p].used = i[p].used
    BY <1>2, <1>3, <1>4
  <1>7. ASSUME NEW a \in DOMAIN g, ~g[a].used, a # p
        PROVE  g[g[a].next].used
    <2>1. PICK b : b = i[a].next  OBVIOUS
    <2>2. a \in DOMAIN i /\ ~i[a].used /\ g[a].next = b /\ a # n  BY <1>4, <1>7, <2>1
    <2>3. b \in DOMAIN i /\ i[b].prev = a /\ i[b].used
      <3>1. b \in DOMAIN i /\ i[b].prev = a
        <4>1. Tiles(i, t) /\ a \in DOMAIN i  BY <1>3, <2>2
        <4> QED BY ONLY <2>1, <4>1, TilesAt, Zenon
      <3>2. i[b].used  BY <1>7, <2>1, <2>2 DEF Separate
      <3> QED BY <3>1, <3>2
    <2>4. b # n  BY <2>3
    <2> QED BY <1>4, <2>2, <2>3, <2>4
  <1>8. Separate(g, {p})  BY <1>7 DEF Separate
  <1>9. i[e].used => Separate(g, {}) /\ g[g[p].next].used
    BY <1>6, <1>7, Zenon DEF Separate
  <1> QED BY <1>1, <1>5, <1>6, <1>8, <1>9 DEF JoinKept

\* Block m can be cut at n.
Cuttable(i, t, m, n) ==
    /\ Tiles(i, t) /\ m \in DOMAIN i /\ m # t /\ n \in Nat
    /\ m + RT_MEMHEAP_SIZE + RT_MEMHEAP_MINIALLOC <= n
    /\ n + RT_MEMHEAP_SIZE + RT_MEMHEAP_MINIALLOC <= i[m].next

\* The blocks that cut leaves
CutOf(i, m, n) ==
    LET e == i[m].next
        k == [i EXCEPT ![m].next = n, ![e].prev = n]
    IN  [a \in DOMAIN k \cup {n} |->
            IF a = n THEN [used |-> FALSE, next |-> e, prev |-> m] ELSE k[a]]

\* The places
LEMMA CuttableAt ==
    ASSUME NEW i, NEW t, NEW m, NEW n, NEW e, Cuttable(i, t, m, n), e = i[m].next
    PROVE  /\ m \in 0 .. t /\ n \in 0 .. t /\ e \in 0 .. t /\ e \in DOMAIN i /\ n \notin DOMAIN i
           /\ m < n /\ n < e /\ m # n /\ n # e /\ m # e /\ n # 0 /\ n # t /\ i[e].prev = m
  <1>1. /\ Tiles(i, t) /\ m \in DOMAIN i /\ m # t /\ n \in Nat /\ Pool(t) /\ DOMAIN i \subseteq 0 .. t
        /\ m + RT_MEMHEAP_SIZE + RT_MEMHEAP_MINIALLOC <= n
        /\ n + RT_MEMHEAP_SIZE + RT_MEMHEAP_MINIALLOC <= e
    BY Zenon DEF Cuttable, Tiles
  <1>2. m \in 0 .. t /\ e \in 0 .. t /\ e \in DOMAIN i /\ i[e].prev = m
    BY <1>1, TilesAt, Zenon
  <1>3. /\ n \in 0 .. t /\ m < n /\ n < e /\ m # n /\ n # e /\ m # e /\ n # 0 /\ n # t
        /\ ~(n <= m) /\ ~(e <= n)
    BY ONLY <1>1, <1>2 DEF Pool
  <1>4. \A j \in DOMAIN i : j <= m \/ e <= j  BY <1>1, TilesLess
  <1>5. n \notin DOMAIN i  BY <1>3, <1>4
  <1> QED BY <1>2, <1>3, <1>5

\* Block by block: m ends at n, where a free block begins.
AreCut(i, g, t, m, n, e) ==
    /\ DOMAIN g = DOMAIN i \cup {n}
    /\ g[n] = [used |-> FALSE, next |-> e, prev |-> m]
    /\ \A a \in DOMAIN i :
          /\ g[a] \in Links(t) /\ g[a].used = i[a].used
          /\ g[a].next = IF a = m THEN n ELSE i[a].next
          /\ g[a].prev = IF a = e THEN n ELSE i[a].prev

\* What CutOf leaves of each block
LEMMA CutOfIs ==
    ASSUME NEW i, NEW t, NEW m, NEW n, NEW e, NEW g,
           Cuttable(i, t, m, n), e = i[m].next, g = CutOf(i, m, n)
    PROVE  AreCut(i, g, t, m, n, e)
  <1>1. /\ m \in 0 .. t /\ n \in 0 .. t /\ e \in 0 .. t /\ e \in DOMAIN i /\ n \notin DOMAIN i
        /\ m # n /\ n # e /\ m # e
    BY CuttableAt
  <1>2. m \in DOMAIN i /\ \A a \in DOMAIN i : i[a] \in Links(t)  BY DEF Cuttable, Tiles
  <1>3. PICK k1 : k1 = [i EXCEPT ![m].next = n]  BY Zenon
  <1>4. PICK k : k = [k1 EXCEPT ![e].prev = n]  BY Zenon
  <1>5. k1[m] = [used |-> i[m].used, next |-> n, prev |-> i[m].prev]
    BY <1>2, <1>3 DEF Links
  <1>6. k[e] = [used |-> i[e].used, next |-> i[e].next, prev |-> n]
    BY <1>1, <1>2, <1>3, <1>4 DEF Links
  <1>7. k[m] = k1[m] /\ DOMAIN k = DOMAIN i /\ \A a \in DOMAIN i : a # m /\ a # e => k[a] = i[a]
    BY <1>1, <1>2, <1>3, <1>4
  <1>8. g = [a \in DOMAIN k \cup {n} |->
                IF a = n THEN [used |-> FALSE, next |-> e, prev |-> m] ELSE k[a]]
    BY <1>3, <1>4 DEF CutOf
  <1>9. DOMAIN g = DOMAIN i \cup {n} /\ g[n] = [used |-> FALSE, next |-> e, prev |-> m]
        /\ \A a \in DOMAIN i : g[a] = k[a]
    BY <1>1, <1>7, <1>8
  <1>10. ASSUME NEW a \in DOMAIN i
         PROVE  /\ g[a] \in Links(t) /\ g[a].used = i[a].used
                /\ g[a].next = IF a = m THEN n ELSE i[a].next
                /\ g[a].prev = IF a = e THEN n ELSE i[a].prev
    <2>1. CASE a = m  BY <1>1, <1>2, <1>5, <1>7, <1>9, <2>1 DEF Links
    <2>2. CASE a = e  BY <1>1, <1>2, <1>6, <1>9, <2>2 DEF Links
    <2>3. CASE a # m /\ a # e  BY <1>2, <1>7, <1>9, <2>3
    <2> QED BY <2>1, <2>2, <2>3
  <1> QED BY <1>9, <1>10 DEF AreCut

\* Cut blocks still tile the heap.
LEMMA CutTiles ==
    ASSUME NEW i, NEW g, NEW t, NEW m, NEW n, Cuttable(i, t, m, n), g = CutOf(i, m, n)
    PROVE  Tiles(g, t)
  <1>1. PICK e : e = i[m].next  OBVIOUS
  <1>2. /\ m \in 0 .. t /\ n \in 0 .. t /\ e \in 0 .. t /\ e \in DOMAIN i /\ n \notin DOMAIN i
        /\ m < n /\ n < e /\ m # n /\ n # e /\ m # e /\ n # 0 /\ n # t /\ i[e].prev = m
    BY <1>1, CuttableAt
  <1>3. /\ Tiles(i, t) /\ Pool(t) /\ m \in DOMAIN i /\ m # t /\ i[m].next = e
        /\ DOMAIN i \subseteq 0 .. t /\ {0, t} \subseteq DOMAIN i /\ i[t].used /\ i[t].next = 0
        /\ m + RT_MEMHEAP_SIZE + RT_MEMHEAP_MINIALLOC <= n
        /\ n + RT_MEMHEAP_SIZE + RT_MEMHEAP_MINIALLOC <= e
    BY <1>1, Zenon DEF Cuttable, Tiles
  <1>4. /\ DOMAIN g = DOMAIN i \cup {n}
        /\ g[n] = [used |-> FALSE, next |-> e, prev |-> m]
        /\ \A a \in DOMAIN i : /\ g[a] \in Links(t) /\ g[a].used = i[a].used
                               /\ g[a].next = IF a = m THEN n ELSE i[a].next
                               /\ g[a].prev = IF a = e THEN n ELSE i[a].prev
    <2>1. Cuttable(i, t, m, n) /\ e = i[m].next /\ g = CutOf(i, m, n)  BY <1>1
    <2>2. AreCut(i, g, t, m, n, e)  BY ONLY <2>1, CutOfIs
    <2> QED BY <2>2 DEF AreCut
  <1>5. g[n].next = e /\ g[n].prev = m /\ g[n] \in Links(t)
    <2>1. FALSE \in BOOLEAN  OBVIOUS
    <2> QED BY <1>2, <1>4, <2>1 DEF Links
  <1>6. {0, t} \subseteq DOMAIN g /\ g[t].used /\ g[t].next = 0 /\ DOMAIN g \subseteq 0 .. t
    BY <1>2, <1>3, <1>4
  <1>7. \A a \in DOMAIN g : g[a] \in Links(t)  BY <1>4, <1>5, Zenon
  <1>8. ASSUME NEW a \in DOMAIN g
        PROVE  /\ g[a].next \in DOMAIN g /\ g[a].prev \in DOMAIN g
               /\ g[g[a].next].prev = a /\ g[g[a].prev].next = a
    <2>1. CASE a = n
      <3>1. e \in DOMAIN g /\ m \in DOMAIN g /\ g[e].prev = n /\ g[m].next = n
        BY <1>2, <1>3, <1>4
      <3> QED BY <1>5, <2>1, <3>1
    <2>2. CASE a # n
      <3>1. PICK b, c : b = i[a].next /\ c = i[a].prev  OBVIOUS
      <3>2. a \in DOMAIN i  BY <1>4, <2>2
      <3>3. b \in DOMAIN i /\ c \in DOMAIN i /\ i[b].prev = a /\ i[c].next = a
        BY ONLY <1>3, <3>1, <3>2, TilesAt
      <3>4. g[a].next \in DOMAIN g /\ g[g[a].next].prev = a
        <4>1. CASE a = m  BY <1>4, <1>5, <3>2, <4>1
        <4>2. CASE a # m
          <5>1. b # e  BY <1>2, <3>3, <4>2
          <5> QED BY <1>4, <3>1, <3>2, <3>3, <4>2, <5>1
        <4> QED BY <4>1, <4>2
      <3>5. g[a].prev \in DOMAIN g /\ g[g[a].prev].next = a
        <4>1. CASE a = e  BY <1>4, <1>5, <3>2, <4>1
        <4>2. CASE a # e
          <5>1. c # m  BY <1>3, <3>3, <4>2
          <5> QED BY <1>4, <3>1, <3>2, <3>3, <4>2, <5>1
        <4> QED BY <4>1, <4>2
      <3> QED BY <3>4, <3>5
    <2> QED BY <2>1, <2>2
  <1>9. ASSUME NEW a \in DOMAIN g, a # t
        PROVE  /\ a + RT_MEMHEAP_SIZE + RT_MEMHEAP_MINIALLOC <= g[a].next
               /\ \A j \in DOMAIN g : j <= a \/ g[a].next <= j
    <2>1. \A j \in DOMAIN i : j \in 0 .. t /\ (j <= m \/ e <= j)  BY <1>3, TilesLess
    <2>2. CASE a = n
      <3>1. ASSUME NEW j \in DOMAIN g PROVE j <= n \/ e <= j
        <4>1. CASE j = n  BY ONLY <1>2, <1>3, <4>1 DEF Pool
        <4>2. CASE j # n
          <5>1. j \in 0 .. t /\ (j <= m \/ e <= j)  BY <1>4, <2>1, <4>2
          <5> QED BY ONLY <1>2, <1>3, <5>1 DEF Pool
        <4> QED BY <4>1, <4>2
      <3> QED BY <1>3, <1>5, <2>2, <3>1
    <2>3. CASE a = m
      <3>1. ASSUME NEW j \in DOMAIN g PROVE j <= m \/ n <= j
        <4>1. CASE j = n  BY ONLY <1>2, <1>3, <4>1 DEF Pool
        <4>2. CASE j # n
          <5>1. j \in 0 .. t /\ (j <= m \/ e <= j)  BY <1>4, <2>1, <4>2
          <5> QED BY ONLY <1>2, <1>3, <5>1 DEF Pool
        <4> QED BY <4>1, <4>2
      <3> QED BY <1>3, <1>4, <2>3, <3>1
    <2>4. CASE a # n /\ a # m
      <3>1. PICK b : b = i[a].next  OBVIOUS
      <3>2. a \in DOMAIN i /\ g[a].next = b /\ a \in 0 .. t  BY <1>3, <1>4, <2>4, <3>1
      <3>3. b \in DOMAIN i /\ b \in 0 .. t /\ i[b].prev = a
        BY ONLY <1>3, <3>1, <3>2, TilesAt
      <3>4. /\ a + RT_MEMHEAP_SIZE + RT_MEMHEAP_MINIALLOC <= b /\ a < b
            /\ \A j \in DOMAIN i : j <= a \/ b <= j
        BY <1>3, <1>9, <3>1, <3>2, TilesLess
      <3>5. n <= a \/ b <= n
        <4>1. (m <= a \/ b <= m) /\ (a <= m \/ e <= a)  BY <1>3, <2>1, <3>2, <3>4
        <4> QED BY ONLY <1>2, <1>3, <2>4, <3>2, <3>3, <4>1 DEF Pool
      <3>6. \A j \in DOMAIN g : j <= a \/ b <= j  BY <1>4, <3>4, <3>5
      <3> QED BY <3>2, <3>4, <3>6
    <2> QED BY <2>2, <2>3, <2>4
  <1> QED BY <1>3, <1>6, <1>7, <1>8, <1>9, Zenon DEF Tiles

\* Cutting a used block keeps the words of the heap; what is cut off is free.
LEMMA CutSums ==
    ASSUME NEW i, NEW g, NEW t, NEW m, NEW n, NEW e,
           Cuttable(i, t, m, n), g = CutOf(i, m, n), e = i[m].next, i[m].used
    PROVE  /\ Total(Words(g, t), 0 .. t) = Total(Words(i, t), 0 .. t)
           /\ Total(FreeWords(i, t), 0 .. t) \in Int
           /\ Total(FreeWords(g, t), 0 .. t) =
                  Total(FreeWords(i, t), 0 .. t) + (e - n - RT_MEMHEAP_SIZE)
  <1>1. /\ m \in 0 .. t /\ n \in 0 .. t /\ e \in 0 .. t /\ e \in DOMAIN i /\ n \notin DOMAIN i
        /\ m < n /\ n < e /\ m # n /\ n # t
    BY CuttableAt
  <1>2. Tiles(i, t) /\ Pool(t) /\ m \in DOMAIN i /\ m # t /\ i[m].next = e
    BY DEF Cuttable, Tiles
  <1>3. Tiles(g, t)  BY CutTiles
  <1>4. /\ DOMAIN g = DOMAIN i \cup {n} /\ g[n].next = e /\ ~g[n].used
        /\ \A a \in DOMAIN i : g[a].used = i[a].used /\ g[a].next = IF a = m THEN n ELSE i[a].next
    <2>1. Cuttable(i, t, m, n) /\ e = i[m].next /\ g = CutOf(i, m, n)  OBVIOUS
    <2>2. AreCut(i, g, t, m, n, e)  BY ONLY <2>1, CutOfIs
    <2> QED BY <2>2 DEF AreCut
  <1>5. PICK f, k, S : f = Words(i, t) /\ k = Words(g, t) /\ S = 0 .. t  OBVIOUS
  <1>6. PICK ff, fk : ff = FreeWords(i, t) /\ fk = FreeWords(g, t)  OBVIOUS
  <1>7. \A a \in S : f[a] \in Int /\ k[a] \in Int /\ ff[a] \in Int /\ fk[a] \in Int
    BY ONLY <1>2, <1>3, <1>5, <1>6, WordsInt
  <1>8. \A a \in S : a # m /\ a # n => k[a] = f[a] /\ fk[a] = ff[a]
    BY <1>4, <1>5, <1>6 DEF Words, FreeWords
  <1>9. f[m] = e - m /\ f[n] = 0 /\ k[m] = n - m /\ k[n] = e - n
    BY <1>1, <1>2, <1>4, <1>5 DEF Words
  <1>10. ff[m] = 0 /\ ff[n] = 0 /\ fk[m] = 0 /\ fk[n] = e - n - RT_MEMHEAP_SIZE
    BY <1>1, <1>2, <1>4, <1>6 DEF FreeWords
  <1>11. IsFiniteSet(S) /\ m \in S /\ n \in S /\ m # n /\ DifferAtBoth(f, k, S, m, n)
    BY <1>1, <1>2, <1>5, <1>7, <1>8, Zenon DEF DifferAtBoth, Pool
  <1>12. IsFiniteSet(S) /\ m \in S /\ n \in S /\ m # n /\ DifferAtBoth(ff, fk, S, m, n)
    BY <1>7, <1>8, <1>11 DEF DifferAtBoth
  <1>13. Total(f, S) \in Int /\ Total(k, S) = Total(f, S) - f[m] - f[n] + k[m] + k[n]
    BY ONLY <1>11, TotalChanges
  <1>14. Total(ff, S) \in Int /\ Total(fk, S) = Total(ff, S) - ff[m] - ff[n] + fk[m] + fk[n]
    BY ONLY <1>12, TotalChanges
  <1>15. m \in Int /\ n \in Int /\ e \in Int /\ RT_MEMHEAP_SIZE \in Int
    BY ONLY <1>1, <1>2 DEF Pool
  <1>16. Total(k, S) = Total(f, S)  BY ONLY <1>9, <1>13, <1>15
  <1>17. Total(fk, S) = Total(ff, S) + (e - n - RT_MEMHEAP_SIZE)
    BY ONLY <1>10, <1>14, <1>15
  <1> QED BY <1>5, <1>6, <1>14, <1>16, <1>17

\* A used block can be cut at n, and what that leaves
CutsFor(i, g, t, m, n, e) ==
    Cuttable(i, t, m, n) /\ g = CutOf(i, m, n) /\ e = i[m].next /\ i[m].used /\ Separate(i, {})
CutKept(i, g, m, n, e) ==
    /\ SameOthers(i, g, m) /\ Separate(g, {n})
    /\ m \in DOMAIN g /\ g[m].used /\ g[m].next = n
    /\ n \in DOMAIN g /\ ~g[n].used /\ g[n].next = e /\ g[n].prev = m
    /\ e \in DOMAIN g /\ g[e].used = i[e].used /\ g[e].next = i[e].next

\* Cutting keeps the other used blocks; only what is cut off may be beside a
\* free block.
LEMMA CutKeeps ==
    ASSUME NEW i, NEW g, NEW t, NEW m, NEW n, NEW e,
           CutsFor(i, g, t, m, n, e)
    PROVE  CutKept(i, g, m, n, e)
  <1> USE DEF CutsFor
  <1>1. /\ m # n /\ n # e /\ m # e /\ n \notin DOMAIN i /\ e \in DOMAIN i  BY CuttableAt
  <1>2. Tiles(i, t) /\ m \in DOMAIN i /\ m # t /\ i[m].next = e  BY DEF Cuttable
  <1>3. /\ DOMAIN g = DOMAIN i \cup {n} /\ g[n].next = e /\ ~g[n].used /\ g[n].prev = m
        /\ \A a \in DOMAIN i : g[a].used = i[a].used /\ g[a].next = IF a = m THEN n ELSE i[a].next
    <2>1. Cuttable(i, t, m, n) /\ e = i[m].next /\ g = CutOf(i, m, n)  OBVIOUS
    <2>2. AreCut(i, g, t, m, n, e)  BY ONLY <2>1, CutOfIs
    <2> QED BY <2>2 DEF AreCut
  <1>4. SameOthers(i, g, m)  BY <1>1, <1>3 DEF SameOthers, UsedAt
  <1>5. ASSUME NEW a \in DOMAIN g, a # n, ~g[a].used PROVE g[g[a].next].used
    <2>1. a \in DOMAIN i /\ ~i[a].used /\ a # m  BY <1>3, <1>5
    <2>2. i[a].next \in DOMAIN i  BY ONLY <1>2, <2>1, TilesAt, Zenon
    <2> QED BY <1>3, <2>1, <2>2 DEF Separate
  <1> QED BY <1>1, <1>2, <1>3, <1>4, <1>5 DEF Separate, CutKept

\* The flag of block m is set to v.
MarkOf(i, m, v) == [i EXCEPT ![m].used = v]

\* Block m can be marked so, and what that leaves
MarkFor(i, g, t, m, v) ==
    Tiles(i, t) /\ m \in DOMAIN i /\ m # t /\ v \in BOOLEAN /\ g = MarkOf(i, m, v)
AreMarked(i, g, t, m, v) ==
    /\ Tiles(g, t) /\ SameOthers(i, g, m) /\ DOMAIN g = DOMAIN i /\ g[m].used = v
    /\ \A a \in DOMAIN i : /\ g[a].next = i[a].next /\ g[a].prev = i[a].prev
                           /\ a # m => g[a].used = i[a].used

\* It changes nothing else.
LEMMA MarkOfIs ==
    ASSUME NEW i, NEW g, NEW t, NEW m, NEW v, MarkFor(i, g, t, m, v)
    PROVE  AreMarked(i, g, t, m, v)
  <1> USE DEF MarkFor
  <1>1. \A a \in DOMAIN i : i[a] \in Links(t)  BY DEF Tiles
  <1>2. g[m] = [used |-> v, next |-> i[m].next, prev |-> i[m].prev]
    BY <1>1 DEF Links, MarkOf
  <1>3. DOMAIN g = DOMAIN i /\ \A a \in DOMAIN i : a # m => g[a] = i[a]  BY DEF MarkOf
  <1>4. g[m] \in Links(t)  BY <1>1, <1>2 DEF Links
  <1>5. \A a \in DOMAIN i : /\ g[a] \in Links(t) /\ g[a].next = i[a].next /\ g[a].prev = i[a].prev
                            /\ a # m => g[a].used = i[a].used
    BY <1>1, <1>2, <1>3, <1>4
  <1>6. Tiles(g, t)
    <2>1. /\ Pool(t) /\ DOMAIN g \subseteq 0 .. t /\ {0, t} \subseteq DOMAIN g
          /\ g[t].used /\ g[t].next = 0
      BY <1>3, <1>5, Zenon DEF Tiles
    <2>2. ASSUME NEW a \in DOMAIN g
          PROVE  /\ g[a] \in Links(t)
                 /\ g[a].next \in DOMAIN g /\ g[a].prev \in DOMAIN g
                 /\ g[g[a].next].prev = a /\ g[g[a].prev].next = a
      <3>1. PICK b, c : b = i[a].next /\ c = i[a].prev  OBVIOUS
      <3>2. a \in DOMAIN i  BY <1>3
      <3>3. b \in DOMAIN i /\ c \in DOMAIN i /\ i[b].prev = a /\ i[c].next = a
        BY ONLY Tiles(i, t), <3>1, <3>2, TilesAt
      <3> QED BY <1>3, <1>5, <3>1, <3>2, <3>3
    <2>3. ASSUME NEW a \in DOMAIN g, a # t
          PROVE  /\ a + RT_MEMHEAP_SIZE + RT_MEMHEAP_MINIALLOC <= g[a].next
                 /\ \A j \in DOMAIN g : j <= a \/ g[a].next <= j
      BY <1>3, <1>5, <2>3, TilesLess
    <2> QED BY <2>1, <2>2, <2>3, Zenon DEF Tiles
  <1>7. SameOthers(i, g, m)  BY <1>3, <1>5 DEF SameOthers, UsedAt
  <1> QED BY <1>2, <1>3, <1>5, <1>6, <1>7 DEF AreMarked

\* The data of a block that is marked becomes free, or is taken.
AreWeighed(i, g, t, m, v) ==
    /\ Total(Words(g, t), 0 .. t) = Total(Words(i, t), 0 .. t)
    /\ Total(FreeWords(i, t), 0 .. t) \in Int
    /\ v => Total(FreeWords(g, t), 0 .. t) =
                Total(FreeWords(i, t), 0 .. t) - (i[m].next - m - RT_MEMHEAP_SIZE)
    /\ ~v => Total(FreeWords(g, t), 0 .. t) =
                Total(FreeWords(i, t), 0 .. t) + (i[m].next - m - RT_MEMHEAP_SIZE)

\* The sums when a flag is changed
LEMMA MarkSums ==
    ASSUME NEW i, NEW g, NEW t, NEW m, NEW v,
           MarkFor(i, g, t, m, v), i[m].used = ~v
    PROVE  AreWeighed(i, g, t, m, v)
  <1> USE DEF MarkFor
  <1>1. /\ Tiles(g, t) /\ DOMAIN g = DOMAIN i /\ g[m].used = v
        /\ \A a \in DOMAIN i : g[a].next = i[a].next /\ (a # m => g[a].used = i[a].used)
    <2>1. AreMarked(i, g, t, m, v)  BY ONLY MarkFor(i, g, t, m, v), MarkOfIs
    <2> QED BY <2>1 DEF AreMarked
  <1>2. Words(g, t) = Words(i, t)  BY <1>1 DEF Words
  <1>3. PICK e, d : e = i[m].next /\ d = e - m - RT_MEMHEAP_SIZE  OBVIOUS
  <1>4. m \in 0 .. t /\ e \in 0 .. t /\ Pool(t)  BY <1>3, TilesAt, Zenon DEF Tiles
  <1>5. PICK f, k, S : f = FreeWords(i, t) /\ k = FreeWords(g, t) /\ S = 0 .. t  OBVIOUS
  <1>6. \A a \in S : f[a] \in Int /\ k[a] \in Int
    BY ONLY <1>1, <1>5, WordsInt, Tiles(i, t)
  <1>7. \A a \in S : a # m => k[a] = f[a]  BY <1>1, <1>5 DEF FreeWords
  <1>8. IsFiniteSet(S) /\ m \in S /\ DifferAt(f, k, S, m)
    BY <1>4, <1>5, <1>6, <1>7 DEF DifferAt, Pool
  <1>9. Total(f, S) \in Int /\ Total(k, S) = Total(f, S) - f[m] + k[m]
    BY ONLY <1>8, TotalChange
  <1>10. /\ v => f[m] = d /\ k[m] = 0
         /\ ~v => f[m] = 0 /\ k[m] = d
    BY <1>1, <1>3, <1>4, <1>5, Zenon DEF FreeWords
  <1>11. d \in Int  BY ONLY <1>3, <1>4 DEF Pool
  <1>12. /\ v => Total(k, S) = Total(f, S) - d
         /\ ~v => Total(k, S) = Total(f, S) + d
    BY ONLY <1>9, <1>10, <1>11
  <1> QED BY <1>2, <1>3, <1>5, <1>9, <1>12 DEF AreWeighed

\* The state of a heap
Region(i, fl, av) == [item |-> i, free_list |-> fl, available_size |-> av]

\* Its parts
LEMMA RegionParts ==
    ASSUME NEW i, NEW fl, NEW av
    PROVE  /\ Region(i, fl, av).item = i /\ Region(i, fl, av).free_list = fl
           /\ Region(i, fl, av).available_size = av
  BY DEF Region

\* Taking a block from the list
LEMMA UnlinkIs ==
    ASSUME NEW i, NEW fl, NEW av, NEW m
    PROVE  unlink_free(Region(i, fl, av), m) = Region(i, RemoveFirst(fl, m), av)
  BY DEF Region, unlink_free

\* Putting a block on the list
LEMMA LinkIs ==
    ASSUME NEW i, NEW fl, NEW av, NEW m
    PROVE  link_free(Region(i, fl, av), m) = Region(i, <<m>> \o fl, av)
  <1>1. PICK r, k : r = Region(i, fl, av) /\ k = <<m>> \o fl  BY Zenon
  <1>2. r.free_list = fl  BY <1>1, RegionParts
  <1>3. link_free(r, m) = [r EXCEPT !.free_list = k]  BY <1>1, <1>2 DEF link_free
  <1>4. [r EXCEPT !.free_list = k] = Region(i, k, av)
    <2>1. r = Region(i, fl, av)  BY <1>1
    <2> QED BY ONLY <2>1 DEF Region
  <1> QED BY <1>1, <1>3, <1>4

\* join
LEMMA JoinIs ==
    ASSUME NEW i, NEW fl, NEW av, NEW n
    PROVE  join(Region(i, fl, av), n) = Region(JoinOf(i, i[n].prev, n), fl, av)
  <1>1. PICK r : r = Region(i, fl, av)  OBVIOUS
  <1>2. r.item = i /\ r.free_list = fl /\ r.available_size = av  BY <1>1, RegionParts
  <1>3. PICK j : j = JoinOf(i, i[n].prev, n)  OBVIOUS
  <1>4. join(r, n) = [r EXCEPT !.item = j]  BY <1>2, <1>3 DEF join, JoinOf
  <1>5. [r EXCEPT !.item = j] = Region(j, fl, av)  BY <1>1 DEF Region
  <1> QED BY <1>1, <1>3, <1>4, <1>5

\* join of a listed block
LEMMA JoinNextIs ==
    ASSUME NEW i, NEW fl, NEW av, NEW n
    PROVE  join_next(Region(i, fl, av), n) = Region(JoinOf(i, i[n].prev, n), RemoveFirst(fl, n), av)
  BY UnlinkIs, JoinIs DEF join_next

\* cut
LEMMA CutIs ==
    ASSUME NEW i, NEW fl, NEW av, NEW m, NEW n
    PROVE  cut(Region(i, fl, av), m, n) = Region(CutOf(i, m, n), fl, av)
  <1>1. PICK r : r = Region(i, fl, av)  OBVIOUS
  <1>2. r.item = i /\ r.free_list = fl /\ r.available_size = av  BY <1>1, RegionParts
  <1>3. PICK j : j = CutOf(i, m, n)  OBVIOUS
  <1>4. cut(r, m, n) = [r EXCEPT !.item = j]  BY <1>2, <1>3 DEF cut, CutOf
  <1>5. [r EXCEPT !.item = j] = Region(j, fl, av)  BY <1>1 DEF Region
  <1> QED BY <1>1, <1>3, <1>4, <1>5

\* An assignment to available_size
LEMMA CountIs ==
    ASSUME NEW i, NEW fl, NEW av, NEW x
    PROVE  [Region(i, fl, av) EXCEPT !.available_size = x] = Region(i, fl, x)
  BY DEF Region

\* The block at m is found, and what is left of the heap
AllocFor(r, i, fl, av, size, m, n, d) ==
    /\ r = Region(i, fl, av) /\ m = fl[Min(Found(r, size))]
    /\ n = m + size + RT_MEMHEAP_SIZE /\ d = i[m].next - m - RT_MEMHEAP_SIZE
AllocOf(i, fl, av, size, m, n, d) ==
    IF d - size - RT_MEMHEAP_SIZE >= RT_MEMHEAP_MINIALLOC
    THEN Region(CutOf(MarkOf(i, m, TRUE), m, n), <<n>> \o RemoveFirst(fl, m),
                av - size - RT_MEMHEAP_SIZE)
    ELSE Region(MarkOf(i, m, TRUE), RemoveFirst(fl, m), av - d)

\* rt_memheap_alloc
LEMMA AllocIs ==
    ASSUME NEW i, NEW fl, NEW av, NEW size, NEW m, NEW n, NEW d, NEW r,
           AllocFor(r, i, fl, av, size, m, n, d)
    PROVE  alloc(r, size) = AllocOf(i, fl, av, size, m, n, d)
  <1> SUFFICES ASSUME r = Region(i, fl, av), m = fl[Min(Found(r, size))],
                      n = m + size + RT_MEMHEAP_SIZE, d = i[m].next - m - RT_MEMHEAP_SIZE
               PROVE  alloc(r, size) = AllocOf(i, fl, av, size, m, n, d)
    BY DEF AllocFor
  <1>1. r = Region(i, fl, av)  OBVIOUS
  <1>2. r.item = i /\ r.free_list = fl /\ r.available_size = av  BY <1>1, RegionParts
  <1>3. m = r.free_list[Min(Found(r, size))] /\ ItemSize(r, m) = d
    BY <1>1, <1>2 DEF ItemSize
  <1>4. PICK k : k = RemoveFirst(fl, m)  OBVIOUS
  <1>5. PICK j : j = MarkOf(i, m, TRUE)  BY Zenon
  <1>6. PICK u : u = [unlink_free(r, m) EXCEPT !.item[m].used = TRUE]  BY Zenon
  <1>7. u = Region(j, k, av)
    <2>1. unlink_free(r, m) = [item |-> i, free_list |-> k, available_size |-> av]
      BY <1>1, <1>4, UnlinkIs DEF Region
    <2>2. PICK v : v = unlink_free(r, m)  OBVIOUS
    <2>3. u = [v EXCEPT !.item = [v.item EXCEPT ![m].used = TRUE]]  BY ONLY <1>6, <2>2
    <2>4. v = [item |-> i, free_list |-> k, available_size |-> av] /\ v.item = i
      BY ONLY <2>1, <2>2
    <2>5. u = [v EXCEPT !.item = j]  BY ONLY <1>5, <2>3, <2>4 DEF MarkOf
    <2> QED BY ONLY <2>4, <2>5 DEF Region
  <1>8. PICK c : c = Region(CutOf(j, m, n), <<n>> \o k, av)  OBVIOUS
  <1>9. link_free(cut(u, m, n), n) = c  BY <1>7, <1>8, CutIs, LinkIs
  <1>10. alloc(r, size) =
            IF d - size - RT_MEMHEAP_SIZE >= RT_MEMHEAP_MINIALLOC
            THEN [c EXCEPT !.available_size = @ - size - RT_MEMHEAP_SIZE]
            ELSE [u EXCEPT !.available_size = @ - d]
    BY <1>3, <1>6, <1>9 DEF alloc
  <1>11. c.available_size = av /\ u.available_size = av  BY <1>7, <1>8, RegionParts
  <1>12. [c EXCEPT !.available_size = @ - size - RT_MEMHEAP_SIZE] =
             Region(CutOf(j, m, n), <<n>> \o k, av - size - RT_MEMHEAP_SIZE)
    BY <1>8, <1>11, CountIs
  <1>13. [u EXCEPT !.available_size = @ - d] = Region(j, k, av - d)
    BY <1>7, <1>11, CountIs
  <1> QED BY <1>1, <1>4, <1>5, <1>10, <1>12, <1>13 DEF AllocOf

\* The block e behind m is joined to it.
GrowFor(r, i, fl, av, newsize, m, n, e, j, d) ==
    /\ r = Region(i, fl, av) /\ n = m + RT_MEMHEAP_SIZE + newsize /\ e = i[m].next
    /\ j = JoinOf(i, i[e].prev, e) /\ d = i[m].next - m - RT_MEMHEAP_SIZE

\* rt_memheap_realloc into the next block
LEMMA GrowIs ==
    ASSUME NEW i, NEW fl, NEW av, NEW newsize, NEW m, NEW n, NEW e, NEW j, NEW d, NEW r,
           GrowFor(r, i, fl, av, newsize, m, n, e, j, d)
    PROVE  grow(r, m, newsize) =
               Region(CutOf(j, m, n), <<n>> \o RemoveFirst(fl, e), av - (newsize - d))
  <1> SUFFICES ASSUME r = Region(i, fl, av), n = m + RT_MEMHEAP_SIZE + newsize, e = i[m].next,
                      j = JoinOf(i, i[e].prev, e), d = i[m].next - m - RT_MEMHEAP_SIZE
               PROVE  grow(r, m, newsize) =
                          Region(CutOf(j, m, n), <<n>> \o RemoveFirst(fl, e), av - (newsize - d))
    BY DEF GrowFor
  <1>1. r = Region(i, fl, av)  OBVIOUS
  <1>2. r.item = i  BY <1>1, RegionParts
  <1>3. ItemSize(r, m) = d /\ r.item[m].next = e  BY <1>2 DEF ItemSize
  <1>4. PICK k : k = RemoveFirst(fl, e)  OBVIOUS
  <1>5. join_next(r, e) = Region(j, k, av)  BY <1>1, <1>4, JoinNextIs
  <1>6. PICK c : c = Region(CutOf(j, m, n), <<n>> \o k, av)  OBVIOUS
  <1>7. link_free(cut(Region(j, k, av), m, n), n) = c  BY <1>6, CutIs, LinkIs
  <1>8. grow(r, m, newsize) = [c EXCEPT !.available_size = @ - (newsize - d)]
    BY <1>3, <1>5, <1>7 DEF grow
  <1>9. c.available_size = av  BY <1>6, RegionParts
  <1>10. [c EXCEPT !.available_size = @ - (newsize - d)] = Region(CutOf(j, m, n), <<n>> \o k, av - (newsize - d))
    BY <1>6, <1>9, CountIs
  <1> QED BY <1>1, <1>4, <1>8, <1>10

\* Block m is cut at n, and what is left of the heap
ShrinkFor(r, i, fl, av, newsize, m, n, f, c, j, d) ==
    /\ r = Region(i, fl, av) /\ n = m + newsize + RT_MEMHEAP_SIZE /\ f = i[m].next
    /\ c = CutOf(i, m, n) /\ j = JoinOf(c, c[f].prev, f) /\ d = i[f].next - f - RT_MEMHEAP_SIZE
ShrinkOf(fl, av, n, f, c, j, d) ==
    IF c[f].used THEN Region(c, <<n>> \o fl, av + (c[n].next - n - RT_MEMHEAP_SIZE))
    ELSE Region(j, <<n>> \o RemoveFirst(fl, f), (av - d) + (j[n].next - n - RT_MEMHEAP_SIZE))

\* rt_memheap_realloc within the block
LEMMA ShrinkIs ==
    ASSUME NEW i, NEW fl, NEW av, NEW newsize, NEW m, NEW n, NEW f, NEW c, NEW j, NEW d, NEW r,
           ShrinkFor(r, i, fl, av, newsize, m, n, f, c, j, d)
    PROVE  shrink(r, m, newsize) = ShrinkOf(fl, av, n, f, c, j, d)
  <1> SUFFICES ASSUME r = Region(i, fl, av), n = m + newsize + RT_MEMHEAP_SIZE, f = i[m].next,
                      c = CutOf(i, m, n), j = JoinOf(c, c[f].prev, f),
                      d = i[f].next - f - RT_MEMHEAP_SIZE
               PROVE  shrink(r, m, newsize) =
                          IF c[f].used
                          THEN Region(c, <<n>> \o fl, av + (c[n].next - n - RT_MEMHEAP_SIZE))
                          ELSE Region(j, <<n>> \o RemoveFirst(fl, f),
                                      (av - d) + (j[n].next - n - RT_MEMHEAP_SIZE))
    BY DEF ShrinkFor, ShrinkOf
  <1>1. r = Region(i, fl, av)  OBVIOUS
  <1>2. r.item = i  BY <1>1, RegionParts
  <1>3. ItemSize(r, f) = d /\ r.item[m].next = f  BY <1>2 DEF ItemSize
  <1>4. PICK k : k = RemoveFirst(fl, f)  OBVIOUS
  <1>5. PICK cr : cr = Region(c, fl, av)  OBVIOUS
  <1>6. cut(r, m, n) = cr /\ cr.item = c  BY <1>1, <1>5, CutIs, RegionParts
  <1>7. join_next(cr, f) = Region(j, k, av)  BY <1>4, <1>5, JoinNextIs
  <1>8. Region(j, k, av).available_size = av  BY RegionParts
  <1>9. [Region(j, k, av) EXCEPT !.available_size = @ - d] = Region(j, k, av - d)
    BY <1>8, CountIs
  <1>10. PICK u : u = IF c[f].used THEN cr ELSE Region(j, k, av - d)  OBVIOUS
  <1>11. shrink(r, m, newsize) = [link_free(u, n) EXCEPT !.available_size = @ + ItemSize(u, n)]
    BY ONLY <1>3, <1>6, <1>7, <1>9, <1>10, n = m + newsize + RT_MEMHEAP_SIZE DEF shrink
  <1>12. CASE c[f].used
    <2>1. u = Region(c, fl, av) /\ u.item = c  BY <1>5, <1>6, <1>10, <1>12
    <2>2. PICK x : x = c[n].next - n - RT_MEMHEAP_SIZE  OBVIOUS
    <2>3. ItemSize(u, n) = x  BY <2>1, <2>2 DEF ItemSize
    <2>4. PICK l : l = Region(c, <<n>> \o fl, av)  OBVIOUS
    <2>5. link_free(u, n) = l /\ l.available_size = av
      BY <2>1, <2>4, LinkIs, RegionParts
    <2>6. [l EXCEPT !.available_size = @ + x] = Region(c, <<n>> \o fl, av + x)
      <3>1. PICK y : y = av + x  BY Zenon
      <3>2. [l EXCEPT !.available_size = y] = Region(c, <<n>> \o fl, y)
        BY ONLY <2>4, CountIs
      <3>3. l.available_size = av  BY ONLY <2>5
      <3> QED BY ONLY <3>1, <3>2, <3>3
    <2> QED BY <1>1, <1>11, <1>12, <2>2, <2>3, <2>5, <2>6
  <1>13. CASE ~c[f].used
    <2>1. u = Region(j, k, av - d) /\ u.item = j  BY <1>10, <1>13, RegionParts
    <2>2. PICK x : x = j[n].next - n - RT_MEMHEAP_SIZE  OBVIOUS
    <2>3. ItemSize(u, n) = x  BY <2>1, <2>2 DEF ItemSize
    <2>4. PICK l : l = Region(j, <<n>> \o k, av - d)  OBVIOUS
    <2>5. link_free(u, n) = l /\ l.available_size = av - d
      BY <2>1, <2>4, LinkIs, RegionParts
    <2>6. [l EXCEPT !.available_size = @ + x] = Region(j, <<n>> \o k, (av - d) + x)
      <3>1. PICK y : y = (av - d) + x  BY Zenon
      <3>2. [l EXCEPT !.available_size = y] = Region(j, <<n>> \o k, y)
        BY ONLY <2>4, CountIs
      <3>3. l.available_size = av - d  BY ONLY <2>5
      <3> QED BY ONLY <3>1, <3>2, <3>3
    <2> QED BY <1>1, <1>4, <1>11, <1>13, <2>2, <2>3, <2>5, <2>6
  <1> QED BY <1>12, <1>13

\* rt_memheap_free: first a merge with the predecessor
LeftOf(i, fl, av, m) ==
    LET d == i[m].next - m - RT_MEMHEAP_SIZE
        k == MarkOf(i, m, FALSE)
        p == k[m].prev
    IN  IF ~k[p].used THEN Region(JoinOf(k, p, m), fl, (av + d) + RT_MEMHEAP_SIZE)
        ELSE Region(k, fl, av + d)

\* Then one with the successor
RightOf(l, b) ==
    LET n == l.item[b].next
    IN  IF l.item[n].used THEN l
        ELSE Region(JoinOf(l.item, l.item[n].prev, n), RemoveFirst(l.free_list, n),
                    l.available_size + RT_MEMHEAP_SIZE)

\* The stages of free_item, each a definition of its own
FreeMarked(r, m) ==
    [r EXCEPT !.item[m].used = FALSE, !.available_size = @ + ItemSize(r, m)]
FreeLeft(f, m) ==
    IF ~f.item[f.item[m].prev].used THEN [join(f, m) EXCEPT !.available_size = @ + RT_MEMHEAP_SIZE]
    ELSE f
FreeRight(l, n) ==
    IF l.item[n].used THEN l ELSE [join_next(l, n) EXCEPT !.available_size = @ + RT_MEMHEAP_SIZE]
FreeFrom(f, l, m) ==
    LET left == ~f.item[f.item[m].prev].used
        b == IF left THEN f.item[m].prev ELSE m
        u == FreeRight(l, l.item[b].next)
    IN  IF left THEN u ELSE link_free(u, b)

\* free_item by its stages
LEMMA FreeStages ==
    ASSUME NEW r, NEW m
    PROVE  free_item(r, m) = FreeFrom(FreeMarked(r, m), FreeLeft(FreeMarked(r, m), m), m)
  BY DEF free_item, FreeFrom, FreeMarked, FreeLeft, FreeRight

\* The stages with their names, and what comes of them
FreeFor(r, i, fl, av, m, k, p, b, l, u) ==
    /\ r = Region(i, fl, av) /\ k = MarkOf(i, m, FALSE) /\ p = k[m].prev
    /\ b = (IF ~k[p].used THEN p ELSE m) /\ l = LeftOf(i, fl, av, m) /\ u = RightOf(l, b)
FreeOf(k, p, m, u) ==
    IF ~k[p].used THEN u ELSE Region(u.item, <<m>> \o u.free_list, u.available_size)

\* A block that was not merged into its predecessor is listed.
LEMMA FreeIs ==
    ASSUME NEW r, NEW i, NEW fl, NEW av, NEW m, NEW k, NEW p, NEW b, NEW l, NEW u,
           FreeFor(r, i, fl, av, m, k, p, b, l, u)
    PROVE  free_item(r, m) = FreeOf(k, p, m, u)
  <1> SUFFICES ASSUME k = MarkOf(i, m, FALSE), p = k[m].prev, b = (IF ~k[p].used THEN p ELSE m),
                      l = LeftOf(i, fl, av, m), u = RightOf(l, b)
               PROVE  free_item(r, m) =
                          IF ~k[p].used THEN u ELSE Region(u.item, <<m>> \o u.free_list, u.available_size)
    BY Zenon DEF FreeFor, FreeOf
  <1>1. r = Region(i, fl, av)  BY DEF FreeFor
  <1>2. r.item = i /\ r.available_size = av  BY <1>1, RegionParts
  <1>3. PICK d : d = i[m].next - m - RT_MEMHEAP_SIZE  OBVIOUS
  <1>4. ItemSize(r, m) = d  BY <1>2, <1>3 DEF ItemSize
  <1>5. PICK f : f = [r EXCEPT !.item[m].used = FALSE, !.available_size = @ + d]  OBVIOUS
  <1>6. PICK x, y : x = av + d /\ y = x + RT_MEMHEAP_SIZE  OBVIOUS
  <1>7. f = Region(k, fl, x) /\ f.item = k
    <2>1. f = Region(k, fl, x)  BY <1>1, <1>5, <1>6, Zenon DEF Region, MarkOf
    <2> QED BY ONLY <2>1, RegionParts
  <1>8. PICK j, g : g = JoinOf(k, p, m) /\ j = Region(g, fl, x)  BY Zenon
  <1>9. join(f, m) = j
    <2>1. f = Region(k, fl, x)  BY <1>7
    <2>2. join(f, m) = Region(JoinOf(k, k[m].prev, m), fl, x)  BY ONLY <2>1, JoinIs
    <2>3. j = Region(JoinOf(k, k[m].prev, m), fl, x)  BY <1>8
    <2> QED BY ONLY <2>2, <2>3
  <1>10. [j EXCEPT !.available_size = @ + RT_MEMHEAP_SIZE] = Region(g, fl, y)
    <2>1. j = Region(g, fl, x)  BY <1>8
    <2>2. j.available_size = x  BY ONLY <2>1, RegionParts
    <2>3. [j EXCEPT !.available_size = y] = Region(g, fl, y)  BY ONLY <2>1, CountIs
    <2> QED BY <1>6, <2>2, <2>3
  <1>11. l = IF ~k[p].used THEN Region(g, fl, y) ELSE Region(k, fl, x)
    BY <1>3, <1>6, <1>8 DEF LeftOf
  <1>12. l = IF ~k[p].used THEN [join(f, m) EXCEPT !.available_size = @ + RT_MEMHEAP_SIZE] ELSE f
    BY <1>7, <1>9, <1>10, <1>11, Zenon
  <1>13. PICK li, lf, la : li = l.item /\ lf = l.free_list /\ la = l.available_size
    OBVIOUS
  <1>14. l = Region(li, lf, la)
    <2>1. CASE ~k[p].used
      <3>1. l = Region(g, fl, y)  BY <1>11, <2>1
      <3>2. l.item = g /\ l.free_list = fl /\ l.available_size = y
        BY ONLY <3>1, RegionParts
      <3> QED BY <1>13, <3>1, <3>2
    <2>2. CASE k[p].used
      <3>1. l = Region(k, fl, x)  BY <1>11, <2>2
      <3>2. l.item = k /\ l.free_list = fl /\ l.available_size = x
        BY ONLY <3>1, RegionParts
      <3> QED BY <1>13, <3>1, <3>2, Zenon
    <2> QED BY <2>1, <2>2, Zenon
  <1>15. PICK n, w, h, z, q : /\ n = li[b].next /\ w = join_next(l, n) /\ h = JoinOf(li, li[n].prev, n)
                              /\ z = la + RT_MEMHEAP_SIZE /\ q = RemoveFirst(lf, n)
    BY Zenon
  <1>21. w = Region(h, q, la)
    <2>1. join_next(l, n) = Region(JoinOf(li, li[n].prev, n), RemoveFirst(lf, n), la)
      BY ONLY <1>14, JoinNextIs
    <2> QED BY ONLY <1>15, <2>1
  <1>22. [w EXCEPT !.available_size = @ + RT_MEMHEAP_SIZE] = Region(h, q, z)
    <2>1. w.available_size = la  BY ONLY <1>21, RegionParts
    <2>2. [w EXCEPT !.available_size = z] = Region(h, q, z)  BY ONLY <1>21, CountIs
    <2> QED BY <1>15, <2>1, <2>2
  <1>23. u = IF li[n].used THEN l ELSE Region(h, q, z)  BY <1>13, <1>15 DEF RightOf
  <1>16. u = IF l.item[n].used THEN l
             ELSE [join_next(l, n) EXCEPT !.available_size = @ + RT_MEMHEAP_SIZE]
    BY <1>13, <1>15, <1>22, <1>23
  <1>17. u = Region(u.item, u.free_list, u.available_size)
    <2>1. CASE li[n].used  BY <1>13, <1>14, <1>23, <2>1, Zenon
    <2>2. CASE ~li[n].used
      <3>1. u = Region(h, q, z)  BY <1>23, <2>2, Zenon
      <3>2. u.item = h /\ u.free_list = q /\ u.available_size = z
        BY ONLY <3>1, RegionParts
      <3> QED BY <3>1, <3>2, Zenon
    <2> QED BY <2>1, <2>2, Zenon
  <1>18. free_item(r, m) = IF ~k[p].used THEN u ELSE link_free(u, b)
    <2>1. FreeMarked(r, m) = f  BY <1>4, <1>5 DEF FreeMarked
    <2>2. FreeLeft(f, m) = l  BY <1>7, <1>12, Zenon DEF FreeLeft
    <2>3. FreeRight(l, n) = u  BY ONLY <1>16 DEF FreeRight
    <2>4. f.item[m].prev = p /\ (IF ~f.item[p].used THEN p ELSE m) = b /\ l.item[b].next = n
      BY <1>7, <1>13, <1>15
    <2>5. free_item(r, m) = FreeFrom(f, l, m)  BY ONLY <2>1, <2>2, FreeStages
    <2>6. FreeFrom(f, l, m) = IF ~f.item[p].used THEN u ELSE link_free(u, b)
      BY ONLY <2>3, <2>4 DEF FreeFrom
    <2> QED BY <1>7, <2>5, <2>6, Zenon
  <1>19. CASE ~k[p].used  BY <1>1, <1>18, <1>19
  <1>20. CASE k[p].used
    <2>1. PICK ui, uf, ua : ui = u.item /\ uf = u.free_list /\ ua = u.available_size
      BY Zenon
    <2>2. u = Region(ui, uf, ua)  BY <1>17, <2>1, Zenon
    <2>3. link_free(u, m) = Region(ui, <<m>> \o uf, ua)  BY ONLY <2>2, LinkIs
    <2> QED BY <1>1, <1>18, <1>20, <2>1, <2>3
  <1> QED BY <1>19, <1>20, Zenon
\* A free block
FreeAt(i, a) == a \in DOMAIN i /\ ~i[a].used

\* The list fl names every free block once, but those of X.
ListedIn(i, fl, X, t) ==
    /\ fl \in Seq(0 .. t) /\ IsInjective(fl)
    /\ \A a : Contains(fl, a) <=> FreeAt(i, a) /\ a \notin X

\* The free blocks that joining leaves
LEMMA JoinFree ==
    ASSUME NEW i, NEW t, NEW p, NEW n, NEW g, Joinable(i, t, p, n), g = JoinOf(i, p, n)
    PROVE  \A a : FreeAt(g, a) <=> FreeAt(i, a) /\ a # n
  <1>1. PICK e : e = i[n].next  OBVIOUS
  <1>2. Joinable(i, t, p, n) /\ e = i[n].next /\ g = JoinOf(i, p, n)  BY <1>1
  <1>3. AreJoined(i, g, t, p, n, e)  BY ONLY <1>2, JoinOfIs
  <1> QED BY <1>3 DEF AreJoined, FreeAt

\* A listed block is taken off the list and joined to its predecessor.
LEMMA JoinListed ==
    ASSUME NEW i, NEW t, NEW p, NEW n, NEW g, NEW fl, NEW k, NEW X,
           Joinable(i, t, p, n), g = JoinOf(i, p, n), ListedIn(i, fl, X, t), k = RemoveFirst(fl, n)
    PROVE  ListedIn(g, k, X, t)
  <1>1. Joinable(i, t, p, n) /\ g = JoinOf(i, p, n)  OBVIOUS
  <1>2. \A a : FreeAt(g, a) <=> FreeAt(i, a) /\ a # n  BY ONLY <1>1, JoinFree
  <1>3. PICK S : S = 0 .. t  OBVIOUS
  <1>4. /\ fl \in Seq(S) /\ IsInjective(fl) /\ k = RemoveFirst(fl, n)
        /\ \A a : Contains(fl, a) <=> FreeAt(i, a) /\ a \notin X
    BY <1>3 DEF ListedIn
  <1>5. k \in Seq(S) /\ IsInjective(k) /\ \A x : Contains(k, x) <=> Contains(fl, x) /\ x # n
    BY ONLY <1>4, RemoveFirstList
  <1> QED BY ONLY <1>2, <1>3, <1>4, <1>5 DEF ListedIn

\* A block that is not listed is joined to its predecessor.
LEMMA JoinUnlisted ==
    ASSUME NEW i, NEW t, NEW p, NEW n, NEW g, NEW fl,
           Joinable(i, t, p, n), g = JoinOf(i, p, n), ListedIn(i, fl, {n}, t)
    PROVE  ListedIn(g, fl, {}, t)
  <1>1. Joinable(i, t, p, n) /\ g = JoinOf(i, p, n)  OBVIOUS
  <1>2. \A a : FreeAt(g, a) <=> FreeAt(i, a) /\ a # n  BY ONLY <1>1, JoinFree
  <1> QED BY <1>2 DEF ListedIn

\* A free block is put on the list.
LEMMA PushListed ==
    ASSUME NEW i, NEW t, NEW m, NEW fl, NEW k,
           FreeAt(i, m), m \in 0 .. t, ListedIn(i, fl, {m}, t), k = <<m>> \o fl
    PROVE  ListedIn(i, k, {}, t)
  <1>1. PICK S : S = 0 .. t  OBVIOUS
  <1>2. /\ fl \in Seq(S) /\ IsInjective(fl) /\ m \in S /\ k = <<m>> \o fl /\ FreeAt(i, m)
        /\ \A a : Contains(fl, a) <=> FreeAt(i, a) /\ a \notin {m}
    BY <1>1 DEF ListedIn
  <1>3. ~Contains(fl, m)  BY ONLY <1>2
  <1>4. k \in Seq(S) /\ IsInjective(k) /\ \A x : Contains(k, x) <=> Contains(fl, x) \/ x = m
    BY ONLY <1>2, <1>3, PushList
  <1> QED BY ONLY <1>1, <1>2, <1>4, Zenon DEF ListedIn

\* A block that becomes used leaves the list.
MarkLists(i, g, fl, k, t, m, v) ==
    /\ v => ListedIn(g, k, {}, t)
    /\ ~v => ListedIn(g, fl, {m}, t) \/ FreeAt(i, m)

\* The list when the flag of a block is set or reset
LEMMA MarkListed ==
    ASSUME NEW i, NEW t, NEW m, NEW v, NEW g, NEW fl, NEW k,
           MarkFor(i, g, t, m, v), ListedIn(i, fl, {}, t), k = RemoveFirst(fl, m)
    PROVE  MarkLists(i, g, fl, k, t, m, v)
  <1>1. AreMarked(i, g, t, m, v) /\ v \in BOOLEAN  BY MarkOfIs DEF MarkFor
  <1>2. /\ DOMAIN g = DOMAIN i /\ g[m].used = v
        /\ \A a \in DOMAIN i : a # m => g[a].used = i[a].used
    BY <1>1 DEF AreMarked
  <1>3. PICK S : S = 0 .. t  OBVIOUS
  <1>4. /\ fl \in Seq(S) /\ IsInjective(fl) /\ k = RemoveFirst(fl, m)
        /\ \A a : Contains(fl, a) <=> FreeAt(i, a)
    BY <1>3 DEF ListedIn
  <1>5. CASE v
    <2>1. k \in Seq(S) /\ IsInjective(k) /\ \A x : Contains(k, x) <=> Contains(fl, x) /\ x # m
      BY ONLY <1>4, RemoveFirstList
    <2>2. \A a : FreeAt(g, a) <=> FreeAt(i, a) /\ a # m  BY <1>2, <1>5, Zenon DEF FreeAt
    <2>3. ListedIn(g, k, {}, t)  BY ONLY <1>3, <1>4, <2>1, <2>2 DEF ListedIn
    <2> QED BY <1>5, <2>3 DEF MarkLists
  <1>6. CASE ~v
    <2>1. \A a : a # m => (FreeAt(g, a) <=> FreeAt(i, a))  BY <1>2 DEF FreeAt
    <2>2. ListedIn(g, fl, {m}, t) \/ FreeAt(i, m)  BY ONLY <1>3, <1>4, <2>1 DEF ListedIn
    <2> QED BY <1>6, <2>2 DEF MarkLists
  <1> QED BY <1>1, <1>5, <1>6

\* The list when a block is cut
LEMMA CutListed ==
    ASSUME NEW i, NEW t, NEW m, NEW n, NEW g, NEW fl,
           Cuttable(i, t, m, n), g = CutOf(i, m, n), ListedIn(i, fl, {}, t)
    PROVE  ListedIn(g, fl, {n}, t) /\ FreeAt(g, n) /\ n \in 0 .. t
  <1>1. PICK e : e = i[m].next  OBVIOUS
  <1>2. Cuttable(i, t, m, n) /\ e = i[m].next /\ g = CutOf(i, m, n)  BY <1>1
  <1>3. AreCut(i, g, t, m, n, e)  BY ONLY <1>2, CutOfIs
  <1>4. n \notin DOMAIN i /\ n \in 0 .. t  BY ONLY <1>2, CuttableAt
  <1>5. g[n].used = FALSE  BY <1>3 DEF AreCut
  <1>6. \A a : a # n => (FreeAt(g, a) <=> FreeAt(i, a))  BY <1>3 DEF AreCut, FreeAt
  <1>7. FreeAt(g, n) /\ ~FreeAt(i, n)  BY <1>3, <1>4, <1>5 DEF AreCut, FreeAt
  <1>8. ListedIn(g, fl, {n}, t)  BY <1>6, <1>7 DEF ListedIn
  <1> QED BY <1>4, <1>7, <1>8
\* A heap between two calls
Sound(i, fl, av, t) ==
    /\ Tiles(i, t) /\ Separate(i, {}) /\ ListedIn(i, fl, {}, t)
    /\ av = Total(FreeWords(i, t), 0 .. t) /\ Total(Words(i, t), 0 .. t) = t

\* A call that took, gave back or resized at most the block at m, and what it left
Moved(i, g, fl, av, t, m) == Sound(g, fl, av, t) /\ SameOthers(i, g, m)

\* Two changes of the same block
LEMMA SameTwice ==
    ASSUME NEW i, NEW k, NEW g, NEW m, SameOthers(i, k, m), SameOthers(k, g, m)
    PROVE  SameOthers(i, g, m)
  BY DEF SameOthers

\* The used block m, between used ones
IsTaken(i, k, l, x, t, m) ==
    /\ Moved(i, k, l, x, t, m) /\ k[m].used /\ m # t
    /\ k[m].next = i[m].next /\ k[k[m].next].used

\* A free block is marked as used.
LEMMA TakeMoved ==
    ASSUME NEW i, NEW fl, NEW av, NEW t, NEW m, NEW d, NEW k, NEW l, NEW x,
           Sound(i, fl, av, t), FreeAt(i, m), d = i[m].next - m - RT_MEMHEAP_SIZE,
           k = MarkOf(i, m, TRUE), l = RemoveFirst(fl, m), x = av - d
    PROVE  IsTaken(i, k, l, x, t, m)
  <1>1. /\ Tiles(i, t) /\ Separate(i, {}) /\ ListedIn(i, fl, {}, t)
        /\ av = Total(FreeWords(i, t), 0 .. t) /\ Total(Words(i, t), 0 .. t) = t
        /\ m \in DOMAIN i /\ ~i[m].used
    BY DEF Sound, FreeAt
  <1>2. m # t  BY <1>1, Zenon DEF Tiles
  <1>10. PICK v : v = TRUE  OBVIOUS
  <1>11. i[m].used \in BOOLEAN
    <2>1. i[m] \in Links(t)  BY ONLY <1>1, TilesAt
    <2> QED BY <2>1 DEF Links
  <1>3. MarkFor(i, k, t, m, v) /\ i[m].used = ~v /\ v
    BY <1>1, <1>2, <1>10, <1>11 DEF MarkFor
  <1>4. /\ Tiles(k, t) /\ SameOthers(i, k, m) /\ DOMAIN k = DOMAIN i /\ k[m].used = v
        /\ \A a \in DOMAIN i : /\ k[a].next = i[a].next /\ k[a].prev = i[a].prev
                               /\ a # m => k[a].used = i[a].used
    <2>1. AreMarked(i, k, t, m, v)  BY <1>3, MarkOfIs, Zenon
    <2> QED BY <2>1, Zenon DEF AreMarked
  <1>5. /\ Total(Words(k, t), 0 .. t) = Total(Words(i, t), 0 .. t)
        /\ Total(FreeWords(k, t), 0 .. t) =
               Total(FreeWords(i, t), 0 .. t) - (i[m].next - m - RT_MEMHEAP_SIZE)
    <2>1. AreWeighed(i, k, t, m, v)  BY <1>3, MarkSums, Zenon
    <2> QED BY <1>3, <2>1, Zenon DEF AreWeighed
  <1>6. ListedIn(k, l, {}, t)
    <2>1. MarkLists(i, k, fl, l, t, m, v)  BY <1>1, <1>3, MarkListed, Zenon
    <2> QED BY <1>3, <2>1, Zenon DEF MarkLists
  <1>7. Separate(k, {})
    <2> SUFFICES ASSUME NEW a \in DOMAIN k, ~k[a].used PROVE k[k[a].next].used
      BY Zenon DEF Separate
    <2>1. a \in DOMAIN i /\ a # m /\ ~i[a].used  BY <1>3, <1>4, Zenon
    <2>2. i[i[a].next].used  BY <1>1, <2>1 DEF Separate
    <2>3. i[a].next \in DOMAIN i  BY ONLY <1>1, <2>1, TilesAt, Zenon
    <2> QED BY <1>3, <1>4, <2>1, <2>2, <2>3, Zenon
  <1>8. x = Total(FreeWords(k, t), 0 .. t)  BY <1>1, <1>5, Zenon
  <1>9. k[m].used /\ k[m].next = i[m].next /\ k[k[m].next].used
    <2>1. PICK e : e = i[m].next  OBVIOUS
    <2>2. e \in DOMAIN i  BY ONLY <1>1, <2>1, TilesAt, Zenon
    <2>3. i[e].used  BY <1>1, <2>1 DEF Separate
    <2> QED BY <1>1, <1>3, <1>4, <2>1, <2>2, <2>3, Zenon
  <1> QED BY <1>1, <1>2, <1>4, <1>5, <1>6, <1>7, <1>8, <1>9, Zenon DEF Moved, Sound, IsTaken

\* A used block is cut in front of a used one; the rest is free and listed.
LEMMA CutMoved ==
    ASSUME NEW i, NEW fl, NEW av, NEW t, NEW m, NEW n, NEW e, NEW g, NEW l, NEW x,
           Sound(i, fl, av, t), Cuttable(i, t, m, n), i[m].used, e = i[m].next, i[e].used,
           g = CutOf(i, m, n), l = <<n>> \o fl, x = av + (e - n - RT_MEMHEAP_SIZE)
    PROVE  Moved(i, g, l, x, t, m) /\ UsedAt(g, m)
  <1>1. /\ Tiles(i, t) /\ Separate(i, {}) /\ ListedIn(i, fl, {}, t)
        /\ av = Total(FreeWords(i, t), 0 .. t) /\ Total(Words(i, t), 0 .. t) = t
    BY DEF Sound
  <1>2. Cuttable(i, t, m, n) /\ g = CutOf(i, m, n) /\ e = i[m].next /\ i[m].used  OBVIOUS
  <1>3. Tiles(g, t)  BY ONLY <1>2, CutTiles
  <1>4. /\ SameOthers(i, g, m) /\ Separate(g, {n})
        /\ m \in DOMAIN g /\ g[m].used /\ g[n].next = e /\ g[e].used = i[e].used
    <2>1. CutsFor(i, g, t, m, n, e)  BY <1>1, <1>2 DEF CutsFor
    <2>2. CutKept(i, g, m, n, e)  BY ONLY <2>1, CutKeeps
    <2> QED BY <2>2 DEF CutKept
  <1>5. Separate(g, {})  BY <1>4, Zenon DEF Separate
  <1>6. /\ Total(Words(g, t), 0 .. t) = Total(Words(i, t), 0 .. t)
        /\ Total(FreeWords(g, t), 0 .. t) =
               Total(FreeWords(i, t), 0 .. t) + (e - n - RT_MEMHEAP_SIZE)
    BY ONLY <1>2, CutSums
  <1>7. ListedIn(g, fl, {n}, t) /\ FreeAt(g, n) /\ n \in 0 .. t
    BY ONLY <1>1, <1>2, CutListed
  <1>8. ListedIn(g, l, {}, t)  BY ONLY <1>7, l = <<n>> \o fl, PushListed, Zenon
  <1>9. x = Total(FreeWords(g, t), 0 .. t)  BY <1>1, <1>6
  <1> QED BY <1>1, <1>3, <1>4, <1>5, <1>6, <1>8, <1>9 DEF Moved, Sound, UsedAt
\* rt_memheap_alloc takes the block at m.
LEMMA AllocMoved ==
    ASSUME NEW i, NEW fl, NEW av, NEW t, NEW size, NEW m, NEW n, NEW d, NEW r,
           Sound(i, fl, av, t), FreeAt(i, m), m = fl[Min(Found(Region(i, fl, av), size))],
           n = m + size + RT_MEMHEAP_SIZE, d = i[m].next - m - RT_MEMHEAP_SIZE,
           size \in Nat, size >= RT_MEMHEAP_MINIALLOC, r = alloc(Region(i, fl, av), size)
    PROVE  /\ r = Region(r.item, r.free_list, r.available_size)
           /\ Moved(i, r.item, r.free_list, r.available_size, t, m)
  <1>1. PICK k, l, x : k = MarkOf(i, m, TRUE) /\ l = RemoveFirst(fl, m) /\ x = av - d
    BY Zenon
  <1>2. /\ Moved(i, k, l, x, t, m) /\ k[m].used /\ m # t
        /\ k[m].next = i[m].next /\ k[k[m].next].used
    <2>1. Sound(i, fl, av, t) /\ FreeAt(i, m) /\ d = i[m].next - m - RT_MEMHEAP_SIZE
      OBVIOUS
    <2>2. IsTaken(i, k, l, x, t, m)  BY ONLY <1>1, <2>1, TakeMoved, Zenon
    <2> QED BY <2>2 DEF IsTaken
  <1>3. PICK g, p, y : g = CutOf(k, m, n) /\ p = <<n>> \o l /\ y = av - size - RT_MEMHEAP_SIZE
    BY Zenon
  <1>4. r = IF d - size - RT_MEMHEAP_SIZE >= RT_MEMHEAP_MINIALLOC
            THEN Region(g, p, y) ELSE Region(k, l, x)
    <2>1. PICK q : q = Region(i, fl, av)  OBVIOUS
    <2>2. AllocFor(q, i, fl, av, size, m, n, d)  BY <2>1 DEF AllocFor
    <2>3. alloc(q, size) = AllocOf(i, fl, av, size, m, n, d)  BY ONLY <2>2, AllocIs
    <2> QED BY <1>1, <1>3, <2>1, <2>3 DEF AllocOf
  <1>5. CASE ~(d - size - RT_MEMHEAP_SIZE >= RT_MEMHEAP_MINIALLOC)
    <2>1. r = Region(k, l, x)  BY <1>4, <1>5
    <2>2. r.item = k /\ r.free_list = l /\ r.available_size = x
      BY ONLY <2>1, RegionParts
    <2> QED BY <1>2, <2>1, <2>2
  <1>6. CASE d - size - RT_MEMHEAP_SIZE >= RT_MEMHEAP_MINIALLOC
    <2>1. r = Region(g, p, y)  BY <1>4, <1>6
    <2>2. r.item = g /\ r.free_list = p /\ r.available_size = y
      BY ONLY <2>1, RegionParts
    <2>3. PICK e : e = k[m].next  OBVIOUS
    <2>4. Sound(k, l, x, t) /\ Tiles(k, t) /\ Pool(t)
      BY <1>2, Zenon DEF Moved, Sound, Tiles
    <2>5. m \in DOMAIN k  BY <1>1 DEF MarkOf, FreeAt
    <2>6. m \in 0 .. t /\ e \in 0 .. t  BY ONLY <2>3, <2>4, <2>5, TilesAt
    <2>7. d = e - m - RT_MEMHEAP_SIZE  BY <1>2, <2>3
    <2>8. av \in Int
      <3>1. Tiles(i, t) /\ av = Total(FreeWords(i, t), 0 .. t)  BY DEF Sound
      <3>2. PICK f, S : f = FreeWords(i, t) /\ S = 0 .. t  OBVIOUS
      <3>3. \A a \in S : f[a] \in Int  BY ONLY <3>1, <3>2, WordsInt
      <3>4. IsFiniteSet(S)  BY <2>4, <3>2 DEF Pool
      <3>5. S \in SUBSET S /\ Int \in {Int, Nat}  OBVIOUS
      <3>6. Total(f, S) \in Int  BY ONLY <3>3, <3>4, <3>5, TotalInt
      <3> QED BY <3>1, <3>2, <3>6
    <2>9. y = x + (e - n - RT_MEMHEAP_SIZE)
      BY ONLY <1>1, <1>3, <2>4, <2>6, <2>7, <2>8, n = m + size + RT_MEMHEAP_SIZE, size \in Nat DEF Pool
    <2>10. Cuttable(k, t, m, n)
      <3>1. /\ n \in Nat /\ m + RT_MEMHEAP_SIZE + RT_MEMHEAP_MINIALLOC <= n
            /\ n + RT_MEMHEAP_SIZE + RT_MEMHEAP_MINIALLOC <= e
        BY ONLY <1>6, <2>4, <2>6, <2>7, n = m + size + RT_MEMHEAP_SIZE, size \in Nat,
                size >= RT_MEMHEAP_MINIALLOC DEF Pool
      <3> QED BY <1>2, <2>3, <2>4, <2>5, <3>1 DEF Cuttable
    <2>11. /\ Sound(k, l, x, t) /\ Cuttable(k, t, m, n) /\ k[m].used /\ e = k[m].next /\ k[e].used
           /\ g = CutOf(k, m, n) /\ p = <<n>> \o l /\ y = x + (e - n - RT_MEMHEAP_SIZE)
      BY <1>2, <1>3, <2>3, <2>4, <2>9, <2>10
    <2>12. Moved(k, g, p, y, t, m)  BY ONLY <2>11, CutMoved, Zenon
    <2>13. SameOthers(i, k, m) /\ SameOthers(k, g, m) /\ Sound(g, p, y, t)
      BY <1>2, <2>12 DEF Moved
    <2>14. SameOthers(i, g, m)  BY ONLY <2>13, SameTwice
    <2> QED BY <2>1, <2>2, <2>13, <2>14 DEF Moved
  <1> QED BY <1>5, <1>6

\* The free successor of a used block is joined to it.
LEMMA NextMoved ==
    ASSUME NEW i, NEW fl, NEW av, NEW t, NEW m, NEW e, NEW g, NEW l, NEW x,
           Sound(i, fl, av, t), UsedAt(i, m), m # t, e = i[m].next, ~i[e].used,
           g = JoinOf(i, m, e), l = RemoveFirst(fl, e), x = av - (i[e].next - e - RT_MEMHEAP_SIZE)
    PROVE  /\ Moved(i, g, l, x, t, m) /\ UsedAt(g, m) /\ g[m].next = i[e].next
           /\ g[g[m].next].used
  <1>1. /\ Tiles(i, t) /\ Separate(i, {}) /\ ListedIn(i, fl, {}, t)
        /\ av = Total(FreeWords(i, t), 0 .. t) /\ Total(Words(i, t), 0 .. t) = t
        /\ m \in DOMAIN i /\ i[m].used
    BY DEF Sound, UsedAt
  <1>2. e \in DOMAIN i /\ e # t
    <2>1. e \in DOMAIN i  BY ONLY <1>1, e = i[m].next, TilesAt, Zenon
    <2> QED BY <1>1, <2>1, Zenon DEF Tiles
  <1>3. Joinable(i, t, m, e)  BY <1>1, <1>2 DEF Joinable
  <1>4. i[i[e].next].used  BY <1>1, <1>2 DEF Separate
  <1>5. JoinFor(i, g, t, m, e)  BY <1>1, <1>3 DEF JoinFor, Separate
  <1>6. JoinKept(i, g, m, e)  BY ONLY <1>5, JoinKeeps
  <1>7. PICK z : z = i[e].next  OBVIOUS
  <1>8. Joinable(i, t, m, e) /\ g = JoinOf(i, m, e) /\ z = i[e].next /\ ~i[e].used
    BY <1>3, <1>7
  <1>9. JoinedSums(i, g, t, m, e, z)  BY ONLY <1>8, JoinSums
  <1>10. Tiles(g, t)  BY ONLY <1>8, JoinTiles
  <1>11. ListedIn(g, l, {}, t)  BY ONLY <1>1, <1>8, l = RemoveFirst(fl, e), JoinListed
  <1>12. /\ Total(Words(g, t), 0 .. t) = t /\ x = Total(FreeWords(g, t), 0 .. t)
    BY <1>1, <1>7, <1>9 DEF JoinedSums
  <1>13. SameOthers(i, g, m) /\ Separate(g, {}) /\ UsedAt(g, m) /\ g[m].next = i[e].next /\ g[g[m].next].used
    BY <1>1, <1>4, <1>6 DEF JoinKept, UsedAt
  <1> QED BY <1>10, <1>11, <1>12, <1>13 DEF Moved, Sound
\* available_size is a number.
LEMMA SoundInt ==
    ASSUME NEW i, NEW fl, NEW av, NEW t, Sound(i, fl, av, t)
    PROVE  /\ av \in Int /\ Tiles(i, t) /\ t \in Nat /\ RT_MEMHEAP_SIZE \in Nat /\ RT_MEMHEAP_SIZE > 0
           /\ RT_MEMHEAP_MINIALLOC \in Nat /\ RT_MEMHEAP_MINIALLOC > 0
  <1>1. Tiles(i, t) /\ av = Total(FreeWords(i, t), 0 .. t) /\ Pool(t)
    BY DEF Sound, Tiles
  <1>2. PICK f, S : f = FreeWords(i, t) /\ S = 0 .. t  OBVIOUS
  <1>3. \A a \in S : f[a] \in Int  BY ONLY <1>1, <1>2, WordsInt
  <1>4. IsFiniteSet(S)  BY <1>1, <1>2 DEF Pool
  <1>5. S \in SUBSET S /\ Int \in {Int, Nat}  OBVIOUS
  <1>6. Total(f, S) \in Int  BY ONLY <1>3, <1>4, <1>5, TotalInt
  <1> QED BY <1>1, <1>2, <1>6 DEF Pool

\* The block in the hands of the caller, and the one behind it
Neighbours(i, t, m, e, d, z, f) ==
    /\ Tiles(i, t) /\ UsedAt(i, m) /\ m # t /\ e = i[m].next /\ d = e - m - RT_MEMHEAP_SIZE
    /\ z = i[e].next /\ f = z - e - RT_MEMHEAP_SIZE

\* Their places
LEMMA NeighboursAt ==
    ASSUME NEW i, NEW t, NEW m, NEW e, NEW d, NEW z, NEW f, Neighbours(i, t, m, e, d, z, f)
    PROVE  /\ m \in DOMAIN i /\ m \in 0 .. t /\ e \in 0 .. t /\ z \in 0 .. t /\ e \in DOMAIN i
           /\ i[e].prev = m /\ m # t /\ i[m].used
           /\ e = m + d + RT_MEMHEAP_SIZE /\ d \in Int /\ z = e + f + RT_MEMHEAP_SIZE /\ f \in Int
           /\ t \in Nat /\ RT_MEMHEAP_SIZE \in Nat
  <1>1. /\ Tiles(i, t) /\ m \in DOMAIN i /\ e = i[m].next /\ z = i[e].next /\ Pool(t) /\ m # t /\ i[m].used
        /\ d = e - m - RT_MEMHEAP_SIZE /\ f = z - e - RT_MEMHEAP_SIZE
    BY DEF Neighbours, UsedAt, Tiles
  <1>2. m \in 0 .. t /\ e \in 0 .. t /\ e \in DOMAIN i /\ i[e].prev = m
    BY ONLY <1>1, TilesAt
  <1>3. z \in 0 .. t  BY ONLY <1>1, <1>2, TilesAt
  <1>4. t \in Nat /\ RT_MEMHEAP_SIZE \in Nat  BY <1>1 DEF Pool
  <1>5. e = m + d + RT_MEMHEAP_SIZE /\ d \in Int /\ z = e + f + RT_MEMHEAP_SIZE /\ f \in Int
    BY ONLY <1>1, <1>2, <1>3, <1>4
  <1> QED BY <1>1, <1>2, <1>3, <1>4, <1>5

\* rt_memheap_realloc into the block behind
LEMMA GrowMoved ==
    ASSUME NEW i, NEW fl, NEW av, NEW t, NEW newsize, NEW m, NEW e, NEW d, NEW z, NEW f, NEW r,
           Sound(i, fl, av, t), Neighbours(i, t, m, e, d, z, f), ~i[e].used,
           newsize \in Nat, newsize >= RT_MEMHEAP_MINIALLOC,
           f + d > newsize + RT_MEMHEAP_MINIALLOC, r = grow(Region(i, fl, av), m, newsize)
    PROVE  /\ r = Region(r.item, r.free_list, r.available_size)
           /\ Moved(i, r.item, r.free_list, r.available_size, t, m) /\ UsedAt(r.item, m)
  <1>1. /\ m \in DOMAIN i /\ m \in 0 .. t /\ e \in 0 .. t /\ z \in 0 .. t /\ e \in DOMAIN i
        /\ i[e].prev = m /\ m # t /\ i[m].used
        /\ e = m + d + RT_MEMHEAP_SIZE /\ d \in Int /\ z = e + f + RT_MEMHEAP_SIZE /\ f \in Int
        /\ t \in Nat /\ RT_MEMHEAP_SIZE \in Nat
    BY NeighboursAt
  <1>2. av \in Int /\ RT_MEMHEAP_MINIALLOC \in Nat /\ RT_MEMHEAP_SIZE > 0  BY SoundInt
  <1>3. PICK j, l, x : j = JoinOf(i, m, e) /\ l = RemoveFirst(fl, e) /\ x = av - f
    OBVIOUS
  <1>4. Moved(i, j, l, x, t, m) /\ UsedAt(j, m) /\ j[m].next = z /\ j[z].used
    <2>1. /\ Sound(i, fl, av, t) /\ UsedAt(i, m) /\ m # t /\ e = i[m].next /\ ~i[e].used
          /\ x = av - (i[e].next - e - RT_MEMHEAP_SIZE) /\ z = i[e].next
      BY <1>3 DEF Neighbours
    <2>2. Moved(i, j, l, x, t, m) /\ UsedAt(j, m) /\ j[m].next = i[e].next /\ j[j[m].next].used
      BY ONLY <1>3, <2>1, NextMoved
    <2> QED BY <2>1, <2>2
  <1>5. PICK n, g, p, y : /\ n = m + RT_MEMHEAP_SIZE + newsize /\ g = CutOf(j, m, n)
                          /\ p = <<n>> \o l /\ y = av - (newsize - d)
    BY Zenon
  <1>6. r = Region(g, p, y)
    <2>1. PICK q : q = Region(i, fl, av)  OBVIOUS
    <2>2. e = i[m].next /\ d = i[m].next - m - RT_MEMHEAP_SIZE /\ j = JoinOf(i, i[e].prev, e)
      BY <1>1, <1>3 DEF Neighbours
    <2>3. GrowFor(q, i, fl, av, newsize, m, n, e, j, d)  BY <1>5, <2>1, <2>2 DEF GrowFor
    <2>4. grow(q, m, newsize) = Region(CutOf(j, m, n), <<n>> \o RemoveFirst(fl, e), av - (newsize - d))
      BY ONLY <2>3, GrowIs
    <2> QED BY <1>3, <1>5, <2>1, <2>4
  <1>7. r.item = g /\ r.free_list = p /\ r.available_size = y  BY ONLY <1>6, RegionParts
  <1>14. /\ m \in Nat /\ d \in Int /\ f \in Int /\ newsize \in Nat /\ av \in Int
         /\ RT_MEMHEAP_SIZE \in Nat /\ RT_MEMHEAP_MINIALLOC \in Nat
         /\ e = m + d + RT_MEMHEAP_SIZE /\ z = e + f + RT_MEMHEAP_SIZE
         /\ n = m + RT_MEMHEAP_SIZE + newsize
         /\ newsize >= RT_MEMHEAP_MINIALLOC /\ f + d > newsize + RT_MEMHEAP_MINIALLOC
    BY <1>1, <1>2, <1>5
  <1>8. Cuttable(j, t, m, n)
    <2>1. Tiles(j, t) /\ m \in DOMAIN j  BY <1>4 DEF Moved, Sound, UsedAt
    <2>2. /\ n \in Nat /\ m + RT_MEMHEAP_SIZE + RT_MEMHEAP_MINIALLOC <= n
          /\ n + RT_MEMHEAP_SIZE + RT_MEMHEAP_MINIALLOC <= z
      BY ONLY <1>14
    <2> QED BY <1>1, <1>4, <2>1, <2>2 DEF Cuttable
  <1>9. y = x + (z - n - RT_MEMHEAP_SIZE)
    <2>1. x = av - f /\ y = av - (newsize - d)  BY <1>3, <1>5
    <2> QED BY ONLY <1>14, <2>1
  <1>10. /\ Sound(j, l, x, t) /\ Cuttable(j, t, m, n) /\ j[m].used /\ z = j[m].next /\ j[z].used
         /\ g = CutOf(j, m, n) /\ p = <<n>> \o l /\ y = x + (z - n - RT_MEMHEAP_SIZE)
    BY <1>4, <1>5, <1>8, <1>9 DEF Moved, UsedAt
  <1>11. Moved(j, g, p, y, t, m) /\ UsedAt(g, m)  BY ONLY <1>10, CutMoved, Zenon
  <1>12. SameOthers(i, j, m) /\ SameOthers(j, g, m) /\ Sound(g, p, y, t)
    BY <1>4, <1>11 DEF Moved
  <1>13. SameOthers(i, g, m)  BY ONLY <1>12, SameTwice
  <1> QED BY <1>6, <1>7, <1>11, <1>12, <1>13 DEF Moved
\* A change of the free block n, after one of block m
LEMMA SameFree ==
    ASSUME NEW i, NEW k, NEW g, NEW m, NEW n, SameOthers(i, k, m), SameOthers(k, g, n),
           ~UsedAt(k, n), ~UsedAt(g, n)
    PROVE  SameOthers(i, g, m)
  BY DEF SameOthers

\* A block is cut at n, and the block e behind it is free.
RestFor(i, fl, av, t, m, n, e, c, j, l, p, x, z) ==
    /\ Sound(i, fl, av, t) /\ Cuttable(i, t, m, n) /\ i[m].used /\ e = i[m].next /\ ~i[e].used
    /\ z = i[e].next /\ c = CutOf(i, m, n) /\ j = JoinOf(c, n, e)
    /\ l = RemoveFirst(fl, e) /\ p = <<n>> \o l /\ x = av + (e - n)

\* The free rest n of a block is merged with the free block e behind it, and
\* listed.
LEMMA RestMoved ==
    ASSUME NEW i, NEW fl, NEW av, NEW t, NEW m, NEW n, NEW e, NEW c, NEW j, NEW l, NEW p, NEW x, NEW z,
           RestFor(i, fl, av, t, m, n, e, c, j, l, p, x, z)
    PROVE  Moved(i, j, p, x, t, m) /\ UsedAt(j, m) /\ j[n].next = z
  <1> SUFFICES ASSUME Sound(i, fl, av, t), Cuttable(i, t, m, n), i[m].used, e = i[m].next,
                      ~i[e].used, z = i[e].next, c = CutOf(i, m, n), j = JoinOf(c, n, e),
                      l = RemoveFirst(fl, e), p = <<n>> \o l, x = av + (e - n)
               PROVE  Moved(i, j, p, x, t, m) /\ UsedAt(j, m) /\ j[n].next = z
    BY DEF RestFor
  <1>1. /\ Tiles(i, t) /\ Separate(i, {}) /\ ListedIn(i, fl, {}, t)
        /\ av = Total(FreeWords(i, t), 0 .. t) /\ Total(Words(i, t), 0 .. t) = t
        /\ m \in DOMAIN i
    BY DEF Sound, Cuttable
  <1>2. /\ Cuttable(i, t, m, n) /\ c = CutOf(i, m, n) /\ e = i[m].next /\ i[m].used
    OBVIOUS
  <1>3. /\ m \in 0 .. t /\ n \in 0 .. t /\ e \in 0 .. t /\ m # n /\ n # e /\ m # e
        /\ e \in DOMAIN i /\ n \notin DOMAIN i /\ n # t
    BY ONLY <1>2, CuttableAt
  <1>4. Tiles(c, t)  BY ONLY <1>2, CutTiles
  <1>5. /\ SameOthers(i, c, m) /\ Separate(c, {n})
        /\ m \in DOMAIN c /\ c[m].used /\ n \in DOMAIN c /\ ~c[n].used /\ c[n].next = e
        /\ e \in DOMAIN c /\ c[e].used = i[e].used /\ c[e].next = i[e].next
    <2>1. CutsFor(i, c, t, m, n, e)  BY <1>1, <1>2 DEF CutsFor
    <2>2. CutKept(i, c, m, n, e)  BY ONLY <2>1, CutKeeps
    <2> QED BY <2>2 DEF CutKept
  <1>6. /\ Total(Words(c, t), 0 .. t) = t
        /\ Total(FreeWords(c, t), 0 .. t) = av + (e - n - RT_MEMHEAP_SIZE)
    <2>1. /\ Total(Words(c, t), 0 .. t) = Total(Words(i, t), 0 .. t)
          /\ Total(FreeWords(c, t), 0 .. t) =
                 Total(FreeWords(i, t), 0 .. t) + (e - n - RT_MEMHEAP_SIZE)
      BY ONLY <1>2, CutSums
    <2> QED BY <1>1, <2>1
  <1>7. ListedIn(c, fl, {n}, t) /\ FreeAt(c, n)  BY ONLY <1>1, <1>2, CutListed
  <1>8. e # t  BY <1>1, Zenon DEF Tiles
  <1>9. Joinable(c, t, n, e) /\ j = JoinOf(c, n, e) /\ z = c[e].next /\ ~c[e].used
    BY <1>3, <1>4, <1>5, <1>8 DEF Joinable
  <1>10. Tiles(j, t)  BY ONLY <1>9, JoinTiles
  <1>11. JoinedSums(c, j, t, n, e, z)  BY ONLY <1>9, JoinSums
  <1>12. JoinFor(c, j, t, n, e)  BY <1>5, <1>9 DEF JoinFor, Separate
  <1>13. JoinKept(c, j, n, e)  BY ONLY <1>12, JoinKeeps
  <1>14. c[c[e].next].used  BY <1>3, <1>5, <1>9 DEF Separate
  <1>15. SameOthers(c, j, n) /\ Separate(j, {}) /\ ~UsedAt(j, n) /\ ~UsedAt(c, n) /\ j[n].next = z /\ FreeAt(j, n)
    BY <1>5, <1>9, <1>13, <1>14 DEF JoinKept, UsedAt, FreeAt
  <1>16. SameOthers(i, j, m)  BY ONLY <1>5, <1>15, SameFree
  <1>17. UsedAt(j, m)  BY <1>3, <1>5, <1>15 DEF SameOthers, UsedAt
  <1>18. ListedIn(j, l, {n}, t)  BY ONLY <1>7, <1>9, l = RemoveFirst(fl, e), JoinListed
  <1>19. ListedIn(j, p, {}, t)
    BY ONLY <1>3, <1>15, <1>18, p = <<n>> \o l, PushListed, Zenon
  <1>20. Total(Words(j, t), 0 .. t) = t  BY <1>6, <1>11 DEF JoinedSums
  <1>21. x = Total(FreeWords(j, t), 0 .. t)
    <2>1. Total(FreeWords(j, t), 0 .. t) = Total(FreeWords(c, t), 0 .. t) + RT_MEMHEAP_SIZE
      BY <1>5, <1>11 DEF JoinedSums
    <2>2. av \in Int /\ RT_MEMHEAP_SIZE \in Nat  BY SoundInt
    <2>3. e \in Int /\ n \in Int /\ x = av + (e - n)  BY <1>3
    <2> QED BY ONLY <1>6, <2>1, <2>2, <2>3
  <1> QED BY <1>10, <1>15, <1>16, <1>17, <1>19, <1>20, <1>21 DEF Moved, Sound

\* rt_memheap_realloc within the block
LEMMA ShrinkMoved ==
    ASSUME NEW i, NEW fl, NEW av, NEW t, NEW newsize, NEW m, NEW e, NEW d, NEW z, NEW f, NEW r,
           Sound(i, fl, av, t), Neighbours(i, t, m, e, d, z, f),
           newsize \in Nat, newsize >= RT_MEMHEAP_MINIALLOC,
           newsize + RT_MEMHEAP_SIZE + RT_MEMHEAP_MINIALLOC < d,
           r = shrink(Region(i, fl, av), m, newsize)
    PROVE  /\ r = Region(r.item, r.free_list, r.available_size)
           /\ Moved(i, r.item, r.free_list, r.available_size, t, m) /\ UsedAt(r.item, m)
  <1>1. /\ m \in DOMAIN i /\ m \in 0 .. t /\ e \in 0 .. t /\ z \in 0 .. t /\ e \in DOMAIN i
        /\ i[e].prev = m /\ m # t /\ i[m].used
        /\ e = m + d + RT_MEMHEAP_SIZE /\ d \in Int /\ z = e + f + RT_MEMHEAP_SIZE /\ f \in Int
        /\ t \in Nat /\ RT_MEMHEAP_SIZE \in Nat
    BY NeighboursAt
  <1>2. av \in Int /\ RT_MEMHEAP_MINIALLOC \in Nat /\ RT_MEMHEAP_SIZE > 0 /\ Tiles(i, t)
    BY SoundInt
  <1>3. PICK n, c, j : /\ n = m + newsize + RT_MEMHEAP_SIZE /\ c = CutOf(i, m, n)
                       /\ j = JoinOf(c, n, e)
    OBVIOUS
  <1>4. /\ m \in Nat /\ d \in Int /\ f \in Int /\ newsize \in Nat /\ av \in Int
        /\ RT_MEMHEAP_SIZE \in Nat /\ RT_MEMHEAP_MINIALLOC \in Nat
        /\ e = m + d + RT_MEMHEAP_SIZE /\ z = e + f + RT_MEMHEAP_SIZE
        /\ n = m + newsize + RT_MEMHEAP_SIZE
        /\ newsize >= RT_MEMHEAP_MINIALLOC
        /\ newsize + RT_MEMHEAP_SIZE + RT_MEMHEAP_MINIALLOC < d
    BY <1>1, <1>2, <1>3
  <1>5. e = i[m].next /\ z = i[e].next  BY DEF Neighbours
  <1>6. Cuttable(i, t, m, n)
    <2>1. /\ n \in Nat /\ m + RT_MEMHEAP_SIZE + RT_MEMHEAP_MINIALLOC <= n
          /\ n + RT_MEMHEAP_SIZE + RT_MEMHEAP_MINIALLOC <= e
      BY ONLY <1>4
    <2> QED BY <1>1, <1>2, <1>5, <2>1 DEF Cuttable
  <1>7. AreCut(i, c, t, m, n, e)  BY ONLY <1>3, <1>5, <1>6, CutOfIs
  <1>8. c[n].next = e /\ c[e].prev = n /\ c[e].used = i[e].used
    <2>1. e # m  BY ONLY <1>5, <1>6, CuttableAt
    <2> QED BY <1>1, <1>7, <2>1 DEF AreCut
  <1>9. r = ShrinkOf(fl, av, n, e, c, j, f)
    <2>1. PICK q : q = Region(i, fl, av)  OBVIOUS
    <2>2. f = i[e].next - e - RT_MEMHEAP_SIZE  BY DEF Neighbours
    <2>3. ShrinkFor(q, i, fl, av, newsize, m, n, e, c, j, f)
      BY <1>3, <1>5, <1>8, <2>1, <2>2 DEF ShrinkFor
    <2>4. shrink(q, m, newsize) = ShrinkOf(fl, av, n, e, c, j, f)  BY ONLY <2>3, ShrinkIs
    <2> QED BY <2>1, <2>4
  <1>10. CASE i[e].used
    <2>1. PICK p, x : p = <<n>> \o fl /\ x = av + (e - n - RT_MEMHEAP_SIZE)  BY Zenon
    <2>2. r = Region(c, p, x)  BY <1>8, <1>9, <1>10, <2>1 DEF ShrinkOf
    <2>3. r.item = c /\ r.free_list = p /\ r.available_size = x
      BY ONLY <2>2, RegionParts
    <2>4. /\ Sound(i, fl, av, t) /\ Cuttable(i, t, m, n) /\ i[m].used /\ e = i[m].next /\ i[e].used
          /\ c = CutOf(i, m, n)
      BY <1>1, <1>3, <1>5, <1>6, <1>10
    <2>5. Moved(i, c, p, x, t, m) /\ UsedAt(c, m)  BY ONLY <2>1, <2>4, CutMoved, Zenon
    <2> QED BY <2>2, <2>3, <2>5
  <1>11. CASE ~i[e].used
    <2>1. PICK l, p, x : l = RemoveFirst(fl, e) /\ p = <<n>> \o l /\ x = av + (e - n)
      BY Zenon
    <2>2. /\ Sound(i, fl, av, t) /\ Cuttable(i, t, m, n) /\ i[m].used /\ e = i[m].next /\ ~i[e].used
          /\ z = i[e].next /\ c = CutOf(i, m, n) /\ j = JoinOf(c, n, e)
      BY <1>1, <1>3, <1>5, <1>6, <1>11
    <2>7. RestFor(i, fl, av, t, m, n, e, c, j, l, p, x, z)
      BY ONLY <2>1, <2>2 DEF RestFor
    <2>3. Moved(i, j, p, x, t, m) /\ UsedAt(j, m) /\ j[n].next = z
      BY ONLY <2>7, RestMoved
    <2>4. x = (av - f) + (z - n - RT_MEMHEAP_SIZE)  BY ONLY <1>4, <2>1
    <2>5. r = Region(j, p, x)  BY <1>8, <1>9, <1>11, <2>1, <2>3, <2>4 DEF ShrinkOf
    <2>6. r.item = j /\ r.free_list = p /\ r.available_size = x
      BY ONLY <2>5, RegionParts
    <2> QED BY <2>3, <2>5, <2>6
  <1> QED BY <1>10, <1>11
\* The block at m is free now, as part of the free block b; the list names all
\* free blocks but those of X.
Freed(i, g, fl, av, t, m, b, X) ==
    /\ Tiles(g, t) /\ Separate(g, {b}) /\ ListedIn(g, fl, X, t) /\ FreeAt(g, b)
    /\ av = Total(FreeWords(g, t), 0 .. t) /\ Total(Words(g, t), 0 .. t) = t
    /\ SameOthers(i, g, m)

\* The sum of the free words is a number.
LEMMA FreedInt ==
    ASSUME NEW g, NEW t, Tiles(g, t)
    PROVE  Total(FreeWords(g, t), 0 .. t) \in Int
  <1>1. IsFiniteSet(0 .. t)  BY DEF Tiles, Pool
  <1>2. PICK f, S : f = FreeWords(g, t) /\ S = 0 .. t  OBVIOUS
  <1>3. \A a \in S : f[a] \in Int  BY ONLY Tiles(g, t), <1>2, WordsInt
  <1>5. S \in SUBSET S /\ Int \in {Int, Nat} /\ IsFiniteSet(S)  BY <1>1, <1>2
  <1>6. Total(f, S) \in Int  BY ONLY <1>3, <1>5, TotalInt
  <1> QED BY <1>2, <1>6

\* What rt_memheap_free does first
LeftFor(i, fl, av, t, m, d, k, p, l) ==
    /\ Sound(i, fl, av, t) /\ UsedAt(i, m) /\ m # t /\ d = i[m].next - m - RT_MEMHEAP_SIZE
    /\ k = MarkOf(i, m, FALSE) /\ p = k[m].prev /\ l = LeftOf(i, fl, av, m)

\* The block is marked as free, and merged with a free predecessor.
LEMMA LeftMoved ==
    ASSUME NEW i, NEW fl, NEW av, NEW t, NEW m, NEW d, NEW k, NEW p, NEW l,
           LeftFor(i, fl, av, t, m, d, k, p, l)
    PROVE  /\ l = Region(l.item, l.free_list, l.available_size)
           /\ ~k[p].used => Freed(i, l.item, l.free_list, l.available_size, t, m, p, {})
           /\ k[p].used => Freed(i, l.item, l.free_list, l.available_size, t, m, m, {m})
  <1>1. /\ Tiles(i, t) /\ Separate(i, {}) /\ ListedIn(i, fl, {}, t)
        /\ av = Total(FreeWords(i, t), 0 .. t) /\ Total(Words(i, t), 0 .. t) = t
        /\ m \in DOMAIN i /\ i[m].used /\ m # t /\ d = i[m].next - m - RT_MEMHEAP_SIZE
        /\ k = MarkOf(i, m, FALSE) /\ p = k[m].prev /\ l = LeftOf(i, fl, av, m)
    BY DEF LeftFor, Sound, UsedAt
  <1>2. PICK v : v = FALSE  OBVIOUS
  <1>3. i[m].used \in BOOLEAN
    <2>1. i[m] \in Links(t)  BY ONLY <1>1, TilesAt
    <2> QED BY <2>1 DEF Links
  <1>4. MarkFor(i, k, t, m, v) /\ i[m].used = ~v /\ ~v
    BY <1>1, <1>2, <1>3, Zenon DEF MarkFor
  <1>5. /\ Tiles(k, t) /\ SameOthers(i, k, m) /\ DOMAIN k = DOMAIN i /\ k[m].used = v
        /\ \A a \in DOMAIN i : /\ k[a].next = i[a].next /\ k[a].prev = i[a].prev
                               /\ a # m => k[a].used = i[a].used
    <2>1. AreMarked(i, k, t, m, v)  BY <1>4, MarkOfIs
    <2> QED BY <2>1 DEF AreMarked
  <1>6. /\ Total(Words(k, t), 0 .. t) = t
        /\ Total(FreeWords(k, t), 0 .. t) = av + d
    <2>1. AreWeighed(i, k, t, m, v)  BY <1>4, MarkSums
    <2> QED BY <1>1, <1>4, <2>1, Zenon DEF AreWeighed
  <1>7. ListedIn(k, fl, {m}, t)
    <2>1. PICK q : q = RemoveFirst(fl, m)  OBVIOUS
    <2>2. ListedIn(k, fl, {m}, t) \/ FreeAt(i, m)
      <3>1. MarkLists(i, k, fl, q, t, m, v)  BY <1>1, <1>4, <2>1, MarkListed, Zenon
      <3> QED BY <1>4, <3>1 DEF MarkLists
    <2> QED BY <1>1, <2>2, Zenon DEF FreeAt
  <1>8. FreeAt(k, m) /\ m \in DOMAIN k  BY <1>1, <1>4, <1>5, Zenon DEF FreeAt
  <1>9. p \in DOMAIN k /\ k[p].next = m /\ i[p].next = m
    <2>1. p \in DOMAIN k /\ k[p].next = m
      <3>1. Tiles(k, t) /\ m \in DOMAIN k /\ p = k[m].prev  BY <1>1, <1>5, <1>8, Zenon
      <3> QED BY ONLY <3>1, TilesAt
    <2> QED BY <1>5, <2>1
  <1>10. Separate(k, {p, m})
    <2> SUFFICES ASSUME NEW a \in DOMAIN k, a # p, a # m, ~k[a].used PROVE k[k[a].next].used
      BY DEF Separate
    <2>1. a \in DOMAIN i /\ ~i[a].used  BY <1>5
    <2>2. i[i[a].next].used  BY <1>1, <2>1 DEF Separate
    <2>3. i[a].next \in DOMAIN i /\ i[i[a].next].prev = a
      <3>1. Tiles(i, t) /\ a \in DOMAIN i  BY <1>1, <2>1
      <3> QED BY ONLY <3>1, TilesAt, Zenon
    <2>4. i[a].next # m
      <3>1. i[m].prev = p  BY <1>1, <1>5, Zenon
      <3> QED BY <2>3, <3>1
    <2> QED BY <1>5, <2>1, <2>2, <2>3, <2>4
  <1>11. CASE k[p].used
    <2>1. PICK x : x = av + d  OBVIOUS
    <2>2. l = Region(k, fl, x)  BY <1>1, <1>11, <2>1 DEF LeftOf
    <2>3. l.item = k /\ l.free_list = fl /\ l.available_size = x
      BY ONLY <2>2, RegionParts
    <2>4. Separate(k, {m})  BY <1>10, <1>11 DEF Separate
    <2>5. Freed(i, k, fl, x, t, m, m, {m})
      BY <1>5, <1>6, <1>7, <1>8, <2>1, <2>4 DEF Freed
    <2> QED BY <1>11, <2>2, <2>3, <2>5
  <1>12. CASE ~k[p].used
    <2>1. PICK x, y, g, e : x = av + d /\ y = x + RT_MEMHEAP_SIZE /\ g = JoinOf(k, p, m) /\ e = k[m].next
      OBVIOUS
    <2>2. l = Region(g, fl, y)  BY <1>1, <1>12, <2>1 DEF LeftOf
    <2>3. l.item = g /\ l.free_list = fl /\ l.available_size = y
      BY ONLY <2>2, RegionParts
    <2>4. p # t  BY <1>5, <1>12, Zenon DEF Tiles
    <2>5. Joinable(k, t, p, m) /\ g = JoinOf(k, p, m) /\ e = k[m].next /\ ~k[m].used
      BY <1>1, <1>5, <1>8, <1>9, <2>1, <2>4, Zenon DEF Joinable, FreeAt
    <2>6. Tiles(g, t)  BY ONLY <2>5, JoinTiles
    <2>7. JoinedSums(k, g, t, p, m, e)  BY ONLY <2>5, JoinSums
    <2>8. JoinFor(k, g, t, p, m)  BY <1>10, <2>5 DEF JoinFor
    <2>9. JoinKept(k, g, p, m)  BY ONLY <2>8, JoinKeeps
    <2>10. /\ SameOthers(k, g, p) /\ Separate(g, {p}) /\ FreeAt(g, p) /\ ~UsedAt(g, p) /\ ~UsedAt(k, p)
      BY <1>12, <2>9 DEF JoinKept, FreeAt, UsedAt
    <2>11. SameOthers(i, g, m)  BY ONLY <1>5, <2>10, SameFree
    <2>12. ListedIn(g, fl, {}, t)  BY ONLY <1>7, <2>5, JoinUnlisted
    <2>13. Total(Words(g, t), 0 .. t) = t /\ y = Total(FreeWords(g, t), 0 .. t)
      BY <1>6, <1>12, <2>1, <2>7 DEF JoinedSums
    <2>14. Freed(i, g, fl, y, t, m, p, {})  BY <2>6, <2>10, <2>11, <2>12, <2>13 DEF Freed
    <2> QED BY <1>12, <2>2, <2>3, <2>14
  <1> QED BY <1>11, <1>12
\* What rt_memheap_free does then
RightFor(i, g, fl, av, t, m, b, X, l, u) ==
    Freed(i, g, fl, av, t, m, b, X) /\ l = Region(g, fl, av) /\ u = RightOf(l, b)

\* The free block b is merged with a free successor.
LEMMA RightMoved ==
    ASSUME NEW i, NEW g, NEW fl, NEW av, NEW t, NEW m, NEW b, NEW X, NEW l, NEW u,
           RightFor(i, g, fl, av, t, m, b, X, l, u)
    PROVE  /\ u = Region(u.item, u.free_list, u.available_size)
           /\ Freed(i, u.item, u.free_list, u.available_size, t, m, b, X)
           /\ Separate(u.item, {})
  <1>1. /\ Tiles(g, t) /\ Separate(g, {b}) /\ ListedIn(g, fl, X, t) /\ FreeAt(g, b)
        /\ av = Total(FreeWords(g, t), 0 .. t) /\ Total(Words(g, t), 0 .. t) = t
        /\ SameOthers(i, g, m) /\ l = Region(g, fl, av) /\ u = RightOf(l, b)
    BY DEF RightFor, Freed
  <1>2. l.item = g /\ l.free_list = fl /\ l.available_size = av  BY <1>1, RegionParts
  <1>3. PICK n : n = g[b].next  OBVIOUS
  <1>4. /\ b \in DOMAIN g /\ ~g[b].used /\ n \in DOMAIN g /\ g[n].prev = b /\ b # t
    <2>1. b \in DOMAIN g /\ ~g[b].used  BY <1>1 DEF FreeAt
    <2>2. n \in DOMAIN g /\ g[n].prev = b
      <3>1. Tiles(g, t) /\ b \in DOMAIN g /\ n = g[b].next  BY <1>1, <1>3, <2>1
      <3> QED BY ONLY <3>1, TilesAt
    <2> QED BY <1>1, <2>1, <2>2, Zenon DEF Tiles
  <1>5. CASE g[n].used
    <2>1. u = Region(g, fl, av)  BY <1>1, <1>2, <1>3, <1>5 DEF RightOf
    <2>2. u.item = g /\ u.free_list = fl /\ u.available_size = av
      BY ONLY <2>1, RegionParts
    <2>3. Separate(g, {})  BY <1>1, <1>3, <1>5 DEF Separate
    <2>4. Freed(i, g, fl, av, t, m, b, X)  BY DEF RightFor
    <2> QED BY <2>1, <2>2, <2>3, <2>4
  <1>6. CASE ~g[n].used
    <2>1. PICK h, q, x, e : /\ h = JoinOf(g, b, n) /\ q = RemoveFirst(fl, n) /\ x = av + RT_MEMHEAP_SIZE
                            /\ e = g[n].next
      OBVIOUS
    <2>2. u = Region(h, q, x)  BY <1>1, <1>2, <1>3, <1>4, <1>6, <2>1 DEF RightOf
    <2>3. u.item = h /\ u.free_list = q /\ u.available_size = x
      BY ONLY <2>2, RegionParts
    <2>4. n # t  BY <1>1, <1>6, Zenon DEF Tiles
    <2>5. Joinable(g, t, b, n) /\ h = JoinOf(g, b, n) /\ e = g[n].next /\ ~g[n].used
      BY <1>1, <1>3, <1>4, <1>6, <2>1, <2>4 DEF Joinable
    <2>6. Tiles(h, t)  BY ONLY <2>5, JoinTiles
    <2>7. JoinedSums(g, h, t, b, n, e)  BY ONLY <2>5, JoinSums
    <2>8. JoinFor(g, h, t, b, n)  BY <1>1, <2>5 DEF JoinFor, Separate
    <2>9. JoinKept(g, h, b, n)  BY ONLY <2>8, JoinKeeps
    <2>10. g[g[n].next].used
      <3>1. n # b  BY ONLY <2>5, JoinableAt
      <3> QED BY <1>1, <1>4, <1>6, <3>1 DEF Separate
    <2>11. /\ SameOthers(g, h, b) /\ Separate(h, {b}) /\ Separate(h, {}) /\ FreeAt(h, b)
           /\ ~UsedAt(h, b) /\ ~UsedAt(g, b)
      BY <1>4, <2>9, <2>10 DEF JoinKept, FreeAt, UsedAt
    <2>12. SameOthers(i, h, m)
      <3>1. SameOthers(i, g, m)  BY <1>1
      <3> QED BY ONLY <2>11, <3>1, SameFree
    <2>13. ListedIn(h, q, X, t)
      <3>1. ListedIn(g, fl, X, t) /\ q = RemoveFirst(fl, n)  BY <1>1, <2>1
      <3> QED BY ONLY <2>5, <3>1, JoinListed
    <2>14. Total(Words(h, t), 0 .. t) = t /\ x = Total(FreeWords(h, t), 0 .. t)
      BY <1>1, <1>4, <2>1, <2>7 DEF JoinedSums
    <2>15. Freed(i, h, q, x, t, m, b, X)  BY <2>6, <2>11, <2>12, <2>13, <2>14 DEF Freed
    <2> QED BY <2>2, <2>3, <2>11, <2>15
  <1> QED BY <1>5, <1>6

\* rt_memheap_free
LEMMA FreeMoved ==
    ASSUME NEW i, NEW fl, NEW av, NEW t, NEW m, NEW r,
           Sound(i, fl, av, t), UsedAt(i, m), m # t, r = free_item(Region(i, fl, av), m)
    PROVE  /\ r = Region(r.item, r.free_list, r.available_size)
           /\ Moved(i, r.item, r.free_list, r.available_size, t, m)
  <1>1. PICK d, k, p, b, l : /\ d = i[m].next - m - RT_MEMHEAP_SIZE /\ k = MarkOf(i, m, FALSE)
                             /\ p = k[m].prev /\ b = (IF ~k[p].used THEN p ELSE m)
                             /\ l = LeftOf(i, fl, av, m)
    BY Zenon
  <1>2. PICK u : u = RightOf(l, b)  OBVIOUS
  <1>3. r = IF ~k[p].used THEN u ELSE Region(u.item, <<m>> \o u.free_list, u.available_size)
    <2>1. PICK q : q = Region(i, fl, av)  OBVIOUS
    <2>2. FreeFor(q, i, fl, av, m, k, p, b, l, u)  BY <1>1, <1>2, <2>1 DEF FreeFor
    <2>3. free_item(q, m) = FreeOf(k, p, m, u)  BY ONLY <2>2, FreeIs
    <2> QED BY <2>1, <2>3 DEF FreeOf
  <1>4. LeftFor(i, fl, av, t, m, d, k, p, l)  BY <1>1 DEF LeftFor
  <1>5. /\ l = Region(l.item, l.free_list, l.available_size)
        /\ ~k[p].used => Freed(i, l.item, l.free_list, l.available_size, t, m, p, {})
        /\ k[p].used => Freed(i, l.item, l.free_list, l.available_size, t, m, m, {m})
    BY ONLY <1>4, LeftMoved, Zenon
  <1>6. PICK g, f, a : g = l.item /\ f = l.free_list /\ a = l.available_size  OBVIOUS
  <1>7. CASE ~k[p].used
    <2>1. PICK X : X = {}  BY Zenon
    <2>2. RightFor(i, g, f, a, t, m, b, X, l, u)
      BY <1>1, <1>2, <1>5, <1>6, <1>7, <2>1, Zenon DEF RightFor
    <2>3. /\ u = Region(u.item, u.free_list, u.available_size)
          /\ Freed(i, u.item, u.free_list, u.available_size, t, m, b, X)
          /\ Separate(u.item, {})
      BY ONLY <2>2, RightMoved
    <2>4. Moved(i, u.item, u.free_list, u.available_size, t, m)
      BY <2>1, <2>3 DEF Moved, Sound, Freed
    <2> QED BY <1>3, <1>7, <2>3, <2>4
  <1>8. CASE k[p].used
    <2>1. PICK X : X = {m}  BY Zenon
    <2>2. RightFor(i, g, f, a, t, m, b, X, l, u)
      BY <1>1, <1>2, <1>5, <1>6, <1>8, <2>1, Zenon DEF RightFor
    <2>3. /\ u = Region(u.item, u.free_list, u.available_size)
          /\ Freed(i, u.item, u.free_list, u.available_size, t, m, b, X)
          /\ Separate(u.item, {})
      BY ONLY <2>2, RightMoved
    <2>4. b = m  BY <1>1, <1>8
    <2>5. PICK ui, uf, ua, n : ui = u.item /\ uf = u.free_list /\ ua = u.available_size /\ n = <<m>> \o uf
      BY Zenon
    <2>6. r = Region(ui, n, ua)  BY <1>3, <1>8, <2>5
    <2>7. r.item = ui /\ r.free_list = n /\ r.available_size = ua
      BY ONLY <2>6, RegionParts
    <2>8. Freed(i, ui, uf, ua, t, m, m, {m}) /\ Separate(ui, {})
      BY <2>1, <2>3, <2>4, <2>5
    <2>9. /\ Tiles(ui, t) /\ ListedIn(ui, uf, {m}, t) /\ FreeAt(ui, m)
          /\ ua = Total(FreeWords(ui, t), 0 .. t) /\ Total(Words(ui, t), 0 .. t) = t
          /\ SameOthers(i, ui, m)
      BY ONLY <2>8 DEF Freed
    <2>10. m \in 0 .. t  BY <2>9 DEF Tiles, FreeAt
    <2>11. ListedIn(ui, n, {}, t)  BY ONLY <2>5, <2>9, <2>10, PushListed, Zenon
    <2>12. Moved(i, ui, n, ua, t, m)  BY <2>8, <2>9, <2>11 DEF Moved, Sound
    <2> QED BY <2>6, <2>7, <2>12
  <1> QED BY <1>7, <1>8
\* A heap in the model, and a step from r to q that moved at most its block m
SoundRegion(r, t) ==
    r = Region(r.item, r.free_list, r.available_size)
    /\ Sound(r.item, r.free_list, r.available_size, t)
Step(r, q, t, m) == SoundRegion(q, t) /\ SameOthers(r.item, q.item, m)

\* What MemBlocksKept says of a step from r to q
KeptItems(r, q) ==
    LET gone  == HeldItems(r) \ HeldItems(q)
        fresh == HeldItems(q) \ HeldItems(r)
    IN  Cardinality(gone) <= 1 /\ Cardinality(fresh) <= 1
        /\ \A g \in gone, f \in fresh : g[1] = f[1]

\* A member of the one and not of the other set
LEMMA HeldOnce ==
    ASSUME NEW r, NEW q, NEW m, \A a : a # m /\ UsedAt(r.item, a) =>
               UsedAt(q.item, a) /\ r.item[a].next = q.item[a].next
    PROVE  \A x \in HeldItems(r) \ HeldItems(q) : x = <<m, r.item[m].next>>
  <1> SUFFICES ASSUME NEW x \in HeldItems(r) \ HeldItems(q) PROVE x = <<m, r.item[m].next>>
    OBVIOUS
  <1>1. PICK a : a \in DOMAIN r.item /\ r.item[a].used /\ x = <<a, r.item[a].next>>
    BY DEF HeldItems
  <1>2. CASE a = m  BY <1>1, <1>2
  <1>3. CASE a # m
    <2>1. UsedAt(q.item, a) /\ r.item[a].next = q.item[a].next  BY <1>1, <1>3 DEF UsedAt
    <2>2. x \in HeldItems(q)  BY <1>1, <2>1 DEF UsedAt, HeldItems
    <2> QED BY <2>2
  <1> QED BY <1>2, <1>3

\* A step of one block keeps those of the other callers.
LEMMA StepKept ==
    ASSUME NEW r, NEW q, NEW m, SameOthers(r.item, q.item, m)
    PROVE  KeptItems(r, q)
  <1>1. PICK gone, fresh : gone = HeldItems(r) \ HeldItems(q) /\ fresh = HeldItems(q) \ HeldItems(r)
    BY Zenon
  <1>2. \A x \in gone : x = <<m, r.item[m].next>>
    <2>1. \A a : a # m /\ UsedAt(r.item, a) => UsedAt(q.item, a) /\ r.item[a].next = q.item[a].next
      BY DEF SameOthers
    <2> QED BY ONLY <1>1, <2>1, HeldOnce, Zenon
  <1>3. \A x \in fresh : x = <<m, q.item[m].next>>
    <2>1. \A a : a # m /\ UsedAt(q.item, a) => UsedAt(r.item, a) /\ q.item[a].next = r.item[a].next
      BY DEF SameOthers
    <2> QED BY ONLY <1>1, <2>1, HeldOnce, Zenon
  <1>4. Cardinality(gone) <= 1 /\ Cardinality(fresh) <= 1
    <2>1. gone \subseteq {<<m, r.item[m].next>>} /\ fresh \subseteq {<<m, q.item[m].next>>}
      BY <1>2, <1>3
    <2> QED BY <2>1, AtMostOne, Zenon
  <1>5. \A g \in gone, f \in fresh : g[1] = f[1]  BY <1>2, <1>3
  <1> QED BY <1>1, <1>4, <1>5 DEF KeptItems

\* A heap that no step touched
LEMMA RestKept ==
    ASSUME NEW r PROVE KeptItems(r, r)
  <1>1. SameOthers(r.item, r.item, 0)  BY DEF SameOthers
  <1> QED BY <1>1, StepKept

\* A block that is large enough is on the list.
LEMMA FoundAt ==
    ASSUME NEW r, NEW t, NEW size, NEW m, SoundRegion(r, t), Found(r, size) # {},
           m = r.free_list[Min(Found(r, size))]
    PROVE  FreeAt(r.item, m)
  <1>1. PICK fl : fl = r.free_list  OBVIOUS
  <1>2. fl \in Seq(0 .. t) /\ \A a : Contains(fl, a) <=> FreeAt(r.item, a) /\ a \notin {}
    BY <1>1 DEF SoundRegion, Sound, ListedIn
  <1>3. PICK F : F = Found(r, size)  OBVIOUS
  <1>4. F \subseteq DOMAIN fl /\ DOMAIN fl = 1 .. Len(fl) /\ Len(fl) \in Nat
    BY <1>1, <1>2, <1>3 DEF Found
  <1>5. F \in SUBSET Nat /\ F # {}  BY <1>3, <1>4
  <1>6. \E p \in F : \A q \in F : p <= q  BY ONLY <1>5, LeastElement
  <1>7. Min(F) \in F  BY <1>6 DEF Min
  <1>8. Contains(fl, m)  BY <1>1, <1>3, <1>4, <1>7 DEF Contains
  <1> QED BY <1>2, <1>8

\* The calls, from one state of a heap to the next
LEMMA AllocStep ==
    ASSUME NEW r, NEW q, NEW t, NEW size, SoundRegion(r, t), Found(r, size) # {},
           size \in Nat, size >= RT_MEMHEAP_MINIALLOC, q = alloc(r, size)
    PROVE  \E m : Step(r, q, t, m) /\ ~UsedAt(r.item, m)
  <1>1. PICK i, fl, av, m, n, d :
            /\ i = r.item /\ fl = r.free_list /\ av = r.available_size
            /\ m = fl[Min(Found(r, size))] /\ n = m + size + RT_MEMHEAP_SIZE
            /\ d = i[m].next - m - RT_MEMHEAP_SIZE
    OBVIOUS
  <1>2. r = Region(i, fl, av) /\ Sound(i, fl, av, t)  BY <1>1 DEF SoundRegion
  <1>3. FreeAt(i, m)  BY <1>1, FoundAt
  <1>4. /\ Sound(i, fl, av, t) /\ FreeAt(i, m) /\ m = fl[Min(Found(Region(i, fl, av), size))]
        /\ n = m + size + RT_MEMHEAP_SIZE /\ d = i[m].next - m - RT_MEMHEAP_SIZE
        /\ size \in Nat /\ size >= RT_MEMHEAP_MINIALLOC /\ q = alloc(Region(i, fl, av), size)
    BY <1>1, <1>2, <1>3
  <1>5. /\ q = Region(q.item, q.free_list, q.available_size)
        /\ Moved(i, q.item, q.free_list, q.available_size, t, m)
    BY ONLY <1>4, AllocMoved
  <1>6. Step(r, q, t, m)  BY <1>1, <1>5 DEF Step, SoundRegion, Moved
  <1>7. ~UsedAt(r.item, m)  BY <1>1, <1>3 DEF FreeAt, UsedAt
  <1> QED BY <1>6, <1>7

\* rt_memheap_free
LEMMA FreeStep ==
    ASSUME NEW r, NEW q, NEW t, NEW m, SoundRegion(r, t), UsedAt(r.item, m), m # t, q = free_item(r, m)
    PROVE  Step(r, q, t, m)
  <1>1. PICK i, fl, av : i = r.item /\ fl = r.free_list /\ av = r.available_size  OBVIOUS
  <1>2. r = Region(i, fl, av)  BY <1>1 DEF SoundRegion
  <1>3. Sound(i, fl, av, t) /\ UsedAt(i, m) /\ m # t /\ q = free_item(Region(i, fl, av), m)
    BY <1>1, <1>2 DEF SoundRegion
  <1>4. /\ q = Region(q.item, q.free_list, q.available_size)
        /\ Moved(i, q.item, q.free_list, q.available_size, t, m)
    BY ONLY <1>3, FreeMoved
  <1> QED BY <1>1, <1>4 DEF Step, SoundRegion, Moved

\* rt_memheap_realloc in place
LEMMA ResizeStep ==
    ASSUME NEW r, NEW q, NEW t, NEW m, NEW newsize, SoundRegion(r, t), UsedAt(r.item, m), m # t,
           newsize \in Nat, newsize >= RT_MEMHEAP_MINIALLOC,
           \/ Grows(r, m, newsize) /\ q = grow(r, m, newsize)
           \/ Shrinkable(r, m, newsize) /\ q = shrink(r, m, newsize)
    PROVE  Step(r, q, t, m) /\ UsedAt(q.item, m)
  <1>1. PICK i, fl, av, e, d, z, f :
            /\ i = r.item /\ fl = r.free_list /\ av = r.available_size /\ e = i[m].next
            /\ d = e - m - RT_MEMHEAP_SIZE /\ z = i[e].next /\ f = z - e - RT_MEMHEAP_SIZE
    OBVIOUS
  <1>2. r = Region(i, fl, av) /\ Sound(i, fl, av, t)  BY <1>1 DEF SoundRegion
  <1>3. Neighbours(i, t, m, e, d, z, f)  BY <1>1, <1>2 DEF Neighbours, Sound
  <1>4. CASE Grows(r, m, newsize) /\ q = grow(r, m, newsize)
    <2>1. ~i[e].used /\ f + d > newsize + RT_MEMHEAP_MINIALLOC
      BY <1>1, <1>4 DEF Grows, ItemSize
    <2>2. /\ Sound(i, fl, av, t) /\ Neighbours(i, t, m, e, d, z, f) /\ ~i[e].used
          /\ newsize \in Nat /\ newsize >= RT_MEMHEAP_MINIALLOC
          /\ f + d > newsize + RT_MEMHEAP_MINIALLOC /\ q = grow(Region(i, fl, av), m, newsize)
      BY <1>2, <1>3, <1>4, <2>1
    <2>3. /\ q = Region(q.item, q.free_list, q.available_size)
          /\ Moved(i, q.item, q.free_list, q.available_size, t, m) /\ UsedAt(q.item, m)
      BY ONLY <2>2, GrowMoved
    <2> QED BY <1>1, <2>3 DEF Step, SoundRegion, Moved
  <1>5. CASE Shrinkable(r, m, newsize) /\ q = shrink(r, m, newsize)
    <2>1. newsize + RT_MEMHEAP_SIZE + RT_MEMHEAP_MINIALLOC < d
      BY <1>1, <1>5 DEF Shrinkable, ItemSize
    <2>2. /\ Sound(i, fl, av, t) /\ Neighbours(i, t, m, e, d, z, f)
          /\ newsize \in Nat /\ newsize >= RT_MEMHEAP_MINIALLOC
          /\ newsize + RT_MEMHEAP_SIZE + RT_MEMHEAP_MINIALLOC < d
          /\ q = shrink(Region(i, fl, av), m, newsize)
      BY <1>2, <1>3, <1>5, <2>1
    <2>3. /\ q = Region(q.item, q.free_list, q.available_size)
          /\ Moved(i, q.item, q.free_list, q.available_size, t, m) /\ UsedAt(q.item, m)
      BY ONLY <2>2, ShrinkMoved
    <2> QED BY <1>1, <2>3 DEF Step, SoundRegion, Moved
  <1> QED BY <1>4, <1>5
\* All heaps between two steps
HeapsSound(M) == DOMAIN M = Heaps /\ \A x \in Heaps : SoundRegion(M[x], Tailer(x))

\* Each call that moves a block holds that block, and no other call does.
MovesOK(M, mv) ==
    \A c \in mv :
        /\ c = [heap |-> c.heap, item |-> c.item, size |-> c.size, at |-> c.at]
        /\ c.heap \in Heaps /\ UsedAt(M[c.heap].item, c.item) /\ c.item # Tailer(c.heap)
        /\ c.size \in Nat /\ c.size >= RT_MEMHEAP_MINIALLOC
        /\ \A b \in mv : b.heap = c.heap /\ b.item = c.item => b = c

\* The inductive invariant of the heaps
MemHeapInv == HeapsSound(memheap) /\ MovesOK(memheap, moves)

\* A step moved at most the block m of heap h.
Changed(M, N, h, m, q) ==
    /\ HeapsSound(M) /\ h \in Heaps /\ N = [M EXCEPT ![h] = q] /\ Step(M[h], q, Tailer(h), m)

\* It keeps the heaps sound, and the blocks of the other callers.
LEMMA ChangedSound ==
    ASSUME NEW M, NEW N, NEW h, NEW m, NEW q, Changed(M, N, h, m, q)
    PROVE  HeapsSound(N) /\ \A x \in Heaps : KeptItems(M[x], N[x])
  <1>1. /\ DOMAIN M = Heaps /\ h \in Heaps /\ N = [M EXCEPT ![h] = q]
        /\ \A x \in Heaps : SoundRegion(M[x], Tailer(x))
        /\ SoundRegion(q, Tailer(h)) /\ SameOthers(M[h].item, q.item, m)
    BY DEF Changed, HeapsSound, Step
  <1>2. DOMAIN N = Heaps /\ N[h] = q /\ \A x \in Heaps : x # h => N[x] = M[x]  BY <1>1
  <1>3. KeptItems(M[h], q)  BY <1>1, StepKept
  <1>4. ASSUME NEW x \in Heaps PROVE KeptItems(M[x], N[x])
    <2>1. CASE x = h  BY <1>2, <1>3, <2>1
    <2>2. CASE x # h  BY <1>2, <2>2, RestKept
    <2> QED BY <2>1, <2>2
  <1>5. HeapsSound(N)  BY <1>1, <1>2 DEF HeapsSound
  <1> QED BY <1>4, <1>5

\* The calls that move blocks still hold them.
LEMMA ChangedMoves ==
    ASSUME NEW M, NEW N, NEW h, NEW m, NEW q, NEW mv, Changed(M, N, h, m, q), MovesOK(M, mv),
           UsedAt(q.item, m) \/ \A c \in mv : ~(c.heap = h /\ c.item = m)
    PROVE  MovesOK(N, mv)
  <1>1. /\ DOMAIN M = Heaps /\ h \in Heaps /\ N = [M EXCEPT ![h] = q]
        /\ SameOthers(M[h].item, q.item, m)
    BY DEF Changed, HeapsSound, Step
  <1>2. N[h] = q /\ \A x \in Heaps : x # h => N[x] = M[x]  BY <1>1
  <1>3. ASSUME NEW c \in mv PROVE UsedAt(N[c.heap].item, c.item)
    <2>1. c.heap \in Heaps /\ UsedAt(M[c.heap].item, c.item)  BY DEF MovesOK
    <2>2. CASE c.heap # h  BY <1>2, <2>1, <2>2
    <2>3. CASE c.heap = h /\ c.item = m  BY <1>2, <2>3
    <2>4. CASE c.heap = h /\ c.item # m  BY <1>1, <1>2, <2>1, <2>4 DEF SameOthers
    <2> QED BY <2>2, <2>3, <2>4
  <1> QED BY <1>3 DEF MovesOK

\* A block that was free belongs to no call.
LEMMA FreeUnmoved ==
    ASSUME NEW M, NEW mv, NEW h, NEW m, MovesOK(M, mv), ~UsedAt(M[h].item, m)
    PROVE  \A c \in mv : ~(c.heap = h /\ c.item = m)
  BY DEF MovesOK

\* Fewer calls
LEMMA FewerMoves ==
    ASSUME NEW M, NEW mv, NEW mw, MovesOK(M, mv), mw \subseteq mv
    PROVE  MovesOK(M, mw)
  BY DEF MovesOK

\* A call goes on.
LEMMA MoveOn ==
    ASSUME NEW M, NEW mv, NEW mw, NEW c, NEW a, MovesOK(M, mv), c \in mv,
           mw = (mv \ {c}) \cup {[c EXCEPT !.at = a]}
    PROVE  MovesOK(M, mw)
  <1>1. PICK d : d = [c EXCEPT !.at = a]  BY Zenon
  <1>2. /\ c = [heap |-> c.heap, item |-> c.item, size |-> c.size, at |-> c.at]
        /\ c.heap \in Heaps /\ UsedAt(M[c.heap].item, c.item) /\ c.item # Tailer(c.heap)
        /\ c.size \in Nat /\ c.size >= RT_MEMHEAP_MINIALLOC
        /\ \A b \in mv : b.heap = c.heap /\ b.item = c.item => b = c
    BY DEF MovesOK
  <1>3. d = [heap |-> c.heap, item |-> c.item, size |-> c.size, at |-> a]
    BY ONLY <1>1, <1>2
  <1>4. d.heap = c.heap /\ d.item = c.item /\ d.size = c.size /\ d.at = a  BY ONLY <1>3
  <1>5. mw = (mv \ {c}) \cup {d}  BY <1>1
  <1>6. ASSUME NEW b \in mw, NEW e \in mw, b.heap = e.heap, b.item = e.item PROVE b = e
    <2>1. CASE b = d /\ e = d  BY <2>1
    <2>2. CASE b # d /\ e # d  BY <1>5, <1>6, <2>2 DEF MovesOK
    <2>3. CASE b = d /\ e # d  BY <1>2, <1>4, <1>5, <1>6, <2>3
    <2>4. CASE b # d /\ e = d  BY <1>2, <1>4, <1>5, <1>6, <2>4
    <2> QED BY <2>1, <2>2, <2>3, <2>4
  <1>7. ASSUME NEW b \in mw
        PROVE  /\ b = [heap |-> b.heap, item |-> b.item, size |-> b.size, at |-> b.at]
               /\ b.heap \in Heaps /\ UsedAt(M[b.heap].item, b.item) /\ b.item # Tailer(b.heap)
               /\ b.size \in Nat /\ b.size >= RT_MEMHEAP_MINIALLOC
    <2>1. CASE b = d  BY ONLY <1>2, <1>3, <1>4, <2>1
    <2>2. CASE b # d  BY <1>5, <2>2 DEF MovesOK
    <2> QED BY <2>1, <2>2
  <1> QED BY <1>6, <1>7 DEF MovesOK

\* realloc must move a block.
MovesIn(M, mv, mw, h, m, size, a) ==
    /\ MovesOK(M, mv) /\ h \in Heaps /\ UsedAt(M[h].item, m) /\ m # Tailer(h) /\ size \in Nat
    /\ size >= RT_MEMHEAP_MINIALLOC /\ \A c \in mv : ~(c.heap = h /\ c.item = m)
    /\ mw = mv \cup {[heap |-> h, item |-> m, size |-> size, at |-> a]}

\* It holds the block, alone.
LEMMA MoveStarts ==
    ASSUME NEW M, NEW mv, NEW mw, NEW h, NEW m, NEW size, NEW a, MovesIn(M, mv, mw, h, m, size, a)
    PROVE  MovesOK(M, mw)
  <1> USE DEF MovesIn
  <1>1. PICK d : d = [heap |-> h, item |-> m, size |-> size, at |-> a]  BY Zenon
  <1>2. d.heap = h /\ d.item = m /\ d.size = size /\ d.at = a  BY ONLY <1>1
  <1>3. mw = mv \cup {d}  BY <1>1
  <1>4. ASSUME NEW b \in mw, NEW e \in mw, b.heap = e.heap, b.item = e.item PROVE b = e
    <2>1. CASE b = d /\ e = d  BY <2>1
    <2>2. CASE b # d /\ e # d  BY <1>3, <1>4, <2>2 DEF MovesOK
    <2>3. CASE b = d /\ e # d  BY <1>2, <1>3, <1>4, <2>3
    <2>4. CASE b # d /\ e = d  BY <1>2, <1>3, <1>4, <2>4
    <2> QED BY <2>1, <2>2, <2>3, <2>4
  <1>5. ASSUME NEW b \in mw
        PROVE  /\ b = [heap |-> b.heap, item |-> b.item, size |-> b.size, at |-> b.at]
               /\ b.heap \in Heaps /\ UsedAt(M[b.heap].item, b.item) /\ b.item # Tailer(b.heap)
               /\ b.size \in Nat /\ b.size >= RT_MEMHEAP_MINIALLOC
    <2>1. CASE b = d  BY <1>1, <1>2, <2>1
    <2>2. CASE b # d  BY <1>3, <2>2 DEF MovesOK
    <2> QED BY <2>1, <2>2
  <1> QED BY <1>4, <1>5 DEF MovesOK
\* The size that a request is rounded up to
LEMMA AlignedSize ==
    ASSUME NEW size \in Requests
    PROVE  Aligned(size) \in Nat /\ Aligned(size) >= RT_MEMHEAP_MINIALLOC
  <1>1. RT_MEMHEAP_MINIALLOC \in Nat /\ size \in Nat
    BY MemHeapAssumption DEF MemHeapAssumption
  <1> QED BY <1>1 DEF Aligned

\* The invariant after a change of one heap; N and mw stand for the next state.
LEMMA ChangedInv ==
    ASSUME NEW M, NEW N, NEW h, NEW m, NEW q, NEW mv, NEW mw,
           Changed(M, N, h, m, q), MovesOK(M, mv), mw \subseteq mv,
           UsedAt(q.item, m) \/ \A c \in mw : ~(c.heap = h /\ c.item = m)
    PROVE  /\ HeapsSound(N) /\ MovesOK(N, mw)
           /\ \A x \in Heaps : KeptItems(M[x], N[x])
  <1>1. MovesOK(M, mw)  BY FewerMoves
  <1>2. MovesOK(N, mw)  BY <1>1, ChangedMoves
  <1> QED BY <1>2, ChangedSound

\* A block is taken in one of the heaps.
LEMMA AllocChanges ==
    ASSUME NEW M, NEW N, NEW h, NEW size, NEW mv, HeapsSound(M), h \in Heaps, MovesOK(M, mv),
           Found(M[h], size) # {}, size \in Nat, size >= RT_MEMHEAP_MINIALLOC,
           N = [M EXCEPT ![h] = alloc(M[h], size)]
    PROVE  /\ HeapsSound(N) /\ MovesOK(N, mv)
           /\ \A x \in Heaps : KeptItems(M[x], N[x])
  <1>1. PICK r, q, t : r = M[h] /\ q = alloc(r, size) /\ t = Tailer(h)  OBVIOUS
  <1>2. /\ SoundRegion(r, t) /\ Found(r, size) # {}
        /\ size \in Nat /\ size >= RT_MEMHEAP_MINIALLOC /\ q = alloc(r, size)
    BY <1>1 DEF HeapsSound
  <1>3. \E m : Step(r, q, t, m) /\ ~UsedAt(r.item, m)  BY ONLY <1>2, AllocStep
  <1>4. PICK m : Step(r, q, t, m) /\ ~UsedAt(r.item, m)  BY <1>3
  <1>5. Changed(M, N, h, m, q)  BY <1>1, <1>4 DEF Changed
  <1>6. \A c \in mv : ~(c.heap = h /\ c.item = m)  BY <1>1, <1>4, FreeUnmoved, Zenon
  <1>7. Changed(M, N, h, m, q) /\ MovesOK(M, mv) /\ mv \subseteq mv
        /\ (UsedAt(q.item, m) \/ \A c \in mv : ~(c.heap = h /\ c.item = m))
    BY <1>5, <1>6
  <1> QED BY ONLY <1>7, ChangedInv, Zenon

\* A used block of one of the heaps is given back; the calls mw remain.
FreesIn(M, N, h, m, mv, mw) ==
    /\ HeapsSound(M) /\ h \in Heaps /\ MovesOK(M, mv)
    /\ UsedAt(M[h].item, m) /\ m # Tailer(h) /\ mw \subseteq mv
    /\ \A c \in mw : ~(c.heap = h /\ c.item = m)
    /\ N = [M EXCEPT ![h] = free_item(M[h], m)]

\* That leaves the heaps sound.
LEMMA FreeChanges ==
    ASSUME NEW M, NEW N, NEW h, NEW m, NEW mv, NEW mw, FreesIn(M, N, h, m, mv, mw)
    PROVE  /\ HeapsSound(N) /\ MovesOK(N, mw)
           /\ \A x \in Heaps : KeptItems(M[x], N[x])
  <1> USE DEF FreesIn
  <1>1. PICK r, q, t : r = M[h] /\ q = free_item(r, m) /\ t = Tailer(h)  OBVIOUS
  <1>2. SoundRegion(r, t) /\ UsedAt(r.item, m) /\ m # t /\ q = free_item(r, m)
    BY <1>1 DEF HeapsSound
  <1>3. Step(r, q, t, m)  BY ONLY <1>2, FreeStep
  <1>4. Changed(M, N, h, m, q)  BY <1>1, <1>3 DEF Changed
  <1>5. Changed(M, N, h, m, q) /\ MovesOK(M, mv) /\ mw \subseteq mv
        /\ (UsedAt(q.item, m) \/ \A c \in mw : ~(c.heap = h /\ c.item = m))
    BY <1>4
  <1> QED BY ONLY <1>5, ChangedInv, Zenon

\* A used block of one of the heaps is resized.
LEMMA ResizeChanges ==
    ASSUME NEW M, NEW N, NEW h, NEW m, NEW newsize, NEW q, NEW mv, HeapsSound(M), h \in Heaps,
           MovesOK(M, mv), UsedAt(M[h].item, m), m # Tailer(h),
           newsize \in Nat, newsize >= RT_MEMHEAP_MINIALLOC,
           \/ Grows(M[h], m, newsize) /\ q = grow(M[h], m, newsize)
           \/ Shrinkable(M[h], m, newsize) /\ q = shrink(M[h], m, newsize),
           N = [M EXCEPT ![h] = q]
    PROVE  /\ HeapsSound(N) /\ MovesOK(N, mv)
           /\ \A x \in Heaps : KeptItems(M[x], N[x])
  <1>1. PICK r, t : r = M[h] /\ t = Tailer(h)  OBVIOUS
  <1>2. /\ SoundRegion(r, t) /\ UsedAt(r.item, m) /\ m # t
        /\ newsize \in Nat /\ newsize >= RT_MEMHEAP_MINIALLOC
        /\ \/ Grows(r, m, newsize) /\ q = grow(r, m, newsize)
           \/ Shrinkable(r, m, newsize) /\ q = shrink(r, m, newsize)
    BY <1>1 DEF HeapsSound
  <1>3. Step(r, q, t, m) /\ UsedAt(q.item, m)  BY ONLY <1>2, ResizeStep
  <1>4. Changed(M, N, h, m, q)  BY <1>1, <1>3 DEF Changed
  <1>5. Changed(M, N, h, m, q) /\ MovesOK(M, mv) /\ mv \subseteq mv
        /\ (UsedAt(q.item, m) \/ \A c \in mv : ~(c.heap = h /\ c.item = m))
    BY <1>3, <1>4
  <1> QED BY ONLY <1>5, ChangedInv

\* What a step of the heaps preserves, of the state and the next one
MemHeapKept(M, N, mw) ==
    HeapsSound(N) /\ MovesOK(N, mw) /\ \A x \in Heaps : KeptItems(M[x], N[x])

\* A call of the heaps
LEMMA MemHeapCalls ==
    ASSUME NEW M, NEW N, NEW mv, NEW mw, M = memheap, N = memheap', mv = moves, mw = moves',
           HeapsSound(M), MovesOK(M, mv), NEW h \in Heaps,
           \/ \E size \in Requests : rt_memheap_alloc(h, size)
           \/ \E m \in DOMAIN memheap[h].item :
                 \/ rt_memheap_free(h, m)
                 \/ \E size \in Requests : rt_memheap_realloc(h, m, size) \/ realloc_leave(h, m, size)
    PROVE  MemHeapKept(M, N, mw)
  <1>1. CASE \E size \in Requests : rt_memheap_alloc(h, size)
    <2>1. PICK size \in Requests : rt_memheap_alloc(h, size)  BY <1>1
    <2>2. PICK s : s = Aligned(size)  OBVIOUS
    <2>3. s \in Nat /\ s >= RT_MEMHEAP_MINIALLOC  BY <2>2, AlignedSize
    <2>4. /\ HeapsSound(M) /\ h \in Heaps /\ MovesOK(M, mv) /\ Found(M[h], s) # {}
          /\ s \in Nat /\ s >= RT_MEMHEAP_MINIALLOC /\ N = [M EXCEPT ![h] = alloc(M[h], s)]
      BY <2>1, <2>2, <2>3 DEF rt_memheap_alloc, Update
    <2>5. HeapsSound(N) /\ MovesOK(N, mv) /\ \A x \in Heaps : KeptItems(M[x], N[x])
      BY ONLY <2>4, AllocChanges, Zenon
    <2>6. mw = mv  BY <2>1 DEF rt_memheap_alloc
    <2> QED BY <2>5, <2>6 DEF MemHeapKept
  <1>2. CASE \E m \in DOMAIN memheap[h].item : rt_memheap_free(h, m)
    <2>1. PICK m : rt_memheap_free(h, m)  BY <1>2
    <2>2. /\ UsedAt(M[h].item, m) /\ m # Tailer(h) /\ mv \subseteq mv
          /\ \A c \in mv : ~(c.heap = h /\ c.item = m)
          /\ N = [M EXCEPT ![h] = free_item(M[h], m)] /\ mw = mv
      BY <2>1 DEF rt_memheap_free, LiveItems, Update, UsedAt
    <2>3. FreesIn(M, N, h, m, mv, mv)  BY <2>2 DEF FreesIn
    <2>4. HeapsSound(N) /\ MovesOK(N, mv) /\ \A x \in Heaps : KeptItems(M[x], N[x])
      BY ONLY <2>3, FreeChanges
    <2> QED BY <2>2, <2>4 DEF MemHeapKept
  <1>3. CASE \E m \in DOMAIN memheap[h].item, size \in Requests : rt_memheap_realloc(h, m, size)
    <2>1. PICK m \in DOMAIN memheap[h].item, size \in Requests : rt_memheap_realloc(h, m, size)
      BY <1>3
    <2>2. PICK s : s = Aligned(size)  OBVIOUS
    <2>3. s \in Nat /\ s >= RT_MEMHEAP_MINIALLOC  BY <2>2, AlignedSize
    <2>4. UsedAt(M[h].item, m) /\ m # Tailer(h) /\ mw = mv
      BY <2>1 DEF rt_memheap_realloc, LiveItems, UsedAt
    <2>5. \/ Grows(M[h], m, s) /\ N = [M EXCEPT ![h] = grow(M[h], m, s)]
          \/ Shrinkable(M[h], m, s) /\ N = [M EXCEPT ![h] = shrink(M[h], m, s)]
      BY <2>1, <2>2 DEF rt_memheap_realloc, Update
    <2>6. PICK q : /\ N = [M EXCEPT ![h] = q]
                   /\ \/ Grows(M[h], m, s) /\ q = grow(M[h], m, s)
                      \/ Shrinkable(M[h], m, s) /\ q = shrink(M[h], m, s)
      BY <2>5
    <2>7. /\ HeapsSound(M) /\ h \in Heaps /\ MovesOK(M, mv)  OBVIOUS
    <2>8. HeapsSound(N) /\ MovesOK(N, mv) /\ \A x \in Heaps : KeptItems(M[x], N[x])
      BY ONLY <2>3, <2>4, <2>6, <2>7, ResizeChanges, Zenon
    <2> QED BY <2>4, <2>8 DEF MemHeapKept
  <1>4. CASE \E m \in DOMAIN memheap[h].item, size \in Requests : realloc_leave(h, m, size)
    <2>1. PICK m \in DOMAIN memheap[h].item, size \in Requests : realloc_leave(h, m, size)
      BY <1>4
    <2>2. PICK s, a : s = Aligned(size) /\ a = "alloc"  OBVIOUS
    <2>3. s \in Nat /\ s >= RT_MEMHEAP_MINIALLOC  BY <2>2, AlignedSize
    <2>4. /\ UsedAt(M[h].item, m) /\ m # Tailer(h)
          /\ \A c \in mv : ~(c.heap = h /\ c.item = m)
          /\ mw = mv \cup {[heap |-> h, item |-> m, size |-> s, at |-> a]} /\ N = M
      BY <2>1, <2>2 DEF realloc_leave, LiveItems, UsedAt
    <2>5. MovesOK(M, mv) /\ h \in Heaps  OBVIOUS
    <2>7. MovesIn(M, mv, mw, h, m, s, a)  BY <2>3, <2>4, <2>5 DEF MovesIn
    <2>6. MovesOK(M, mw)  BY ONLY <2>7, MoveStarts
    <2> QED BY <2>4, <2>6, RestKept DEF MemHeapKept
  <1> QED BY <1>1, <1>2, <1>3, <1>4

\* A call that moves a block
LEMMA MemHeapMoves ==
    ASSUME NEW M, NEW N, NEW mv, NEW mw, M = memheap, N = memheap', mv = moves, mw = moves',
           HeapsSound(M), MovesOK(M, mv), NEW c \in mv,
           \/ realloc_move(c) \/ realloc_free_old(c) \/ realloc_refused(c) \/ realloc_fails(c)
           \/ \E to \in Heaps : rt_realloc(c, to)
    PROVE  MemHeapKept(M, N, mw)
  <1>0. /\ c.heap \in Heaps /\ UsedAt(M[c.heap].item, c.item) /\ c.item # Tailer(c.heap)
        /\ c.size \in Nat /\ c.size >= RT_MEMHEAP_MINIALLOC
        /\ \A b \in mv : b.heap = c.heap /\ b.item = c.item => b = c
    BY DEF MovesOK
  <1>1. PICK h, m, s : h = c.heap /\ m = c.item /\ s = c.size  OBVIOUS
  <1>2. CASE realloc_move(c)
    <2>1. PICK a : a = "copied"  OBVIOUS
    <2>2. /\ HeapsSound(M) /\ h \in Heaps /\ MovesOK(M, mv) /\ Found(M[h], s) # {}
          /\ s \in Nat /\ s >= RT_MEMHEAP_MINIALLOC /\ N = [M EXCEPT ![h] = alloc(M[h], s)]
      BY <1>0, <1>1, <1>2 DEF realloc_move, Update
    <2>3. HeapsSound(N) /\ MovesOK(N, mv) /\ \A x \in Heaps : KeptItems(M[x], N[x])
      BY ONLY <2>2, AllocChanges, Zenon
    <2>4. MovesOK(N, mv) /\ c \in mv /\ mw = (mv \ {c}) \cup {[c EXCEPT !.at = a]}
      BY <1>2, <2>1, <2>3 DEF realloc_move, Then
    <2>5. MovesOK(N, mw)  BY ONLY <2>4, MoveOn, Zenon
    <2> QED BY <2>3, <2>5 DEF MemHeapKept
  <1>3. CASE realloc_free_old(c)
    <2>1. N = [M EXCEPT ![h] = free_item(M[h], m)] /\ mw = mv \ {c}
      BY <1>1, <1>3 DEF realloc_free_old, Update
    <2>2. mw \subseteq mv /\ \A b \in mw : ~(b.heap = h /\ b.item = m)
      BY <1>0, <1>1, <2>1
    <2>3. /\ HeapsSound(M) /\ h \in Heaps /\ MovesOK(M, mv) /\ UsedAt(M[h].item, m) /\ m # Tailer(h)
      BY <1>0, <1>1
    <2>5. FreesIn(M, N, h, m, mv, mw)  BY <2>1, <2>2, <2>3 DEF FreesIn
    <2>4. HeapsSound(N) /\ MovesOK(N, mw) /\ \A x \in Heaps : KeptItems(M[x], N[x])
      BY ONLY <2>5, FreeChanges
    <2> QED BY <2>4 DEF MemHeapKept
  <1>4. CASE realloc_refused(c)
    <2>1. PICK a : a = "refused"  OBVIOUS
    <2>2. MovesOK(M, mv) /\ c \in mv /\ mw = (mv \ {c}) \cup {[c EXCEPT !.at = a]}
      BY <1>4, <2>1 DEF realloc_refused, Then
    <2>3. MovesOK(M, mw)  BY ONLY <2>2, MoveOn
    <2>4. N = M  BY <1>4 DEF realloc_refused
    <2> QED BY <2>3, <2>4, RestKept DEF MemHeapKept
  <1>5. CASE realloc_fails(c)
    <2>1. N = M /\ mw \subseteq mv  BY <1>5 DEF realloc_fails
    <2>2. MovesOK(M, mw)  BY <2>1, FewerMoves
    <2> QED BY <2>1, <2>2, RestKept DEF MemHeapKept
  <1>6. CASE \E to \in Heaps : rt_realloc(c, to)
    <2>1. PICK to \in Heaps : rt_realloc(c, to)  BY <1>6
    <2>2. /\ HeapsSound(M) /\ to \in Heaps /\ MovesOK(M, mv) /\ Found(M[to], s) # {}
          /\ s \in Nat /\ s >= RT_MEMHEAP_MINIALLOC /\ N = [M EXCEPT ![to] = alloc(M[to], s)]
      BY <1>0, <1>1, <2>1 DEF rt_realloc, Update
    <2>3. HeapsSound(N) /\ MovesOK(N, mv) /\ \A x \in Heaps : KeptItems(M[x], N[x])
      BY ONLY <2>2, AllocChanges, Zenon
    <2>4. MovesOK(N, mv) /\ mw \subseteq mv  BY <2>1, <2>3 DEF rt_realloc
    <2>5. MovesOK(N, mw)  BY ONLY <2>4, FewerMoves
    <2> QED BY <2>3, <2>5 DEF MemHeapKept
  <1> QED BY <1>2, <1>3, <1>4, <1>5, <1>6

\* A step of the heaps keeps them sound, and the blocks of the other callers.
LEMMA MemHeapSteps ==
    ASSUME MemHeapInv, MemHeapNext
    PROVE  MemHeapInv' /\ MemBlocksKept
  <1>1. PICK M, N, mv, mw : M = memheap /\ N = memheap' /\ mv = moves /\ mw = moves'
    OBVIOUS
  <1>2. HeapsSound(M) /\ MovesOK(M, mv)  BY <1>1 DEF MemHeapInv
  <1>3. MemHeapKept(M, N, mw)
    <2>1. CASE \E c \in moves : \/ realloc_move(c) \/ realloc_free_old(c)
                                \/ realloc_refused(c) \/ realloc_fails(c)
                                \/ \E to \in Heaps : rt_realloc(c, to)
      <3>1. PICK c \in mv : \/ realloc_move(c) \/ realloc_free_old(c)
                            \/ realloc_refused(c) \/ realloc_fails(c)
                            \/ \E to \in Heaps : rt_realloc(c, to)
        BY <1>1, <2>1
      <3> QED BY <1>1, <1>2, <3>1, MemHeapMoves
    <2>2. CASE \E h \in Heaps :
                  \/ \E size \in Requests : rt_memheap_alloc(h, size)
                  \/ \E m \in DOMAIN memheap[h].item :
                        \/ rt_memheap_free(h, m)
                        \/ \E size \in Requests :
                              rt_memheap_realloc(h, m, size) \/ realloc_leave(h, m, size)
      BY <1>1, <1>2, <2>2, MemHeapCalls
    <2> QED BY <2>1, <2>2 DEF MemHeapNext
  <1>4. MemHeapInv'  BY <1>1, <1>3 DEF MemHeapInv, MemHeapKept
  <1>5. MemBlocksKept  BY <1>1, <1>3 DEF MemBlocksKept, MemHeapKept, KeptItems
  <1> QED BY <1>4, <1>5

\* A step of another part leaves the heaps alone.
LEMMA MemHeapRests ==
    ASSUME MemHeapInv, UNCHANGED memheap_vars
    PROVE  MemHeapInv' /\ MemBlocksKept
  <1>1. memheap' = memheap /\ moves' = moves  BY DEF memheap_vars
  <1>2. PICK M : M = memheap  OBVIOUS
  <1>3. \A x \in Heaps : KeptItems(M[x], M[x])  BY RestKept
  <1> QED BY <1>1, <1>2, <1>3 DEF MemHeapInv, MemBlocksKept, KeptItems
\* A sum in which all terms but one are 0
LEMMA OneTerm ==
    ASSUME NEW S, NEW f, NEW x, IsFiniteSet(S), x \in S, \A a \in S : f[a] \in Int,
           \A a \in S \ {x} : f[a] = 0
    PROVE  Total(f, S) = f[x]
  <1>1. Total(f, S) = Total(f, {x})  BY TotalZeros
  <1>2. Total(f, {x}) = f[x] + Total(f, {x} \ {x})  BY TotalRemove
  <1>3. {x} \ {x} = {} /\ Total(f, {}) = 0 /\ f[x] \in Int  BY TotalStep
  <1> QED BY <1>1, <1>2, <1>3

\* The tailer of a heap
LEMMA TailerAt ==
    ASSUME NEW h \in Heaps
    PROVE  /\ Pool(Tailer(h)) /\ heap_size[h] \in Nat /\ Tailer(h) = heap_size[h] - RT_MEMHEAP_SIZE
           /\ RT_MEMHEAP_SIZE + RT_MEMHEAP_MINIALLOC <= Tailer(h)
  <1>1. PICK t : t = Tailer(h)  OBVIOUS
  <1>2. /\ RT_MEMHEAP_SIZE \in Nat /\ RT_MEMHEAP_SIZE > 0
        /\ RT_MEMHEAP_MINIALLOC \in Nat /\ RT_MEMHEAP_MINIALLOC > 0
        /\ heap_size[h] \in Nat /\ heap_size[h] >= 2 * RT_MEMHEAP_SIZE + RT_MEMHEAP_MINIALLOC
        /\ t = heap_size[h] - RT_MEMHEAP_SIZE
    BY <1>1, MemHeapAssumption DEF MemHeapAssumption, Tailer
  <1>3. t \in Nat /\ t > 0 /\ RT_MEMHEAP_SIZE + RT_MEMHEAP_MINIALLOC <= t  BY ONLY <1>2
  <1>4. IsFiniteSet(0 .. t)  BY <1>3, FS_Interval
  <1>5. Pool(t)  BY <1>2, <1>3, <1>4 DEF Pool
  <1> QED BY <1>1, <1>2, <1>3, <1>5

\* At first there is one free block.
LEMMA FirstBlocks ==
    ASSUME NEW i, NEW t, NEW f, NEW w, Pool(t), RT_MEMHEAP_SIZE + RT_MEMHEAP_MINIALLOC <= t,
           i = [m \in {0, t} |-> [used |-> m # 0, next |-> t - m, prev |-> t - m]],
           f = FreeWords(i, t), w = Words(i, t)
    PROVE  /\ Tiles(i, t) /\ Separate(i, {}) /\ ListedIn(i, <<0>>, {}, t)
           /\ Total(f, 0 .. t) = t - RT_MEMHEAP_SIZE /\ Total(w, 0 .. t) = t
  <1>1. /\ t \in Nat /\ t > 0 /\ 0 # t /\ RT_MEMHEAP_SIZE \in Nat /\ RT_MEMHEAP_MINIALLOC \in Nat
        /\ IsFiniteSet(0 .. t) /\ 0 \in 0 .. t /\ t \in 0 .. t
    BY DEF Pool
  <1>2. /\ DOMAIN i = {0, t}
        /\ i[0] = [used |-> FALSE, next |-> t, prev |-> t]
        /\ i[t] = [used |-> TRUE, next |-> 0, prev |-> 0]
    <2>1. DOMAIN i = {0, t}  OBVIOUS
    <2>2. i[0] = [used |-> 0 # 0, next |-> t - 0, prev |-> t - 0]  OBVIOUS
    <2>3. i[t] = [used |-> t # 0, next |-> t - t, prev |-> t - t]  OBVIOUS
    <2>4. t - 0 = t /\ t - t = 0 /\ (0 # 0) = FALSE /\ (t # 0) = TRUE  BY <1>1
    <2> QED BY ONLY <2>1, <2>2, <2>3, <2>4, Zenon
  <1>3. Tiles(i, t)
    <2>1. ASSUME NEW m \in DOMAIN i
          PROVE  /\ i[m] \in Links(t)
                 /\ i[m].next \in DOMAIN i /\ i[m].prev \in DOMAIN i
                 /\ i[i[m].next].prev = m /\ i[i[m].prev].next = m
      BY <1>1, <1>2, Zenon DEF Links
    <2>2. ASSUME NEW m \in DOMAIN i, m # t
          PROVE  /\ m + RT_MEMHEAP_SIZE + RT_MEMHEAP_MINIALLOC <= i[m].next
                 /\ \A j \in DOMAIN i : j <= m \/ i[m].next <= j
      BY <1>1, <1>2, <2>2
    <2> QED BY <1>1, <1>2, <2>1, <2>2 DEF Tiles
  <1>4. Separate(i, {})  BY <1>1, <1>2 DEF Separate
  <1>5. ListedIn(i, <<0>>, {}, t)
    <2>1. <<0>> \in Seq(0 .. t) /\ IsInjective(<<0>>)  BY <1>1 DEF IsInjective
    <2>2. \A a : Contains(<<0>>, a) <=> a = 0  BY DEF Contains
    <2>3. \A a : FreeAt(i, a) <=> a = 0  BY <1>1, <1>2 DEF FreeAt
    <2> QED BY <2>1, <2>2, <2>3 DEF ListedIn
  <1>6. PICK S, x : S = 0 .. t /\ x = 0  OBVIOUS
  <1>7. /\ f[x] = t - RT_MEMHEAP_SIZE /\ w[x] = t
        /\ \A a \in S \ {x} : f[a] = 0 /\ w[a] = 0
    BY <1>1, <1>2, <1>6 DEF FreeWords, Words
  <1>8. \A a \in S : f[a] \in Int /\ w[a] \in Int  BY <1>3, <1>6, WordsInt
  <1>9. IsFiniteSet(S) /\ x \in S  BY <1>1, <1>6
  <1>10. Total(f, S) = f[x]  BY ONLY <1>7, <1>8, <1>9, OneTerm, Zenon
  <1>11. Total(w, S) = w[x]  BY ONLY <1>7, <1>8, <1>9, OneTerm, Zenon
  <1> QED BY <1>3, <1>4, <1>5, <1>6, <1>7, <1>10, <1>11

\* The heaps begin so.
LEMMA MemHeapStarts ==
    ASSUME MemHeapInit
    PROVE  MemHeapInv
  <1>1. ASSUME NEW h \in Heaps PROVE SoundRegion(memheap[h], Tailer(h))
    <2>1. PICK t, i, f, w, x, l :
              /\ t = Tailer(h) /\ f = FreeWords(i, t) /\ w = Words(i, t) /\ l = <<0>>
              /\ i = [m \in {0, t} |-> [used |-> m # 0, next |-> t - m, prev |-> t - m]]
              /\ x = heap_size[h] - 2 * RT_MEMHEAP_SIZE
      BY Zenon
    <2>2. memheap[h] = Region(i, l, x)  BY <2>1 DEF MemHeapInit, Region
    <2>3. memheap[h].item = i /\ memheap[h].free_list = l /\ memheap[h].available_size = x
      BY ONLY <2>2, RegionParts
    <2>4. /\ Pool(t) /\ RT_MEMHEAP_SIZE + RT_MEMHEAP_MINIALLOC <= t /\ heap_size[h] \in Nat
          /\ t = heap_size[h] - RT_MEMHEAP_SIZE
      BY <2>1, TailerAt
    <2>5. /\ Tiles(i, t) /\ Separate(i, {}) /\ ListedIn(i, <<0>>, {}, t)
          /\ Total(f, 0 .. t) = t - RT_MEMHEAP_SIZE /\ Total(w, 0 .. t) = t
      BY ONLY <2>1, <2>4, FirstBlocks
    <2>6. x = t - RT_MEMHEAP_SIZE  BY <2>1, <2>4 DEF Pool
    <2>7. Sound(i, l, x, t)  BY <2>1, <2>5, <2>6 DEF Sound
    <2> QED BY <2>1, <2>2, <2>3, <2>7, Zenon DEF SoundRegion
  <1>2. DOMAIN memheap = Heaps /\ moves = {}  BY DEF MemHeapInit
  <1> QED BY <1>1, <1>2 DEF MemHeapInv, HeapsSound, MovesOK

\* The sum that FreeListed names
DataOf(r, S) == MapThenSumSet(LAMBDA m : ItemSize(r, m), S)

\* It is that of the free words.
LEMMA FreeSum ==
    ASSUME NEW r, NEW S, NEW f, IsFiniteSet(S), \A m \in S : f[m] = ItemSize(r, m)
    PROVE  DataOf(r, S) = Total(f, S)
  <1>1. PICK g : Adds(g, f, S)  BY AddsExists
  <1>2. PICK e : e = CHOOSE i : i = [s \in SUBSET S |-> IF s = {} THEN 0
                                   ELSE ItemSize(r, AnyOf(s)) + i[s \ {AnyOf(s)}]]
    OBVIOUS
  <1>3. DataOf(r, S) = e[S]  BY <1>2 DEF DataOf, MapThenSumSet, MapThenFoldSet, AnyOf
  <1>4. PICK i : i = [s \in SUBSET S |-> g[s]]  BY Zenon
  <1>5. ASSUME NEW s \in SUBSET S
        PROVE  i[s] = IF s = {} THEN 0 ELSE ItemSize(r, AnyOf(s)) + i[s \ {AnyOf(s)}]
    <2>1. i[s] = g[s]  BY <1>4, <1>5
    <2>2. s # {} => i[Rest(s)] = g[Rest(s)] /\ f[AnyOf(s)] = ItemSize(r, AnyOf(s))
      BY <1>4, <1>5, RestFacts
    <2> QED BY <1>1, <1>5, <2>1, <2>2 DEF Adds, Rest
  <1>6. i = [s \in SUBSET S |-> IF s = {} THEN 0
                ELSE ItemSize(r, AnyOf(s)) + i[s \ {AnyOf(s)}]]
    BY <1>4, <1>5, Zenon
  <1>7. e = [s \in SUBSET S |-> IF s = {} THEN 0
                ELSE ItemSize(r, AnyOf(s)) + e[s \ {AnyOf(s)}]]
    BY <1>2, <1>6, Zenon
  <1>8. Adds(e, f, S)
    <2> SUFFICES ASSUME NEW s \in SUBSET S
                 PROVE  e[s] = IF s = {} THEN 0 ELSE f[AnyOf(s)] + e[Rest(s)]
      BY DEF Adds
    <2>1. s # {} => f[AnyOf(s)] = ItemSize(r, AnyOf(s))  BY RestFacts
    <2> QED BY <1>7, <2>1, Zenon DEF Rest
  <1>9. e[S] = g[S]  BY <1>1, <1>8, AddsUnique
  <1> QED BY <1>1, <1>3, <1>9, TotalIs

\* What a sound heap has of what the runs check
LEMMA RegionHolds ==
    ASSUME NEW h \in Heaps, NEW r, NEW t, t = Tailer(h), SoundRegion(r, t)
    PROVE  /\ DOMAIN r.item \subseteq 0 .. t
           /\ Range(r.item) \subseteq [used : BOOLEAN, next : 0 .. t, prev : 0 .. t]
           /\ r.free_list \in Seq(0 .. t) /\ r.available_size \in 0 .. heap_size[h]
           /\ Chained(r, h) /\ FreeListed(r)
  <1>1. PICK i, fl, av, f, w, S : /\ i = r.item /\ fl = r.free_list /\ av = r.available_size
                                  /\ f = FreeWords(i, t) /\ w = Words(i, t) /\ S = 0 .. t
    OBVIOUS
  <1>2. /\ Tiles(i, t) /\ Separate(i, {}) /\ ListedIn(i, fl, {}, t) /\ Pool(t)
        /\ av = Total(f, S) /\ Total(w, S) = t /\ IsFiniteSet(S)
        /\ DOMAIN i \subseteq S /\ {0, t} \subseteq DOMAIN i /\ i[t].used /\ i[t].next = 0
    BY <1>1, Zenon DEF SoundRegion, Sound, Tiles, Pool
  <1>3. \A a \in S : f[a] \in Int /\ w[a] \in Int /\ f[a] <= w[a] /\ f[a] \in Nat
    BY ONLY <1>1, <1>2, WordsInt
  <1>4. av \in 0 .. t
    <2>1. Total(f, S) <= Total(w, S)  BY ONLY <1>2, <1>3, TotalLeq
    <2>2. S \in SUBSET S /\ Nat \in {Int, Nat}  OBVIOUS
    <2>3. Total(f, S) \in Nat  BY ONLY <1>2, <1>3, <2>2, TotalInt, Zenon
    <2>4. t \in Nat  BY <1>2 DEF Pool
    <2> QED BY ONLY <1>2, <2>1, <2>3, <2>4
  <1>5. av \in 0 .. heap_size[h]
    <2>1. t = heap_size[h] - RT_MEMHEAP_SIZE /\ heap_size[h] \in Nat /\ RT_MEMHEAP_SIZE \in Nat
      BY TailerAt DEF Pool
    <2> QED BY ONLY <1>4, <2>1
  <1>6. Range(i) \subseteq [used : BOOLEAN, next : 0 .. t, prev : 0 .. t]
    <2>1. \A m \in DOMAIN i : i[m] \in Links(t)  BY <1>2 DEF Tiles
    <2> QED BY <2>1 DEF Range, Links
  <1>7. fl \in Seq(0 .. t) /\ IsInjective(fl) /\ \A a : Contains(fl, a) <=> FreeAt(i, a)
    BY <1>2 DEF ListedIn
  <1>8. Chained(r, h)
    <2> SUFFICES ASSUME NEW m \in DOMAIN i, NEW n, n = i[m].next
                 PROVE  /\ n \in DOMAIN i /\ i[n].prev = m
                        /\ i[m].used \/ i[n].used
                        /\ m # t => /\ n - m - RT_MEMHEAP_SIZE >= RT_MEMHEAP_MINIALLOC
                                    /\ \A j \in DOMAIN i : ~(m < j /\ j < n)
      BY <1>1, <1>2 DEF Chained, ItemSize
    <2>1. n \in DOMAIN i /\ n \in 0 .. t /\ m \in 0 .. t /\ i[n].prev = m
      <3>1. Tiles(i, t) /\ m \in DOMAIN i /\ n = i[m].next  BY <1>2
      <3> QED BY ONLY <3>1, TilesAt
    <2>2. i[m].used \/ i[n].used  BY <1>2 DEF Separate
    <2>3. ASSUME m # t
          PROVE  /\ n - m - RT_MEMHEAP_SIZE >= RT_MEMHEAP_MINIALLOC
                 /\ \A j \in DOMAIN i : ~(m < j /\ j < n)
      <3>1. Tiles(i, t) /\ m \in DOMAIN i /\ n = i[m].next /\ m # t  BY <1>2, <2>3
      <3>2. /\ m + RT_MEMHEAP_SIZE + RT_MEMHEAP_MINIALLOC <= n
            /\ \A j \in DOMAIN i : j <= m \/ n <= j
        BY ONLY <3>1, TilesLess
      <3>3. \A j \in DOMAIN i : ~(m < j /\ j < n)
        <4> SUFFICES ASSUME NEW j \in DOMAIN i PROVE ~(m < j /\ j < n)  OBVIOUS
        <4>1. j \in 0 .. t /\ (j <= m \/ n <= j) /\ t \in Nat
          BY <1>1, <1>2, <3>2 DEF Pool
        <4> QED BY ONLY <2>1, <4>1
      <3>4. RT_MEMHEAP_SIZE \in Nat /\ RT_MEMHEAP_MINIALLOC \in Nat /\ t \in Nat
        BY <1>2 DEF Pool
      <3>5. n - m - RT_MEMHEAP_SIZE >= RT_MEMHEAP_MINIALLOC  BY ONLY <2>1, <3>2, <3>4
      <3> QED BY <3>3, <3>5
    <2> QED BY <2>1, <2>2, <2>3
  <1>9. FreeListed(r)
    <2>1. PICK U : U = FreeItems(r)  OBVIOUS
    <2>2. U \subseteq S /\ IsFiniteSet(U) /\ \A a : a \in U <=> FreeAt(i, a)
      <3>1. U \subseteq S /\ \A a : a \in U <=> FreeAt(i, a)
        BY <1>1, <1>2, <2>1 DEF FreeItems, FreeAt
      <3> QED BY <1>2, <3>1, FS_Subset
    <2>3. Range(fl) = U
      <3>1. \A x : x \in Range(fl) <=> Contains(fl, x)  BY ONLY <1>7, RangeList
      <3> QED BY <1>7, <2>2, <3>1, Zenon
    <2>4. \A a \in S \ U : f[a] = 0  BY <1>1, <2>2 DEF FreeWords, FreeAt
    <2>5. Total(f, S) = Total(f, U)
      <3>1. U \subseteq S /\ \A a \in S : f[a] \in Int  BY <1>3, <2>2
      <3> QED BY ONLY <1>2, <2>4, <3>1, TotalZeros
    <2>6. \A a \in U : f[a] = ItemSize(r, a)
      BY <1>1, <1>2, <2>2 DEF FreeWords, FreeAt, ItemSize
    <2>7. DataOf(r, U) = Total(f, U)  BY ONLY <2>2, <2>6, FreeSum
    <2>8. r.available_size = DataOf(r, FreeItems(r))  BY <1>1, <1>2, <2>1, <2>5, <2>7
    <2>9. IsInjective(r.free_list) /\ Range(r.free_list) = FreeItems(r)
      BY <1>1, <1>7, <2>1, <2>3
    <2> QED BY <2>8, <2>9 DEF FreeListed, DataOf
  <1> QED BY <1>1, <1>2, <1>5, <1>6, <1>7, <1>8, <1>9

\* The invariant implies what the runs check of the heaps.
LEMMA MemHeapHolds ==
    ASSUME MemHeapInv
    PROVE  MemHeapType /\ MemHeapOK
  <1>1. ASSUME NEW h \in Heaps
        PROVE  /\ DOMAIN memheap[h].item \subseteq 0 .. Tailer(h)
               /\ Range(memheap[h].item) \subseteq
                      [used : BOOLEAN, next : 0 .. Tailer(h), prev : 0 .. Tailer(h)]
               /\ memheap[h].free_list \in Seq(0 .. Tailer(h))
               /\ memheap[h].available_size \in 0 .. heap_size[h]
               /\ Chained(memheap[h], h) /\ FreeListed(memheap[h])
    <2>1. PICK r, t : r = memheap[h] /\ t = Tailer(h)  OBVIOUS
    <2>2. SoundRegion(r, t)  BY <2>1 DEF MemHeapInv, HeapsSound
    <2>3. /\ DOMAIN r.item \subseteq 0 .. t
          /\ Range(r.item) \subseteq [used : BOOLEAN, next : 0 .. t, prev : 0 .. t]
          /\ r.free_list \in Seq(0 .. t) /\ r.available_size \in 0 .. heap_size[h]
          /\ Chained(r, h) /\ FreeListed(r)
      BY <2>1, <2>2, RegionHolds
    <2> QED BY <2>1, <2>3
  <1> QED BY <1>1 DEF MemHeapType, MemHeapOK

Size == FINSH_CMD_SIZE
Typed == Chars \cup Controls \cup ArrowBytes

\* A text in the line l of p characters, the cursor behind c of them
LineOK(l, p, c) ==
    /\ l \in Lines /\ p \in 0 .. Size - 1 /\ c \in 0 .. p
    /\ \A i \in 1 .. p : l[i] \in Chars

\* The lines that are remembered, n of them older than the one recalled last
HistoryOK(h, n) ==
    /\ h \in Seq(Seq(Chars)) /\ Len(h) <= FINSH_HISTORY_LINES /\ n \in 0 .. Len(h)
    /\ \A i \in 1 .. Len(h) : Len(h[i]) < Size

EditOK == LineOK(line, line_position, line_curpos) /\ HistoryOK(cmd_history, current_history)

EditorStep == [Editor!Next]_(Editor!vars)

\* The byte b may follow the byte a: an arrow key is sent as a whole, and right
\* behind a CR there are only characters and line ends.
Follows(a, b) ==
    b \in Chars \/ /\ b = "[" => a = "ESC"
                   /\ b \in ArrowBytes \ {"["} => a = "[" /\ "[" \notin Chars
                   /\ b \in {"TAB", "BS", "ESC"} => a # "CR"

\* The bytes s behind the byte a, and the last byte of them
Flows(a, s) == \A i \in 1 .. Len(s) : Follows(IF i = 1 THEN a ELSE s[i - 1], s[i])
Latest(a, s) == IF Len(s) = 0 THEN a ELSE s[Len(s)]

\* The byte that the thread has seen last, as far as it matters
Seen(a, t) == IF a = "next" THEN "CR"
              ELSE IF t = "WAIT_SPEC_KEY" THEN "ESC"
              ELSE IF t = "WAIT_FUNC_KEY" THEN "[" ELSE NUL

\* What is on its way to the thread: s in the buffer, k not yet sent
InputOK(a, s, k) ==
    /\ s \in Seq(Typed) /\ k \in Seq(Typed)
    /\ Flows(a, s) /\ Flows(Latest(a, s), k)

\* A TAB is alone at the head.
TabsOK(s, k, ended) ==
    /\ \A i \in 1 .. Len(s) : s[i] = "TAB" => i = 1 /\ ended
    /\ \A i \in 1 .. Len(k) : k[i] # "TAB"

PlaceOK ==
    /\ at \in {"take", "read", "next"}
    /\ stat \in {"WAIT_NORMAL", "WAIT_SPEC_KEY", "WAIT_FUNC_KEY"}
    /\ at = "next" => stat = "WAIT_NORMAL"

CountOK ==
    /\ rx_sem \in 0 .. MaxTokens /\ Len(rx) <= UART_RX_BUFSZ
    /\ Len(rx) <= rx_sem + (IF at = "read" THEN 1 ELSE 0)

ShellInv ==
    /\ PlaceOK /\ CountOK /\ EditOK
    /\ InputOK(Seen(at, stat), rx, typing) /\ TabsOK(rx, typing, Terminated)

\* The sizes
LEMMA LineSizes == Size \in Nat /\ Size >= 1 /\ NUL \notin Chars /\ MaxTokens \in Nat
  BY ShellAssumption DEF Size

\* The length of a text with a NUL right behind it
LEMMA StrlenIs ==
    ASSUME NEW l \in Lines, NEW p \in 0 .. Size - 1,
           \A i \in 1 .. p : l[i] \in Chars, l[p + 1] = NUL
    PROVE  strlen(l) = p
  <1> DEFINE S == {i \in 1 .. FINSH_CMD_SIZE : l[i] = NUL}
  <1>1. p + 1 \in S /\ S \subseteq Int  BY LineSizes DEF Size
  <1>2. \A i \in S : p + 1 <= i
    <2> SUFFICES ASSUME NEW i \in S, i < p + 1 PROVE FALSE  BY <1>1
    <2> QED BY LineSizes
  <1>3. \A x \in S : (\A y \in S : x =< y) => x = p + 1  BY <1>1, <1>2
  <1>4. Min(S) = p + 1
    <2> HIDE DEF S
    <2>1. \E x \in S : \A y \in S : x =< y  BY <1>1, <1>2
    <2>2. Min(S) \in S /\ \A y \in S : Min(S) =< y  BY <2>1 DEF Min
    <2> QED BY <2>2, <1>3
  <1> QED BY <1>1, <1>4 DEF strlen

\* The text of a line, character by character
LEMMA TextIs ==
    ASSUME NEW l, NEW p, NEW c, LineOK(l, p, c)
    PROVE  /\ SubSeq(l, 1, p) \in Seq(Chars) /\ Len(SubSeq(l, 1, p)) = p
           /\ \A i \in 1 .. p : SubSeq(l, 1, p)[i] = l[i]
  <1>1. p \in Nat /\ 1 \in Int /\ \A i \in 1 .. p : l[i] \in Chars
    BY LineSizes DEF LineOK
  <1>2. /\ SubSeq(l, 1, p) \in Seq(Chars)
        /\ Len(SubSeq(l, 1, p)) = IF 1 <= p THEN p - 1 + 1 ELSE 0
        /\ \A i \in 1 .. p - 1 + 1 : SubSeq(l, 1, p)[i] = l[1 + i - 1]
    BY <1>1, SubSeqProperties
  <1> QED BY <1>1, <1>2
\* The variables of the editor, as a step sees them
LEMMA StepIs ==
    /\ Editor!Next => EditorStep
    /\ Text' = Text /\ line_curpos' = line_curpos /\ cmd_history' = cmd_history
       /\ current_history' = current_history => EditorStep
    /\ UNCHANGED edit_vars => EditorStep
  BY Zenon DEF EditorStep, Editor!vars, edit_vars, Text

\* A character at the cursor: an insertion, or the line is cleared.
LEMMA InsertEdits ==
    ASSUME NEW ch \in Chars, EditOK, insert(ch)
    PROVE  EditOK' /\ EditorStep
  <1>1. PICK l, p, c, m : l = line /\ p = line_position /\ c = line_curpos /\ m = line'
    OBVIOUS
  <1>2. LineOK(l, p, c) /\ p \in Nat /\ c \in Nat /\ c <= p /\ p < Size /\ Size \in Nat
    BY <1>1, LineSizes DEF EditOK, LineOK
  <1>3. m = [i \in 1 .. Size |-> IF i = c + 1 THEN ch
                                 ELSE IF i \in c + 2 .. p + 1 THEN l[i - 1] ELSE l[i]]
    BY <1>1 DEF insert, Size
  <1>4. l \in [1 .. Size -> Chars \cup {NUL}] /\ \A i \in 1 .. p : l[i] \in Chars
    BY <1>2 DEF LineOK, Lines, Size
  <1>5. \A i \in 1 .. Size : m[i] = IF i = c + 1 THEN ch
                                    ELSE IF i \in c + 2 .. p + 1 THEN l[i - 1] ELSE l[i]
    BY <1>3
  <1>6. m \in Lines
    <2>1. \A i \in 1 .. Size : m[i] \in Chars \cup {NUL}  BY <1>2, <1>4, <1>5
    <2> QED BY <1>3, <2>1 DEF Lines, Size
  <1>7. \A i \in 1 .. p + 1 : m[i] \in Chars  BY <1>2, <1>4, <1>5
  <1>8. UNCHANGED <<cmd_history, current_history>>  BY DEF insert
  <1>9. HistoryOK(cmd_history, current_history)'  BY <1>8 DEF EditOK, HistoryOK
  <1>10. CASE p + 1 >= Size
    <2>1. line_position' = 0 /\ line_curpos' = 0  BY <1>1, <1>10 DEF insert, At, Size
    <2>2. LineOK(m, 0, 0)  BY <1>2, <1>6 DEF LineOK
    <2>3. EditOK'  BY <1>1, <1>9, <2>1, <2>2 DEF EditOK
    <2>4. Text' = << >>  BY <2>1, SubSeqEmpty DEF Text
    <2>5. Len(Text) = p  BY <1>1, <1>2, TextIs DEF Text
    <2>6. Editor!Insert(ch)
      <3>1. ~(Len(Text) + 1 < FINSH_CMD_SIZE)  BY <1>2, <1>10, <2>5 DEF Size
      <3> QED BY <1>8, <2>1, <2>4, <3>1 DEF Editor!Insert
    <2> QED BY <2>3, <2>6, StepIs DEF Editor!Next
  <1>11. CASE p + 1 < Size
    <2>1. line_position' = p + 1 /\ line_curpos' = c + 1
      BY <1>1, <1>2, <1>11 DEF insert, At, Size
    <2>2. LineOK(m, p + 1, c + 1)  BY <1>2, <1>6, <1>7, <1>11 DEF LineOK
    <2>3. EditOK'  BY <1>1, <1>9, <2>1, <2>2 DEF EditOK
    <2>4. PICK t : t = Text  OBVIOUS
    <2>5. t \in Seq(Chars) /\ Len(t) = p /\ \A i \in 1 .. p : t[i] = l[i]
      BY <1>1, <1>2, <2>4, TextIs DEF Text
    <2>6. PICK u : u = Text'  OBVIOUS
    <2>7. u \in Seq(Chars) /\ Len(u) = p + 1 /\ \A i \in 1 .. p + 1 : u[i] = m[i]
      BY <1>1, <2>1, <2>2, <2>6, TextIs DEF Text
    <2>8. c + 1 \in 1 .. Len(t) + 1  BY <1>2, <2>5
    <2>9. /\ InsertAt(t, c + 1, ch) \in Seq(Chars) /\ Len(InsertAt(t, c + 1, ch)) = Len(t) + 1
          /\ \A j \in 1 .. Len(t) + 1 :
                InsertAt(t, c + 1, ch)[j] =
                   IF j < c + 1 THEN t[j] ELSE IF j = c + 1 THEN ch ELSE t[j - 1]
      <3>1. PICK d : d = c + 1  OBVIOUS
      <3>2. ch \in Chars /\ t \in Seq(Chars) /\ d \in 1 .. Len(t) + 1
        BY <2>5, <2>8, <3>1
      <3>3. /\ InsertAt(t, d, ch) \in Seq(Chars) /\ Len(InsertAt(t, d, ch)) = Len(t) + 1
            /\ \A j \in 1 .. Len(t) + 1 :
                  InsertAt(t, d, ch)[j] = IF j < d THEN t[j] ELSE IF j = d THEN ch ELSE t[j - 1]
        <4>1. Inserted(Chars, t, d, ch, InsertAt(t, d, ch))
          BY ONLY <3>2, InsertAtIs, Zenon
        <4> QED BY <4>1 DEF Inserted
      <3> QED BY <3>1, <3>3
    <2>10. \A j \in 1 .. p + 1 : InsertAt(t, c + 1, ch)[j] = u[j]
      <3> SUFFICES ASSUME NEW j \in 1 .. p + 1 PROVE InsertAt(t, c + 1, ch)[j] = u[j]
        BY Zenon
      <3>1. PICK r : r = InsertAt(t, c + 1, ch)  BY Zenon
      <3>2. j \in 1 .. Len(t) + 1 /\ j \in 1 .. Size /\ j \in Int /\ c \in Int /\ p \in Int /\ 1 <= j /\ j <= p + 1
        BY <1>2, <1>11, <2>5
      <3>3. r[j] = IF j < c + 1 THEN t[j] ELSE IF j = c + 1 THEN ch ELSE t[j - 1]
        BY ONLY <2>9, <3>1, <3>2
      <3>4. u[j] = IF j = c + 1 THEN ch ELSE IF j \in c + 2 .. p + 1 THEN l[j - 1] ELSE l[j]
        BY ONLY <1>5, <2>7, <3>2, Zenon
      <3>5. CASE j < c + 1
        <4>1. j \in 1 .. p /\ j # c + 1 /\ ~(j \in c + 2 .. p + 1)
          BY ONLY <1>2, <3>2, <3>5
        <4> QED BY ONLY <2>5, <3>1, <3>3, <3>4, <3>5, <4>1
      <3>6. CASE j = c + 1  BY ONLY <3>1, <3>2, <3>3, <3>4, <3>6
      <3>7. CASE j > c + 1
        <4>1. j - 1 \in 1 .. p /\ j # c + 1 /\ ~(j < c + 1) /\ j \in c + 2 .. p + 1
          BY ONLY <1>2, <3>2, <3>7
        <4> QED BY ONLY <2>5, <3>1, <3>3, <3>4, <4>1
      <3> QED BY ONLY <3>2, <3>5, <3>6, <3>7
    <2>11. InsertAt(t, c + 1, ch) = u  BY ONLY <2>5, <2>7, <2>9, <2>10, SeqEqual, Zenon
    <2>12. Editor!Insert(ch)
      <3>1. Len(Text) + 1 < FINSH_CMD_SIZE  BY <1>11, <2>4, <2>5 DEF Size
      <3>2. Text' = InsertAt(Text, line_curpos + 1, ch) /\ line_curpos' = line_curpos + 1
        BY <1>1, <2>1, <2>4, <2>6, <2>11
      <3>3. (line_curpos + 1) - 1 = line_curpos  BY <1>1, <1>2
      <3>4. Text' = SubSeq(Text, 1, line_curpos) \o <<ch>> \o SubSeq(Text, line_curpos + 1, Len(Text))
        BY ONLY <3>2, <3>3, Zenon DEF InsertAt
      <3> QED BY <1>8, <3>1, <3>2, <3>4, Zenon DEF Editor!Insert
    <2> QED BY <2>3, <2>12, StepIs DEF Editor!Next
  <1> QED BY <1>2, <1>10, <1>11

\* A backspace takes the character before the cursor.
LEMMA BackspaceEdits ==
    ASSUME EditOK, backspace
    PROVE  EditOK' /\ EditorStep
  <1>1. PICK l, p, c, m : l = line /\ p = line_position /\ c = line_curpos /\ m = line'
    OBVIOUS
  <1>2. LineOK(l, p, c) /\ p \in Nat /\ c \in Nat /\ c <= p /\ p < Size /\ Size \in Nat
    BY <1>1, LineSizes DEF EditOK, LineOK
  <1>3. UNCHANGED <<cmd_history, current_history>>  BY DEF backspace
  <1>4. HistoryOK(cmd_history, current_history)'  BY <1>3 DEF EditOK, HistoryOK
  <1>5. CASE c = 0
    <2>1. UNCHANGED edit_vars  BY <1>1, <1>5 DEF backspace, edit_vars
    <2>2. EditOK'  BY <2>1, <1>4 DEF EditOK, edit_vars
    <2> QED BY <2>1, <2>2, StepIs
  <1>6. CASE c # 0
    <2>1. /\ m = [i \in 1 .. Size |-> IF i = p THEN NUL
                                      ELSE IF i \in c .. p - 1 THEN l[i + 1] ELSE l[i]]
          /\ line_position' = p - 1 /\ line_curpos' = c - 1
      BY <1>1, <1>6 DEF backspace, At, Size
    <2>2. l \in [1 .. Size -> Chars \cup {NUL}] /\ \A i \in 1 .. p : l[i] \in Chars
      BY <1>2 DEF LineOK, Lines, Size
    <2>3. \A i \in 1 .. Size : m[i] = IF i = p THEN NUL
                                      ELSE IF i \in c .. p - 1 THEN l[i + 1] ELSE l[i]
      BY <2>1
    <2>4. m \in Lines
      <3>1. \A i \in 1 .. Size : m[i] \in Chars \cup {NUL}  BY <1>2, <2>2, <2>3
      <3> QED BY <2>1, <3>1 DEF Lines, Size
    <2>5. \A i \in 1 .. p - 1 : m[i] \in Chars  BY <1>2, <1>6, <2>2, <2>3
    <2>6. LineOK(m, p - 1, c - 1)  BY <1>2, <1>6, <2>4, <2>5 DEF LineOK
    <2>7. EditOK'  BY <1>1, <1>4, <2>1, <2>6 DEF EditOK
    <2>8. PICK t : t = Text  OBVIOUS
    <2>9. t \in Seq(Chars) /\ Len(t) = p /\ \A i \in 1 .. p : t[i] = l[i]
      BY <1>1, <1>2, <2>8, TextIs DEF Text
    <2>10. PICK u : u = Text'  OBVIOUS
    <2>11. u \in Seq(Chars) /\ Len(u) = p - 1 /\ \A i \in 1 .. p - 1 : u[i] = m[i]
      <3>1. PICK q, d : q = p - 1 /\ d = c - 1  OBVIOUS
      <3>2. LineOK(m, q, d)  BY <2>6, <3>1
      <3>3. /\ SubSeq(m, 1, q) \in Seq(Chars) /\ Len(SubSeq(m, 1, q)) = q
            /\ \A i \in 1 .. q : SubSeq(m, 1, q)[i] = m[i]
        BY ONLY <3>2, TextIs
      <3> QED BY <1>1, <2>1, <2>10, <3>1, <3>3, Zenon DEF Text
    <2>12. c \in 1 .. Len(t)  BY <1>2, <1>6, <2>9
    <2>13. /\ RemoveAt(t, c) \in Seq(Chars) /\ Len(RemoveAt(t, c)) = Len(t) - 1
           /\ \A j \in 1 .. Len(t) - 1 : RemoveAt(t, c)[j] = IF j < c THEN t[j] ELSE t[j + 1]
      BY ONLY <2>9, <2>12, RemoveAtList, Zenon
    <2>14. \A j \in 1 .. p - 1 : RemoveAt(t, c)[j] = u[j]
      <3> SUFFICES ASSUME NEW j \in 1 .. p - 1 PROVE RemoveAt(t, c)[j] = u[j]  OBVIOUS
      <3>1. CASE j < c  BY <1>2, <2>3, <2>9, <2>11, <2>13, <3>1
      <3>2. CASE j >= c  BY <1>2, <2>3, <2>9, <2>11, <2>13, <3>2
      <3> QED BY <1>2, <3>1, <3>2
    <2>15. RemoveAt(t, c) = u  BY ONLY <1>2, <2>9, <2>11, <2>13, <2>14, SeqEqual
    <2>16. Editor!Erase
      <3>1. line_curpos > 0  BY <1>1, <1>2, <1>6
      <3>2. Text' = RemoveAt(Text, line_curpos) /\ line_curpos' = line_curpos - 1
        BY <1>1, <2>1, <2>8, <2>10, <2>15
      <3> QED BY <1>3, <3>1, <3>2 DEF Editor!Erase, RemoveAt
    <2> QED BY <2>7, <2>16, StepIs DEF Editor!Next
  <1> QED BY <1>5, <1>6

\* The text is remembered, and the line is empty.
LEMMA EnterEdits ==
    ASSUME EditOK, enter
    PROVE  EditOK' /\ EditorStep
  <1>1. PICK t, h, k : t = Text /\ h = cmd_history /\ k = cmd_history'  OBVIOUS
  <1>2. /\ t \in Seq(Chars) /\ Len(t) = line_position /\ Len(t) < Size /\ Len(t) \in Nat
    BY <1>1, LineSizes, TextIs DEF EditOK, LineOK, Text
  <1>3. /\ h \in Seq(Seq(Chars)) /\ Len(h) <= FINSH_HISTORY_LINES /\ Len(h) \in Nat
        /\ \A i \in 1 .. Len(h) : Len(h[i]) < Size
    BY <1>1 DEF EditOK, HistoryOK
  <1>4. k = IF t = << >> THEN h
            ELSE IF Len(h) < FINSH_HISTORY_LINES THEN Append(h, t) ELSE Append(Tail(h), t)
    BY <1>1, <1>2 DEF enter, push_history
  <1>5. current_history' = Len(k) /\ line' = Empty /\ line_position' = 0 /\ line_curpos' = 0
    BY <1>1 DEF enter, push_history, At
  <1>6. FINSH_HISTORY_LINES \in Nat /\ FINSH_HISTORY_LINES >= 1  BY ShellAssumption
  <1>7. /\ k \in Seq(Seq(Chars)) /\ Len(k) <= FINSH_HISTORY_LINES /\ Len(k) \in Nat
        /\ \A i \in 1 .. Len(k) : Len(k[i]) < Size
    <2>1. CASE t = << >>  BY <1>3, <1>4, <2>1
    <2>2. CASE t # << >> /\ Len(h) < FINSH_HISTORY_LINES
      <3>1. k = Append(h, t)  BY <1>4, <2>2
      <3>2. /\ k \in Seq(Seq(Chars)) /\ Len(k) = Len(h) + 1 /\ k[Len(h) + 1] = t
            /\ \A i \in 1 .. Len(h) : k[i] = h[i]
        BY <1>2, <1>3, <3>1, AppendProperties
      <3>3. \A i \in 1 .. Len(h) + 1 : i \in 1 .. Len(h) \/ i = Len(h) + 1  BY <1>3
      <3>4. \A i \in 1 .. Len(k) : Len(k[i]) < Size  BY <1>2, <1>3, <3>2, <3>3, Zenon
      <3> QED BY <1>3, <1>6, <2>2, <3>2, <3>4
    <2>3. CASE t # << >> /\ ~(Len(h) < FINSH_HISTORY_LINES)
      <3>1. k = Append(Tail(h), t) /\ h # << >>  BY <1>3, <1>4, <1>6, <2>3
      <3>2. /\ Tail(h) \in Seq(Seq(Chars)) /\ Len(Tail(h)) = Len(h) - 1
            /\ \A i \in 1 .. Len(h) - 1 : Tail(h)[i] = h[i + 1]
        BY <1>3, <3>1, HeadTailProperties
      <3>3. /\ k \in Seq(Seq(Chars)) /\ Len(k) = Len(h) /\ k[Len(h)] = t
            /\ \A i \in 1 .. Len(h) - 1 : k[i] = h[i + 1]
        BY <1>2, <1>3, <3>1, <3>2, AppendProperties
      <3>4. \A i \in 1 .. Len(h) : i = Len(h) \/ (i \in 1 .. Len(h) - 1 /\ i + 1 \in 1 .. Len(h))
        BY <1>3
      <3>5. \A i \in 1 .. Len(k) : Len(k[i]) < Size  BY <1>2, <1>3, <3>3, <3>4, Zenon
      <3> QED BY <1>3, <3>3, <3>5
    <2> QED BY <2>1, <2>2, <2>3
  <1>8. HistoryOK(cmd_history, current_history)'  BY <1>1, <1>5, <1>7 DEF HistoryOK
  <1>9. Empty \in Lines  BY DEF Empty, Lines
  <1>10. LineOK(line, line_position, line_curpos)'  BY <1>5, <1>9, LineSizes DEF LineOK
  <1>11. Text' = << >>  BY <1>5, SubSeqEmpty DEF Text
  <1>12. Editor!Enter  BY <1>1, <1>4, <1>5, <1>11 DEF Editor!Enter
  <1> QED BY <1>8, <1>10, <1>12, StepIs DEF EditOK, Editor!Next

\* A remembered line replaces the text.
LEMMA RecallEdits ==
    ASSUME NEW n \in Nat, EditOK, recall(n), n < Len(cmd_history)
    PROVE  /\ EditOK' /\ Text' = cmd_history[n + 1] /\ line_curpos' = Len(cmd_history[n + 1])
           /\ current_history' = n /\ cmd_history' = cmd_history
  <1>1. PICK c, h : c = cmd_history[n + 1] /\ h = cmd_history  OBVIOUS
  <1>2. h \in Seq(Seq(Chars)) /\ n + 1 \in 1 .. Len(h) /\ Len(h) \in Nat
    BY <1>1 DEF EditOK, HistoryOK
  <1>3. c \in Seq(Chars) /\ Len(c) < Size /\ Len(c) \in Nat
    <2>1. c \in Seq(Chars)  BY <1>1, <1>2, ElementOfSeq
    <2> QED BY <1>1, <1>2, <2>1 DEF EditOK, HistoryOK
  <1>4. PICK l : l = [i \in 1 .. Size |-> IF i <= Len(c) THEN c[i] ELSE NUL]  BY Zenon
  <1>5. l \in Lines /\ \A i \in 1 .. Len(c) : l[i] = c[i] /\ l[i] \in Chars
    <2>1. \A i \in 1 .. Len(c) : l[i] = c[i] /\ l[i] \in Chars  BY <1>3, <1>4, LineSizes
    <2>2. \A i \in 1 .. Size : l[i] \in Chars \cup {NUL}  BY <1>3, <1>4, LineSizes
    <2> QED BY <1>4, <2>1, <2>2 DEF Lines, Size
  <1>6. Len(c) \in 0 .. Size - 1 /\ l[Len(c) + 1] = NUL  BY <1>3, <1>4, LineSizes
  <1>7. strlen(l) = Len(c)  BY <1>5, <1>6, StrlenIs
  <1>8. line' = l /\ line_position' = Len(c) /\ line_curpos' = Len(c)
    BY <1>1, <1>4, <1>7 DEF recall, AtEnd, At, Size
  <1>9. LineOK(l, Len(c), Len(c))  BY <1>3, <1>5, <1>6 DEF LineOK
  <1>10. current_history' = n /\ cmd_history' = cmd_history  BY DEF recall
  <1>11. EditOK'  BY <1>1, <1>2, <1>8, <1>9, <1>10 DEF EditOK, HistoryOK
  <1>12. SubSeq(l, 1, Len(c)) = c
    <2>1. /\ SubSeq(l, 1, Len(c)) \in Seq(Chars) /\ Len(SubSeq(l, 1, Len(c))) = Len(c)
          /\ \A i \in 1 .. Len(c) : SubSeq(l, 1, Len(c))[i] = l[i]
      BY <1>9, TextIs
    <2> QED BY ONLY <1>3, <1>5, <2>1, SeqEqual
  <1> QED BY <1>1, <1>8, <1>10, <1>11, <1>12 DEF Text

\* The arrow keys recall a line or move the cursor.
LEMMA ArrowEdits ==
    ASSUME NEW ch \in {"A", "B", "C", "D"}, EditOK, arrow(ch)
    PROVE  EditOK' /\ EditorStep
  <1>1. current_history \in 0 .. Len(cmd_history) /\ Len(cmd_history) \in Nat
    BY DEF EditOK, HistoryOK
  <1>2. CASE UNCHANGED edit_vars
    BY <1>2, StepIs DEF EditOK, edit_vars, LineOK, HistoryOK
  <1>3. ASSUME NEW n \in Nat, recall(n), n < Len(cmd_history),
               n \in {current_history - 1, current_history + 1, Len(cmd_history) - 1}
        PROVE  EditOK' /\ EditorStep
    <2>1. /\ EditOK' /\ Text' = cmd_history[n + 1] /\ line_curpos' = Len(cmd_history[n + 1])
          /\ current_history' = n /\ cmd_history' = cmd_history
      BY <1>3, RecallEdits
    <2>2. n \in 0 .. Len(cmd_history) - 1  BY <1>1, <1>3
    <2>3. Editor!Recall  BY <1>3, <2>1, <2>2 DEF Editor!Recall
    <2> QED BY <2>1, <2>3, StepIs DEF Editor!Next
  <1>4. ASSUME NEW d \in Int, line_curpos' = d, d \in 0 .. line_position,
               d \in {line_curpos - 1, line_curpos, line_curpos + 1},
               UNCHANGED <<line, line_position, cmd_history, current_history>>
        PROVE  EditOK' /\ EditorStep
    <2>1. EditOK'  BY <1>4 DEF EditOK, LineOK, HistoryOK
    <2>2. Text' = Text /\ Len(Text) = line_position  BY <1>4, TextIs DEF Text, EditOK
    <2>3. CASE d = line_curpos  BY <1>4, <2>1, <2>2, <2>3, StepIs
    <2>4. CASE d # line_curpos
      <3>1. Editor!Move  BY <1>4, <2>2, <2>4 DEF Editor!Move
      <3> QED BY <2>1, <3>1, StepIs DEF Editor!Next
    <2> QED BY <2>3, <2>4
  <1>5. CASE ch = "A"
    <2>1. CASE current_history > 0
      <3>1. recall(current_history - 1)  BY <1>5, <2>1 DEF arrow
      <3>2. current_history - 1 \in Nat /\ current_history - 1 < Len(cmd_history)
        BY <1>1, <2>1
      <3> QED BY <3>1, <3>2, <1>3
    <2>2. CASE ~(current_history > 0)  BY <1>2, <1>5, <2>2 DEF arrow
    <2> QED BY <2>1, <2>2
  <1>6. CASE ch = "B"
    <2>1. CASE current_history < Len(cmd_history) - 1
      <3>1. recall(current_history + 1)  BY <1>6, <2>1 DEF arrow
      <3>2. current_history + 1 \in Nat /\ current_history + 1 < Len(cmd_history)
        BY <1>1, <2>1
      <3> QED BY <3>1, <3>2, <1>3
    <2>2. CASE ~(current_history < Len(cmd_history) - 1) /\ cmd_history # << >>
      <3>1. recall(Len(cmd_history) - 1)  BY <1>6, <2>2 DEF arrow
      <3>2. Len(cmd_history) - 1 \in Nat /\ Len(cmd_history) - 1 < Len(cmd_history)
        <4>1. Len(cmd_history) # 0  BY <2>2 DEF EditOK, HistoryOK
        <4> QED BY <1>1, <4>1
      <3> QED BY <3>1, <3>2, <1>3
    <2>3. CASE ~(current_history < Len(cmd_history) - 1) /\ ~(cmd_history # << >>)
      BY <1>2, <1>6, <2>3 DEF arrow
    <2> QED BY <2>1, <2>2, <2>3
  <1>7. line_position \in Nat /\ line_curpos \in Nat /\ line_curpos <= line_position
    BY LineSizes DEF EditOK, LineOK
  <1>8. CASE ch = "C"
    <2>1. PICK d : d = IF line_curpos < line_position THEN line_curpos + 1 ELSE line_curpos
      OBVIOUS
    <2>2. line_curpos' = d /\ UNCHANGED <<line, line_position, cmd_history, current_history>>
      BY <1>8, <2>1 DEF arrow
    <2>3. /\ d \in Int /\ d \in 0 .. line_position
          /\ d \in {line_curpos - 1, line_curpos, line_curpos + 1}
      BY <1>7, <2>1
    <2> QED BY <2>2, <2>3, <1>4
  <1>9. CASE ch = "D"
    <2>1. PICK d : d = IF line_curpos > 0 THEN line_curpos - 1 ELSE 0  OBVIOUS
    <2>2. line_curpos' = d /\ UNCHANGED <<line, line_position, cmd_history, current_history>>
      BY <1>9, <2>1 DEF arrow
    <2>3. /\ d \in Int /\ d \in 0 .. line_position
          /\ d \in {line_curpos - 1, line_curpos, line_curpos + 1}
      BY <1>7, <2>1
    <2> QED BY <2>2, <2>3, <1>4
  <1> QED BY <1>5, <1>6, <1>8, <1>9
\* A completion adds to the text what the commands that begin with it share.
LEMMA TabEdits ==
    ASSUME EditOK, Terminated, tab
    PROVE  EditOK' /\ EditorStep
  <1>1. PICK l, p, t, M : /\ l = line /\ p = line_position /\ t = Text
                          /\ M = {c \in Commands : IsPrefix(Text, c)}
    BY Zenon
  <1>2. LineOK(l, p, line_curpos) /\ p \in Nat /\ p < Size /\ Size \in Nat
    BY <1>1, LineSizes DEF EditOK, LineOK
  <1>3. l \in [1 .. Size -> Chars \cup {NUL}] /\ \A i \in p + 1 .. Size : l[i] = NUL
    BY <1>1, <1>2 DEF LineOK, Lines, Size, Terminated
  <1>4. t \in Seq(Chars) /\ Len(t) = p /\ \A i \in 1 .. p : t[i] = l[i]
    BY <1>1, <1>2, TextIs DEF Text
  <1>5. UNCHANGED <<cmd_history, current_history>>  BY DEF tab
  <1>6. HistoryOK(cmd_history, current_history)'  BY <1>5 DEF EditOK, HistoryOK
  <1>7. ASSUME NEW u, NEW m, LineOK(m, Len(u), Len(u)), line' = m,
               line_position' = Len(u), line_curpos' = Len(u),
               \A i \in 1 .. Len(u) : m[i] = u[i], u \in Seq(Chars),
               NEW r \in Seq(Chars), u = t \o r
        PROVE  EditOK' /\ EditorStep
    <2>1. EditOK'  BY <1>6, <1>7 DEF EditOK
    <2>2. /\ SubSeq(m, 1, Len(u)) \in Seq(Chars) /\ Len(SubSeq(m, 1, Len(u))) = Len(u)
          /\ \A i \in 1 .. Len(u) : SubSeq(m, 1, Len(u))[i] = m[i]
      BY <1>7, TextIs
    <2>3. SubSeq(m, 1, Len(u)) = u  BY ONLY <1>7, <2>2, SeqEqual, Zenon
    <2>4. Text' = u  BY <1>7, <2>3 DEF Text
    <2>5. Len(u) = p + Len(r) /\ Len(r) \in Nat /\ Len(u) < Size
      <3>1. Len(u) < Size  BY <1>7, LineSizes DEF LineOK
      <3>2. Len(t \o r) = Len(t) + Len(r)  BY <1>4, <1>7, ConcatProperties, Zenon
      <3> QED BY <1>4, <1>7, <3>1, <3>2
    <2>6. Len(r) \in 0 .. FINSH_CMD_SIZE - 1 - Len(t)  BY <1>2, <1>4, <2>5 DEF Size
    <2>7. r \in [1 .. Len(r) -> Chars]  BY <1>7, LenProperties
    <2>8. Len(r) \in 0 .. FINSH_CMD_SIZE - 1 - Len(Text) /\ r \in [1 .. Len(r) -> Chars]
      BY <1>1, <2>6, <2>7
    <2>9. Editor!Complete
      <3>1. Text' = Text \o r /\ line_curpos' = Len(Text')  BY <1>1, <1>7, <2>4
      <3> QED BY <1>5, <2>8, <3>1, Zenon DEF Editor!Complete
    <2> QED BY <2>1, <2>9, StepIs DEF Editor!Next
  <1>8. CASE t = << >> \/ M = {}
    <2>1. line' = l /\ line_position' = strlen(l) /\ line_curpos' = strlen(l)
      BY <1>1, <1>8 DEF tab, AtEnd, At
    <2>2. l \in Lines /\ p \in 0 .. Size - 1 /\ (\A i \in 1 .. p : l[i] \in Chars)
          /\ l[p + 1] = NUL
      BY <1>2, <1>3 DEF LineOK
    <2>3. strlen(l) = p  BY ONLY <2>2, StrlenIs
    <2>4. LineOK(l, Len(t), Len(t))  BY <1>2, <1>4 DEF LineOK
    <2>5. << >> \in Seq(Chars) /\ t = t \o << >>  BY <1>4, ConcatEmptySeq
    <2> QED BY <1>4, <1>7, <2>1, <2>3, <2>4, <2>5, Zenon
  <1>9. CASE ~(t = << >> \/ M = {})
    <2>1. PICK u : u = LongestCommonPrefix(M)  OBVIOUS
    <2>2. M \in SUBSET Seq(Chars) /\ M # {} /\ \A c \in M : IsPrefix(t, c) /\ Len(c) < Size
      BY <1>1, <1>9, ShellAssumption DEF Size
    <2>3. /\ u \in Seq(Chars) /\ Len(t) <= Len(u) /\ (\E c \in M : Len(u) <= Len(c))
          /\ \A i \in 1 .. Len(t) : u[i] = t[i]
      BY ONLY <1>4, <2>1, <2>2, LongestPrefix
    <2>4. PICK n : n = Len(u)  BY Zenon
    <2>5. n \in Nat /\ p <= n /\ n < Size
      <3>1. PICK c \in M : Len(u) <= Len(c)  BY <2>3
      <3>2. Len(c) \in Nat /\ Len(c) < Size /\ Len(u) \in Nat  BY <2>2, <2>3
      <3> QED BY <1>2, <1>4, <2>3, <2>4, <3>1, <3>2
    <2>6. PICK m : m = Put(u)  OBVIOUS
    <2>7. m = [i \in 1 .. Size |-> IF i <= n THEN u[i] ELSE l[i]]
      BY <1>1, <2>4, <2>6 DEF Put, Size
    <2>8. line' = m /\ line_position' = strlen(m) /\ line_curpos' = strlen(m)
      BY <1>1, <1>9, <2>1, <2>6 DEF tab, AtEnd, At
    <2>9. \A i \in 1 .. n : m[i] = u[i] /\ m[i] \in Chars
      <3> SUFFICES ASSUME NEW i \in 1 .. n PROVE m[i] = u[i] /\ m[i] \in Chars  OBVIOUS
      <3>1. m[i] = u[i]  BY <1>2, <2>5, <2>7
      <3> QED BY <2>3, <2>4, <3>1, ElementOfSeq
    <2>10. m[n + 1] = NUL  BY <1>2, <1>3, <2>5, <2>7
    <2>11. m \in Lines
      <3>1. ASSUME NEW i \in 1 .. Size PROVE m[i] \in Chars \cup {NUL}
        <4>1. CASE i <= n  BY <2>5, <2>9, <4>1
        <4>2. CASE ~(i <= n)  BY <1>3, <2>7, <4>2
        <4> QED BY <4>1, <4>2
      <3> QED BY <2>7, <3>1 DEF Lines, Size
    <2>12. n \in 0 .. Size - 1 /\ \A i \in 1 .. n : m[i] \in Chars  BY <1>2, <2>5, <2>9
    <2>13. strlen(m) = n  BY ONLY <2>10, <2>11, <2>12, StrlenIs
    <2>14. LineOK(m, n, n)  BY <2>5, <2>11, <2>12 DEF LineOK
    <2>15. PICK r : r = SubSeq(u, p + 1, n)  BY Zenon
    <2>16. /\ r \in Seq(Chars) /\ Len(r) = n - p /\ \A i \in 1 .. n - p : r[i] = u[p + i]
      <3>1. PICK q : q = p + 1  OBVIOUS
      <3>2. q \in Int /\ n \in Int /\ \A i \in q .. n : u[i] \in Chars
        <4>1. \A i \in q .. n : i \in 1 .. Len(u)  BY <1>2, <2>4, <2>5, <3>1
        <4> QED BY <1>2, <2>3, <2>5, <3>1, <4>1, ElementOfSeq
      <3>3. /\ SubSeq(u, q, n) \in Seq(Chars)
            /\ Len(SubSeq(u, q, n)) = IF q <= n THEN n - q + 1 ELSE 0
            /\ \A i \in 1 .. n - q + 1 : SubSeq(u, q, n)[i] = u[q + i - 1]
        BY ONLY <3>2, SubSeqProperties
      <3>4. n - q + 1 = n - p /\ (IF q <= n THEN n - q + 1 ELSE 0) = n - p
        BY <1>2, <2>5, <3>1
      <3>5. \A i \in 1 .. n - p : q + i - 1 = p + i  BY <1>2, <2>5, <3>1
      <3> QED BY <2>15, <3>1, <3>3, <3>4, <3>5
    <2>17. u = t \o r
      <3>1. /\ t \o r \in Seq(Chars) /\ Len(t \o r) = Len(t) + Len(r)
            /\ \A i \in 1 .. Len(t) + Len(r) :
                  (t \o r)[i] = IF i <= Len(t) THEN t[i] ELSE r[i - Len(t)]
        BY <1>4, <2>16, ConcatProperties
      <3>2. Len(t) + Len(r) = n  BY <1>2, <1>4, <2>5, <2>16
      <3>3. ASSUME NEW i \in 1 .. n PROVE (t \o r)[i] = u[i]
        <4>1. CASE i <= p
          <5>1. i \in 1 .. p  BY <1>2, <4>1
          <5> QED BY <1>4, <2>3, <3>1, <3>2, <5>1
        <4>2. CASE ~(i <= p)
          <5>1. i - p \in 1 .. n - p /\ p + (i - p) = i  BY <1>2, <2>5, <4>2
          <5>2. r[i - p] = u[i]  BY <2>16, <5>1
          <5> QED BY <1>4, <3>1, <3>2, <4>2, <5>2
        <4> QED BY <4>1, <4>2, Zenon
      <3> QED BY <2>3, <2>4, <3>1, <3>2, <3>3, SeqEqual, Zenon
    <2> QED BY <1>7, <2>3, <2>4, <2>8, <2>9, <2>13, <2>14, <2>16, <2>17, Zenon
  <1> QED BY <1>8, <1>9
\* Whatever may follow a may follow d.
Admits(a, d) == \A b \in Typed : Follows(a, b) => Follows(d, b)

LEMMA Admitted ==
    ASSUME NEW a, NEW d, NEW s, NEW k, InputOK(a, s, k), Admits(a, d)
    PROVE  InputOK(d, s, k)
  <1>1. /\ s \in Seq(Typed) /\ k \in Seq(Typed) /\ Len(s) \in Nat /\ Len(k) \in Nat
        /\ Flows(a, s) /\ Flows(Latest(a, s), k)
    BY DEF InputOK
  <1>2. ASSUME NEW w \in Seq(Typed), Flows(a, w) PROVE Flows(d, w)
    <2> SUFFICES ASSUME NEW i \in 1 .. Len(w)
                 PROVE  Follows(IF i = 1 THEN d ELSE w[i - 1], w[i])
      BY DEF Flows
    <2>1. w[i] \in Typed /\ Follows(IF i = 1 THEN a ELSE w[i - 1], w[i])
      BY <1>2, ElementOfSeq DEF Flows
    <2>2. CASE i = 1  BY <2>1, <2>2 DEF Admits
    <2>3. CASE i # 1  BY <2>1, <2>3
    <2> QED BY <2>2, <2>3
  <1>3. Flows(d, s)  BY <1>1, <1>2
  <1>4. Flows(Latest(d, s), k)
    <2>1. CASE Len(s) = 0  BY <1>1, <1>2, <2>1 DEF Latest
    <2>2. CASE Len(s) # 0  BY <1>1, <2>2 DEF Latest
    <2> QED BY <2>1, <2>2
  <1> QED BY <1>1, <1>3, <1>4 DEF InputOK

\* The first byte fits to what was seen before, the others fit to it.
LEMMA HeadFollows ==
    ASSUME NEW a, NEW s, NEW k, InputOK(a, s, k), s # << >>
    PROVE  /\ Head(s) \in Typed /\ Follows(a, Head(s))
           /\ InputOK(Head(s), Tail(s), k)
  <1>1. /\ s \in Seq(Typed) /\ k \in Seq(Typed) /\ Len(s) \in Nat /\ Len(s) # 0
        /\ Flows(a, s) /\ Flows(Latest(a, s), k)
    BY DEF InputOK
  <1>2. /\ Head(s) \in Typed /\ Tail(s) \in Seq(Typed) /\ Len(Tail(s)) = Len(s) - 1
        /\ \A i \in 1 .. Len(s) - 1 : Tail(s)[i] = s[i + 1]
        /\ Head(s) = s[1]
    BY <1>1, HeadTailProperties
  <1>3. \A i \in 1 .. Len(s) : Follows(IF i = 1 THEN a ELSE s[i - 1], s[i])
    BY <1>1 DEF Flows
  <1>4. Follows(a, Head(s))
    <2>1. 1 \in 1 .. Len(s)  BY <1>1
    <2> QED BY <1>2, <1>3, <2>1
  <1>5. Flows(Head(s), Tail(s))
    <2> SUFFICES ASSUME NEW i \in 1 .. Len(s) - 1
                 PROVE  Follows(IF i = 1 THEN Head(s) ELSE Tail(s)[i - 1], Tail(s)[i])
      BY <1>2 DEF Flows
    <2>1. i + 1 \in 1 .. Len(s) /\ i + 1 # 1 /\ (i + 1) - 1 = i  BY <1>1
    <2>2. Follows(s[i], s[i + 1])  BY <1>3, <2>1
    <2>3. (IF i = 1 THEN Head(s) ELSE Tail(s)[i - 1]) = s[i]
      <3>1. CASE i = 1  BY <1>2, <3>1
      <3>2. CASE i # 1
        <4>1. i - 1 \in 1 .. Len(s) - 1 /\ (i - 1) + 1 = i  BY <1>1, <3>2
        <4> QED BY <1>2, <3>2, <4>1
      <3> QED BY <3>1, <3>2
    <2> QED BY <1>2, <2>2, <2>3
  <1>6. Latest(Head(s), Tail(s)) = Latest(a, s)
    <2>1. CASE Len(s) = 1  BY <1>2, <2>1 DEF Latest
    <2>2. CASE Len(s) # 1
      <3>0. PICK n : n = Len(s)  BY Zenon
      <3>1. Len(s) - 1 \in 1 .. Len(s) - 1 /\ Len(s) - 1 + 1 = Len(s)
        <4>1. n \in Nat /\ n # 0 /\ n # 1  BY <1>1, <2>2, <3>0
        <4>2. n - 1 \in 1 .. n - 1 /\ n - 1 + 1 = n  BY ONLY <4>1
        <4> QED BY <3>0, <4>2
      <3>2. Tail(s)[Len(s) - 1] = s[Len(s)]  BY <1>2, <3>1
      <3> QED BY <1>1, <1>2, <2>2, <3>1, <3>2 DEF Latest
    <2> QED BY <2>1, <2>2
  <1> QED BY <1>1, <1>2, <1>4, <1>5, <1>6 DEF InputOK

\* A byte goes into the buffer, the rest of the stroke is to be sent.
LEMMA ByteSent ==
    ASSUME NEW a, NEW s, NEW w, InputOK(a, s, w), w # << >>
    PROVE  InputOK(a, Append(s, Head(w)), Tail(w))
  <1>1. PICK b, k, l, u : b = Head(w) /\ k = Tail(w) /\ l = Latest(a, s) /\ u = Append(s, Head(w))
    BY Zenon
  <1>2. s \in Seq(Typed) /\ w \in Seq(Typed) /\ Flows(a, s) /\ Flows(l, w)
    BY <1>1 DEF InputOK
  <1>3. Flows(l, << >>) /\ InputOK(l, w, << >>)
    <2>1. << >> \in Seq(Typed) /\ Len(<< >>) = 0  BY EmptySeq
    <2>2. \A x : Flows(x, << >>)  BY <2>1 DEF Flows
    <2> QED BY <1>2, <2>1, <2>2 DEF InputOK
  <1>4. b \in Typed /\ Follows(l, b) /\ InputOK(b, k, << >>)  BY <1>1, <1>3, HeadFollows
  <1>5. /\ u \in Seq(Typed) /\ Len(u) = Len(s) + 1 /\ Len(s) \in Nat
        /\ \A i \in 1 .. Len(s) : u[i] = s[i]
        /\ u[Len(s) + 1] = b
    BY <1>1, <1>2, <1>4, AppendProperties
  <1>6. Flows(a, u)
    <2> SUFFICES ASSUME NEW i \in 1 .. Len(s) + 1
                 PROVE  Follows(IF i = 1 THEN a ELSE u[i - 1], u[i])
      BY <1>5 DEF Flows
    <2>1. CASE i \in 1 .. Len(s)
      <3>1. Follows(IF i = 1 THEN a ELSE s[i - 1], s[i])  BY <1>2, <2>1 DEF Flows
      <3>2. i # 1 => i - 1 \in 1 .. Len(s)  BY <1>5, <2>1
      <3> QED BY <1>5, <2>1, <3>1, <3>2
    <2>2. CASE i = Len(s) + 1
      <3>1. (IF i = 1 THEN a ELSE u[i - 1]) = l
        <4>1. CASE Len(s) = 0  BY <1>1, <2>2, <4>1 DEF Latest
        <4>2. CASE Len(s) # 0
          <5>1. i # 1 /\ i - 1 = Len(s) /\ Len(s) \in 1 .. Len(s)  BY <1>5, <2>2, <4>2
          <5> QED BY <1>1, <1>5, <4>2, <5>1 DEF Latest
        <4> QED BY <4>1, <4>2
      <3> QED BY <1>4, <1>5, <2>2, <3>1
    <2>3. i \in 1 .. Len(s) \/ i = Len(s) + 1  BY <1>5
    <2> QED BY <2>1, <2>2, <2>3
  <1>7. Latest(a, u) = b  BY <1>5 DEF Latest
  <1>8. k \in Seq(Typed) /\ Flows(b, k)  BY <1>4 DEF InputOK
  <1> QED BY <1>1, <1>5, <1>6, <1>7, <1>8 DEF InputOK

\* What a stroke is made of, and what it may follow
LEMMA StrokeFlows ==
    ASSUME NEW w \in Strokes, NEW a, Head(w) \in Chars \cup {"CR", "LF"} \/ a # "CR"
    PROVE  /\ w \in Seq(Typed) /\ w # << >> /\ Flows(a, w)
           /\ Head(w) = "TAB" => w = <<"TAB">>
           /\ \A i \in 1 .. Len(Tail(w)) : Tail(w)[i] # "TAB"
  <1>1. w \in KeyBytes  BY ShellAssumption
  <1>2. ASSUME NEW b \in Chars \cup {"CR", "LF", "TAB", "BS"}, w = <<b>>
        PROVE  /\ w \in Seq(Typed) /\ w # << >> /\ Flows(a, w)
               /\ Head(w) = "TAB" => w = <<"TAB">>
               /\ \A i \in 1 .. Len(Tail(w)) : Tail(w)[i] # "TAB"
    <2>1. Len(w) = 1 /\ w[1] = b /\ Head(w) = b /\ b \in Typed /\ Tail(w) = << >>
      BY <1>2 DEF Typed, Controls
    <2>2. Follows(a, b)  BY <2>1 DEF Follows, ArrowBytes
    <2>3. Flows(a, w)
      <3> SUFFICES ASSUME NEW i \in 1 .. Len(w) PROVE Follows(IF i = 1 THEN a ELSE w[i - 1], w[i])
        BY DEF Flows
      <3>1. i = 1  BY <2>1
      <3> QED BY <2>1, <2>2, <3>1
    <2>4. w \in Seq(Typed)  BY <1>2, <2>1
    <2>5. Len(Tail(w)) = 0  BY <2>1, EmptySeq
    <2> QED BY <1>2, <2>1, <2>3, <2>4, <2>5
  <1>3. CASE w = <<"CR", "LF">>
    <2>1. Len(w) = 2 /\ w[1] = "CR" /\ w[2] = "LF" /\ Head(w) = "CR" /\ Tail(w) = <<"LF">>
      BY <1>3
    <2>2. Follows(a, "CR") /\ Follows("CR", "LF")  BY DEF Follows, ArrowBytes
    <2>3. Flows(a, w)
      <3> SUFFICES ASSUME NEW i \in 1 .. Len(w) PROVE Follows(IF i = 1 THEN a ELSE w[i - 1], w[i])
        BY DEF Flows
      <3>1. i = 1 \/ i = 2  BY <2>1
      <3> QED BY <2>1, <2>2, <3>1
    <2>4. w \in Seq(Typed)  BY <1>3 DEF Typed, Controls
    <2>5. \A i \in 1 .. Len(Tail(w)) : Tail(w)[i] # "TAB"  BY <2>1
    <2> QED BY <2>1, <2>3, <2>4, <2>5
  <1>4. ASSUME NEW c \in ArrowBytes \ {"["}, w = <<"ESC", "[", c>>
        PROVE  /\ w \in Seq(Typed) /\ w # << >> /\ Flows(a, w)
               /\ Head(w) = "TAB" => w = <<"TAB">>
               /\ \A i \in 1 .. Len(Tail(w)) : Tail(w)[i] # "TAB"
    <2>1. /\ Len(w) = 3 /\ w[1] = "ESC" /\ w[2] = "[" /\ w[3] = c
          /\ Head(w) = "ESC" /\ Tail(w) = <<"[", c>>
      BY <1>4
    <2>2. "ESC" \notin Chars  BY ShellAssumption DEF Controls
    <2>3. a # "CR"  BY <2>1, <2>2
    <2>4. Follows(a, "ESC") /\ Follows("ESC", "[")  BY <2>3 DEF Follows, ArrowBytes
    <2>5. Follows("[", c)
      <3>1. c \in Chars \/ "[" \notin Chars  BY ShellAssumption DEF ArrowBytes
      <3>2. c \notin {"[", "TAB", "BS", "ESC"}  BY DEF ArrowBytes
      <3> QED BY <3>1, <3>2 DEF Follows
    <2>6. Flows(a, w)
      <3> SUFFICES ASSUME NEW i \in 1 .. Len(w) PROVE Follows(IF i = 1 THEN a ELSE w[i - 1], w[i])
        BY DEF Flows
      <3>1. i = 1 \/ i = 2 \/ i = 3  BY <2>1
      <3> QED BY <2>1, <2>4, <2>5, <3>1
    <2>7. w \in Seq(Typed)  BY <1>4 DEF Typed, Controls, ArrowBytes
    <2>8. \A i \in 1 .. Len(Tail(w)) : Tail(w)[i] # "TAB"
      <3>0. PICK u : u = <<"[", c>>  BY Zenon
      <3>1. Len(Tail(w)) = 2 /\ Tail(w)[1] = "[" /\ Tail(w)[2] = c
        <4>1. Len(u) = 2 /\ u[1] = "[" /\ u[2] = c  BY ONLY <3>0
        <4> QED BY <2>1, <3>0, <4>1
      <3>2. c # "TAB"  BY DEF ArrowBytes
      <3>3. \A i \in 1 .. 2 : i = 1 \/ i = 2  OBVIOUS
      <3> QED BY <3>1, <3>2, <3>3
    <2> QED BY <2>1, <2>6, <2>7, <2>8
  <1> QED BY <1>1, <1>2, <1>3, <1>4 DEF KeyBytes

\* What a byte leaves behind in the state of the thread
LEMMA SeenAdmits ==
    ASSUME NEW b \in Typed
    PROVE  /\ b # "CR" => Admits("CR", NUL)
           /\ b \in Chars \/ b \notin ({"ESC", "["}) => Admits(b, NUL)
  <1>1. Admits("CR", NUL)  BY DEF Admits, Follows
  <1>2. ASSUME b \in Chars \/ b \notin {"ESC", "["}, NEW c \in Typed, Follows(b, c)
        PROVE  Follows(NUL, c)
    <2>1. NUL # "CR" /\ NUL # "ESC" /\ NUL # "["  BY DEF NUL
    <2>2. b # "ESC"  BY <1>2, ShellAssumption DEF Controls
    <2>3. ~(b = "[" /\ "[" \notin Chars)  BY <1>2
    <2> QED BY <1>2, <2>1, <2>2, <2>3 DEF Follows
  <1> QED BY <1>1, <1>2 DEF Admits
\* The bytes in the buffer are behind the first one.
LEMMA TabTaken ==
    ASSUME NEW s \in Seq(Typed), NEW k, NEW x, NEW y, s # << >>, TabsOK(s, k, x)
    PROVE  TabsOK(Tail(s), k, y) /\ (Head(s) = "TAB" => x)
  <1>1. /\ Len(Tail(s)) = Len(s) - 1 /\ Len(s) \in Nat /\ Len(s) # 0 /\ Head(s) = s[1]
        /\ \A i \in 1 .. Len(s) - 1 : Tail(s)[i] = s[i + 1]
    BY HeadTailProperties
  <1>2. \A i \in 1 .. Len(s) - 1 : Tail(s)[i] # "TAB"
    <2> SUFFICES ASSUME NEW i \in 1 .. Len(s) - 1 PROVE s[i + 1] # "TAB"  BY <1>1
    <2>1. i + 1 \in 1 .. Len(s) /\ i + 1 # 1  BY <1>1
    <2> QED BY <2>1 DEF TabsOK
  <1>3. Head(s) = "TAB" => x
    <2>1. 1 \in 1 .. Len(s)  BY <1>1
    <2> QED BY <1>1, <2>1 DEF TabsOK
  <1> QED BY <1>1, <1>2, <1>3 DEF TabsOK

\* A step of the sender
LEMMA Receives ==
    ASSUME NEW w, ShellInv, receive(w), InputOK(Seen(at, stat), rx, w), w # << >>,
           Head(w) = "TAB" => rx = << >> /\ Terminated,
           \A i \in 1 .. Len(Tail(w)) : Tail(w)[i] # "TAB",
           \A i \in 1 .. Len(rx) : rx[i] = "TAB" => i = 1 /\ Terminated
    PROVE  ShellInv' /\ EditorStep
  <1>1. UNCHANGED <<at, stat, edit_vars>>  BY DEF receive
  <1>2. UNCHANGED edit_vars /\ EditorStep  BY <1>1, StepIs DEF edit_vars
  <1>3. PlaceOK' /\ EditOK' /\ Terminated' = Terminated
    BY <1>1 DEF ShellInv, PlaceOK, EditOK, LineOK, HistoryOK, edit_vars, Terminated
  <1>4. PICK s, n : s = rx /\ n = Len(rx)  OBVIOUS
  <1>5. s \in Seq(Typed) /\ n \in Nat /\ Head(w) \in Typed /\ n = Len(s)
    <2>1. w \in Seq(Typed) /\ rx \in Seq(Typed)  BY DEF InputOK
    <2> QED BY <1>4, <2>1, HeadTailProperties
  <1>6. rx' = Append(s, Head(w)) /\ typing' = Tail(w) /\ rx_sem' = rx_sem + 1 /\ n < UART_RX_BUFSZ
        /\ rx_sem < MaxTokens
    BY <1>4 DEF receive
  <1>7. /\ Len(rx') = n + 1 /\ \A i \in 1 .. n : rx'[i] = s[i]
        /\ rx'[n + 1] = Head(w)
    BY <1>5, <1>6, AppendProperties
  <1>8. CountOK'
    <2>1. UART_RX_BUFSZ \in Nat  BY ShellAssumption
    <2>2. rx_sem \in Nat /\ n <= rx_sem + (IF at = "read" THEN 1 ELSE 0)
      BY <1>4, LineSizes DEF ShellInv, CountOK
    <2>3. at' = at  BY <1>1
    <2>4. rx_sem + 1 \in 0 .. MaxTokens /\ n + 1 <= UART_RX_BUFSZ
      BY <1>5, <1>6, <2>1, <2>2, LineSizes
    <2>5. n + 1 <= rx_sem + 1 + (IF at = "read" THEN 1 ELSE 0)  BY <1>5, <2>2
    <2> QED BY <1>6, <1>7, <2>3, <2>4, <2>5 DEF CountOK
  <1>9. InputOK(Seen(at, stat), rx, typing)'
    <2>1. PICK a : a = Seen(at, stat)  OBVIOUS
    <2>2. InputOK(a, s, w)  BY <1>4, <2>1
    <2>3. InputOK(a, Append(s, Head(w)), Tail(w))  BY <2>2, ByteSent
    <2>4. Seen(at, stat)' = a  BY <1>1, <2>1 DEF Seen
    <2> QED BY <1>6, <2>3, <2>4
  <1>10. TabsOK(rx, typing, Terminated)'
    <2>1. ASSUME NEW i \in 1 .. n + 1, rx'[i] = "TAB" PROVE i = 1 /\ Terminated
      <3>1. CASE i \in 1 .. n  BY <1>4, <1>7, <2>1, <3>1
      <3>2. CASE i = n + 1
        <4>1. Head(w) = "TAB"  BY <1>7, <2>1, <3>2
        <4>2. n = 0  BY <1>4, <4>1, EmptySeq
        <4> QED BY <3>2, <4>1, <4>2
      <3> QED BY <1>5, <3>1, <3>2
    <2> QED BY <1>3, <1>6, <1>7, <2>1 DEF TabsOK
  <1> QED BY <1>2, <1>3, <1>8, <1>9, <1>10 DEF ShellInv

\* A step of the thread that reads no byte and leaves the line alone
LEMMA Waits ==
    ASSUME ShellInv, take_token \/ read_nothing
    PROVE  ShellInv' /\ EditorStep
  <1>1. rx' = rx /\ typing' = typing /\ stat' = stat /\ UNCHANGED edit_vars
    BY DEF take_token, read_nothing, input_vars
  <1>2. EditOK' /\ EditorStep /\ Terminated' = Terminated
    BY <1>1, StepIs DEF ShellInv, EditOK, LineOK, HistoryOK, edit_vars, Terminated
  <1>3. at \in {"take", "read"} /\ at' \in {"take", "read"}
    BY DEF take_token, read_nothing
  <1>4. PlaceOK'  BY <1>1, <1>3 DEF ShellInv, PlaceOK
  <1>5. Seen(at, stat)' = Seen(at, stat)  BY <1>1, <1>3 DEF Seen
  <1>6. InputOK(Seen(at, stat), rx, typing)' /\ TabsOK(rx, typing, Terminated)'
    <2>1. PICK a, e : a = Seen(at, stat) /\ e = Terminated  OBVIOUS
    <2>2. Seen(at, stat)' = a /\ Terminated' = e  BY <1>2, <1>5, <2>1
    <2> QED BY <1>1, <2>1, <2>2 DEF ShellInv
  <1>7. rx \in Seq(Typed) /\ Len(rx) \in Nat  BY DEF ShellInv, InputOK
  <1>8. CountOK'
    <2>1. CASE take_token
      <3>1. rx_sem \in Nat /\ rx_sem > 0 /\ rx_sem <= MaxTokens /\ rx_sem' = rx_sem - 1
            /\ Len(rx) <= rx_sem /\ Len(rx) <= UART_RX_BUFSZ /\ at' = "read"
        BY <2>1, LineSizes DEF take_token, ShellInv, CountOK
      <3>2. rx_sem - 1 \in 0 .. MaxTokens /\ Len(rx) <= rx_sem - 1 + 1
        BY <3>1, <1>7, LineSizes
      <3> QED BY <1>1, <3>1, <3>2 DEF CountOK
    <2>2. CASE read_nothing
      <3>1. Len(rx) = 0 /\ rx_sem' = rx_sem /\ at' = "take"
        BY <2>2, EmptySeq DEF read_nothing, input_vars
      <3> QED BY <1>1, <3>1, LineSizes DEF ShellInv, CountOK
    <2> QED BY <2>1, <2>2
  <1> QED BY <1>2, <1>4, <1>6, <1>8 DEF ShellInv

\* What a byte that is read leaves behind, whatever the thread does with it
LEMMA Reads ==
    ASSUME NEW where, NEW b, ShellInv, Read(where), b = Head(rx)
    PROVE  /\ b \in Typed /\ Follows(Seen(at, stat), b)
           /\ b = "TAB" => Terminated
           /\ rx' = Tail(rx) /\ InputOK(b, rx', typing') /\ TabsOK(rx', typing', Terminated')
           /\ at \in {"read", "next"} => CountOK'
  <1>1. /\ rx' = Tail(rx) /\ rx # << >> /\ typing' = typing /\ rx_sem' = rx_sem
    BY DEF Read
  <1>2. PICK s, k, a, e, f : s = rx /\ k = typing /\ a = Seen(at, stat) /\ e = Terminated
                             /\ f = Terminated'
    OBVIOUS
  <1>3. InputOK(a, s, k) /\ TabsOK(s, k, e) /\ s # << >> /\ s \in Seq(Typed) /\ b = Head(s)
    BY <1>1, <1>2 DEF ShellInv, InputOK
  <1>4. b \in Typed /\ Follows(a, b) /\ InputOK(b, Tail(s), k)  BY <1>3, HeadFollows
  <1>5. TabsOK(Tail(s), k, f) /\ (b = "TAB" => e)  BY <1>3, TabTaken
  <1>6. at \in {"read", "next"} => CountOK'
    <2>1. Len(rx') = Len(rx) - 1 /\ Len(rx) \in Nat
      BY <1>1, <1>2, <1>3, HeadTailProperties
    <2>2. rx_sem \in 0 .. MaxTokens /\ Len(rx) <= UART_RX_BUFSZ
          /\ Len(rx) <= rx_sem + (IF at = "read" THEN 1 ELSE 0)
      BY DEF ShellInv, CountOK
    <2>3. UART_RX_BUFSZ \in Nat /\ rx_sem \in Nat  BY <2>2, ShellAssumption
    <2>4. Len(rx) - 1 <= rx_sem /\ Len(rx) - 1 <= UART_RX_BUFSZ  BY <2>1, <2>2, <2>3
    <2>5. Len(rx) - 1 <= rx_sem + (IF at' = "read" THEN 1 ELSE 0)  BY <2>1, <2>3, <2>4
    <2> QED BY <1>1, <2>1, <2>2, <2>4, <2>5 DEF CountOK
  <1> QED BY <1>1, <1>2, <1>3, <1>4, <1>5, <1>6

\* A byte of an arrow key
LEMMA ReadsEscape ==
    ASSUME ShellInv, read_escape
    PROVE  ShellInv' /\ EditorStep
  <1>1. PICK b : b = Head(rx)  OBVIOUS
  <1>2. /\ at = "read" /\ Read("read") /\ at' = at /\ InEscape(b)
    BY <1>1 DEF read_escape, Read
  <1>3. /\ b \in Typed
        /\ InputOK(b, rx', typing') /\ TabsOK(rx', typing', Terminated')
        /\ CountOK'
    BY <1>1, <1>2, Reads
  <1>4. b \in {"ESC"} \cup ArrowBytes  BY <1>2 DEF InEscape, ArrowBytes
  <1>5. EditOK' /\ EditorStep
    <2>1. CASE b \in {"ESC", "["}
      <3>1. UNCHANGED edit_vars  BY <1>1, <2>1 DEF read_escape
      <3> QED BY <3>1, StepIs DEF ShellInv, EditOK, LineOK, HistoryOK, edit_vars
    <2>2. CASE b \notin {"ESC", "["}
      <3>1. arrow(b) /\ b \in {"A", "B", "C", "D"} /\ EditOK
        BY <1>1, <1>4, <2>2 DEF read_escape, ArrowBytes, ShellInv
      <3> QED BY ONLY <3>1, ArrowEdits
    <2> QED BY <2>1, <2>2
  <1>6. stat' = IF b = "ESC" THEN "WAIT_SPEC_KEY"
                ELSE IF b = "[" THEN "WAIT_FUNC_KEY" ELSE "WAIT_NORMAL"
    BY <1>1 DEF read_escape
  <1>7. PlaceOK'  BY <1>2, <1>6 DEF PlaceOK
  <1>8. InputOK(Seen(at, stat), rx, typing)'
    <2>1. PICK a : a = Seen(at, stat)'  OBVIOUS
    <2>2. CASE b \in {"ESC", "["}
      <3>1. a = b  BY <1>2, <1>6, <2>1, <2>2 DEF Seen
      <3> QED BY <1>3, <2>1, <3>1
    <2>3. CASE b \notin {"ESC", "["}
      <3>1. a = NUL  BY <1>2, <1>6, <2>1, <2>3 DEF Seen
      <3>2. Admits(b, a)  BY <1>3, <2>3, <3>1, SeenAdmits
      <3>3. PICK s, k : s = rx' /\ k = typing'  OBVIOUS
      <3>4. InputOK(a, s, k)  BY <1>3, <3>2, <3>3, Admitted
      <3> QED BY <2>1, <3>3, <3>4
    <2> QED BY <2>2, <2>3
  <1> QED BY <1>3, <1>5, <1>7, <1>8 DEF ShellInv

\* Any other byte
LEMMA ReadsKey ==
    ASSUME ShellInv, read_key
    PROVE  ShellInv' /\ EditorStep
  <1>1. PICK b : b = Head(rx)  OBVIOUS
  <1>2. at = "read" /\ Read("read") /\ ~InEscape(b) /\ stat' = "WAIT_NORMAL"
    BY <1>1 DEF read_key, Read
  <1>3. /\ b \in Typed /\ Follows(Seen(at, stat), b)
        /\ b = "TAB" => Terminated
        /\ InputOK(b, rx', typing') /\ TabsOK(rx', typing', Terminated')
        /\ CountOK'
    BY <1>1, <1>2, Reads
  <1>4. b # "ESC" /\ (b \in Chars \/ b \in {"CR", "LF", "TAB", "BS"})
    <2>1. b # "ESC"  BY <1>2 DEF InEscape
    <2>2. ASSUME b \notin Chars, b \in ArrowBytes PROVE FALSE
      <3>1. stat \in {"WAIT_NORMAL", "WAIT_SPEC_KEY", "WAIT_FUNC_KEY"}
        BY DEF ShellInv, PlaceOK
      <3>2. CASE b = "["
        <4>1. Seen(at, stat) = "ESC"  BY <1>3, <2>2, <3>2 DEF Follows
        <4>2. stat = "WAIT_SPEC_KEY"  BY <1>2, <3>1, <4>1 DEF Seen, NUL
        <4> QED BY <1>2, <3>2, <4>2 DEF InEscape
      <3>3. CASE b # "["
        <4>1. Seen(at, stat) = "["  BY <1>3, <2>2, <3>3 DEF Follows
        <4>2. stat = "WAIT_FUNC_KEY"  BY <1>2, <3>1, <4>1 DEF Seen, NUL
        <4> QED BY <1>2, <2>2, <3>3, <4>2 DEF InEscape, ArrowBytes
      <3> QED BY <3>2, <3>3
    <2> QED BY <1>3, <2>1, <2>2 DEF Typed, Controls
  <1>5. EditOK  BY DEF ShellInv
  <1>6. /\ EditOK' /\ EditorStep
        /\ at' \in {"take", "read", "next"} /\ (at' = "next" <=> b = "CR")
    <2>1. CASE b = "CR"
      <3>1. UNCHANGED edit_vars /\ at' = "next"  BY <1>1, <2>1 DEF read_key
      <3> QED BY <1>5, <2>1, <3>1, StepIs DEF EditOK, LineOK, HistoryOK, edit_vars
    <2>2. CASE b = "TAB"
      <3>1. tab /\ at' = "read" /\ Terminated  BY <1>1, <1>2, <1>3, <2>2 DEF read_key
      <3> QED BY <1>5, <2>2, <3>1, TabEdits
    <2>3. CASE b = "BS"
      <3>1. backspace /\ at' = "read"  BY <1>1, <1>2, <2>3 DEF read_key
      <3> QED BY <1>5, <2>3, <3>1, BackspaceEdits
    <2>4. CASE b = "LF"
      <3>1. enter /\ at' = "take"  BY <1>1, <2>4 DEF read_key
      <3> QED BY <1>5, <2>4, <3>1, EnterEdits
    <2>5. CASE b \in Chars
      <3>1. b \notin {"CR", "TAB", "BS", "LF"}  BY <2>5, ShellAssumption DEF Controls
      <3>2. insert(b) /\ at' = "read"  BY <1>1, <1>2, <3>1 DEF read_key
      <3>3. EditOK' /\ EditorStep  BY <1>5, <2>5, <3>2, InsertEdits
      <3> QED BY <3>1, <3>2, <3>3
    <2> QED BY <1>4, <2>1, <2>2, <2>3, <2>4, <2>5
  <1>7. PlaceOK'  BY <1>2, <1>6 DEF PlaceOK
  <1>8. InputOK(Seen(at, stat), rx, typing)'
    <2>1. PICK a, s, k : a = Seen(at, stat)' /\ s = rx' /\ k = typing'  OBVIOUS
    <2>2. InputOK(b, s, k)  BY <1>3, <2>1
    <2>3. CASE b = "CR"
      <3>1. a = b  BY <1>6, <2>1, <2>3 DEF Seen
      <3> QED BY <2>1, <2>2, <3>1
    <2>4. CASE b # "CR"
      <3>1. a = NUL  BY <1>2, <1>6, <2>1, <2>4 DEF Seen
      <3>2. Admits(b, a)  BY <1>3, <1>4, <3>1, SeenAdmits
      <3>3. InputOK(a, s, k)  BY <2>2, <3>2, Admitted
      <3> QED BY <2>1, <3>3
    <2> QED BY <2>3, <2>4
  <1> QED BY <1>3, <1>6, <1>7, <1>8 DEF ShellInv

\* The byte behind a CR
LEMMA ReadsNext ==
    ASSUME ShellInv, read_next
    PROVE  ShellInv' /\ EditorStep
  <1>1. PICK b : b = Head(rx)  OBVIOUS
  <1>2. at = "next" /\ Read("next") /\ stat' = "WAIT_NORMAL" /\ Seen(at, stat) = "CR"
    BY DEF read_next, Read, ShellInv, PlaceOK, Seen
  <1>3. /\ b \in Typed /\ Follows(Seen(at, stat), b)
        /\ InputOK(b, rx', typing') /\ TabsOK(rx', typing', Terminated')
        /\ CountOK'
    BY <1>1, <1>2, Reads
  <1>4. b \in Chars \/ b \in {"CR", "LF"}
    BY <1>2, <1>3 DEF Follows, Typed, Controls, ArrowBytes
  <1>5. EditOK  BY DEF ShellInv
  <1>6. EditOK' /\ EditorStep /\ at' \in {"take", "read"}
    <2>1. CASE b \in {"CR", "LF"}
      <3>1. enter /\ at' = "take"  BY <1>1, <2>1 DEF read_next
      <3> QED BY <1>5, <3>1, EnterEdits
    <2>2. CASE b \notin {"CR", "LF"}
      <3>1. insert(b) /\ at' = "read" /\ b \in Chars  BY <1>1, <1>4, <2>2 DEF read_next
      <3> QED BY <1>5, <3>1, InsertEdits
    <2> QED BY <2>1, <2>2
  <1>7. PlaceOK'  BY <1>2, <1>6 DEF PlaceOK
  <1>8. InputOK(Seen(at, stat), rx, typing)'
    <2>1. PICK a, s, k : a = Seen(at, stat)' /\ s = rx' /\ k = typing'  OBVIOUS
    <2>2. InputOK(b, s, k)  BY <1>3, <2>1
    <2>3. a = NUL  BY <1>2, <1>6, <2>1 DEF Seen
    <2>4. b \in Chars \/ b \notin {"ESC", "["}  BY <1>4
    <2>5. Admits(b, a)  BY <1>3, <2>3, <2>4, SeenAdmits
    <2>6. InputOK(a, s, k)  BY <2>2, <2>5, Admitted
    <2> QED BY <2>1, <2>6
  <1> QED BY <1>3, <1>6, <1>7, <1>8 DEF ShellInv

\* Nothing is behind a CR yet.
LEMMA FindsNoNext ==
    ASSUME ShellInv, no_next
    PROVE  ShellInv' /\ EditorStep
  <1>1. /\ at = "next" /\ rx = << >> /\ enter /\ at' = "take" /\ rx' = rx /\ typing' = typing
        /\ rx_sem' = rx_sem /\ stat' = stat
    BY DEF no_next, input_vars
  <1>2. EditOK' /\ EditorStep  BY <1>1, EnterEdits DEF ShellInv
  <1>3. PlaceOK' /\ stat = "WAIT_NORMAL"  BY <1>1 DEF ShellInv, PlaceOK
  <1>4. CountOK'
    <2>1. Len(rx') = 0  BY <1>1, EmptySeq
    <2> QED BY <1>1, <2>1, LineSizes DEF ShellInv, CountOK
  <1>5. InputOK(Seen(at, stat), rx, typing)'
    <2>1. PICK s, k : s = rx /\ k = typing  OBVIOUS
    <2>2. InputOK("CR", s, k)  BY <1>1, <2>1 DEF ShellInv, Seen
    <2>3. Admits("CR", NUL)  BY DEF Admits, Follows
    <2>4. InputOK(NUL, s, k)  BY <2>2, <2>3, Admitted
    <2>5. Seen(at, stat)' = NUL  BY <1>1, <1>3 DEF Seen
    <2> QED BY <1>1, <2>1, <2>4, <2>5
  <1>6. TabsOK(rx, typing, Terminated)'
    <2>1. Len(rx') = 0  BY <1>1, EmptySeq
    <2> QED BY <1>1, <2>1 DEF TabsOK, ShellInv
  <1> QED BY <1>2, <1>3, <1>4, <1>5, <1>6 DEF ShellInv

\* The shell starts at rest, with an empty line.
LEMMA ShellStarts ==
    ASSUME ShellInit
    PROVE  ShellInv /\ Editor!Init
  <1>1. Text = << >>  BY SubSeqEmpty DEF ShellInit, Text
  <1>2. Editor!Init  BY <1>1 DEF ShellInit, Editor!Init
  <1>3. Empty \in Lines /\ Len(<< >>) = 0 /\ << >> \in Seq(Typed) /\ << >> \in Seq(Seq(Chars))
    BY EmptySeq DEF Empty, Lines
  <1>4. PlaceOK /\ CountOK
    BY <1>3, LineSizes, ShellAssumption DEF ShellInit, PlaceOK, CountOK
  <1>5. EditOK
    BY <1>3, LineSizes, ShellAssumption DEF ShellInit, EditOK, LineOK, HistoryOK
  <1>6. InputOK(Seen(at, stat), rx, typing) /\ TabsOK(rx, typing, Terminated)
    <2>1. rx = << >> /\ typing = << >>  BY DEF ShellInit
    <2> QED BY <1>3, <2>1 DEF InputOK, TabsOK, Flows
  <1> QED BY <1>2, <1>4, <1>5, <1>6 DEF ShellInv

\* Every step is a step of the line editor or none.
LEMMA ShellSteps ==
    ASSUME ShellInv, ShellNext
    PROVE  ShellInv' /\ EditorStep
  <1>0. InputOK(Seen(at, stat), rx, typing) /\ TabsOK(rx, typing, Terminated)
    BY DEF ShellInv
  <1>1. CASE typing # << >> /\ receive(typing)
    <2>1. PICK w : w = typing  OBVIOUS
    <2>2. w \in Seq(Typed) /\ w # << >> /\ \A i \in 1 .. Len(w) : w[i] # "TAB"
      BY <1>0, <1>1, <2>1 DEF InputOK, TabsOK
    <2>3. /\ Head(w) = w[1] /\ Len(w) \in Nat /\ Len(w) # 0 /\ Len(Tail(w)) = Len(w) - 1
          /\ \A i \in 1 .. Len(w) - 1 : Tail(w)[i] = w[i + 1]
      BY <2>2, HeadTailProperties
    <2>4. Head(w) # "TAB"
      <3>1. 1 \in 1 .. Len(w)  BY <2>3
      <3> QED BY <2>2, <2>3, <3>1
    <2>5. \A i \in 1 .. Len(Tail(w)) : Tail(w)[i] # "TAB"
      <3> SUFFICES ASSUME NEW i \in 1 .. Len(w) - 1 PROVE w[i + 1] # "TAB"  BY <2>3
      <3>1. i + 1 \in 1 .. Len(w)  BY <2>3
      <3> QED BY <2>2, <3>1
    <2>6. InputOK(Seen(at, stat), rx, w) /\ receive(w)  BY <1>0, <1>1, <2>1
    <2>7. \A i \in 1 .. Len(rx) : rx[i] = "TAB" => i = 1 /\ Terminated
      BY <1>0 DEF TabsOK
    <2> QED BY <2>2, <2>4, <2>5, <2>6, <2>7, Receives
  <1>2. ASSUME NEW w \in Strokes, typing = << >>, Polite(w), receive(w)
        PROVE  ShellInv' /\ EditorStep
    <2>1. PICK a, s : a = Seen(at, stat) /\ s = rx  OBVIOUS
    <2>2. s \in Seq(Typed) /\ Flows(a, s)  BY <1>0, <2>1 DEF InputOK
    <2>3. Head(w) \in Chars \cup {"CR", "LF"} \/ Latest(a, s) # "CR"
      <3> SUFFICES ASSUME Head(w) \notin Chars \cup {"CR", "LF"} PROVE Latest(a, s) # "CR"
        OBVIOUS
      <3>1. at # "next" /\ (rx # << >> => Last(rx) # "CR")  BY <1>2 DEF Polite
      <3>2. a # "CR"  BY <2>1, <3>1 DEF Seen, NUL
      <3>3. s # << >> => s[Len(s)] # "CR"  BY <2>1, <3>1 DEF Last
      <3>4. Len(s) # 0 => s # << >>  BY EmptySeq
      <3> QED BY <3>2, <3>3, <3>4 DEF Latest
    <2>4. /\ w \in Seq(Typed) /\ w # << >> /\ Flows(Latest(a, s), w)
          /\ Head(w) = "TAB" => w = <<"TAB">>
          /\ \A i \in 1 .. Len(Tail(w)) : Tail(w)[i] # "TAB"
      BY <2>3, StrokeFlows, Zenon
    <2>5. InputOK(Seen(at, stat), rx, w)  BY <2>1, <2>2, <2>4 DEF InputOK
    <2>6. Head(w) = "TAB" => rx = << >> /\ Terminated  BY <1>2, <2>4 DEF Polite
    <2>7. \A i \in 1 .. Len(rx) : rx[i] = "TAB" => i = 1 /\ Terminated
      BY <1>0 DEF TabsOK
    <2> QED BY <1>2, <2>4, <2>5, <2>6, <2>7, Receives
  <1>3. CASE take_token \/ read_nothing  BY <1>3, Waits
  <1>4. CASE read_escape  BY <1>4, ReadsEscape
  <1>5. CASE read_key  BY <1>5, ReadsKey
  <1>6. CASE read_next  BY <1>6, ReadsNext
  <1>7. CASE no_next  BY <1>7, FindsNoNext
  <1> QED BY <1>1, <1>2, <1>3, <1>4, <1>5, <1>6, <1>7 DEF ShellNext

\* Nothing happens to the shell.
LEMMA ShellRests ==
    ASSUME ShellInv, UNCHANGED shell_vars
    PROVE  ShellInv' /\ EditorStep
  <1>1. /\ UNCHANGED edit_vars /\ rx' = rx /\ typing' = typing /\ rx_sem' = rx_sem /\ at' = at
        /\ stat' = stat
    BY DEF shell_vars, input_vars
  <1>2. EditOK' /\ EditorStep /\ Terminated' = Terminated
    BY <1>1, StepIs DEF ShellInv, EditOK, LineOK, HistoryOK, edit_vars, Terminated
  <1>3. PlaceOK' /\ CountOK'  BY <1>1 DEF ShellInv, PlaceOK, CountOK
  <1>4. InputOK(Seen(at, stat), rx, typing)'  BY <1>1 DEF ShellInv
  <1>5. TabsOK(rx, typing, Terminated)'  BY <1>1, <1>2 DEF ShellInv, TabsOK
  <1> QED BY <1>2, <1>3, <1>4, <1>5 DEF ShellInv

\* What the invariant says of the types, and that no key is stuck
LEMMA ShellHolds ==
    ASSUME ShellInv
    PROVE  ShellType /\ KeyServed
  <1>1. rx \in Seq(Typed) /\ Len(rx) \in Nat /\ rx_sem \in Nat
    BY LineSizes DEF ShellInv, InputOK, CountOK
  <1>2. KeyServed  BY <1>1 DEF ShellInv, CountOK, KeyServed
  <1>3. ShellType
    BY DEF ShellInv, PlaceOK, CountOK, EditOK, LineOK, HistoryOK, ShellType, Size
  <1> QED BY <1>2, <1>3
-----------------------------------------------------------------------------
(* The parts together *)

DataInv == HeapInv /\ MemHeapInv /\ RingInv /\ ShellInv /\ DeviceInv

\* What a step of the parts does to each of them
DataStep == BlocksKept /\ MemBlocksKept /\ (Forced = {} => QueueStep) /\ EditorStep

\* A step of another part leaves the ring buffer alone.
LEMMA RingRests ==
    ASSUME RingInv, UNCHANGED ring_vars
    PROVE  RingInv' /\ QueueStep
  <1>1. read' = read /\ write' = write /\ buffer' = buffer /\ got' = got
    BY DEF ring_vars
  <1>2. RingInv'  BY <1>1 DEF RingInv
  <1>3. data_len' = data_len /\ Stretch(data_len)' = Stretch(data_len)
    BY <1>1 DEF data_len, Full, Stretch
  <1> QED BY <1>1, <1>2, <1>3 DEF QueueStep

\* The invariant implies the type.
LEMMA RingHolds ==
    ASSUME RingInv
    PROVE  RingType
  BY BufferSize DEF RingInv, RingType, Ends, BufSize

\* Every part starts as its invariant says.
LEMMA DataStarts ==
    ASSUME DataInit
    PROVE  DataInv /\ Queue!Init /\ Editor!Init
  <1>1. HeapInit /\ MemHeapInit /\ RingInit /\ ShellInit /\ DeviceInit  BY DEF DataInit
  <1>2. HeapInv /\ MemHeapInv  BY <1>1, HeapStarts, MemHeapStarts
  <1>3. RingInv /\ Queue!Init  BY <1>1, RingStarts
  <1>4. ShellInv /\ Editor!Init  BY <1>1, ShellStarts
  <1>5. DeviceInv  BY <1>1, InitHolds
  <1> QED BY <1>2, <1>3, <1>4, <1>5 DEF DataInv

\* A step is one of the subject, and leaves the other parts alone.
LEMMA DataSteps ==
    ASSUME DataInv, [DataNext]_data_vars
    PROVE  DataInv' /\ DataStep
  <1>1. HeapInv /\ MemHeapInv /\ RingInv /\ ShellInv /\ DeviceInv  BY DEF DataInv
  <1>2. /\ HeapNext \/ UNCHANGED heap_vars
        /\ MemHeapNext \/ UNCHANGED memheap_vars
        /\ RingNext \/ UNCHANGED ring_vars
        /\ ShellNext \/ UNCHANGED shell_vars
        /\ DeviceNext \/ UNCHANGED device_vars
    BY DEF DataNext, data_vars
  <1>3. HeapInv' /\ BlocksKept  BY <1>1, <1>2, HeapSteps, HeapRests
  <1>4. MemHeapInv' /\ MemBlocksKept  BY <1>1, <1>2, MemHeapSteps, MemHeapRests
  <1>5. RingInv' /\ (Forced = {} => QueueStep)  BY <1>1, <1>2, RingSteps, RingRests
  <1>6. ShellInv' /\ EditorStep  BY <1>1, <1>2, ShellSteps, ShellRests
  <1>7. DeviceInv'  BY <1>1, <1>2, StepHolds
  <1> QED BY <1>3, <1>4, <1>5, <1>6, <1>7 DEF DataInv, DataStep

\* The inductive invariant of the parts: heaps tiled by blocks whose links and
\* whose lists of free blocks agree, ends of the ring that belong together, bytes
\* and keys on their way to a shell whose line holds together, opens that are
\* owed a close.
THEOREM DataInvariance == DataSpec => []DataInv
  <1>1. DataInit => DataInv  BY DataStarts
  <1>2. DataInv /\ [DataNext]_data_vars => DataInv'  BY DataSteps
  <1> QED BY <1>1, <1>2, PTL DEF DataSpec

\* Every variable of the parts keeps its type, for any sizes of the heaps and the
\* buffers, any commands and any devices: no link leaves its heap, no end its
\* buffer, no cursor its line (mem.c, memheap.c, ringbuffer.c, shell.c, device.c).
THEOREM DataTypes == DataSpec => []DataType
  <1>1. DataInv => DataType
    <2> SUFFICES ASSUME DataInv PROVE DataType  OBVIOUS
    <2>1. HeapInv /\ MemHeapInv /\ RingInv /\ ShellInv /\ DeviceInv  BY DEF DataInv
    <2>2. HeapType /\ MemHeapType /\ ShellType /\ DeviceType
      BY <2>1, HeapHolds, MemHeapHolds, ShellHolds DEF DeviceInv
    <2>3. RingType  BY <2>1, RingHolds
    <2> QED BY <2>2, <2>3 DEF DataType
  <1> QED BY <1>1, DataInvariance, PTL

\* Whatever is allocated, resized and freed in whichever order, the blocks tile
\* the heap, no two free ones are neighbours, the search of rt_malloc starts at a
\* free one or at the end, used_mem is what is allocated (mem.c), and the free list
\* and the available size of each region are those of its free blocks
\* (memheap.c), for heaps of any size.
THEOREM HeapsHold == DataSpec => []HeapsOK
  <1>1. DataInv => HeapsOK
    <2> SUFFICES ASSUME DataInv PROVE HeapsOK  OBVIOUS
    <2>1. HeapInv /\ MemHeapInv  BY DEF DataInv
    <2> QED BY <2>1, HeapHolds, MemHeapHolds DEF HeapsOK
  <1> QED BY <1>1, DataInvariance, PTL

\* No call touches a block that another caller holds, or gives one back before it
\* is copied (rt_malloc, rt_realloc, rt_free, and those of memheap.c).
THEOREM BlocksOfOthers == DataSpec => OthersKept
  <1>1. DataInv /\ [DataNext]_data_vars => [BlocksKept /\ MemBlocksKept]_data_vars
    BY DataSteps DEF DataStep
  <1> QED BY <1>1, DataInvariance, PTL DEF DataSpec, OthersKept

\* A ring buffer of any size implements a queue of bytes, around the end of the
\* buffer and across every turn of the mirrors, as long as the blocks forced in
\* fit or replace the whole content (ringbuffer.c).
THEOREM RingImplements ==
    ASSUME Forced = {}
    PROVE  DataSpec => RingIsQueue
  <1>1. DataInit => Queue!Init  BY DataStarts
  <1>2. DataInv /\ [DataNext]_data_vars => QueueStep  BY DataSteps DEF DataStep
  <1> QED BY <1>1, <1>2, DataInvariance, PTL DEF DataSpec, RingIsQueue, Queue!Spec, QueueStep

\* Every byte that was sent is served, and the line and the history change like
\* those of a line editor, for lines, histories and buffers of any length,
\* whenever the bytes come (finsh_thread_entry, finsh_rx_ind).
THEOREM ShellEdits == DataSpec => ShellOK
  <1>1. DataInit => Editor!Init  BY DataStarts
  <1>2. DataInv /\ [DataNext]_data_vars => EditorStep  BY DataSteps DEF DataStep
  <1>3. DataInv => KeyServed  BY ShellHolds DEF DataInv
  <1> QED BY <1>1, <1>2, <1>3, DataInvariance, PTL
          DEF DataSpec, ShellOK, Editor!Spec, EditorStep

\* The same of the devices as one of the parts.
THEOREM DevicesHold == DataSpec => []DevicesHeld
  <1>1. DataInv => DevicesHeld  BY HoldersCounted DEF DataInv
  <1> QED BY <1>1, DataInvariance, PTL
=============================================================================
