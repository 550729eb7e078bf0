----------------------------- MODULE ListLemmas ------------------------------
(***************************************************************************)
(* Facts about sequences without duplicates, the form in which the models  *)
(* keep the kernel's doubly linked lists (rtservice.h): what a list holds  *)
(* after a node is linked at its head, at its tail or in between, and      *)
(* after it is unlinked; and about rings, the arrays that buffers are kept *)
(* in. Nothing here is about one component.                                *)
(***************************************************************************)
EXTENDS Integers, SequencesExt, SequenceTheorems, FiniteSetTheorems, TLAPS

\* A non-empty set of naturals has a least element: what the CHOOSE that
\* stands for __rt_ffs, and the place of an insertion by priority, rest on.
LEMMA LeastElement ==
    ASSUME NEW S \in SUBSET Nat, S # {}
    PROVE  \E p \in S : \A q \in S : p <= q
  <1>1. PICK m \in S : TRUE
    OBVIOUS
  <1> DEFINE below == {0 .. q : q \in {r \in S : r <= m}}
  <1>2. IsFiniteSet(0 .. m)
    BY FS_Interval
  <1>3. below \subseteq FiniteSubsetsOf(0 .. m)
    <2> SUFFICES ASSUME NEW q \in S, q <= m PROVE 0 .. q \in FiniteSubsetsOf(0 .. m)
      OBVIOUS
    <2>1. 0 .. q \in SUBSET (0 .. m)
      OBVIOUS
    <2>2. QED BY <2>1, <1>2, FS_FiniteSubsetsOfFinite
  <1>4. below # {}
    OBVIOUS
  <1>5. PICK b \in below : \A c \in below : <<c, b>> \notin StrictSubsetOrdering(0 .. m)
    <2> HIDE DEF below
    <2> QED BY <1>3, <1>4, FS_StrictSubsetOrderingWellFounded, WFMin
  <1>6. PICK p \in S : p <= m /\ b = 0 .. p
    OBVIOUS
  <1>7. ASSUME NEW q \in S PROVE p <= q
    <2> SUFFICES ASSUME q < p PROVE FALSE
      OBVIOUS
    <2>1. 0 .. q \in below
      BY <1>6
    <2>2. 0 .. q \subseteq 0 .. p /\ 0 .. q # 0 .. p
      BY <1>6
    <2>3. 0 .. q \in SUBSET (0 .. m) /\ 0 .. p \in SUBSET (0 .. m)
      BY <1>6
    <2>4. <<0 .. q, 0 .. p>> \in StrictSubsetOrdering(0 .. m)
      BY <2>2, <2>3 DEF StrictSubsetOrdering
    <2> QED BY <2>1, <2>4, <1>5, <1>6
  <1> QED BY <1>7

\* RemoveAt, element by element: the elements after place i move up by one.
LEMMA RemoveAtList ==
    ASSUME NEW T, NEW s \in Seq(T), NEW i \in 1 .. Len(s)
    PROVE  /\ RemoveAt(s, i) \in Seq(T)
           /\ Len(RemoveAt(s, i)) = Len(s) - 1
           /\ \A j \in 1 .. Len(s) - 1 :
                 RemoveAt(s, i)[j] = IF j < i THEN s[j] ELSE s[j + 1]
  <1> DEFINE a == SubSeq(s, 1, i - 1)
             b == SubSeq(s, i + 1, Len(s))
  <1>0. Len(s) \in Nat /\ i \in Nat /\ 1 <= i /\ i <= Len(s)
    BY LenProperties
  <1>1. /\ a \in Seq(T) /\ Len(a) = i - 1
        /\ \A j \in 1 .. i - 1 : a[j] = s[j]
    BY SubSeqProperties, LenProperties
  <1>2. /\ b \in Seq(T) /\ Len(b) = Len(s) - i
        /\ \A j \in 1 .. Len(s) - i : b[j] = s[i + j]
    BY SubSeqProperties, LenProperties
  <1> HIDE DEF a, b
  <1> DEFINE r == a \o b
  <1>3. /\ r \in Seq(T) /\ Len(r) = Len(a) + Len(b)
        /\ \A j \in 1 .. Len(a) + Len(b) : r[j] = IF j <= Len(a) THEN a[j] ELSE b[j - Len(a)]
    BY <1>1, <1>2, ConcatProperties
  <1>4. RemoveAt(s, i) = r
    BY DEF RemoveAt, a, b
  <1> HIDE DEF r
  <1>5. Len(a) + Len(b) = Len(s) - 1
    BY <1>0, <1>1, <1>2
  <1>6. /\ Len(r) = Len(s) - 1
        /\ \A j \in 1 .. Len(s) - 1 : r[j] = IF j <= i - 1 THEN a[j] ELSE b[j - (i - 1)]
    BY ONLY <1>1, <1>3, <1>5
  <1>7. ASSUME NEW j \in 1 .. Len(s) - 1 PROVE r[j] = IF j < i THEN s[j] ELSE s[j + 1]
    <2>1. CASE j < i
      <3>1. r[j] = a[j] /\ j \in 1 .. i - 1
        BY <2>1, <1>0, <1>6
      <3> QED BY <3>1, <2>1, <1>1
    <2>2. CASE ~(j < i)
      <3>1. r[j] = b[j - (i - 1)] /\ j - (i - 1) \in 1 .. Len(s) - i
        BY <2>2, <1>0, <1>6
      <3>2. b[j - (i - 1)] = s[i + (j - (i - 1))]
        BY <3>1, <1>2
      <3> QED BY <3>1, <3>2, <2>2, <1>0
    <2> QED BY <2>1, <2>2
  <1> QED BY <1>3, <1>4, <1>6, <1>7

\* InsertAt, element by element: the elements from place i on move down by one.
LEMMA InsertAtList ==
    ASSUME NEW T, NEW s \in Seq(T), NEW i \in 1 .. Len(s) + 1, NEW e \in T
    PROVE  /\ InsertAt(s, i, e) \in Seq(T)
           /\ Len(InsertAt(s, i, e)) = Len(s) + 1
           /\ \A j \in 1 .. Len(s) + 1 :
                 InsertAt(s, i, e)[j] = IF j < i THEN s[j] ELSE IF j = i THEN e ELSE s[j - 1]
  <1> DEFINE a == SubSeq(s, 1, i - 1)
             b == SubSeq(s, i, Len(s))
             c == a \o <<e>>
  <1>1. /\ a \in Seq(T) /\ Len(a) = i - 1
        /\ \A j \in 1 .. i - 1 : a[j] = s[j]
    BY SubSeqProperties, LenProperties
  <1>2. /\ b \in Seq(T) /\ Len(b) = Len(s) - i + 1
        /\ \A j \in 1 .. Len(s) - i + 1 : b[j] = s[i + j - 1]
    BY SubSeqProperties, LenProperties
  <1> HIDE DEF a, b
  <1>3. /\ c \in Seq(T) /\ Len(c) = i
        /\ \A j \in 1 .. i : c[j] = IF j < i THEN s[j] ELSE e
    <2>1. <<e>> \in Seq(T) /\ Len(<<e>>) = 1 /\ <<e>>[1] = e
      OBVIOUS
    <2>2. /\ c \in Seq(T) /\ Len(c) = Len(a) + 1
          /\ \A j \in 1 .. Len(a) + 1 : c[j] = IF j <= Len(a) THEN a[j] ELSE <<e>>[j - Len(a)]
      BY <2>1, <1>1, ConcatProperties
    <2> HIDE DEF c
    <2>3. ASSUME NEW j \in 1 .. i PROVE c[j] = IF j < i THEN s[j] ELSE e
      BY <2>1, <2>2, <1>1
    <2> QED BY <2>2, <2>3, <1>1
  <1> HIDE DEF c
  <1> DEFINE r == c \o b
  <1>4. /\ r \in Seq(T) /\ Len(r) = Len(c) + Len(b)
        /\ \A j \in 1 .. Len(c) + Len(b) : r[j] = IF j <= Len(c) THEN c[j] ELSE b[j - Len(c)]
    BY <1>2, <1>3, ConcatProperties
  <1>5. InsertAt(s, i, e) = r
    BY DEF InsertAt, a, b, c
  <1> HIDE DEF r
  <1>6. ASSUME NEW j \in 1 .. Len(s) + 1
        PROVE  r[j] = IF j < i THEN s[j] ELSE IF j = i THEN e ELSE s[j - 1]
    <2>1. CASE j <= i
      BY <2>1, <1>2, <1>3, <1>4
    <2>2. CASE j > i
      <3>1. r[j] = b[j - i] /\ j - i \in 1 .. Len(s) - i + 1
        BY <2>2, <1>2, <1>3, <1>4
      <3>2. b[j - i] = s[i + (j - i) - 1]
        BY <3>1, <1>2
      <3> QED BY <3>1, <3>2, <2>2
    <2> QED BY <2>1, <2>2
  <1> QED BY <1>2, <1>3, <1>4, <1>5, <1>6

\* The same in one name: r is s with e in the place i.
Inserted(T, s, i, e, r) ==
    /\ r \in Seq(T) /\ Len(r) = Len(s) + 1
    /\ \A j \in 1 .. Len(s) + 1 : r[j] = IF j < i THEN s[j] ELSE IF j = i THEN e ELSE s[j - 1]

\* InsertAt puts e in the place i.
LEMMA InsertAtIs ==
    ASSUME NEW T, NEW s, NEW i, NEW e, s \in Seq(T), i \in 1 .. Len(s) + 1, e \in T
    PROVE  Inserted(T, s, i, e, InsertAt(s, i, e))
  <1>1. /\ InsertAt(s, i, e) \in Seq(T) /\ Len(InsertAt(s, i, e)) = Len(s) + 1
        /\ \A j \in 1 .. Len(s) + 1 :
              InsertAt(s, i, e)[j] = IF j < i THEN s[j] ELSE IF j = i THEN e ELSE s[j - 1]
    BY InsertAtList
  <1> QED BY <1>1 DEF Inserted

\* Removing the element at place i of a list without duplicates removes place i.
LEMMA RemoveFirstAt ==
    ASSUME NEW T, NEW s \in Seq(T), IsInjective(s), NEW i \in 1 .. Len(s)
    PROVE  RemoveFirst(s, s[i]) = RemoveAt(s, i)
  <1>1. Contains(s, s[i])
    BY DEF Contains
  <1>2. {j \in 1 .. Len(s) : s[j] = s[i]} = {i}
    BY DEF IsInjective
  <1>3. Min({i}) = i
    BY DEF Min
  <1> QED BY <1>1, <1>2, <1>3 DEF RemoveFirst, SelectInSeq

\* Removing another element keeps the head of a list (rt_list_remove of a
\* node that is not the first one).
LEMMA RemoveFirstHead ==
    ASSUME NEW T, NEW s \in Seq(T), IsInjective(s), s # << >>, NEW e, Head(s) # e
    PROVE  RemoveFirst(s, e) # << >> /\ Head(RemoveFirst(s, e)) = Head(s)
  <1>1. CASE ~Contains(s, e)
    BY <1>1 DEF RemoveFirst, Contains
  <1>2. CASE Contains(s, e)
    <2>1. PICK i \in 1 .. Len(s) : s[i] = e
      BY <1>2 DEF Contains
    <2>2. RemoveFirst(s, e) = RemoveAt(s, i)
      BY <2>1, RemoveFirstAt
    <2>3. 1 < i
      BY <2>1
    <2> DEFINE r == RemoveAt(s, i)
    <2>4. /\ r \in Seq(T) /\ Len(r) = Len(s) - 1
          /\ \A j \in 1 .. Len(s) - 1 : r[j] = IF j < i THEN s[j] ELSE s[j + 1]
      BY RemoveAtList
    <2> HIDE DEF r
    <2>5. r # << >> /\ r[1] = s[1]
      BY <2>3, <2>4
    <2> QED BY <2>2, <2>4, <2>5 DEF r
  <1> QED BY <1>1, <1>2

\* rt_list_remove: the list still has no duplicates and has lost that element
\* only.
LEMMA RemoveFirstList ==
    ASSUME NEW T, NEW s \in Seq(T), IsInjective(s), NEW e
    PROVE  /\ RemoveFirst(s, e) \in Seq(T)
           /\ IsInjective(RemoveFirst(s, e))
           /\ \A x : Contains(RemoveFirst(s, e), x) <=> Contains(s, x) /\ x # e
  <1>1. CASE ~Contains(s, e)
    BY <1>1 DEF RemoveFirst, Contains
  <1>2. CASE Contains(s, e)
    <2>1. PICK i \in 1 .. Len(s) : s[i] = e
      BY <1>2 DEF Contains
    <2>4. RemoveFirst(s, e) = RemoveAt(s, i)
      BY <2>1, RemoveFirstAt
    <2> DEFINE r == RemoveAt(s, i)
    <2>5. /\ r \in Seq(T) /\ Len(r) = Len(s) - 1
          /\ \A j \in 1 .. Len(s) - 1 : r[j] = IF j < i THEN s[j] ELSE s[j + 1]
      BY RemoveAtList
    <2> HIDE DEF r
    <2> DEFINE at(j) == IF j < i THEN j ELSE j + 1
    <2>6. IsInjective(r)
      <3>1. \A j \in 1 .. Len(r) : at(j) \in 1 .. Len(s) /\ at(j) # i /\ r[j] = s[at(j)]
        BY <2>5
      <3>2. \A j, l \in 1 .. Len(r) : at(j) = at(l) => j = l
        BY <2>5
      <3> HIDE DEF at
      <3>3. \A j, l \in 1 .. Len(s) : s[j] = s[l] => j = l
        BY DEF IsInjective
      <3>4. DOMAIN r = 1 .. Len(r)
        BY <2>5
      <3>5. ASSUME NEW j \in 1 .. Len(r), NEW l \in 1 .. Len(r), r[j] = r[l] PROVE j = l
        <4>1. /\ at(j) \in 1 .. Len(s) /\ at(l) \in 1 .. Len(s)
              /\ s[at(j)] = s[at(l)]
          BY ONLY <3>1, <3>5
        <4>2. at(j) = at(l)
          BY ONLY <4>1, <3>3
        <4> QED BY ONLY <4>2, <3>2, <3>5
      <3> QED BY <3>4, <3>5 DEF IsInjective
    <2>7. ASSUME NEW x PROVE Contains(r, x) <=> Contains(s, x) /\ x # e
      <3>1. ASSUME NEW j \in 1 .. Len(r), r[j] = x PROVE Contains(s, x) /\ x # e
        <4>1. at(j) \in 1 .. Len(s) /\ at(j) # i /\ s[at(j)] = x
          BY <3>1, <2>5
        <4> HIDE DEF at
        <4>2. s[at(j)] # s[i]
          BY <4>1 DEF IsInjective
        <4> QED BY <4>1, <4>2, <2>1 DEF Contains
      <3>2. ASSUME NEW j \in 1 .. Len(s), s[j] = x, x # e PROVE Contains(r, x)
        <4>1. CASE j < i
          BY <3>2, <4>1, <2>5 DEF Contains
        <4>2. CASE j > i
          <5>1. j - 1 \in 1 .. Len(r) /\ r[j - 1] = x
            BY <3>2, <4>2, <2>5
          <5> QED BY <5>1 DEF Contains
        <4> QED BY <4>1, <4>2, <3>2, <2>1
      <3> QED BY <3>1, <3>2 DEF Contains
    <2> QED BY <2>4, <2>5, <2>6, <2>7 DEF r
  <1> QED BY <1>1, <1>2

\* Linking a new node at any place: the list still has no duplicates and has
\* gained that element only (the insertion by priority of rt_ipc_list_suspend).
LEMMA InsertList ==
    ASSUME NEW T, NEW s \in Seq(T), IsInjective(s), NEW i \in 1 .. Len(s) + 1,
           NEW e \in T, ~Contains(s, e)
    PROVE  /\ InsertAt(s, i, e) \in Seq(T)
           /\ IsInjective(InsertAt(s, i, e))
           /\ \A x : Contains(InsertAt(s, i, e), x) <=> Contains(s, x) \/ x = e
  <1> DEFINE r == InsertAt(s, i, e)
  <1>1. /\ r \in Seq(T) /\ Len(r) = Len(s) + 1
        /\ \A j \in 1 .. Len(s) + 1 :
              r[j] = IF j < i THEN s[j] ELSE IF j = i THEN e ELSE s[j - 1]
    BY InsertAtList
  <1> HIDE DEF r
  <1>2. \A j \in 1 .. Len(s) : s[j] # e
    BY DEF Contains
  <1>3. IsInjective(r)
    <2> DEFINE at(j) == IF j < i THEN j ELSE j - 1
    <2>1. \A j \in 1 .. Len(r) : j # i => at(j) \in 1 .. Len(s) /\ r[j] = s[at(j)]
      BY <1>1
    <2>2. \A j, l \in 1 .. Len(r) : j # i /\ l # i /\ at(j) = at(l) => j = l
      BY <1>1
    <2> HIDE DEF at
    <2>3. \A j, l \in 1 .. Len(s) : s[j] = s[l] => j = l
      BY DEF IsInjective
    <2>4. DOMAIN r = 1 .. Len(r) /\ r[i] = e
      BY <1>1
    <2> QED BY <2>1, <2>2, <2>3, <2>4, <1>2 DEF IsInjective
  <1>4. ASSUME NEW x PROVE Contains(r, x) <=> Contains(s, x) \/ x = e
    <2>1. ASSUME NEW j \in 1 .. Len(r), r[j] = x PROVE Contains(s, x) \/ x = e
      BY <2>1, <1>1 DEF Contains
    <2>2. Contains(r, e)
      BY <1>1 DEF Contains
    <2>3. ASSUME NEW j \in 1 .. Len(s), s[j] = x PROVE Contains(r, x)
      <3>1. CASE j < i
        BY <2>3, <3>1, <1>1 DEF Contains
      <3>2. CASE j >= i
        <4>1. j + 1 \in 1 .. Len(r) /\ r[j + 1] = x
          BY <2>3, <3>2, <1>1
        <4> QED BY <4>1 DEF Contains
      <3> QED BY <3>1, <3>2
    <2> QED BY <2>1, <2>2, <2>3 DEF Contains
  <1> QED BY <1>1, <1>3, <1>4 DEF r

\* The same for the tail of the list (rt_list_insert_before its head).
LEMMA AppendList ==
    ASSUME NEW T, NEW s \in Seq(T), IsInjective(s), NEW e \in T, ~Contains(s, e)
    PROVE  /\ Append(s, e) \in Seq(T)
           /\ IsInjective(Append(s, e))
           /\ \A x : Contains(Append(s, e), x) <=> Contains(s, x) \/ x = e
  <1> DEFINE r == Append(s, e)
  <1>1. /\ r \in Seq(T) /\ Len(r) = Len(s) + 1
        /\ \A j \in 1 .. Len(s) : r[j] = s[j]
        /\ r[Len(s) + 1] = e
    BY AppendProperties
  <1> HIDE DEF r
  <1>2. \A j \in 1 .. Len(s) : s[j] # e
    BY DEF Contains
  <1>3. IsInjective(r)
    BY <1>1, <1>2 DEF IsInjective
  <1>4. ASSUME NEW x PROVE Contains(r, x) <=> Contains(s, x) \/ x = e
    <2>1. 1 .. Len(r) = 1 .. Len(s) \cup {Len(s) + 1}
      BY <1>1
    <2> QED BY <2>1, <1>1 DEF Contains
  <1> QED BY <1>1, <1>3, <1>4 DEF r

\* The same for the head of the list (rt_list_insert_after).
LEMMA PushList ==
    ASSUME NEW T, NEW s \in Seq(T), IsInjective(s), NEW e \in T, ~Contains(s, e)
    PROVE  /\ <<e>> \o s \in Seq(T)
           /\ IsInjective(<<e>> \o s)
           /\ \A x : Contains(<<e>> \o s, x) <=> Contains(s, x) \/ x = e
  <1> DEFINE r == <<e>> \o s
  <1>1. <<e>> \in Seq(T) /\ Len(<<e>>) = 1 /\ <<e>>[1] = e
    OBVIOUS
  <1>2. /\ r \in Seq(T) /\ Len(r) = Len(s) + 1
        /\ \A j \in 1 .. Len(s) + 1 : r[j] = IF j = 1 THEN e ELSE s[j - 1]
    BY <1>1, ConcatProperties
  <1> HIDE DEF r
  <1>3. \A j \in 1 .. Len(s) : s[j] # e
    BY DEF Contains
  <1>4. IsInjective(r)
    BY <1>2, <1>3 DEF IsInjective
  <1>5. ASSUME NEW x PROVE Contains(r, x) <=> Contains(s, x) \/ x = e
    <2>1. ASSUME NEW j \in 1 .. Len(r), r[j] = x PROVE Contains(s, x) \/ x = e
      BY <2>1, <1>2 DEF Contains
    <2>2. Contains(r, e)
      BY <1>2 DEF Contains
    <2>3. ASSUME NEW j \in 1 .. Len(s), s[j] = x PROVE Contains(r, x)
      <3>1. j + 1 \in 1 .. Len(r) /\ r[j + 1] = x
        BY <2>3, <1>2
      <3> QED BY <3>1 DEF Contains
    <2> QED BY <2>1, <2>2, <2>3 DEF Contains
  <1> QED BY <1>2, <1>4, <1>5 DEF r

\* A list is empty exactly when it holds nothing, and the first node of a list
\* that is not empty is on it (rt_list_isempty, rt_list_entry).
LEMMA EmptyList ==
    ASSUME NEW T, NEW s \in Seq(T)
    PROVE  /\ s = << >> <=> \A x : ~Contains(s, x)
           /\ s # << >> => Head(s) \in T /\ Contains(s, Head(s))
           /\ \A x : Contains(s, x) => x \in T
  <1>1. \A x : Contains(s, x) => x \in T /\ s # << >>
    BY DEF Contains
  <1>2. ASSUME s # << >> PROVE Head(s) \in T /\ Contains(s, Head(s))
    BY <1>2 DEF Contains
  <1> QED BY <1>1, <1>2

-----------------------------------------------------------------------------
(* Ordered lists *)

\* List l is ordered by f.
Ordered(l, f) == \A i, j \in DOMAIN l : i < j => f[l[i]] <= f[l[j]]

\* Unlinking a node keeps the order of the others.
LEMMA UnlinkOrdered ==
    ASSUME NEW T, NEW f \in [T -> Int], NEW s \in Seq(T), IsInjective(s), Ordered(s, f), NEW e
    PROVE  Ordered(RemoveFirst(s, e), f)
  <1> DEFINE r == RemoveFirst(s, e)
  <1>1. CASE ~Contains(s, e)
    BY <1>1 DEF RemoveFirst, Contains
  <1>2. CASE Contains(s, e)
    <2>1. PICK i \in 1 .. Len(s) : s[i] = e
      BY <1>2 DEF Contains
    <2>2. r = RemoveAt(s, i)
      BY <2>1, RemoveFirstAt
    <2>3. /\ r \in Seq(T) /\ Len(r) = Len(s) - 1
          /\ \A j \in 1 .. Len(s) - 1 : r[j] = IF j < i THEN s[j] ELSE s[j + 1]
      BY <2>2, RemoveAtList
    <2> HIDE DEF r
    <2>4. DOMAIN s = 1 .. Len(s) /\ DOMAIN r = 1 .. Len(r) /\ Len(s) \in Nat
      BY <2>3
    <2>5. ASSUME NEW j \in 1 .. Len(r), NEW m \in 1 .. Len(r), j < m
          PROVE  f[r[j]] <= f[r[m]]
      <3> DEFINE a == IF j < i THEN j ELSE j + 1
                 b == IF m < i THEN m ELSE m + 1
      <3>1. Len(s) \in Nat /\ j \in 1 .. Len(s) - 1 /\ m \in 1 .. Len(s) - 1
        BY <2>3, <2>4
      <3>2. a \in 1 .. Len(s) /\ b \in 1 .. Len(s) /\ a < b
        BY ONLY <3>1, <2>5, i \in 1 .. Len(s)
      <3>3. r[j] = s[a] /\ r[m] = s[b]
        BY <2>3, <3>1
      <3> HIDE DEF a, b
      <3> QED BY <3>2, <3>3, <2>4 DEF Ordered
    <2>6. Ordered(r, f)
      BY <2>4, <2>5 DEF Ordered
    <2> QED BY <2>6 DEF r
  <1> QED BY <1>1, <1>2

\* A node linked before the first one that is strictly greater, or last if there
\* is none, keeps the order (the search loop of rt_ipc_list_suspend).
LEMMA InsertOrdered ==
    ASSUME NEW T, NEW f \in [T -> Int], NEW s \in Seq(T), Ordered(s, f), NEW e \in T,
           NEW i \in 1 .. Len(s) + 1,
           \A j \in 1 .. Len(s) : j < i => f[s[j]] <= f[e],
           i <= Len(s) => f[e] < f[s[i]]
    PROVE  Ordered(InsertAt(s, i, e), f)
  <1>0. PICK r : r = InsertAt(s, i, e)
    OBVIOUS
  <1>1. /\ r \in Seq(T) /\ Len(r) = Len(s) + 1
        /\ \A j \in 1 .. Len(s) + 1 :
              r[j] = IF j < i THEN s[j] ELSE IF j = i THEN e ELSE s[j - 1]
    <2>1. s \in Seq(T) /\ i \in 1 .. Len(s) + 1 /\ e \in T
      OBVIOUS
    <2>2. /\ InsertAt(s, i, e) \in Seq(T)
          /\ Len(InsertAt(s, i, e)) = Len(s) + 1
          /\ \A j \in 1 .. Len(s) + 1 :
                InsertAt(s, i, e)[j] = IF j < i THEN s[j] ELSE IF j = i THEN e ELSE s[j - 1]
      <3>1. InsertAt(s, i, e) \in Seq(T) /\ Len(InsertAt(s, i, e)) = Len(s) + 1
        BY ONLY <2>1, InsertAtList
      <3>2. ASSUME NEW j \in 1 .. Len(s) + 1
            PROVE  InsertAt(s, i, e)[j] = IF j < i THEN s[j] ELSE IF j = i THEN e ELSE s[j - 1]
        BY ONLY <2>1, <3>2, InsertAtList
      <3> QED BY ONLY <3>1, <3>2
    <2> QED BY ONLY <1>0, <2>2
  <1>2. Len(s) \in Nat /\ DOMAIN s = 1 .. Len(s) /\ DOMAIN r = 1 .. Len(s) + 1
    BY <1>1
  <1>3. /\ \A j \in 1 .. Len(s) : f[s[j]] \in Int /\ f[e] \in Int
        /\ \A j, m \in 1 .. Len(s) : j <= m => f[s[j]] <= f[s[m]]
    <2>1. \A x \in T : f[x] \in Int
      OBVIOUS
    <2>2. \A j \in 1 .. Len(s) : f[s[j]] \in Int
      BY <1>2, <2>1
    <2>3. ASSUME NEW j \in 1 .. Len(s), NEW m \in 1 .. Len(s), j <= m
          PROVE  f[s[j]] <= f[s[m]]
      <3>1. CASE j < m
        <4>1. j \in 1 .. Len(s) /\ m \in 1 .. Len(s) /\ Ordered(s, f)
          OBVIOUS
        <4> QED BY ONLY <1>2, <3>1, <4>1 DEF Ordered
      <3>2. CASE j = m
        BY <2>2, <3>2
      <3> QED BY <3>1, <3>2, <2>3, <1>2
    <2> QED BY <2>1, <2>2, <2>3
  <1>4. \A j \in 1 .. Len(s) : i <= j => f[e] <= f[s[j]]
    BY <1>2, <1>3
  <1>5. ASSUME NEW j \in 1 .. Len(s) + 1, NEW m \in 1 .. Len(s) + 1, j < m
        PROVE  f[r[j]] <= f[r[m]]
    <2>1. CASE m < i
      BY <2>1, <1>1, <1>2, <1>3, <1>5
    <2>2. CASE m = i
      BY <2>2, <1>1, <1>2, <1>5
    <2>3. CASE j < i /\ i < m
      <3>1. r[j] = s[j] /\ r[m] = s[m - 1] /\ j \in 1 .. Len(s) /\ m - 1 \in 1 .. Len(s) /\ j <= m - 1
        BY <2>3, <1>1, <1>2
      <3> QED BY <3>1, <1>3
    <2>4. CASE j = i
      <3>1. r[j] = e /\ r[m] = s[m - 1] /\ m - 1 \in 1 .. Len(s) /\ i <= m - 1
        BY <2>4, <1>1, <1>2, <1>5
      <3> QED BY <3>1, <1>4
    <2>5. CASE i < j
      <3>1. /\ r[j] = s[j - 1] /\ r[m] = s[m - 1] /\ j - 1 \in 1 .. Len(s)
            /\ m - 1 \in 1 .. Len(s) /\ j - 1 <= m - 1
        BY <2>5, <1>1, <1>2, <1>5
      <3> QED BY <3>1, <1>3
    <2> QED BY <2>1, <2>2, <2>3, <2>4, <2>5, <1>2
  <1> QED BY <1>0, <1>2, <1>5 DEF Ordered

\* A finite set listed in some order: each element once (the lists that the
\* models start from).
LEMMA ListOfSet ==
    ASSUME NEW S, IsFiniteSet(S)
    PROVE  /\ SetToSeq(S) \in Seq(S) /\ IsInjective(SetToSeq(S))
           /\ Len(SetToSeq(S)) = Cardinality(S)
           /\ \A x : Contains(SetToSeq(S), x) <=> x \in S
  <1> DEFINE n == Cardinality(S)
             s == SetToSeq(S)
  <1>1. n \in Nat /\ ExistsBijection(1 .. n, S)
    BY FS_CardinalityType
  <1>2. PICK f : f \in [1 .. n -> S] /\ IsInjective(f)
    BY <1>1 DEF ExistsBijection, Bijection, Injection
  <1>3. s \in [1 .. n -> S] /\ IsInjective(s)
    BY <1>2 DEF SetToSeq
  <1> HIDE DEF s
  <1>4. s \in Seq(S) /\ Len(s) = n
    BY <1>1, <1>3
  <1>5. \A x \in S : \E i \in 1 .. n : s[i] = x
    <2>1. s \in Injection(1 .. n, S)
      BY <1>3 DEF Injection, IsInjective
    <2>2. Cardinality(1 .. n) = Cardinality(S)
      BY <1>1, FS_Interval
    <2>3. s \in Surjection(1 .. n, S)
      BY <2>1, <2>2, FS_Injection
    <2> QED BY <2>3 DEF Surjection
  <1> QED BY <1>3, <1>4, <1>5 DEF Contains, s

\* Unlinking the first node.
LEMMA TailList ==
    ASSUME NEW T, NEW s \in Seq(T), IsInjective(s), s # << >>
    PROVE  /\ Tail(s) \in Seq(T) /\ IsInjective(Tail(s)) /\ Len(Tail(s)) = Len(s) - 1
           /\ Head(s) \in T /\ Contains(s, Head(s))
           /\ \A x : Contains(Tail(s), x) <=> Contains(s, x) /\ x # Head(s)
  <1> DEFINE r == Tail(s)
  <1>1. /\ r \in Seq(T) /\ Len(r) = Len(s) - 1 /\ Len(s) \in Nat \ {0}
        /\ \A j \in 1 .. Len(s) - 1 : r[j] = s[j + 1]
        /\ Head(s) = s[1] /\ s[1] \in T
    OBVIOUS
  <1> HIDE DEF r
  <1>2. IsInjective(r)
    <2> SUFFICES ASSUME NEW a \in 1 .. Len(r), NEW b \in 1 .. Len(r), r[a] = r[b] PROVE a = b
      BY <1>1 DEF IsInjective
    <2>1. a + 1 \in DOMAIN s /\ b + 1 \in DOMAIN s /\ s[a + 1] = s[b + 1]
      BY <1>1
    <2>2. a + 1 = b + 1
      BY ONLY <2>1, IsInjective(s) DEF IsInjective
    <2> QED BY <1>1, <2>2
  <1>3. ASSUME NEW x PROVE Contains(r, x) <=> Contains(s, x) /\ x # Head(s)
    <2>1. ASSUME NEW j \in 1 .. Len(r), r[j] = x PROVE Contains(s, x) /\ x # Head(s)
      <3>1. j + 1 \in 1 .. Len(s) /\ s[j + 1] = x /\ 1 \in 1 .. Len(s) /\ j + 1 # 1
        BY <2>1, <1>1
      <3> QED BY <3>1, <1>1 DEF Contains, IsInjective
    <2>2. ASSUME NEW j \in 1 .. Len(s), s[j] = x, x # Head(s) PROVE Contains(r, x)
      <3>1. j - 1 \in 1 .. Len(r) /\ r[j - 1] = x
        BY <2>2, <1>1
      <3> QED BY <3>1 DEF Contains
    <2> QED BY <2>1, <2>2 DEF Contains
  <1>4. Contains(s, Head(s))
    BY <1>1 DEF Contains
  <1> QED BY <1>1, <1>2, <1>3, <1>4 DEF r

\* The length of a list after a node was unlinked from it or not.
LEMMA UnlinkLength ==
    ASSUME NEW T, NEW s \in Seq(T), IsInjective(s), NEW e
    PROVE  Len(RemoveFirst(s, e)) = IF Contains(s, e) THEN Len(s) - 1 ELSE Len(s)
  <1>1. CASE Contains(s, e)
    <2>1. PICK i \in 1 .. Len(s) : s[i] = e
      BY <1>1 DEF Contains
    <2>2. RemoveFirst(s, s[i]) = RemoveAt(s, i)
      BY RemoveFirstAt
    <2>3. Len(RemoveAt(s, i)) = Len(s) - 1
      BY RemoveAtList
    <2> QED BY <1>1, <2>1, <2>2, <2>3
  <1>2. CASE ~Contains(s, e)
    <2>1. ~(\E i \in 1 .. Len(s) : s[i] = e)
      BY <1>2 DEF Contains
    <2> QED BY <1>2, <2>1 DEF RemoveFirst
  <1> QED BY <1>1, <1>2

\* Two lists one after the other.
LEMMA JoinLists ==
    ASSUME NEW T, NEW s \in Seq(T), NEW r \in Seq(T)
    PROVE  /\ s \o r \in Seq(T) /\ Len(s \o r) = Len(s) + Len(r)
           /\ \A x : Contains(s \o r, x) <=> Contains(s, x) \/ Contains(r, x)
           /\ IsInjective(s \o r) <=> /\ IsInjective(s) /\ IsInjective(r)
                                      /\ \A x : ~(Contains(s, x) /\ Contains(r, x))
  <1> DEFINE j == s \o r
  <1>1. /\ j \in Seq(T) /\ Len(j) = Len(s) + Len(r) /\ Len(s) \in Nat /\ Len(r) \in Nat
        /\ \A i \in 1 .. Len(s) + Len(r) : j[i] = IF i <= Len(s) THEN s[i] ELSE r[i - Len(s)]
    BY ConcatProperties, LenProperties
  <1> HIDE DEF j
  <1>2. \A i \in 1 .. Len(s) : i \in 1 .. Len(j) /\ j[i] = s[i]
    BY <1>1
  <1>3. \A i \in 1 .. Len(r) : i + Len(s) \in 1 .. Len(j) /\ j[i + Len(s)] = r[i]
    <2> TAKE i \in 1 .. Len(r)
    <2>1. i + Len(s) \in 1 .. Len(s) + Len(r) /\ ~(i + Len(s) <= Len(s)) /\ (i + Len(s)) - Len(s) = i
      BY <1>1
    <2> QED BY <1>1, <2>1
  <1>4. \A i \in 1 .. Len(j) : \/ i \in 1 .. Len(s) /\ j[i] = s[i]
                               \/ i - Len(s) \in 1 .. Len(r) /\ j[i] = r[i - Len(s)]
    BY <1>1
  <1>5. ASSUME NEW x PROVE Contains(j, x) <=> Contains(s, x) \/ Contains(r, x)
    <2>1. Contains(s, x) => Contains(j, x)
      BY <1>2 DEF Contains
    <2>2. Contains(r, x) => Contains(j, x)
      BY <1>3 DEF Contains
    <2>3. Contains(j, x) => Contains(s, x) \/ Contains(r, x)
      BY <1>4 DEF Contains
    <2> QED BY <2>1, <2>2, <2>3
  <1>6. ASSUME IsInjective(j) PROVE IsInjective(s)
    BY <1>1, <1>2, <1>6 DEF IsInjective
  <1>7. ASSUME IsInjective(j) PROVE IsInjective(r)
    <2> SUFFICES ASSUME NEW a \in 1 .. Len(r), NEW b \in 1 .. Len(r), r[a] = r[b] PROVE a = b
      BY <1>1 DEF IsInjective
    <2>1. a + Len(s) \in DOMAIN j /\ b + Len(s) \in DOMAIN j /\ j[a + Len(s)] = j[b + Len(s)]
      BY <1>1, <1>3
    <2>2. a + Len(s) = b + Len(s)
      BY ONLY <1>7, <2>1 DEF IsInjective
    <2> QED BY <1>1, <2>2
  <1>8. ASSUME IsInjective(j), NEW x, Contains(s, x), Contains(r, x) PROVE FALSE
    <2>1. PICK a \in 1 .. Len(s) : s[a] = x
      BY <1>8 DEF Contains
    <2>2. PICK b \in 1 .. Len(r) : r[b] = x
      BY <1>8 DEF Contains
    <2>3. a \in DOMAIN j /\ b + Len(s) \in DOMAIN j /\ j[a] = j[b + Len(s)]
      BY <1>1, <1>2, <1>3, <2>1, <2>2
    <2>4. a = b + Len(s)
      BY ONLY <1>8, <2>3 DEF IsInjective
    <2> QED BY <1>1, <2>4
  <1>9. ASSUME IsInjective(s), IsInjective(r), \A x : ~(Contains(s, x) /\ Contains(r, x))
        PROVE  IsInjective(j)
    <2> SUFFICES ASSUME NEW a \in 1 .. Len(j), NEW b \in 1 .. Len(j), j[a] = j[b] PROVE a = b
      BY <1>1 DEF IsInjective
    <2>1. CASE a \in 1 .. Len(s) /\ b \in 1 .. Len(s)
      BY <1>2, <1>9, <2>1 DEF IsInjective
    <2>2. CASE a - Len(s) \in 1 .. Len(r) /\ b - Len(s) \in 1 .. Len(r)
      <3>1. r[a - Len(s)] = r[b - Len(s)]
        BY <1>1, <2>2
      <3>2. a - Len(s) = b - Len(s)
        BY <1>9, <2>2, <3>1 DEF IsInjective
      <3> QED BY <1>1, <3>2
    <2>3. CASE a \in 1 .. Len(s) /\ b - Len(s) \in 1 .. Len(r)
      <3>1. s[a] = r[b - Len(s)]
        BY <1>1, <2>3
      <3> QED BY <1>9, <2>3, <3>1 DEF Contains
    <2>4. CASE b \in 1 .. Len(s) /\ a - Len(s) \in 1 .. Len(r)
      <3>1. s[b] = r[a - Len(s)]
        BY <1>1, <2>4
      <3> QED BY <1>9, <2>4, <3>1 DEF Contains
    <2> QED BY <1>4, <2>1, <2>2, <2>3, <2>4
  <1> QED BY <1>1, <1>5, <1>6, <1>7, <1>8, <1>9 DEF j

\* A list the other way round.
LEMMA ReverseList ==
    ASSUME NEW T, NEW s \in Seq(T), IsInjective(s)
    PROVE  /\ Reverse(s) \in Seq(T) /\ IsInjective(Reverse(s)) /\ Len(Reverse(s)) = Len(s)
           /\ \A x : Contains(Reverse(s), x) <=> Contains(s, x)
  <1> DEFINE r == Reverse(s)
  <1>1. /\ r \in Seq(T) /\ Len(r) = Len(s) /\ Len(s) \in Nat
        /\ \A i \in 1 .. Len(s) : r[i] = s[(Len(s) - i) + 1]
    BY DEF Reverse
  <1> HIDE DEF r
  <1>2. \A i \in 1 .. Len(s) : (Len(s) - i) + 1 \in 1 .. Len(s)
    BY <1>1
  <1>3. IsInjective(r)
    <2> SUFFICES ASSUME NEW a \in 1 .. Len(s), NEW b \in 1 .. Len(s), r[a] = r[b] PROVE a = b
      BY <1>1 DEF IsInjective
    <2>1. /\ (Len(s) - a) + 1 \in DOMAIN s /\ (Len(s) - b) + 1 \in DOMAIN s
          /\ s[(Len(s) - a) + 1] = s[(Len(s) - b) + 1]
      BY <1>1, <1>2
    <2>2. (Len(s) - a) + 1 = (Len(s) - b) + 1
      BY ONLY <2>1, IsInjective(s) DEF IsInjective
    <2> QED BY <1>1, <2>2
  <1>4. ASSUME NEW x PROVE Contains(r, x) <=> Contains(s, x)
    <2>1. ASSUME NEW i \in 1 .. Len(s), r[i] = x PROVE Contains(s, x)
      <3>1. (Len(s) - i) + 1 \in 1 .. Len(s) /\ s[(Len(s) - i) + 1] = x
        BY <1>1, <1>2, <2>1
      <3> QED BY <3>1 DEF Contains
    <2>2. ASSUME NEW i \in 1 .. Len(s), s[i] = x PROVE Contains(r, x)
      <3> DEFINE h == (Len(s) - i) + 1
      <3>1. h \in 1 .. Len(s) /\ (Len(s) - h) + 1 = i
        BY <1>1
      <3>2. r[h] = x
        BY <1>1, <2>2, <3>1
      <3> QED BY <1>1, <3>1, <3>2 DEF Contains
    <2> QED BY <1>1, <2>1, <2>2 DEF Contains
  <1> QED BY <1>1, <1>3, <1>4 DEF r

\* The range of a list is what it holds.
LEMMA RangeList ==
    ASSUME NEW T, NEW s \in Seq(T)
    PROVE  \A x : x \in Range(s) <=> Contains(s, x)
  BY DEF Range, Contains

-----------------------------------------------------------------------------
(* Rings                                                                    *)

\* Division with remainder.
LEMMA DivMod ==
    ASSUME NEW a \in Nat, NEW s \in Nat \ {0}
    PROVE  a = s * (a \div s) + (a % s) /\ (a % s) \in 0 .. (s - 1) /\ a \div s \in Nat
  OBVIOUS

\* No multiple of s lies between 0 and s.
LEMMA NoMultiple ==
    ASSUME NEW s \in Nat \ {0}, NEW c \in Int, 0 < s * c PROVE s * c >= s
  <1>1. CASE c >= 1
     BY <1>1
  <1>2. CASE c <= 0
     <2>1. s * c <= 0
       BY <1>2
     <2> QED BY <2>1
  <1> QED BY <1>1, <1>2

\* Remainders of the numbers up to twice the divisor: the index of a ring after
\* at most one turn.
LEMMA SmallMod ==
    ASSUME NEW s \in Nat \ {0}, NEW a \in Nat, a < s PROVE a % s = a
  OBVIOUS

\* The other half: one turn is taken off.
LEMMA WrapMod ==
    ASSUME NEW s \in Nat \ {0}, NEW a \in Nat, s <= a, a < s + s PROVE a % s = a - s
  OBVIOUS

\* Two numbers less than s apart have different remainders: places of a ring.
LEMMA ModApart ==
    ASSUME NEW s \in Nat \ {0}, NEW a \in Nat, NEW b \in Nat, a < b, b < a + s
    PROVE  (a % s) # (b % s)
  <1> SUFFICES ASSUME (a % s) = (b % s) PROVE FALSE
    OBVIOUS
  <1>1. a = s * (a \div s) + (a % s) /\ a \div s \in Nat /\ (a % s) \in 0 .. (s - 1)
    BY DivMod
  <1>2. b = s * (b \div s) + (b % s) /\ b \div s \in Nat
    BY DivMod
  <1>3. PICK c : c = (b \div s) - (a \div s)
    OBVIOUS
  <1>4. PICK x : x = s * (a \div s)
    OBVIOUS
  <1>5. PICK y : y = s * (b \div s)
    OBVIOUS
  <1>9. x \in Int /\ y \in Int /\ c \in Int
    BY <1>1, <1>2, <1>3, <1>4, <1>5
  <1>6. s * c = y - x
    <2>1. PICK u : u = a \div s
      OBVIOUS
    <2>2. PICK v : v = b \div s
      OBVIOUS
    <2>3. u \in Int /\ v \in Int
      BY <1>1, <1>2, <2>1, <2>2
    <2>4. s * (v - u) = s * v - s * u
      BY ONLY <2>3, s \in Nat \ {0}
    <2> QED BY <1>3, <1>4, <1>5, <2>1, <2>2, <2>4
  <1>7. y - x = b - a
    BY <1>1, <1>2, <1>4, <1>5, <1>9
  <1>8. s * c >= s
    BY <1>6, <1>7, <1>9, NoMultiple
  <1> QED BY <1>6, <1>7, <1>8

\* The n items that lie in the array f of the given size from place o on,
\* around its end
Ring(f, o, n, size) == [i \in 1 .. n |-> f[(o + i - 1) % size]]

\* A ring holds as many items as it says.
LEMMA RingLen ==
    ASSUME NEW size \in Nat \ {0}, NEW n \in Nat, NEW f, NEW o \in Nat, NEW S, f \in [0 .. size - 1 -> S]
    PROVE  Ring(f, o, n, size) \in Seq(S) /\ Len(Ring(f, o, n, size)) = n
  <1>1. ASSUME NEW i \in 1 .. n PROVE f[(o + i - 1) % size] \in S
    <2>1. o + i - 1 \in Nat
      OBVIOUS
    <2>2. ((o + i - 1) % size) \in 0 .. (size - 1)
      BY <2>1, DivMod
    <2> QED BY <2>2
  <1>2. Ring(f, o, n, size) \in [1 .. n -> S]
    BY <1>1 DEF Ring
  <1> QED BY <1>2

\* Two arrays differ at most at place p
AgreeBut(f, g, p, size) == \A i \in 0 .. size - 1 : i # p => g[i] = f[i]

\* The place of the array that comes n places after o
Place(o, n, size) == (o + n) % size

\* An item stored after the last one is appended.
LEMMA RingPut ==
    ASSUME NEW size, NEW n, NEW m, NEW o, NEW S, NEW f, NEW g, NEW p, NEW x,
           size \in Nat \ {0}, n \in Nat, n < size, m = n + 1, o \in Nat,
           f \in [0 .. size - 1 -> S], g \in [0 .. size - 1 -> S],
           p = Place(o, n, size), g[p] = x, AgreeBut(f, g, p, size)
    PROVE  Ring(g, o, m, size) = Append(Ring(f, o, n, size), x)
  <1>1. o + n \in Nat /\ p = ((o + n) % size)
    BY DEF Place
  <1>2. p \in 0 .. size - 1
    BY <1>1, DivMod
  <1>4. x \in S
    BY <1>2
  <1>5. ASSUME NEW i \in 1 .. n PROVE g[(o + i - 1) % size] = f[(o + i - 1) % size]
    <2>1. o + i - 1 \in Nat /\ o + n \in Nat /\ o + i - 1 < o + n /\ o + n < (o + i - 1) + size
      OBVIOUS
    <2>2. ((o + i - 1) % size) # p
      BY <1>1, <2>1, ModApart
    <2>3. ((o + i - 1) % size) \in 0 .. size - 1
      BY <2>1, DivMod
    <2> QED BY <2>2, <2>3 DEF AgreeBut
  <1>6. g[(o + (n + 1) - 1) % size] = x
    <2>1. o + (n + 1) - 1 = o + n
      OBVIOUS
    <2> QED BY <1>1, <2>1
  <1>7. Ring(f, o, n, size) \in Seq(S) /\ Len(Ring(f, o, n, size)) = n
        /\ Ring(g, o, m, size) \in Seq(S) /\ Len(Ring(g, o, m, size)) = n + 1
    <2>1. m \in Nat
      OBVIOUS
    <2>2. Ring(g, o, m, size) \in Seq(S) /\ Len(Ring(g, o, m, size)) = m
      BY <2>1, RingLen
    <2> QED BY <2>2, RingLen
  <1>8. ASSUME NEW i \in 1 .. n + 1
        PROVE  Ring(g, o, m, size)[i] = Append(Ring(f, o, n, size), x)[i]
    <2>1. Ring(g, o, m, size)[i] = g[(o + i - 1) % size]
      BY DEF Ring
    <2>2. CASE i = n + 1
      <3>1. Append(Ring(f, o, n, size), x)[i] = x
        BY <1>7, <2>2
      <3> QED BY <1>6, <2>1, <2>2, <3>1
    <2>3. CASE i # n + 1
      <3>1. i \in 1 .. n
        BY <2>3
      <3>2. Append(Ring(f, o, n, size), x)[i] = Ring(f, o, n, size)[i]
        BY <1>7, <3>1
      <3>3. Ring(f, o, n, size)[i] = f[(o + i - 1) % size]
        BY <3>1 DEF Ring
      <3> QED BY <1>5, <2>1, <3>1, <3>2, <3>3
    <2> QED BY <2>2, <2>3
  <1>9. PICK a : a = Ring(g, o, m, size)
    OBVIOUS
  <1>10. PICK b : b = Append(Ring(f, o, n, size), x)
    OBVIOUS
  <1>11. a \in Seq(S) /\ b \in Seq(S) /\ Len(a) = n + 1 /\ Len(b) = n + 1
    BY <1>4, <1>7, <1>9, <1>10
  <1>12. a = b
    BY <1>8, <1>9, <1>10, <1>11
  <1> QED BY <1>9, <1>10, <1>12

\* The ring without its first item starts one place later.
LEMMA RingGet ==
    ASSUME NEW size \in Nat \ {0}, NEW n \in Nat \ {0}, NEW f, NEW o \in Nat,
           NEW S, f \in [0 .. size - 1 -> S]
    PROVE  Ring(f, o + 1, n - 1, size) = Tail(Ring(f, o, n, size))
  <1>1. PICK a : a = Ring(f, o + 1, n - 1, size)
    OBVIOUS
  <1>2. PICK c : c = Ring(f, o, n, size)
    OBVIOUS
  <1>3. a \in Seq(S) /\ c \in Seq(S) /\ Len(a) = n - 1 /\ Len(c) = n
    BY <1>1, <1>2, RingLen
  <1>4. ASSUME NEW i \in 1 .. n - 1 PROVE a[i] = c[i + 1]
    <2>1. i + 1 \in 1 .. n /\ (o + 1) + i - 1 = o + (i + 1) - 1
      OBVIOUS
    <2>2. a[i] = f[((o + 1) + i - 1) % size] /\ c[i + 1] = f[(o + (i + 1) - 1) % size]
      BY <1>1, <1>2, <2>1 DEF Ring
    <2> QED BY <2>1, <2>2
  <1>5. Tail(c) \in Seq(S) /\ Len(Tail(c)) = n - 1 /\ \A i \in 1 .. n - 1 : Tail(c)[i] = c[i + 1]
    BY <1>3
  <1>6. PICK d : d = Tail(c)
    OBVIOUS
  <1>7. a = d
    BY ONLY <1>3, <1>4, <1>5, <1>6, n \in Nat \ {0}
  <1> QED BY <1>1, <1>2, <1>6, <1>7

\* Starting after the last place is starting at the first.
LEMMA RingTurn ==
    ASSUME NEW size \in Nat \ {0}, NEW n \in 0 .. size, NEW f
    PROVE  Ring(f, 0, n, size) = Ring(f, size, n, size)
  <1>1. ASSUME NEW i \in 1 .. n PROVE ((0 + i - 1) % size) = ((size + i - 1) % size)
    <2>1. i - 1 \in Nat /\ i - 1 < size
      OBVIOUS
    <2>2. ((i - 1) % size) = i - 1
      BY <2>1, SmallMod
    <2>3. PICK a : a = size + i - 1
      OBVIOUS
    <2>6. a \in Nat /\ size <= a /\ a < size + size
      BY <2>3
    <2>4. (a % size) = a - size
      BY <2>6, WrapMod
    <2>5. 0 + i - 1 = i - 1 /\ a - size = i - 1
      BY <2>3
    <2> QED BY <2>2, <2>3, <2>4, <2>5
  <1> QED BY <1>1 DEF Ring

-----------------------------------------------------------------------------
(* What the places of a list hold                                           *)

Copied(h, l) == [i \in DOMAIN l |-> h[l[i]]]

\* As many items as places.
LEMMA CopiedLen ==
    ASSUME NEW S, NEW T, NEW h, NEW l, h \in [S -> T], l \in Seq(S)
    PROVE  /\ Copied(h, l) \in Seq(T) /\ Len(Copied(h, l)) = Len(l)
           /\ Copied(h, l) = << >> <=> l = << >>
  <1>1. Copied(h, l) \in [1 .. Len(l) -> T]
    BY DEF Copied
  <1>2. Copied(h, l) \in Seq(T) /\ Len(Copied(h, l)) = Len(l)
    BY <1>1
  <1> QED BY <1>2

\* Item g[i] is stored at place i, which is not on the list.
Stores(S, T, h, g, l, i) ==
    /\ h \in [S -> T] /\ g \in [S -> T] /\ l \in Seq(S) /\ i \in S
    /\ ~Contains(l, i) /\ \A x \in S : x # i => g[x] = h[x]

\* The place is added at the end.
LEMMA CopiedPut ==
    ASSUME NEW S, NEW T, NEW h, NEW g, NEW l, NEW i, Stores(S, T, h, g, l, i)
    PROVE  Copied(g, Append(l, i)) = Append(Copied(h, l), g[i])
  <1>0. /\ h \in [S -> T] /\ g \in [S -> T] /\ l \in Seq(S) /\ i \in S
        /\ ~Contains(l, i) /\ \A x \in S : x # i => g[x] = h[x]
    BY DEF Stores
  <1>1. PICK n : n = Len(l)
    OBVIOUS
  <1>2. n \in Nat /\ \A j \in 1 .. n : l[j] \in S
    BY <1>0, <1>1
  <1>3. \A j \in 1 .. n : g[l[j]] = h[l[j]]
    BY <1>0, <1>1, <1>2 DEF Contains
  <1>4. PICK c : c = Copied(h, l)
    OBVIOUS
  <1>5. c \in Seq(T) /\ Len(c) = n /\ \A j \in 1 .. n : c[j] = h[l[j]]
    <2>1. Copied(h, l) \in Seq(T) /\ Len(Copied(h, l)) = Len(l)
      BY <1>0, CopiedLen
    <2>2. \A j \in 1 .. n : Copied(h, l)[j] = h[l[j]]
      BY <1>1 DEF Copied
    <2> QED BY <1>1, <1>4, <2>1, <2>2
  <1>6. g[i] \in T
    BY <1>0
  <1>7. Copied(g, Append(l, i)) = Append(c, g[i])
    <2>1. PICK a : a = Append(l, i)
      OBVIOUS
    <2>2. a \in Seq(S) /\ Len(a) = n + 1 /\ a[n + 1] = i /\ \A j \in 1 .. n : a[j] = l[j]
      BY <1>0, <1>1, <2>1
    <2>3. PICK d : d = Copied(g, a)
      OBVIOUS
    <2>4. d \in Seq(T) /\ Len(d) = n + 1
      BY <1>0, <2>2, <2>3, CopiedLen
    <2>5. \A j \in 1 .. n + 1 : d[j] = g[a[j]]
      BY <2>2, <2>3 DEF Copied
    <2>6. PICK e : e = Append(c, g[i])
      OBVIOUS
    <2>7. e \in Seq(T) /\ Len(e) = n + 1 /\ e[n + 1] = g[i] /\ \A j \in 1 .. n : e[j] = c[j]
      BY <1>5, <1>6, <2>6
    <2>8. ASSUME NEW j \in 1 .. n + 1 PROVE d[j] = e[j]
      <3>1. CASE j = n + 1
        BY <2>2, <2>5, <2>7, <3>1
      <3>2. CASE j \in 1 .. n
        BY <1>3, <1>5, <2>2, <2>5, <2>7, <3>2
      <3> QED BY <1>2, <3>1, <3>2
    <2>9. d = e
      BY <2>4, <2>7, <2>8
    <2> QED BY <2>1, <2>3, <2>6, <2>9
  <1> QED BY <1>4, <1>7

\* The place is added in front.
LEMMA CopiedPush ==
    ASSUME NEW S, NEW T, NEW h, NEW g, NEW l, NEW i, Stores(S, T, h, g, l, i)
    PROVE  Copied(g, <<i>> \o l) = <<g[i]>> \o Copied(h, l)
  <1>0. /\ h \in [S -> T] /\ g \in [S -> T] /\ l \in Seq(S) /\ i \in S
        /\ ~Contains(l, i) /\ \A x \in S : x # i => g[x] = h[x]
    BY DEF Stores
  <1>1. PICK n : n = Len(l)
    OBVIOUS
  <1>2. n \in Nat /\ \A j \in 1 .. n : l[j] \in S
    BY <1>0, <1>1
  <1>3. \A j \in 1 .. n : g[l[j]] = h[l[j]]
    BY <1>0, <1>1, <1>2 DEF Contains
  <1>4. PICK c : c = Copied(h, l)
    OBVIOUS
  <1>5. c \in Seq(T) /\ Len(c) = n /\ \A j \in 1 .. n : c[j] = h[l[j]]
    <2>1. Copied(h, l) \in Seq(T) /\ Len(Copied(h, l)) = Len(l)
      BY <1>0, CopiedLen
    <2>2. \A j \in 1 .. n : Copied(h, l)[j] = h[l[j]]
      BY <1>1 DEF Copied
    <2> QED BY <1>1, <1>4, <2>1, <2>2
  <1>6. g[i] \in T
    BY <1>0
  <1>7. Copied(g, <<i>> \o l) = <<g[i]>> \o c
    <2>1. PICK a : a = <<i>> \o l
      OBVIOUS
    <2>2. a \in Seq(S) /\ Len(a) = n + 1 /\ a[1] = i /\ \A j \in 1 .. n : a[j + 1] = l[j]
      BY <1>0, <1>1, <2>1
    <2>3. PICK d : d = Copied(g, a)
      OBVIOUS
    <2>4. d \in Seq(T) /\ Len(d) = n + 1
      BY <1>0, <2>2, <2>3, CopiedLen
    <2>5. \A j \in 1 .. n + 1 : d[j] = g[a[j]]
      BY <2>2, <2>3 DEF Copied
    <2>6. PICK e : e = <<g[i]>> \o c
      OBVIOUS
    <2>7. e \in Seq(T) /\ Len(e) = n + 1 /\ e[1] = g[i] /\ \A j \in 1 .. n : e[j + 1] = c[j]
      BY <1>5, <1>6, <2>6
    <2>8. ASSUME NEW j \in 1 .. n + 1 PROVE d[j] = e[j]
      <3>1. CASE j = 1
        BY <2>2, <2>5, <2>7, <3>1
      <3>2. CASE j # 1
        <4>1. PICK m : m = j - 1
          OBVIOUS
        <4>2. m \in 1 .. n /\ j = m + 1
          BY <1>2, <3>2, <4>1
        <4>3. d[j] = g[a[j]] /\ a[j] = l[m] /\ e[j] = c[m]
          BY <2>2, <2>5, <2>7, <4>2
        <4> QED BY <1>3, <1>5, <4>2, <4>3
      <3> QED BY <3>1, <3>2
    <2>9. d = e
      BY <2>4, <2>7, <2>8
    <2> QED BY <2>1, <2>3, <2>6, <2>9
  <1> QED BY <1>4, <1>7

\* The first place is taken away.
LEMMA CopiedTail ==
    ASSUME NEW S, NEW T, NEW h, NEW l, NEW t, NEW c, h \in [S -> T], l \in Seq(S), l # << >>,
           t = Tail(l), c = Copied(h, l)
    PROVE  Copied(h, t) = Tail(c)
  <1>1. PICK n : n = Len(l)
    OBVIOUS
  <1>3. n \in Nat \ {0} /\ t \in Seq(S) /\ Len(t) = n - 1 /\ \A j \in 1 .. n - 1 : t[j] = l[j + 1]
    BY <1>1
  <1>5. PICK d : d = Copied(h, t)
    OBVIOUS
  <1>6. /\ c \in Seq(T) /\ Len(c) = n /\ \A j \in 1 .. n : c[j] = h[l[j]]
    <2>1. c \in Seq(T) /\ Len(c) = n
      BY <1>1, CopiedLen
    <2> QED BY <1>1, <2>1 DEF Copied
  <1>7. /\ d \in Seq(T) /\ Len(d) = n - 1 /\ \A j \in 1 .. n - 1 : d[j] = h[t[j]]
    <2>2. h \in [S -> T] /\ t \in Seq(S)
      BY <1>3
    <2>3. Copied(h, t) \in Seq(T) /\ Len(Copied(h, t)) = Len(t)
      BY ONLY <2>2, CopiedLen
    <2>1. d \in Seq(T) /\ Len(d) = n - 1
      BY <1>3, <1>5, <2>3
    <2> QED BY <1>3, <1>5, <2>1 DEF Copied
  <1>8. PICK e : e = Tail(c)
    OBVIOUS
  <1>9. e \in Seq(T) /\ Len(e) = n - 1 /\ \A j \in 1 .. n - 1 : e[j] = c[j + 1]
    BY <1>3, <1>6, <1>8
  <1>10. ASSUME NEW j \in 1 .. n - 1 PROVE d[j] = e[j]
    <2>1. j + 1 \in 1 .. n
      BY <1>3
    <2>2. e[j] = h[l[j + 1]] /\ d[j] = h[l[j + 1]]
      BY <1>3, <1>6, <1>7, <1>9, <2>1
    <2> QED BY <2>2
  <1>11. d = e
    BY <1>7, <1>9, <1>10
  <1> QED BY <1>5, <1>8, <1>11

\* A set of subsets of a finite set has a minimal one.
LEMMA Minimal ==
    ASSUME NEW S, IsFiniteSet(S), NEW T, T \subseteq SUBSET S, T # {}
    PROVE  \E s \in T : \A t \in T : ~(t \subseteq s /\ t # s)
  <1>1. T \subseteq FiniteSubsetsOf(S)
    BY FS_FiniteSubsetsOfFinite
  <1>2. \E b \in T : \A c \in T : <<c, b>> \notin StrictSubsetOrdering(S)
    BY <1>1, FS_StrictSubsetOrderingWellFounded, WFMin
  <1>3. PICK b : b \in T /\ \A c \in T : <<c, b>> \notin StrictSubsetOrdering(S)
    BY <1>2
  <1>4. \A c \in T : c \subseteq b /\ c # b => <<c, b>> \in StrictSubsetOrdering(S)
    BY <1>3 DEF StrictSubsetOrdering
  <1>5. \A c \in T : ~(c \subseteq b /\ c # b)
    BY ONLY <1>3, <1>4
  <1> QED BY ONLY <1>3, <1>5

\* How MapThenSumSet takes a set apart
AnyOf(s) == CHOOSE x \in s : TRUE
Rest(s)   == s \ {AnyOf(s)}

\* g adds up f over each subset of S.
Adds(g, f, S) == \A s \in SUBSET S : g[s] = IF s = {} THEN 0 ELSE f[AnyOf(s)] + g[Rest(s)]

\* What is left is smaller.
LEMMA RestFacts ==
    ASSUME NEW s, s # {}
    PROVE  AnyOf(s) \in s /\ Rest(s) \subseteq s /\ Rest(s) # s
  BY DEF AnyOf, Rest

\* There is one such g: the least subset on which two differ would not differ.
LEMMA AddsUnique ==
    ASSUME NEW S, IsFiniteSet(S), NEW f, NEW g, NEW h, Adds(g, f, S), Adds(h, f, S)
    PROVE  \A s \in SUBSET S : g[s] = h[s]
  <1> SUFFICES ASSUME NEW a \in SUBSET S, g[a] # h[a] PROVE FALSE
    OBVIOUS
  <1>1. PICK T : T = {s \in SUBSET S : g[s] # h[s]}
    OBVIOUS
  <1>2. PICK b \in T : \A t \in T : ~(t \subseteq b /\ t # b)
    <2>1. T \subseteq SUBSET S /\ a \in T
      BY <1>1
    <2>2. T # {}
      BY <2>1
    <2> QED BY ONLY IsFiniteSet(S), <2>1, <2>2, Minimal
  <1>3. b # {} /\ b \in SUBSET S
    BY <1>1 DEF Adds
  <1>4. Rest(b) \in SUBSET S /\ Rest(b) \subseteq b /\ Rest(b) # b
    BY <1>3, RestFacts
  <1>5. g[Rest(b)] = h[Rest(b)]
    BY <1>1, <1>2, <1>4
  <1>6. g[b] = f[AnyOf(b)] + g[Rest(b)] /\ h[b] = f[AnyOf(b)] + h[Rest(b)]
    BY <1>3 DEF Adds
  <1> QED BY <1>1, <1>2, <1>5, <1>6

\* There is one at all.
LEMMA AddsExists ==
    ASSUME NEW S, IsFiniteSet(S), NEW f
    PROVE  \E g : Adds(g, f, S)
  <1> SUFFICES ASSUME \A g : ~Adds(g, f, S) PROVE FALSE
    OBVIOUS
  <1>1. PICK T : T = {s \in SUBSET S : \A g : ~Adds(g, f, s)}
    OBVIOUS
  <1>2. PICK b \in T : \A t \in T : ~(t \subseteq b /\ t # b)
    <2>1. S \in T /\ T \subseteq SUBSET S
      BY <1>1
    <2>2. T # {}
      BY <2>1
    <2> QED BY ONLY IsFiniteSet(S), <2>1, <2>2, Minimal
  <1>3. b \in SUBSET S
    BY <1>1
  <1>4. PICK G : G = [s \in SUBSET b |-> CHOOSE g : Adds(g, f, s)]
    OBVIOUS
  <1>5. ASSUME NEW s \in SUBSET b, s # b PROVE Adds(G[s], f, s)
    <2>1. s \notin T /\ s \in SUBSET S
      BY <1>2, <1>3, <1>5
    <2>2. \E g : Adds(g, f, s)
      BY <1>1, <2>1
    <2>3. G[s] = CHOOSE g : Adds(g, f, s)
      BY <1>4, <1>5
    <2> QED BY <2>2, <2>3
  <1>6. PICK H : H = [s \in SUBSET b |-> IF s = {} THEN 0 ELSE f[AnyOf(s)] + G[Rest(s)][Rest(s)]]
    OBVIOUS
  <1>7. ASSUME NEW s \in SUBSET b, s # b PROVE G[s][s] = H[s]
    <2>1. Adds(G[s], f, s)
      BY <1>5, <1>7
    <2>2. CASE s = {}
      BY <1>6, <2>1, <2>2 DEF Adds
    <2>3. CASE s # {}
      <3>1. PICK r : r = Rest(s)
        OBVIOUS
      <3>2. r \in SUBSET b /\ r # b /\ r \in SUBSET s
        BY <1>7, <2>3, <3>1, RestFacts
      <3>3. Adds(G[r], f, r)
        BY <1>5, <3>2
      <3>4. Adds(G[s], f, r)
        BY <2>1, <3>2 DEF Adds
      <3>5. IsFiniteSet(r) /\ r \in SUBSET r
        BY <1>3, <3>2, FS_Subset
      <3>6. G[s][r] = G[r][r]
        BY <3>3, <3>4, <3>5, AddsUnique
      <3>7. G[s][s] = f[AnyOf(s)] + G[s][r]
        BY <2>1, <2>3, <3>1 DEF Adds
      <3>8. H[s] = f[AnyOf(s)] + G[r][r]
        BY <1>6, <1>7, <2>3, <3>1
      <3> QED BY <3>6, <3>7, <3>8
    <2> QED BY <2>2, <2>3
  <1>8. ASSUME NEW s \in SUBSET b
        PROVE  H[s] = IF s = {} THEN 0 ELSE f[AnyOf(s)] + H[Rest(s)]
    <2>1. CASE s = {}
      BY <1>6, <2>1
    <2>2. CASE s # {}
      <3>1. Rest(s) \in SUBSET b /\ Rest(s) # b
        BY <1>8, <2>2, RestFacts
      <3>2. G[Rest(s)][Rest(s)] = H[Rest(s)]
        BY <1>7, <3>1
      <3> QED BY <1>6, <1>8, <2>2, <3>2
    <2> QED BY <2>1, <2>2
  <1>9. Adds(H, f, b)
    BY <1>8 DEF Adds
  <1> QED BY <1>1, <1>2, <1>9

\* The sum of the values of f on S
Total(f, S) == MapThenSumSet(LAMBDA x : f[x], S)

\* A recursive function as MapThenSumSet defines it adds up f.
LEMMA FoldIs ==
    ASSUME NEW S, IsFiniteSet(S), NEW f, NEW g, Adds(g, f, S), NEW e,
           e = CHOOSE i : i = [s \in SUBSET S |-> IF s = {} THEN 0 ELSE f[AnyOf(s)] + i[s \ {AnyOf(s)}]]
    PROVE  e[S] = g[S]
  <1>1. PICK i : i = [s \in SUBSET S |-> g[s]]
    OBVIOUS
  <1>2. ASSUME NEW s \in SUBSET S
        PROVE  i[s] = IF s = {} THEN 0 ELSE f[AnyOf(s)] + i[s \ {AnyOf(s)}]
    <2>1. i[s] = g[s]
      BY <1>1, <1>2
    <2>2. s # {} => i[Rest(s)] = g[Rest(s)]
      BY <1>1, <1>2, RestFacts
    <2> QED BY <1>2, <2>1, <2>2 DEF Adds, Rest
  <1>3. i = [s \in SUBSET S |-> IF s = {} THEN 0 ELSE f[AnyOf(s)] + i[s \ {AnyOf(s)}]]
    BY <1>1, <1>2
  <1>4. e = [s \in SUBSET S |-> IF s = {} THEN 0 ELSE f[AnyOf(s)] + e[s \ {AnyOf(s)}]]
    BY <1>3
  <1>5. Adds(e, f, S)
    BY <1>4 DEF Adds, Rest
  <1> QED BY <1>5, AddsUnique

\* The sum of f on S is what such a g says.
LEMMA TotalIs ==
    ASSUME NEW S, IsFiniteSet(S), NEW f, NEW g, Adds(g, f, S)
    PROVE  Total(f, S) = g[S]
  <1>1. PICK e : e = CHOOSE i : i = [s \in SUBSET S |-> IF s = {} THEN 0 ELSE f[AnyOf(s)] + i[s \ {AnyOf(s)}]]
    OBVIOUS
  <1>2. Total(f, S) = e[S]
    BY <1>1 DEF Total, MapThenSumSet, MapThenFoldSet, AnyOf
  <1> QED BY <1>1, <1>2, FoldIs

\* The sum of none, and the sum as it is taken apart.
LEMMA TotalStep ==
    ASSUME NEW S, IsFiniteSet(S), NEW f
    PROVE  /\ Total(f, {}) = 0
           /\ \A s \in SUBSET S : s # {} => Total(f, s) = f[AnyOf(s)] + Total(f, Rest(s))
  <1>1. PICK g : Adds(g, f, S)
    BY AddsExists
  <1>2. ASSUME NEW s \in SUBSET S PROVE Total(f, s) = g[s]
    <2>1. Adds(g, f, s) /\ IsFiniteSet(s)
      BY <1>1, FS_Subset DEF Adds
    <2> QED BY <2>1, TotalIs
  <1>3. g[{}] = 0
    BY <1>1 DEF Adds
  <1>4. ASSUME NEW s \in SUBSET S, s # {} PROVE Total(f, s) = f[AnyOf(s)] + Total(f, Rest(s))
    <2>1. Rest(s) \in SUBSET S
      BY <1>4, RestFacts
    <2>2. g[s] = f[AnyOf(s)] + g[Rest(s)]
      BY <1>1, <1>4 DEF Adds
    <2> QED BY <1>2, <1>4, <2>1, <2>2
  <1> QED BY <1>2, <1>3, <1>4

\* Sums of integers are integers, and of natural numbers natural numbers.
LEMMA TotalInt ==
    ASSUME NEW S, IsFiniteSet(S), NEW R, R \in {Int, Nat}, NEW f, \A x \in S : f[x] \in R
    PROVE  \A s \in SUBSET S : Total(f, s) \in R
  <1> SUFFICES ASSUME NEW a \in SUBSET S, Total(f, a) \notin R PROVE FALSE
    OBVIOUS
  <1>1. PICK T : T = {s \in SUBSET S : Total(f, s) \notin R}
    OBVIOUS
  <1>2. PICK b \in T : \A t \in T : ~(t \subseteq b /\ t # b)
    <2>1. T \subseteq SUBSET S /\ a \in T
      BY <1>1
    <2>2. T # {}
      BY <2>1
    <2> QED BY ONLY IsFiniteSet(S), <2>1, <2>2, Minimal
  <1>3. b # {} /\ b \in SUBSET S
    <2>1. Total(f, {}) = 0
      BY TotalStep
    <2>2. 0 \in R
      BY R \in {Int, Nat}
    <2>3. b \in SUBSET S /\ Total(f, b) \notin R
      BY <1>1, <1>2
    <2> QED BY ONLY <2>1, <2>2, <2>3
  <1>4. Rest(b) \in SUBSET S /\ Rest(b) \subseteq b /\ Rest(b) # b /\ AnyOf(b) \in S
    BY <1>3, RestFacts
  <1>5. Total(f, Rest(b)) \in R
    BY <1>1, <1>2, <1>4
  <1>6. Total(f, b) = f[AnyOf(b)] + Total(f, Rest(b))
    BY <1>3, TotalStep
  <1>7. f[AnyOf(b)] \in R
    BY <1>4
  <1>8. Total(f, b) \in R
    BY ONLY <1>5, <1>6, <1>7, R \in {Int, Nat}
  <1> QED BY <1>1, <1>8

\* Any member may be taken out first.
LEMMA TotalRemove ==
    ASSUME NEW S, IsFiniteSet(S), NEW f, \A x \in S : f[x] \in Int
    PROVE  \A s \in SUBSET S, x \in S : x \in s => Total(f, s) = f[x] + Total(f, s \ {x})
  <1> DEFINE Wrong(s) == \E x \in s : Total(f, s) # f[x] + Total(f, s \ {x})
  <1> SUFFICES ASSUME NEW a \in SUBSET S, Wrong(a) PROVE FALSE
    OBVIOUS
  <1>1. PICK T : T = {s \in SUBSET S : Wrong(s)}
    OBVIOUS
  <1>2. PICK b \in T : \A t \in T : ~(t \subseteq b /\ t # b)
    <2>1. T \subseteq SUBSET S /\ a \in T
      BY <1>1
    <2>2. T # {}
      BY <2>1
    <2> QED BY ONLY IsFiniteSet(S), <2>1, <2>2, Minimal
  <1>3. PICK x \in b : Total(f, b) # f[x] + Total(f, b \ {x})
    BY <1>1
  <1>4. b \in SUBSET S /\ b # {}
    BY <1>1, <1>3
  <1>5. PICK y, c : y = AnyOf(b) /\ c = Rest(b)
    OBVIOUS
  <1>6. y \in S /\ x \in S /\ c = b \ {y} /\ y \in b /\ Total(f, b) = f[y] + Total(f, c)
    BY <1>4, <1>5, RestFacts, TotalStep DEF Rest
  <1>7. x # y /\ x \in c
    BY <1>3, <1>6
  <1>8. PICK d, e : d = b \ {x} /\ e = c \ {x}
    OBVIOUS
  <1>9. /\ c \notin T /\ d \notin T /\ c \in SUBSET S /\ d \in SUBSET S /\ e \in SUBSET S
        /\ y \in d /\ e = d \ {y}
    BY <1>2, <1>3, <1>4, <1>6, <1>7, <1>8
  <1>10. Total(f, c) = f[x] + Total(f, e) /\ Total(f, d) = f[y] + Total(f, e)
    BY <1>1, <1>7, <1>8, <1>9
  <1>11. Total(f, e) \in Int /\ f[x] \in Int /\ f[y] \in Int
    BY <1>6, <1>9, TotalInt
  <1> QED BY <1>3, <1>6, <1>8, <1>10, <1>11

\* Functions that agree on S have the same sum.
LEMMA TotalSame ==
    ASSUME NEW S, IsFiniteSet(S), NEW f, NEW g, \A x \in S : f[x] = g[x]
    PROVE  Total(f, S) = Total(g, S)
  <1>1. PICK h : Adds(h, f, S)
    BY AddsExists
  <1>2. Adds(h, g, S)
    <2> SUFFICES ASSUME NEW s \in SUBSET S
                 PROVE  h[s] = IF s = {} THEN 0 ELSE g[AnyOf(s)] + h[Rest(s)]
      BY DEF Adds
    <2>1. s # {} => f[AnyOf(s)] = g[AnyOf(s)]
      BY RestFacts
    <2> QED BY <1>1, <2>1 DEF Adds
  <1> QED BY <1>1, <1>2, TotalIs

\* f and g are integers on S and differ at x only.
DifferAt(f, g, S, x) ==
    \A i \in S : f[i] \in Int /\ g[i] \in Int /\ (i # x => g[i] = f[i])

\* A change at one place changes the sum by as much.
LEMMA TotalChange ==
    ASSUME NEW S, NEW f, NEW g, NEW x,
           IsFiniteSet(S), x \in S, DifferAt(f, g, S, x)
    PROVE  /\ Total(f, S) \in Int /\ Total(g, S) \in Int
           /\ Total(g, S) = Total(f, S) - f[x] + g[x]
  <1>0. \A i \in S : f[i] \in Int /\ g[i] \in Int /\ (i # x => g[i] = f[i])
    BY DEF DifferAt
  <1>1. PICK s : s = S \ {x}
    OBVIOUS
  <1>2. s \in SUBSET S /\ IsFiniteSet(s) /\ S \in SUBSET S /\ \A i \in s : f[i] = g[i]
    BY <1>0, <1>1, FS_Subset
  <1>3. Total(f, s) = Total(g, s)
    BY ONLY <1>2, TotalSame
  <1>4. Total(f, S) = f[x] + Total(f, s) /\ Total(g, S) = g[x] + Total(g, s)
    BY <1>0, <1>1, <1>2, TotalRemove
  <1>5. Total(f, S) \in Int /\ Total(g, S) \in Int /\ Total(f, s) \in Int
    BY <1>0, <1>2, TotalInt
  <1>6. f[x] \in Int /\ g[x] \in Int
    BY <1>0
  <1> QED BY ONLY <1>3, <1>4, <1>5, <1>6

\* f and g are integers on S and differ at x and y only.
DifferAtBoth(f, g, S, x, y) ==
    \A i \in S : f[i] \in Int /\ g[i] \in Int /\ (i # x /\ i # y => g[i] = f[i])

\* The same for a change at two places.
LEMMA TotalChanges ==
    ASSUME NEW S, NEW f, NEW g, NEW x, NEW y,
           IsFiniteSet(S), x \in S, y \in S, x # y, DifferAtBoth(f, g, S, x, y)
    PROVE  /\ Total(f, S) \in Int /\ Total(g, S) \in Int
           /\ Total(g, S) = Total(f, S) - f[x] - f[y] + g[x] + g[y]
  <1> USE DEF DifferAtBoth
  <1>1. PICK k : k = [i \in S |-> IF i = x THEN g[i] ELSE f[i]]
    OBVIOUS
  <1>2. IsFiniteSet(S) /\ x \in S /\ DifferAt(f, k, S, x)
    BY <1>1 DEF DifferAt
  <1>3. IsFiniteSet(S) /\ y \in S /\ DifferAt(k, g, S, y)
    BY <1>1 DEF DifferAt
  <1>4. Total(f, S) \in Int /\ Total(k, S) \in Int /\ Total(k, S) = Total(f, S) - f[x] + k[x]
    BY ONLY <1>2, TotalChange
  <1>5. Total(g, S) \in Int /\ Total(g, S) = Total(k, S) - k[y] + g[y]
    BY ONLY <1>3, TotalChange
  <1>6. k[x] = g[x] /\ k[y] = f[y] /\ f[x] \in Int /\ f[y] \in Int /\ g[x] \in Int /\ g[y] \in Int
    BY <1>1
  <1> QED BY ONLY <1>4, <1>5, <1>6

\* Smaller terms have a smaller sum.
LEMMA TotalLeq ==
    ASSUME NEW S, IsFiniteSet(S), NEW f, NEW g,
           \A i \in S : f[i] \in Int /\ g[i] \in Int /\ f[i] <= g[i]
    PROVE  Total(f, S) <= Total(g, S)
  <1> SUFFICES ASSUME ~(Total(f, S) <= Total(g, S)) PROVE FALSE
    OBVIOUS
  <1>1. PICK T : T = {s \in SUBSET S : ~(Total(f, s) <= Total(g, s))}
    OBVIOUS
  <1>2. PICK b \in T : \A t \in T : ~(t \subseteq b /\ t # b)
    <2>1. T \subseteq SUBSET S /\ S \in T
      BY <1>1
    <2>2. T # {}
      BY <2>1
    <2> QED BY ONLY IsFiniteSet(S), <2>1, <2>2, Minimal
  <1>3. b \in SUBSET S /\ ~(Total(f, b) <= Total(g, b))
    BY <1>1
  <1>4. b # {}
    <2>1. Total(f, {}) = 0 /\ Total(g, {}) = 0
      BY TotalStep
    <2> QED BY ONLY <1>3, <2>1
  <1>5. PICK y, c : y = AnyOf(b) /\ c = Rest(b)
    OBVIOUS
  <1>6. y \in S /\ c \in SUBSET S /\ c \subseteq b /\ c # b
    BY <1>3, <1>4, <1>5, RestFacts
  <1>7. Total(f, b) = f[y] + Total(f, c) /\ Total(g, b) = g[y] + Total(g, c)
    BY <1>3, <1>4, <1>5, TotalStep
  <1>8. Total(f, c) <= Total(g, c)
    BY <1>1, <1>2, <1>6
  <1>9. Total(f, c) \in Int /\ Total(g, c) \in Int /\ f[y] \in Int /\ g[y] \in Int /\ f[y] <= g[y]
    BY <1>6, TotalInt
  <1> QED BY ONLY <1>3, <1>7, <1>8, <1>9

\* What is 0 may be left out.
LEMMA TotalZeros ==
    ASSUME NEW S, IsFiniteSet(S), NEW f, \A i \in S : f[i] \in Int,
           NEW U, U \subseteq S, \A i \in S \ U : f[i] = 0
    PROVE  Total(f, S) = Total(f, U)
  <1> SUFFICES ASSUME Total(f, S) # Total(f, U) PROVE FALSE
    OBVIOUS
  <1>1. PICK T : T = {s \in SUBSET S : U \subseteq s /\ Total(f, s) # Total(f, U)}
    OBVIOUS
  <1>2. PICK b \in T : \A t \in T : ~(t \subseteq b /\ t # b)
    <2>1. T \subseteq SUBSET S /\ S \in T
      BY <1>1
    <2>2. T # {}
      BY <2>1
    <2> QED BY ONLY IsFiniteSet(S), <2>1, <2>2, Minimal
  <1>3. b \in SUBSET S /\ U \subseteq b /\ Total(f, b) # Total(f, U)
    BY <1>1
  <1>4. b # U
    BY <1>3
  <1>5. PICK y \in b : y \notin U
    BY <1>3, <1>4
  <1>6. Total(f, b) = f[y] + Total(f, b \ {y}) /\ f[y] = 0 /\ b \ {y} \in SUBSET S
    BY <1>3, <1>5, TotalRemove
  <1>7. Total(f, b \ {y}) = Total(f, U)
    BY <1>1, <1>2, <1>3, <1>5, <1>6
  <1>8. Total(f, U) \in Int
    BY TotalInt
  <1> QED BY ONLY <1>3, <1>6, <1>7, <1>8

\* What the sequences of S have in common is at least s when all of them begin
\* with s.
LEMMA LongestPrefix ==
    ASSUME NEW T, NEW S \in SUBSET Seq(T), NEW s \in Seq(T), S # {},
           \A c \in S : IsPrefix(s, c)
    PROVE  /\ LongestCommonPrefix(S) \in Seq(T)
           /\ Len(s) <= Len(LongestCommonPrefix(S))
           /\ \E c \in S : Len(LongestCommonPrefix(S)) <= Len(c)
           /\ \A i \in 1 .. Len(s) : LongestCommonPrefix(S)[i] = s[i]
  <1>1. PICK c \in S : TRUE
    OBVIOUS
  <1>2. c \in Seq(T) /\ Len(c) \in Nat /\ Len(s) \in Nat /\ IsPrefix(s, c)
    BY <1>1
  <1>3. PICK P : P = CommonPrefixes(S)
    OBVIOUS
  <1>4. \A x \in P : /\ \E d \in S : \E n \in 0 .. Len(d) : x = SubSeq(d, 1, n)
                     /\ \A t \in S : IsPrefix(x, t)
    BY <1>3 DEF CommonPrefixes, Prefixes
  <1>5. \A x \in P : x \in Seq(T) /\ Len(x) \in Nat /\ Len(x) <= Len(c) /\ IsPrefix(x, c)
    <2> SUFFICES ASSUME NEW x \in P
                 PROVE  x \in Seq(T) /\ Len(x) \in Nat /\ Len(x) <= Len(c) /\ IsPrefix(x, c)
      OBVIOUS
    <2>1. PICK d \in S : \E n \in 0 .. Len(d) : x = SubSeq(d, 1, n)
      BY <1>4
    <2>5. PICK n \in 0 .. Len(d) : x = SubSeq(d, 1, n)
      BY <2>1
    <2>2. d \in Seq(T) /\ Len(d) \in Nat /\ n \in Int /\ 1 \in Int /\ \A i \in 1 .. n : d[i] \in T
      BY <2>5, ElementOfSeq
    <2>3. x \in Seq(T)
      BY <2>5, <2>2, SubSeqProperties
    <2>4. IsPrefix(x, c)
      BY <1>1, <1>4
    <2> QED BY <2>3, <2>4 DEF IsPrefix
  <1>6. s \in P
    <2>1. s = SubSeq(s, 1, Len(s)) /\ SubSeq(s, 1, Len(s)) = SubSeq(c, 1, Len(s))
      BY <1>2, SubSeqFull DEF IsPrefix
    <2>2. Len(s) \in 0 .. Len(c)
      BY <1>2 DEF IsPrefix
    <2>3. s \in Prefixes(c)
      BY <2>1, <2>2 DEF Prefixes
    <2> QED BY <1>1, <1>3, <2>3 DEF CommonPrefixes
  <1>7. PICK l \in P : \A x \in P : Len(x) <= Len(l)
    <2> DEFINE D == {Len(c) - Len(x) : x \in P}
    <2>1. D \in SUBSET Nat /\ D # {}
      BY <1>2, <1>5, <1>6
    <2>2. PICK d \in D : \A e \in D : d <= e
      <3> HIDE DEF D
      <3> QED BY ONLY <2>1, LeastElement
    <2>3. PICK l \in P : d = Len(c) - Len(l)
      OBVIOUS
    <2>4. \A x \in P : Len(x) <= Len(l)
      <3> SUFFICES ASSUME NEW x \in P PROVE Len(x) <= Len(l)
        OBVIOUS
      <3>1. d <= Len(c) - Len(x)
        BY <2>2
      <3>2. Len(c) \in Nat /\ Len(x) \in Nat /\ Len(l) \in Nat
        BY <1>2, <1>5
      <3> QED BY ONLY <2>3, <3>1, <3>2
    <2> QED BY <2>4
  <1>8. /\ LongestCommonPrefix(S) \in P
        /\ \A x \in P : Len(x) <= Len(LongestCommonPrefix(S))
    <2>1. LongestCommonPrefix(S) = CHOOSE y \in P : \A x \in P : Len(x) <= Len(y)
      BY <1>3 DEF LongestCommonPrefix
    <2> QED BY <1>7, <2>1
  <1>9. PICK m : m = LongestCommonPrefix(S)
    OBVIOUS
  <1>10. m \in Seq(T) /\ Len(m) \in Nat /\ Len(s) <= Len(m) /\ Len(m) <= Len(c)
         /\ IsPrefix(m, c)
    BY <1>5, <1>6, <1>8, <1>9
  <1>11. ASSUME NEW x \in Seq(T), IsPrefix(x, c), NEW i \in 1 .. Len(x) PROVE x[i] = c[i]
    <2>1. Len(x) \in Nat /\ Len(x) <= Len(c) /\ SubSeq(x, 1, Len(x)) = SubSeq(c, 1, Len(x))
      BY <1>11 DEF IsPrefix
    <2>2. /\ \A j \in 1 .. Len(x) : c[j] \in T
          /\ 1 \in Int /\ Len(x) \in Int
      BY <1>2, <2>1, ElementOfSeq
    <2>3. \A j \in 1 .. Len(x) - 1 + 1 : SubSeq(c, 1, Len(x))[j] = c[1 + j - 1]
      BY <2>2, SubSeqProperties
    <2>4. SubSeq(x, 1, Len(x)) = x
      BY SubSeqFull
    <2>5. i \in 1 .. Len(x) - 1 + 1 /\ 1 + i - 1 = i
      BY <2>1
    <2> QED BY <2>1, <2>3, <2>4, <2>5
  <1>12. \A i \in 1 .. Len(s) : m[i] = s[i]
    <2> SUFFICES ASSUME NEW i \in 1 .. Len(s) PROVE m[i] = s[i]
      OBVIOUS
    <2>1. i \in 1 .. Len(m)
      BY <1>2, <1>10
    <2> QED BY <1>2, <1>10, <1>11, <2>1
  <1> QED BY <1>1, <1>9, <1>10, <1>12

=============================================================================
