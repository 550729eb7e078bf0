------------------------------ MODULE MemHeap -------------------------------
(***************************************************************************)
(* The heaps of memheap.c: rt_memheap_alloc, rt_memheap_realloc and        *)
(* rt_memheap_free, and on top of them rt_malloc, rt_realloc and rt_free,  *)
(* which use several heaps. Addresses are counted in words from the start  *)
(* of a heap. The lock of a heap lets one caller in at a time, so a call   *)
(* is one step, except where it takes the lock again. max_used_size is     *)
(* left out.                                                               *)
(***************************************************************************)
EXTENDS Integers, Functions, FiniteSetsExt, SequencesExt

CONSTANTS RT_MEMHEAP_SIZE,       \* a header, in words
          RT_MEMHEAP_MINIALLOC,  \* the least data of a block
          Heaps,
          heap_size,             \* heap -> the words of its pool
          Requests               \* the sizes that callers ask for

ASSUME MemHeapAssumption ==
    /\ {RT_MEMHEAP_SIZE, RT_MEMHEAP_MINIALLOC} \subseteq Nat \ {0}
    /\ \A h \in Heaps :
          /\ heap_size[h] \in Nat
          /\ heap_size[h] >= 2 * RT_MEMHEAP_SIZE + RT_MEMHEAP_MINIALLOC  \* room for a block
    /\ Requests \subseteq Nat \ {0}

VARIABLES memheap,      \* heap -> its headers, free list and available_size
          moves,        \* calls of realloc that need another block, and how far they are
          abandoned     \* blocks that nobody holds any more

memheap_vars == <<memheap, moves, abandoned>>

Tailer(h) == heap_size[h] - RT_MEMHEAP_SIZE

MemHeapType ==
    \A h \in Heaps :
        LET offsets == 0 .. Tailer(h)
        IN  /\ DOMAIN memheap[h].item \subseteq offsets
            /\ Range(memheap[h].item) \subseteq
                   [used : BOOLEAN, next : offsets, prev : offsets]
            /\ memheap[h].free_list \in Seq(offsets)
            /\ memheap[h].available_size \in 0 .. heap_size[h]

\* rt_memheap_init: one free block, and a used one without data at the end
MemHeapInit ==
    /\ memheap = [h \in Heaps |->
          [item |-> [m \in {0, Tailer(h)} |-> [used |-> m # 0, next |-> Tailer(h) - m,
                                              prev |-> Tailer(h) - m]],
           free_list |-> <<0>>,
           available_size |-> heap_size[h] - 2 * RT_MEMHEAP_SIZE]]
    /\ moves = {} /\ abandoned = {}

-----------------------------------------------------------------------------
(* What the calls are made of, from one heap to the next *)

ItemSize(r, m) == r.item[m].next - m - RT_MEMHEAP_SIZE

link_free(r, m)   == [r EXCEPT !.free_list = <<m>> \o @]
unlink_free(r, m) == [r EXCEPT !.free_list = RemoveFirst(@, m)]

\* Block n leaves the chain; its words belong to its predecessor.
join(r, n) ==
    LET p == r.item[n].prev
        e == r.item[n].next
        i == [r.item EXCEPT ![p].next = e, ![e].prev = p]
    IN  [r EXCEPT !.item = [a \in DOMAIN i \ {n} |-> i[a]]]

\* A free block begins at n inside block m; it is not linked yet.
cut(r, m, n) ==
    LET e == r.item[m].next
        i == [r.item EXCEPT ![m].next = n, ![e].prev = n]
    IN  [r EXCEPT !.item = [a \in DOMAIN i \cup {n} |->
              IF a = n THEN [used |-> FALSE, next |-> e, prev |-> m] ELSE i[a]]]

\* Faulty: the neighbour stays on the free list.
join_keeping_link(r, n) == join(r, n)

\* The free neighbour n behind a block becomes part of it.
join_next(r, n) == join(unlink_free(r, n), n)

Aligned(size) ==
    IF size < RT_MEMHEAP_MINIALLOC THEN RT_MEMHEAP_MINIALLOC ELSE size

\* The places on the free list of the blocks that are large enough
Found(r, size) == {i \in DOMAIN r.free_list : ItemSize(r, r.free_list[i]) >= size}

\* available_size is asked first, without the lock: it may have changed when the
\* lock is taken, so it can refuse a size but not promise one.
Refused(r, size) == size >= r.available_size \/ Found(r, size) = {}

\* The first of them is taken; what is left over is a block of its own if it is
\* large enough.
alloc(r, size) ==
    LET m    == r.free_list[Min(Found(r, size))]
        left == ItemSize(r, m) - size - RT_MEMHEAP_SIZE
        n    == m + size + RT_MEMHEAP_SIZE
        u    == [unlink_free(r, m) EXCEPT !.item[m].used = TRUE]
    IN  IF left >= RT_MEMHEAP_MINIALLOC
        THEN [link_free(cut(u, m, n), n) EXCEPT !.available_size = @ - size - RT_MEMHEAP_SIZE]
        ELSE [u EXCEPT !.available_size = @ - ItemSize(r, m)]

\* A freed block is merged into a free predecessor, which is on the list
\* already, and a free successor into it.
free_item(r, m) ==
    LET f == [r EXCEPT !.item[m].used = FALSE, !.available_size = @ + ItemSize(r, m)]
        p == f.item[m].prev
        left == ~f.item[p].used
        l == IF left THEN [join(f, m) EXCEPT !.available_size = @ + RT_MEMHEAP_SIZE] ELSE f
        b == IF left THEN p ELSE m
        n == l.item[b].next
        u == IF l.item[n].used THEN l
             ELSE [join_next(l, n) EXCEPT !.available_size = @ + RT_MEMHEAP_SIZE]
    IN  IF left THEN u ELSE link_free(u, b)

\* realloc: a block grows into the free one behind it if enough is left of that.
Grows(r, m, newsize) ==
    LET n == r.item[m].next
    IN  ~r.item[n].used /\ ItemSize(r, n) + ItemSize(r, m) > newsize + RT_MEMHEAP_MINIALLOC

grow(r, m, newsize) ==
    LET n == m + RT_MEMHEAP_SIZE + newsize
        u == join_next(r, r.item[m].next)
    IN  [link_free(cut(u, m, n), n) EXCEPT !.available_size = @ - (newsize - ItemSize(r, m))]

\* realloc: a block is cut if the rest can be a block of its own; the rest is
\* merged with a free successor.
Shrinkable(r, m, newsize) ==
    newsize + RT_MEMHEAP_SIZE + RT_MEMHEAP_MINIALLOC < ItemSize(r, m)

shrink(r, m, newsize) ==
    LET n == m + newsize + RT_MEMHEAP_SIZE
        f == r.item[m].next
        c == cut(r, m, n)
        u == IF c.item[f].used THEN c
             ELSE [join_next(c, f) EXCEPT !.available_size = @ - ItemSize(r, f)]
    IN  [link_free(u, n) EXCEPT !.available_size = @ + ItemSize(u, n)]

-----------------------------------------------------------------------------

Update(h, r) == memheap' = [memheap EXCEPT ![h] = r]

\* The blocks in the hands of callers
LiveItems(h) ==
    {m \in DOMAIN memheap[h].item :
        /\ memheap[h].item[m].used /\ m # Tailer(h)
        /\ <<h, m>> \notin abandoned
        /\ \A c \in moves : ~(c.heap = h /\ c.item = m)}

\* Also rt_malloc, which tries the heaps in turn: the earlier ones may have been
\* full when it did.
rt_memheap_alloc(h, size) ==
    /\ Found(memheap[h], Aligned(size)) # {}
    /\ Update(h, alloc(memheap[h], Aligned(size)))
    /\ UNCHANGED <<moves, abandoned>>

rt_memheap_free(h, m) ==
    /\ m \in LiveItems(h)
    /\ Update(h, free_item(memheap[h], m))
    /\ UNCHANGED <<moves, abandoned>>

\* rt_memheap_realloc within the block or into the next one
rt_memheap_realloc(h, m, size) ==
    LET r == memheap[h]
        newsize == Aligned(size)
    IN  /\ m \in LiveItems(h)
        /\ \/ newsize > ItemSize(r, m) /\ Grows(r, m, newsize) /\ Update(h, grow(r, m, newsize))
           \/ Shrinkable(r, m, newsize) /\ Update(h, shrink(r, m, newsize))
        /\ UNCHANGED <<moves, abandoned>>

\* Otherwise it gives the lock back and calls rt_memheap_alloc ...
realloc_leave(h, m, size) ==
    /\ m \in LiveItems(h)
    /\ Aligned(size) > ItemSize(memheap[h], m) /\ ~Grows(memheap[h], m, Aligned(size))
    /\ moves' = moves \cup {[heap |-> h, item |-> m, size |-> Aligned(size), at |-> "alloc"]}
    /\ UNCHANGED <<memheap, abandoned>>

Then(c, at) == moves' = (moves \ {c}) \cup {[c EXCEPT !.at = at]}

\* Faulty: the old block is freed first, before it has been copied.
move_freeing_first(c) ==
    LET r == free_item(memheap[c.heap], c.item)
    IN  /\ c.at = "alloc" /\ Found(r, c.size) # {}
        /\ Update(c.heap, alloc(r, c.size))
        /\ moves' = moves \ {c} /\ UNCHANGED abandoned

realloc_move(c) ==
    /\ c.at = "alloc" /\ Found(memheap[c.heap], c.size) # {}
    /\ Update(c.heap, alloc(memheap[c.heap], c.size))
    /\ Then(c, "copied") /\ UNCHANGED abandoned

\* ... and frees the old block once it is copied.
realloc_free_old(c) ==
    /\ c.at = "copied"
    /\ Update(c.heap, free_item(memheap[c.heap], c.item))
    /\ moves' = moves \ {c} /\ UNCHANGED abandoned

realloc_refused(c) ==
    /\ c.at = "alloc" /\ Refused(memheap[c.heap], c.size)
    /\ Then(c, "refused") /\ UNCHANGED <<memheap, abandoned>>

\* rt_realloc then has rt_malloc try all heaps; the old block is not freed.
rt_realloc(c, to) ==
    /\ c.at = "refused" /\ Found(memheap[to], c.size) # {}
    /\ Update(to, alloc(memheap[to], c.size))
    /\ moves' = moves \ {c} /\ abandoned' = abandoned \cup {<<c.heap, c.item>>}

realloc_fails(c) ==
    c.at = "refused" /\ moves' = moves \ {c} /\ UNCHANGED <<memheap, abandoned>>

MemHeapNext ==
    \/ \E h \in Heaps :
          \/ \E size \in Requests : rt_memheap_alloc(h, size)
          \/ \E m \in DOMAIN memheap[h].item :
                \/ rt_memheap_free(h, m)
                \/ \E size \in Requests : rt_memheap_realloc(h, m, size) \/ realloc_leave(h, m, size)
    \/ \E c \in moves :
          \/ realloc_move(c) \/ realloc_free_old(c)
          \/ realloc_refused(c) \/ realloc_fails(c)
          \/ \E to \in Heaps : rt_realloc(c, to)

-----------------------------------------------------------------------------
(* Properties *)

FreeItems(r) == {m \in DOMAIN r.item : ~r.item[m].used}

\* Each heap is a ring of blocks that tile its pool, next and prev agree, and no
\* two free blocks are neighbours (rt_memheap_alloc, _realloc, _free).
Chained(r, h) ==
    /\ {0, Tailer(h)} \subseteq DOMAIN r.item
    /\ r.item[Tailer(h)].used /\ r.item[Tailer(h)].next = 0
    /\ \A m \in DOMAIN r.item :
          LET n == r.item[m].next
          IN  /\ n \in DOMAIN r.item /\ r.item[n].prev = m
              /\ r.item[m].used \/ r.item[n].used
              /\ m # Tailer(h) => /\ ItemSize(r, m) >= RT_MEMHEAP_MINIALLOC
                                  /\ \A i \in DOMAIN r.item : ~(m < i /\ i < n)

\* The free list names every free block once, and available_size is what they
\* hold: rt_memheap_alloc asks both.
FreeListed(r) ==
    /\ IsInjective(r.free_list) /\ Range(r.free_list) = FreeItems(r)
    /\ r.available_size = MapThenSumSet(LAMBDA m : ItemSize(r, m), FreeItems(r))

MemHeapOK == \A h \in Heaps : Chained(memheap[h], h) /\ FreeListed(memheap[h])

\* A step takes one block of a heap, gives one back, or moves the end of one
\* (rt_memheap_realloc), and never takes one and gives another back: what is in
\* the old block is still to be copied. The blocks of other callers stay.
HeldItems(r) == {<<m, r.item[m].next>> : m \in {i \in DOMAIN r.item : r.item[i].used}}
MemBlocksKept ==
    \A h \in Heaps :
        LET gone  == HeldItems(memheap[h]) \ HeldItems(memheap'[h])
            fresh == HeldItems(memheap'[h]) \ HeldItems(memheap[h])
        IN  Cardinality(gone) <= 1 /\ Cardinality(fresh) <= 1
            /\ \A g \in gone, f \in fresh : g[1] = f[1]
=============================================================================
