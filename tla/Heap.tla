-------------------------------- MODULE Heap ---------------------------------
(***************************************************************************)
(* The heap of mem.c: rt_malloc, rt_realloc and rt_free over a small       *)
(* address range. Addresses and sizes are counted in words of              *)
(* RT_ALIGN_SIZE bytes, to which the code rounds every size. heap_sem lets *)
(* one caller in at a time, so each call is a step; rt_realloc that moves  *)
(* a block is rt_malloc and rt_free with other callers in between.         *)
(* rt_calloc is rt_malloc followed by a fill. max_mem is left out.         *)
(***************************************************************************)
EXTENDS Integers, FiniteSets, FiniteSetsExt, Functions

CONSTANTS SIZEOF_STRUCT_MEM,    \* a header, in words
          MIN_SIZE_ALIGNED,     \* the least data of a block
          mem_size_aligned,     \* the data of the only block of an empty heap
          Sizes                 \* the sizes that callers ask for

ASSUME HeapAssumption ==
    /\ {SIZEOF_STRUCT_MEM, MIN_SIZE_ALIGNED} \subseteq Nat \ {0}
    /\ mem_size_aligned \in Nat /\ mem_size_aligned >= MIN_SIZE_ALIGNED
    /\ Sizes \subseteq Nat

VARIABLES heap,         \* the headers, by their offset from heap_ptr
          lfree,        \* where the search for a free block starts
          used_mem,
          moving        \* blocks that rt_realloc has copied and not yet freed

heap_vars == <<heap, lfree, used_mem, moving>>

heap_end == mem_size_aligned + SIZEOF_STRUCT_MEM

Header == [used : BOOLEAN, next : 0 .. heap_end, prev : 0 .. heap_end]

HeapType ==
    /\ DOMAIN heap \subseteq 0 .. heap_end
    /\ \A m \in DOMAIN heap : heap[m] \in Header
    /\ lfree \in 0 .. heap_end /\ used_mem \in 0 .. heap_end
    /\ moving \subseteq DOMAIN heap

\* rt_system_heap_init
HeapInit ==
    /\ heap = [m \in {0, heap_end} |-> [used |-> m = heap_end, next |-> heap_end, prev |-> m]]
    /\ lfree = 0 /\ used_mem = 0 /\ moving = {}

-----------------------------------------------------------------------------

\* The data size of block m
DataSize(h, m) == h[m].next - m - SIZEOF_STRUCT_MEM

\* Block n, the successor of m, becomes part of m.
merge(r, m, n) ==
    LET h    == r.heap
        rest == [i \in DOMAIN h \ {n} |-> h[i]]
    IN  [heap  |-> [rest EXCEPT ![m].next = h[n].next, ![h[n].next].prev = m],
         lfree |-> IF r.lfree = n THEN m ELSE r.lfree]

\* Faulty: only the successor is looked at.
plug_forward(r, m) ==
    LET n == r.heap[m].next
    IN  IF ~r.heap[n].used /\ n # heap_end THEN merge(r, m, n) ELSE r

plug_holes(r, m) ==
    LET n == r.heap[m].next
        f == IF n # m /\ ~r.heap[n].used /\ n # heap_end THEN merge(r, m, n) ELSE r
        p == f.heap[m].prev
    IN  IF p # m /\ ~f.heap[p].used THEN merge(f, p, m) ELSE f

\* A free block begins at n inside block m, which keeps what is below n. The
\* link back of heap_end is not kept up.
split(h, m, n) ==
    LET e  == h[m].next
        k  == [h EXCEPT ![m].next = n]
        h2 == [i \in DOMAIN h \cup {n} |->
                  IF i = n THEN [used |-> FALSE, next |-> e, prev |-> m] ELSE k[i]]
    IN  IF e # heap_end THEN [h2 EXCEPT ![e].prev = n] ELSE h2

\* The first block not below lfree that rt_malloc finds large enough; its loop
\* ends before the last `size' words.
Fits(size) ==
    {m \in DOMAIN heap : /\ m >= lfree /\ m < mem_size_aligned - size
                         /\ ~heap[m].used /\ DataSize(heap, m) >= size}

\* lfree moves up to the next block that is free, or to the end.
NextFree(h, m) == Min({i \in DOMAIN h : i >= m /\ (~h[i].used \/ i = heap_end)})

\* What is left over is a block of its own if it can hold MIN_SIZE_ALIGNED.
Splits(m, size) ==
    DataSize(heap, m) >= size + SIZEOF_STRUCT_MEM + MIN_SIZE_ALIGNED

\* A block of at least `size' words is taken and leaves the heap in u.
allocate(size) ==
    LET m == Min(Fits(size))
        h == IF Splits(m, size) THEN split(heap, m, m + SIZEOF_STRUCT_MEM + size) ELSE heap
        u == [h EXCEPT ![m].used = TRUE]
    IN  /\ Fits(size) # {}
        /\ heap' = u
        /\ used_mem' = used_mem + (u[m].next - m)
        /\ lfree' = IF m = lfree THEN NextFree(u, m) ELSE lfree

Asked(size) == IF size < MIN_SIZE_ALIGNED THEN MIN_SIZE_ALIGNED ELSE size

rt_malloc(size) ==
    /\ size \in 1 .. mem_size_aligned
    /\ allocate(Asked(size))
    /\ UNCHANGED moving

Live == {m \in DOMAIN heap : heap[m].used /\ m # heap_end} \ moving

free(m) ==
    LET r == plug_holes([heap  |-> [heap EXCEPT ![m].used = FALSE],
                         lfree |-> IF m < lfree THEN m ELSE lfree], m)
    IN  /\ heap' = r.heap /\ lfree' = r.lfree
        /\ used_mem' = used_mem - (heap[m].next - m)

rt_free(m) == m \in Live /\ free(m) /\ UNCHANGED moving

\* rt_realloc splits a block in place when enough is left over ...
Shrinks(m, newsize) ==
    newsize + SIZEOF_STRUCT_MEM + MIN_SIZE_ALIGNED < DataSize(heap, m)

rt_realloc_shrink(m, newsize) ==
    /\ m \in Live /\ Shrinks(m, newsize)
    /\ LET n == m + SIZEOF_STRUCT_MEM + newsize
           r == plug_holes([heap |-> split(heap, m, n), lfree |-> lfree], n)
       IN  heap' = r.heap /\ lfree' = r.lfree
    /\ used_mem' = used_mem - (DataSize(heap, m) - newsize)
    /\ UNCHANGED moving

\* ... and otherwise, unless the size is the same, allocates a new block and
\* frees the old one once its data is copied.
rt_realloc_move(m, newsize) ==
    /\ m \in Live /\ newsize \in 1 .. mem_size_aligned
    /\ ~Shrinks(m, newsize) /\ newsize # DataSize(heap, m)
    /\ allocate(Asked(newsize))
    /\ moving' = moving \cup {m}

realloc_free(m) == m \in moving /\ free(m) /\ moving' = moving \ {m}

HeapNext ==
    \/ \E size \in Sizes : rt_malloc(size)
    \/ \E m \in DOMAIN heap :
          \/ rt_free(m)
          \/ \E size \in Sizes : rt_realloc_shrink(m, size) \/ rt_realloc_move(m, size)
          \/ realloc_free(m)

-----------------------------------------------------------------------------
(* Properties *)

\* The headers tile the heap: following next from 0 meets every header up to
\* heap_end, each block has room for its header, prev leads back, and no two
\* free blocks are neighbours (plug_holes, rt_malloc, rt_realloc, rt_free).
Tiled ==
    /\ {0, heap_end} \subseteq DOMAIN heap
    /\ \A m \in DOMAIN heap \ {heap_end} :
          LET n == heap[m].next
          IN  /\ n \in DOMAIN heap /\ DataSize(heap, m) >= 0
              /\ \A i \in DOMAIN heap : ~(m < i /\ i < n)
              /\ n # heap_end => heap[n].prev = m
              /\ heap[m].used \/ heap[n].used

\* rt_malloc starts its search at a header that exists and is free, or at the
\* end, whatever was merged with it meanwhile.
SearchStart == lfree \in DOMAIN heap /\ (~heap[lfree].used \/ lfree = heap_end)

\* A step takes one block, gives one back, or cuts one (rt_realloc): all other
\* used blocks stay where they are, and so do their ends; no step gives back a
\* block whose contents are still to be copied into the one it takes.
Held(h) == {<<m, h[m].next>> : m \in {i \in DOMAIN h : h[i].used}}
BlocksKept ==
    LET gone  == Held(heap) \ Held(heap')
        fresh == Held(heap') \ Held(heap)
    IN  Cardinality(gone) <= 1 /\ Cardinality(fresh) <= 1
        /\ \A g \in gone, f \in fresh : g[1] = f[1] /\ f[2] < g[2]

\* used_mem is what the used blocks take up, headers included.
UsedMemOK ==
    used_mem = MapThenSumSet(LAMBDA m : heap[m].next - m,
                             {m \in DOMAIN heap : heap[m].used /\ m # heap_end})
=============================================================================
