--------------------------------- MODULE KHeap ---------------------------------
(***************************************************************************)
(* The kernel heap of mm/kheap.c on top of the page allocator: a first-fit *)
(* list of free blocks, splitting, and coalescing within a page.           *)
(*                                                                         *)
(* Sizes and addresses count units of ALIGN bytes, so a header is one unit *)
(* and MIN_BLOCK_SIZE two.  Memory holds a header at the start of every    *)
(* block; everything else in the heap is its callers' data.                *)
(***************************************************************************)
EXTENDS PmmOps

CONSTANTS
    MemTop,          \* top of usable memory
    HeapInitPages,   \* HEAP_INIT_PAGES
    ExpandPages,     \* EXPAND_PAGES
    MaxHeapPages,    \* MAX_HEAP_PAGES
    Sizes,           \* request sizes considered, in units
    MaxHeld          \* bound on the blocks held at a time

HeaderSize == 1
MinBlock   == 2

(* Managed memory begins on a page boundary; a page has room for blocks.   *)
ASSUME HeapAssumption ==
    /\ ManagedBase % PageSize = 0 /\ PageSize >= MinBlock
    /\ MemTop \in Nat /\ MemTop >= ManagedBase
    /\ {HeapInitPages, ExpandPages} \subseteq Nat \ {0} /\ MaxHeapPages \in Nat
    /\ Sizes \subseteq Nat

VARIABLES
    pmm,          \* the page allocator
    hdr,          \* the block headers, by address
    free_list,    \* addresses of the blocks from free_head on
    heap_pages,   \* pages of the heap
    held,         \* blocks not yet freed, with the size each caller asked for
    wild          \* a walk met something that is no header

vars == <<pmm, hdr, free_list, heap_pages, held, wild>>

heapVars == <<hdr, free_list>>

PageStart(a) == a - (a % PageSize)
PageEnd(a)   == PageStart(a) + PageSize

Heap == [pmm |-> pmm, hdr |-> hdr, list |-> free_list, pages |-> heap_pages]

\* fl_insert and fl_remove.
fl_insert(h, b) == [h EXCEPT !.hdr[b].free = TRUE, !.list = <<b>> \o @]
fl_remove(h, b) == [h EXCEPT !.list = RemoveFirst(@, b)]

Without(f, a) == [x \in DOMAIN f \ {a} |-> f[x]]
With(f, a, v) == [x \in DOMAIN f \cup {a} |-> IF x = a THEN v ELSE f[x]]

\* b absorbs the block c, whose header is data from then on.
Merged(f, b, c) == Without([f EXCEPT ![b].size = @ + f[c].size], c)

(* A run of count pages from the page allocator becomes one free block.    *)
AddRun(h, count) ==
    LET run  == pmm_alloc_contiguous_pages(h.pmm, count)
        base == ManagedBase + run.ret * PageSize
        size == count * PageSize
    IN  IF run.ret = NoPage THEN [ok |-> FALSE, heap |-> h]
        ELSE [ok |-> TRUE,
              heap |-> fl_insert([h EXCEPT !.pmm = run.pmm,
                                           !.hdr = With(@, base, [size |-> size, free |-> TRUE]),
                                           !.pages = @ \cup Pages(run.ret, count)], base)]

(* kheap_init; on failure the heap starts empty.                           *)
Init ==
    LET map   == <<[base |-> ManagedBase, length |-> MemTop - ManagedBase]>>
        empty == [pmm |-> pmm_init(map, MemTop), hdr |-> <<>>, list |-> <<>>, pages |-> {}]
        h     == AddRun(empty, HeapInitPages).heap
    IN  /\ pmm = h.pmm /\ hdr = h.hdr /\ free_list = h.list /\ heap_pages = h.pages
        /\ held = <<>> /\ wild = FALSE

heap_expand(h) ==
    IF Cardinality(h.pages) + ExpandPages > MaxHeapPages THEN [ok |-> FALSE, heap |-> h]
    ELSE AddRun(h, ExpandPages)

-----------------------------------------------------------------------------
\* Variant: no room is made for the header.
Needed_NoHeader(size) == PageMax(size % AddrSpace, MinBlock)

(* Both sums of kmalloc wrap: a size near the top of the address space     *)
(* comes out as the least block.                                           *)
Needed(size) == PageMax(((size % AddrSpace) + HeaderSize) % AddrSpace, MinBlock)

Fits(h, needed) == {i \in 1..Len(h.list) : h.hdr[h.list[i]].size >= needed}

\* Variant: a remainder too small for the list pointers is split off too.
Take_SplitsTooSmall(h, b, needed) ==
    LET size == h.hdr[b].size
        r    == b + needed
    IN  IF size - needed >= MinBlock - 1
          THEN [h EXCEPT !.hdr = With(With(@, r, [size |-> size - needed, free |-> TRUE]),
                                      b, [size |-> needed, free |-> FALSE]),
                         !.list = [i \in DOMAIN @ |-> IF @[i] = b THEN r ELSE @[i]]]
          ELSE [fl_remove(h, b) EXCEPT !.hdr[b].free = FALSE]

\* Variant: the block keeps its old size when split.
Take_KeepsSize(h, b, needed) ==
    LET size == h.hdr[b].size
        r    == b + needed
    IN  IF size - needed >= MinBlock
          THEN [h EXCEPT !.hdr = With(With(@, r, [size |-> size - needed, free |-> TRUE]),
                                      b, [size |-> size, free |-> FALSE]),
                         !.list = [i \in DOMAIN @ |-> IF @[i] = b THEN r ELSE @[i]]]
          ELSE [fl_remove(h, b) EXCEPT !.hdr[b].free = FALSE]

(* The chosen block is split, its remainder taking its place in the list,  *)
(* unless the remainder could not hold a header and the list pointers.     *)
Take(h, b, needed) ==
    LET size == h.hdr[b].size
        r    == b + needed
    IN  IF size - needed >= MinBlock
          THEN [h EXCEPT !.hdr = With(With(@, r, [size |-> size - needed, free |-> TRUE]),
                                      b, [size |-> needed, free |-> FALSE]),
                         !.list = [i \in DOMAIN @ |-> IF @[i] = b THEN r ELSE @[i]]]
          ELSE [fl_remove(h, b) EXCEPT !.hdr[b].free = FALSE]

(* One more try of kmalloc, which expands the heap when nothing fits and   *)
(* gives up when that fails.                                               *)
Retry(g, needed) ==
    IF Fits(g.heap, needed) # {} \/ ~g.ok THEN g ELSE heap_expand(g.heap)

(* The heap after as many tries as it can grow.                            *)
Grown(h, needed) ==
    LET tries == MaxHeapPages \div ExpandPages + 1
        try[n \in 0..tries] == IF n = 0 THEN [ok |-> TRUE, heap |-> h]
                               ELSE Retry(try[n - 1], needed)
    IN  try[tries].heap

(* kmalloc: first fit, or expand and look again for as long as the heap    *)
(* can grow.                                                               *)
kmalloc(size) ==
    /\ ~wild /\ Cardinality(DOMAIN held) < MaxHeld
    /\ LET needed  == Needed(size)
           h       == Grown(Heap, needed)
           fits    == Fits(h, needed)
           b       == h.list[CHOOSE i \in fits : \A j \in fits : i <= j]
           after   == IF fits = {} THEN h ELSE Take(h, b, needed)
       IN  /\ pmm' = after.pmm /\ hdr' = after.hdr /\ free_list' = after.list
           /\ heap_pages' = after.pages
           /\ held' = IF fits = {} THEN held ELSE With(held, b, size)
    /\ UNCHANGED wild

-----------------------------------------------------------------------------
\* Variant: the absorbed block stays in the free list.
coalesce_forward_KeepsListed(h, b) ==
    LET next == b + h.hdr[b].size
    IN  IF next >= PageEnd(b) \/ ~h.hdr[next].free THEN h
        ELSE [h EXCEPT !.hdr = Merged(@, b, next)]

(* coalesce_forward: b absorbs a free block behind it within its page.     *)
coalesce_forward(h, b) ==
    LET next == b + h.hdr[b].size
        gone == fl_remove(h, next)
    IN  IF next >= PageEnd(b) \/ ~h.hdr[next].free THEN h
        ELSE [gone EXCEPT !.hdr = Merged(@, b, next)]

(* coalesce_backward looks for the block before b by walking the sizes     *)
(* from the start of b's page.  The walk stays on headers if it starts on  *)
(* one.                                                                    *)
WalkIsWild(h, b) == PageStart(b) \notin DOMAIN h.hdr

Before(h, b) ==
    {p \in DOMAIN h.hdr : PageStart(p) = PageStart(b) /\ p + h.hdr[p].size = b}

coalesce_backward(h, b) ==
    LET mergers == {p \in Before(h, b) : h.hdr[p].free}
    IN  IF b = PageStart(b) \/ mergers = {} THEN fl_insert(h, b)
        ELSE LET prev == CHOOSE p \in mergers : TRUE
             IN  [h EXCEPT !.hdr = Merged(@, prev, b)]

(* kfree of a block its caller holds.  What a walk over data does (hang,   *)
(* stop, write into the data) is not followed further.                     *)
kfree(b) ==
    /\ ~wild
    /\ b \in DOMAIN held
    /\ LET h == coalesce_forward([Heap EXCEPT !.hdr[b].free = TRUE], b)
       IN  IF WalkIsWild(h, b)
             THEN /\ wild' = TRUE
                  /\ UNCHANGED heapVars
             ELSE /\ hdr' = coalesce_backward(h, b).hdr
                  /\ free_list' = coalesce_backward(h, b).list
                  /\ UNCHANGED wild
    /\ held' = Without(held, b)
    /\ UNCHANGED <<pmm, heap_pages>>

(* Another part of the kernel takes a page.                                *)
OtherPage ==
    /\ ~wild
    /\ pmm' = pmm_alloc_page(pmm).pmm
    /\ UNCHANGED <<hdr, free_list, heap_pages, held, wild>>

Next ==
    \/ \E size \in Sizes : kmalloc(size)
    \/ \E b \in DOMAIN held : kfree(b)
    \/ OtherPage

Spec == Init /\ [][Next]_vars

-----------------------------------------------------------------------------
Blocks  == DOMAIN hdr
Span(b) == b..(b + hdr[b].size - 1)
Units   == UNION {(ManagedBase + p * PageSize)..(ManagedBase + (p + 1) * PageSize - 1) :
                    p \in heap_pages}

(* However allocations, frees and expansions interleave, the blocks tile   *)
(* the pages of the heap: none overlaps another, none is lost.             *)
BlocksTile ==
    ~wild => /\ UNION {Span(b) : b \in Blocks} = Units
             /\ \A a, b \in Blocks : a # b => Span(a) \cap Span(b) = {}

(* The free list holds each free block once and nothing its callers hold:  *)
(* a block is never handed out twice.                                      *)
FreeListExact ==
    ~wild => /\ {free_list[i] : i \in 1..Len(free_list)} = {b \in Blocks : hdr[b].free}
             /\ Len(free_list) = Cardinality({b \in Blocks : hdr[b].free})
             /\ DOMAIN held = {b \in Blocks : ~hdr[b].free}

(* Every block has room for its header and the two list pointers, so       *)
(* linking a free block never writes over its neighbour's header.          *)
PointersFit == \A b \in Blocks : hdr[b].size >= MinBlock

(* The heap is an allocator (kheap.c:168-231): no two callers share a unit *)
(* of memory, each has the units it asked for behind a header, below the   *)
(* user region, and no call for another block moves, resizes or frees it.  *)
(* From MaxRequest on kmalloc's sum wraps, and the block may be too small. *)
MaxRequest == AddrSpace - HeaderSize - 1
Chunks == {[first |-> b, last |-> b + hdr[b].size - 1, asked |-> held[b]] : b \in DOMAIN held}
Callers == INSTANCE Allocator WITH chunks <- Chunks, Memory <- ManagedBase..(UserStart - 1)
ImplementsAllocator == Callers!Spec

(* kheap.h:10-12: every heap page starts with a valid block header, and    *)
(* the backward walk goes from there through the size chain.               *)
WalksFollowHeaders == ~wild
=============================================================================
