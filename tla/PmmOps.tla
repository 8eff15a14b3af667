-------------------------------- MODULE PmmOps --------------------------------
(***************************************************************************)
(* The physical page allocator of mm/pmm.c as functions of its static      *)
(* state: a first-fit bitmap over two regions, kernel pages below          *)
(* USER_MEM_START and user pages above it.  Pages are named by their bit   *)
(* index; addresses are small integers with PageSize units to a page.      *)
(***************************************************************************)
EXTENDS Integers, FiniteSets, Sequences, SequencesExt

CONSTANTS
    AddrSpace,     \* 2^32: addresses wrap here
    PageSize,      \* address units per page
    ManagedBase,   \* MANAGED_BASE
    UserStart,     \* USER_MEM_START
    FirstFree      \* first_free: the end of the kernel image and the bitmap

ASSUME PmmAssumption ==
    /\ AddrSpace \in Nat \ {0} /\ PageSize \in Nat \ {0}
    /\ ManagedBase \in Nat /\ UserStart \in Nat /\ FirstFree \in Nat
    /\ ManagedBase <= FirstFree /\ ManagedBase <= UserStart

NoPage    == -1       \* the 0 an allocator returns
KernelEnd == (UserStart - ManagedBase) \div PageSize

PageMin(a, b) == IF a <= b THEN a ELSE b
PageMax(a, b) == IF a >= b THEN a ELSE b

\* Where a region ends: one that reaches the top of the address space at 0.
EndOf(region) == (region.base + region.length) % AddrSpace

(* The addresses one region's loop visits: from its clamped base in steps  *)
(* of a page, below its clamped end, at or above first_free.               *)
Visited(region, top) ==
    LET base == PageMax(region.base, ManagedBase)
        end  == PageMin(EndOf(region), top)
    IN  {addr \in base..(end - 1) : (addr - base) % PageSize = 0 /\ addr >= FirstFree}

PageOf(addr) == (addr - ManagedBase) \div PageSize

(* pmm_init: every bit set, then the bits of the usable regions cleared,   *)
(* counting each address visited.                                          *)
pmm_init(map, top) ==
    LET visits == [r \in 1..Len(map) |-> Visited(map[r], top)]
        freed  == UNION {{PageOf(a) : a \in visits[r]} : r \in 1..Len(map)}
        total  == (top - ManagedBase) \div PageSize
    IN  [total_pages |-> total,
         used        |-> (0..(total - 1)) \ freed,
         free_pages  |-> FoldSeq(LAMBDA v, n : n + Cardinality(v), 0, visits)]

Pages(start, count) == start..(start + count - 1)

\* Variant: the scan stops one run too late.
FreeRuns_PastEnd(m, lo, hi, count) ==
    {s \in lo..hi : s + count - 1 <= hi /\ Pages(s, count) \cap m.used = {}}

(* Starts of runs of count clear bits in [lo, hi).                         *)
FreeRuns(m, lo, hi, count) ==
    {s \in lo..(hi - 1) : s + count <= hi /\ Pages(s, count) \cap m.used = {}}

\* Variant: only the first page of a run is marked.
Alloc_MarksFirst(m, lo, hi, count) ==
    IF FreeRuns(m, lo, hi, count) = {} THEN [pmm |-> m, ret |-> NoPage]
    ELSE LET s == CHOOSE s \in FreeRuns(m, lo, hi, count) :
                      \A r \in FreeRuns(m, lo, hi, count) : s <= r
         IN  [pmm |-> [m EXCEPT !.used = @ \cup {s}, !.free_pages = @ - count], ret |-> s]

\* Variant: the page count is lowered once per call.
Alloc_CountsCalls(m, lo, hi, count) ==
    IF FreeRuns(m, lo, hi, count) = {} THEN [pmm |-> m, ret |-> NoPage]
    ELSE LET s == CHOOSE s \in FreeRuns(m, lo, hi, count) :
                      \A r \in FreeRuns(m, lo, hi, count) : s <= r
         IN  [pmm |-> [m EXCEPT !.used = @ \cup Pages(s, count), !.free_pages = @ - 1],
              ret |-> s]

(* The scan both kinds of allocator share: the lowest run is marked and    *)
(* taken off the count.                                                    *)
Alloc(m, lo, hi, count) ==
    IF FreeRuns(m, lo, hi, count) = {} THEN [pmm |-> m, ret |-> NoPage]
    ELSE LET s == CHOOSE s \in FreeRuns(m, lo, hi, count) :
                      \A r \in FreeRuns(m, lo, hi, count) : s <= r
         IN  [pmm |-> [m EXCEPT !.used = @ \cup Pages(s, count),
                                !.free_pages = @ - count],
              ret |-> s]

KernelLimit(m) == PageMin(KernelEnd, m.total_pages)

pmm_alloc_page(m) == Alloc(m, 0, KernelLimit(m), 1)

\* Variant: the limit of the kernel region is left out.
pmm_alloc_contiguous_pages_NoLimit(m, count) ==
    IF count = 0 \/ count > m.free_pages THEN [pmm |-> m, ret |-> NoPage]
    ELSE Alloc(m, 0, m.total_pages, count)

pmm_alloc_contiguous_pages(m, count) ==
    IF count = 0 \/ count > m.free_pages THEN [pmm |-> m, ret |-> NoPage]
    ELSE Alloc(m, 0, KernelLimit(m), count)

pmm_alloc_user_page(m) == Alloc(m, KernelEnd, m.total_pages, 1)

pmm_alloc_contiguous_user_pages(m, count) ==
    IF count = 0 \/ count > m.free_pages THEN [pmm |-> m, ret |-> NoPage]
    ELSE Alloc(m, KernelEnd, m.total_pages, count)
=============================================================================
