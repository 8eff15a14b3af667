---------------------------------- MODULE Pmm ----------------------------------
(***************************************************************************)
(* The page allocator in use: any sequence of its four calls, from any     *)
(* memory map the boot loader may report.  Nothing is ever given back.     *)
(***************************************************************************)
EXTENDS PmmOps

CONSTANTS
    MemoryMaps,    \* the memory maps considered: the usable regions reported,
                   \* with 64-bit bases and lengths
    MaxRegions,    \* MAX_USABLE_REGIONS
    MaxCount       \* bound on the length of a contiguous request

ASSUME MaxCountAssumption == MaxCount \in Nat

\* Variant: regions above 4 GB are kept, with the low half of their base.
StoredRegions_KeepsHigh(reported) ==
    [i \in 1..PageMin(Len(reported), MaxRegions) |->
        [base   |-> reported[i].base % AddrSpace,
         length |-> reported[i].length % AddrSpace]]

\* What is kept of a region that begins below 4 GB: cut there, in 32 bits.
Clipped(region) ==
    LET top == region.base + region.length
    IN  [base   |-> region.base,
         length |-> (IF top > AddrSpace THEN AddrSpace - region.base
                     ELSE region.length) % AddrSpace]

(* multiboot_parse: the regions that begin below 4 GB, as many as fit.     *)
StoredRegions(reported) ==
    LET kept[n \in 0..Len(reported)] ==
            IF n = 0 THEN <<>>
            ELSE IF reported[n].base >= AddrSpace \/ Len(kept[n - 1]) = MaxRegions
              THEN kept[n - 1]
            ELSE Append(kept[n - 1], Clipped(reported[n]))
    IN  kept[Len(reported)]

(* The highest end of a stored region.                                     *)
TopOfMemory(stored) ==
    LET ends == {0} \cup {EndOf(stored[r]) : r \in 1..Len(stored)}
    IN  CHOOSE e \in ends : \A f \in ends : f <= e

(* g_memory_map.top_of_memory is an address above MANAGED_BASE.            *)
ASSUME MapsAssumption ==
    \A m \in MemoryMaps : /\ TopOfMemory(StoredRegions(m)) \in Nat
                           /\ TopOfMemory(StoredRegions(m)) >= ManagedBase

(* The regions share no page and start on page boundaries, so that         *)
(* pmm_init counts each page once: what the boot loader reports.           *)
ASSUME RegularMaps ==
    \A m \in MemoryMaps :
        LET p == pmm_init(StoredRegions(m), TopOfMemory(StoredRegions(m)))
        IN  p.free_pages = Cardinality((0..(p.total_pages - 1)) \ p.used)

(* Memory that is managed comes in whole pages: a region that reaches      *)
(* beyond MANAGED_BASE begins, unless below it, and ends on a page         *)
(* boundary, as the boot loader reports usable memory.                     *)
ASSUME AlignedMaps ==
    \A m \in MemoryMaps :
        /\ m \in Seq([base : Nat, length : Nat])
        /\ \A i \in 1..Len(m) :
              LET top == m[i].base + m[i].length
              IN  top > ManagedBase =>
                     /\ (PageMax(m[i].base, ManagedBase) - ManagedBase) % PageSize = 0
                     /\ (top - ManagedBase) % PageSize = 0

VARIABLES
    reported,  \* the memory map of this machine
    pmm,       \* bitmap, free_pages and total_pages of pmm.c
    usable,    \* the pages pmm_init freed
    blocks     \* what callers hold: every [kind, start, count] handed out

vars == <<reported, pmm, usable, blocks>>

Init ==
    /\ reported \in MemoryMaps
    /\ pmm = pmm_init(StoredRegions(reported), TopOfMemory(StoredRegions(reported)))
    /\ usable = (0..(pmm.total_pages - 1)) \ pmm.used
    /\ blocks = {}

(* A caller keeps what it was given, or gets 0.                            *)
Take(kind, count, res) ==
    /\ pmm' = res.pmm
    /\ blocks' = IF res.ret = NoPage THEN blocks
                 ELSE blocks \cup {[kind |-> kind, start |-> res.ret, count |-> count]}
    /\ UNCHANGED <<reported, usable>>

AllocPage == Take("kernel", 1, pmm_alloc_page(pmm))

AllocContiguous ==
    \E n \in 0..MaxCount : Take("kernel", n, pmm_alloc_contiguous_pages(pmm, n))

AllocUserPage == Take("user", 1, pmm_alloc_user_page(pmm))

AllocContiguousUser ==
    \E n \in 0..MaxCount : Take("user", n, pmm_alloc_contiguous_user_pages(pmm, n))

Next == AllocPage \/ AllocContiguous \/ AllocUserPage \/ AllocContiguousUser

Spec == Init /\ [][Next]_vars

-----------------------------------------------------------------------------
TypeOK ==
    /\ pmm.total_pages \in Nat /\ pmm.free_pages \in Nat
    /\ pmm.used \subseteq 0..(pmm.total_pages - 1)
    /\ usable \subseteq 0..(pmm.total_pages - 1)
    /\ \A b \in blocks : b.kind \in {"kernel", "user"} /\ b.start \in Nat /\ b.count \in Nat

(* No page is handed out twice, whatever calls of the two regions and the  *)
(* single and contiguous scans interleave.                                 *)
BlocksDisjoint ==
    \A a, b \in blocks :
        a # b => Pages(a.start, a.count) \cap Pages(b.start, b.count) = {}

(* Every page handed out is a page of usable memory behind the kernel and  *)
(* the bitmap, and lies on its caller's side of USER_MEM_START: page       *)
(* tables must stay in the kernel region, user pages out of it.            *)
BlocksInRegion ==
    \A b \in blocks : \A p \in Pages(b.start, b.count) :
        /\ p \in usable
        /\ IF b.kind = "kernel" THEN p < KernelEnd ELSE p >= KernelEnd

(* A page that is handed out is memory the boot loader reported, whole and *)
(* below 4 GB, also where a region reaches or passes 4 GB and its end      *)
(* wraps (multiboot.c:109-128, pmm.c:52-68).                               *)
PagesReported ==
    \A b \in blocks : \A p \in Pages(b.start, b.count) :
        LET first == ManagedBase + p * PageSize
            last  == first + PageSize - 1
        IN  /\ last < AddrSpace
            /\ \E r \in 1..Len(reported) :
                  reported[r].base <= first /\ last < reported[r].base + reported[r].length

(* free_pages, which gates the contiguous calls, is the number of clear    *)
(* bits however single and contiguous calls mix.                           *)
FreeCountExact == pmm.free_pages = Cardinality(usable \ pmm.used)

(* A contiguous request is refused only when its region has no such run:   *)
(* the early test against free_pages, which counts both regions, never     *)
(* refuses what the scan would find.                                       *)
RefusedOnlyWithoutRun ==
    \A n \in 1..MaxCount :
        /\ pmm_alloc_contiguous_pages(pmm, n).ret = NoPage =>
               \A s \in usable : Pages(s, n) \subseteq (usable \ pmm.used) => s + n > KernelEnd
        /\ pmm_alloc_contiguous_user_pages(pmm, n).ret = NoPage =>
               \A s \in usable : Pages(s, n) \subseteq (usable \ pmm.used) => s < KernelEnd
=============================================================================
