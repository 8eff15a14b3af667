------------------------------- MODULE PmmProofs -------------------------------
(***************************************************************************)
(* The page allocator never hands out a page twice, for every memory map,  *)
(* page size and layout of the managed range.                              *)
(***************************************************************************)
EXTENDS Pmm, PmmOpsProofs, FiniteSetTheorems, SequenceTheorems, TLAPS

(* A page a caller holds has its bit set, and every clear bit is a page    *)
(* that pmm_init freed.                                                    *)
Covered ==
    /\ \A b \in blocks : Pages(b.start, b.count) \subseteq pmm.used
    /\ (0..(pmm.total_pages - 1)) \ pmm.used \subseteq usable

Record ==
    /\ pmm = [total_pages |-> pmm.total_pages, used |-> pmm.used,
              free_pages |-> pmm.free_pages]
    /\ pmm.total_pages \in Int

IInv == Record /\ Covered /\ BlocksDisjoint /\ BlocksInRegion

-----------------------------------------------------------------------------
(* pmm_init hands nothing out.                                             *)
LEMMA InitIInv == Init => IInv
<1> SUFFICES ASSUME Init PROVE IInv
  OBVIOUS
<1>1. PICK map : map = StoredRegions(reported)
  OBVIOUS
<1>2. PICK top : top = TopOfMemory(map)
  OBVIOUS
<1>3. blocks = {} /\ usable = (0..(pmm.total_pages - 1)) \ pmm.used
  BY DEF Init
<1>4. ((top - ManagedBase) \div PageSize) \in Int
  <2>1. reported \in MemoryMaps
    BY DEF Init
  <2>2. top \in Nat
    BY <1>1, <1>2, <2>1, MapsAssumption, Zenon
  <2> QED
    BY <2>2, PmmAssumption, SMT
<1>5. Record
  <2>1. pmm = pmm_init(map, top)
    BY <1>1, <1>2 DEF Init
  <2>2. PICK u, f : pmm = [total_pages |-> (top - ManagedBase) \div PageSize,
                           used |-> u, free_pages |-> f]
    BY <2>1, Zenon DEF pmm_init
  <2> QED
    BY <2>2, <1>4 DEF Record
<1> QED
  BY <1>3, <1>5 DEF IInv, Covered, BlocksDisjoint, BlocksInRegion

(* One granted request: the block is new, usable, and on its own side.     *)
LEMMA GrantStep ==
    ASSUME IInv, NEW kind \in {"kernel", "user"}, NEW lo \in Nat, NEW hi \in Int,
           NEW n \in Nat,
           hi <= pmm.total_pages,
           IF kind = "kernel" THEN hi <= KernelEnd ELSE lo >= KernelEnd,
           Take(kind, n, Alloc(pmm, lo, hi, n))
    PROVE  IInv'
<1>1. CASE Alloc(pmm, lo, hi, n).ret = NoPage
  <2>1. UNCHANGED vars
    BY <1>1, AllocRefused DEF Take, vars
  <2> QED
    BY <2>1 DEF vars, IInv, Record, Covered, BlocksDisjoint, BlocksInRegion
<1>2. CASE Alloc(pmm, lo, hi, n).ret # NoPage
  <2>1. PICK s : s = Alloc(pmm, lo, hi, n).ret
    OBVIOUS
  <2>2. PICK r : r = Alloc(pmm, lo, hi, n)
    OBVIOUS
  <2>3. /\ s \in FreeRuns(pmm, lo, hi, n)
        /\ r.pmm = [total_pages |-> pmm.total_pages, used |-> pmm.used \cup Pages(s, n),
                    free_pages |-> pmm.free_pages - n]
    BY <1>2, <2>1, <2>2, AllocSpec DEF IInv, Record
  <2>4. /\ s \in Nat /\ lo <= s /\ s + n <= hi
        /\ Pages(s, n) \cap pmm.used = {}
    BY <2>3 DEF FreeRuns
  <2>5. /\ pmm' = r.pmm
        /\ blocks' = blocks \cup {[kind |-> kind, start |-> s, count |-> n]}
        /\ usable' = usable
    BY <1>2, <2>1, <2>2 DEF Take
  <2>6. /\ pmm'.used = pmm.used \cup Pages(s, n)
        /\ pmm'.total_pages = pmm.total_pages
        /\ Record'
    BY <2>3, <2>5 DEF IInv, Record
  <2>7. \A p \in Pages(s, n) : p \in Nat /\ lo <= p /\ p < hi /\ p \in 0..(pmm.total_pages - 1)
    BY <2>4 DEF Pages, IInv, Record
  <2>8. Pages(s, n) \subseteq usable
    BY <2>4, <2>7 DEF IInv, Covered
  <2>9. Covered'
    BY <2>5, <2>6 DEF IInv, Covered
  <2>10. BlocksDisjoint'
    BY <2>4, <2>5 DEF IInv, Covered, BlocksDisjoint
  <2>11. BlocksInRegion'
    <3>1. ASSUME NEW p \in Pages(s, n)
          PROVE  IF kind = "kernel" THEN p < KernelEnd ELSE p >= KernelEnd
      BY <2>4, <2>7, KernelEndNat
    <3>2. ASSUME NEW b \in blocks', NEW p \in Pages(b.start, b.count)
          PROVE  p \in usable /\ IF b.kind = "kernel" THEN p < KernelEnd ELSE p >= KernelEnd
      <4>1. CASE b \in blocks
        BY <4>1 DEF IInv, BlocksInRegion
      <4>2. CASE b = [kind |-> kind, start |-> s, count |-> n]
        BY <2>8, <3>1, <3>2, <4>2
      <4> QED
        BY <2>5, <4>1, <4>2
    <3> QED
      BY <2>5, <3>2 DEF BlocksInRegion
  <2> QED
    BY <2>6, <2>9, <2>10, <2>11 DEF IInv
<1> QED
  BY <1>1, <1>2

(* A contiguous call refused before its scan changes nothing.              *)
LEMMA RefusedStep ==
    ASSUME IInv, NEW kind, NEW n, Take(kind, n, [pmm |-> pmm, ret |-> NoPage])
    PROVE  IInv'
BY DEF Take, IInv, Record, Covered, BlocksDisjoint, BlocksInRegion

(* Each of the four calls scans within its own region.                     *)
LEMMA IInvStep == IInv /\ [Next]_vars => IInv'
<1> SUFFICES ASSUME IInv, [Next]_vars PROVE IInv'
  OBVIOUS
<1>1. /\ KernelEnd \in Nat /\ KernelLimit(pmm) \in Int
      /\ KernelLimit(pmm) <= KernelEnd /\ KernelLimit(pmm) <= pmm.total_pages
      /\ pmm.total_pages \in Int /\ MaxCount \in Nat
  BY KernelEndNat, MaxCountAssumption DEF KernelLimit, PageMin, IInv, Record
<1>2. CASE AllocPage
  BY <1>1, <1>2, GrantStep DEF AllocPage, pmm_alloc_page
<1>3. CASE AllocContiguous
  <2>1. PICK n \in 0..MaxCount : Take("kernel", n, pmm_alloc_contiguous_pages(pmm, n))
    BY <1>3 DEF AllocContiguous
  <2>2. CASE n = 0 \/ n > pmm.free_pages
    BY <2>1, <2>2, RefusedStep DEF pmm_alloc_contiguous_pages
  <2>3. CASE ~(n = 0 \/ n > pmm.free_pages)
    BY <1>1, <2>1, <2>3, GrantStep DEF pmm_alloc_contiguous_pages
  <2> QED
    BY <2>2, <2>3
<1>4. CASE AllocUserPage
  BY <1>1, <1>4, GrantStep DEF AllocUserPage, pmm_alloc_user_page
<1>5. CASE AllocContiguousUser
  <2>1. PICK n \in 0..MaxCount : Take("user", n, pmm_alloc_contiguous_user_pages(pmm, n))
    BY <1>5 DEF AllocContiguousUser
  <2>2. CASE n = 0 \/ n > pmm.free_pages
    BY <2>1, <2>2, RefusedStep DEF pmm_alloc_contiguous_user_pages
  <2>3. CASE ~(n = 0 \/ n > pmm.free_pages)
    BY <1>1, <2>1, <2>3, GrantStep DEF pmm_alloc_contiguous_user_pages
  <2> QED
    BY <2>2, <2>3
<1>6. CASE UNCHANGED vars
  BY <1>6 DEF vars, IInv, Record, Covered, BlocksDisjoint, BlocksInRegion
<1> QED
  BY <1>2, <1>3, <1>4, <1>5, <1>6 DEF Next

-----------------------------------------------------------------------------
(* pmm.c never hands out a page twice, single or contiguous, kernel or     *)
(* user, in whatever order the calls come.                                 *)
THEOREM NoPageTwice == Spec => []BlocksDisjoint
<1>1. IInv => BlocksDisjoint
  BY DEF IInv
<1> QED
  BY <1>1, InitIInv, IInvStep, PTL DEF Spec

(* Every page it hands out is usable memory on its caller's side of        *)
(* USER_MEM_START, so page tables and user pages never mix.                *)
THEOREM PagesOnTheirSide == Spec => []BlocksInRegion
<1>1. IInv => BlocksInRegion
  BY DEF IInv
<1> QED
  BY <1>1, InitIInv, IInvStep, PTL DEF Spec

-----------------------------------------------------------------------------
(* The counter.                                                            *)

\* The pages still to be handed out.
Left == usable \ pmm.used

CInv == IInv /\ usable \subseteq 0..(pmm.total_pages - 1) /\ FreeCountExact

LEMMA LeftFinite ==
    ASSUME IInv, usable \subseteq 0..(pmm.total_pages - 1)
    PROVE  IsFiniteSet(Left) /\ Cardinality(Left) \in Nat
<1>1. pmm.total_pages - 1 \in Int
  BY DEF IInv, Record
<1>2. IsFiniteSet(0..(pmm.total_pages - 1))
  BY <1>1, FS_Interval
<1>3. Left \in SUBSET (0..(pmm.total_pages - 1))
  BY DEF Left
<1> QED
  BY <1>2, <1>3, FS_Subset, FS_CardinalityType

(* A run of pages has as many pages as it is long.                         *)
LEMMA PagesCount ==
    ASSUME NEW s \in Nat, NEW n \in Nat
    PROVE  IsFiniteSet(Pages(s, n)) /\ Cardinality(Pages(s, n)) = n
<1>1. s + n - 1 \in Int
  OBVIOUS
<1>2. /\ IsFiniteSet(s..(s + n - 1))
      /\ Cardinality(s..(s + n - 1)) = IF s > s + n - 1 THEN 0 ELSE s + n - 1 - s + 1
  BY <1>1, FS_Interval
<1>3. (IF s > s + n - 1 THEN 0 ELSE s + n - 1 - s + 1) = n
  OBVIOUS
<1> QED
  BY <1>2, <1>3 DEF Pages

LEMMA InitCInv == Init => CInv
<1> SUFFICES ASSUME Init PROVE CInv
  OBVIOUS
<1>1. IInv
  BY InitIInv
<1>2. usable = (0..(pmm.total_pages - 1)) \ pmm.used
  BY DEF Init
<1>3. pmm.free_pages = Cardinality((0..(pmm.total_pages - 1)) \ pmm.used)
  BY RegularMaps, Zenon DEF Init
<1>4. usable \ pmm.used = (0..(pmm.total_pages - 1)) \ pmm.used
  BY <1>2
<1> QED
  BY <1>1, <1>2, <1>3, <1>4 DEF CInv, FreeCountExact

(* A grant takes off the counter what it takes out of the free pages.      *)
LEMMA GrantCounts ==
    ASSUME CInv, IInv', NEW kind, NEW lo \in Nat, NEW hi \in Int, NEW n \in Nat,
           hi <= pmm.total_pages,
           Take(kind, n, Alloc(pmm, lo, hi, n))
    PROVE  CInv'
<1>1. IInv /\ usable \subseteq 0..(pmm.total_pages - 1) /\ FreeCountExact
  BY DEF CInv
<1>2. usable' = usable
  BY DEF Take
<1>3. CASE Alloc(pmm, lo, hi, n).ret = NoPage
  <2>1. pmm' = pmm
    BY <1>3, AllocRefused DEF Take
  <2> QED
    BY <1>1, <1>2, <2>1 DEF CInv, FreeCountExact
<1>4. CASE Alloc(pmm, lo, hi, n).ret # NoPage
  <2>1. PICK r : r = Alloc(pmm, lo, hi, n)
    OBVIOUS
  <2>2. PICK s : s = r.ret
    OBVIOUS
  <2>3. /\ s \in FreeRuns(pmm, lo, hi, n)
        /\ r.pmm = [total_pages |-> pmm.total_pages, used |-> pmm.used \cup Pages(s, n),
                    free_pages |-> pmm.free_pages - n]
    BY <1>1, <1>4, <2>1, <2>2, AllocSpec DEF IInv, Record
  <2>4. pmm' = r.pmm
    BY <2>1 DEF Take
  <2>5. /\ s \in Nat /\ lo <= s /\ s + n <= hi /\ Pages(s, n) \cap pmm.used = {}
        /\ pmm.total_pages \in Int
    BY <1>1, <2>3 DEF FreeRuns, IInv, Record
  <2>6. Pages(s, n) \subseteq Left
    <3>1. \A p \in Pages(s, n) : p \in 0..(pmm.total_pages - 1) /\ p \notin pmm.used
      BY <2>5 DEF Pages
    <3> QED
      BY <3>1, <1>1 DEF IInv, Covered, Left
  <2>7. usable' \ pmm'.used = Left \ Pages(s, n) /\ Left \cap Pages(s, n) = Pages(s, n)
    BY <1>2, <2>3, <2>4, <2>6 DEF Left
  <2>8. IsFiniteSet(Left) /\ Cardinality(Left) = pmm.free_pages /\ Cardinality(Left) \in Nat
    BY <1>1, LeftFinite DEF FreeCountExact, Left
  <2>9. Cardinality(Left \ Pages(s, n)) = Cardinality(Left) - Cardinality(Left \cap Pages(s, n))
    BY <2>8, FS_Difference
  <2>10. Cardinality(Pages(s, n)) = n
    BY <2>5, PagesCount
  <2>11. FreeCountExact'
    <3>1. pmm'.free_pages = pmm.free_pages - n
      BY <2>3, <2>4
    <3>2. Cardinality(usable' \ pmm'.used) = pmm.free_pages - n
      BY <2>7, <2>8, <2>9, <2>10
    <3> QED
      BY <3>1, <3>2 DEF FreeCountExact
  <2>12. pmm'.total_pages = pmm.total_pages
    BY <2>3, <2>4
  <2> QED
    BY <1>1, <1>2, <2>11, <2>12 DEF CInv
<1> QED
  BY <1>3, <1>4

LEMMA RefusedCounts ==
    ASSUME CInv, IInv', NEW kind, NEW n, Take(kind, n, [pmm |-> pmm, ret |-> NoPage])
    PROVE  CInv'
BY DEF Take, CInv, FreeCountExact

LEMMA CInvStep == CInv /\ [Next]_vars => CInv'
<1> SUFFICES ASSUME CInv, [Next]_vars PROVE CInv'
  OBVIOUS
<1>1. IInv /\ IInv'
  BY IInvStep DEF CInv
<1>2. /\ KernelEnd \in Nat /\ KernelLimit(pmm) \in Int
      /\ KernelLimit(pmm) <= pmm.total_pages
      /\ pmm.total_pages \in Int /\ pmm.total_pages <= pmm.total_pages /\ MaxCount \in Nat
  BY <1>1, KernelEndNat, MaxCountAssumption DEF KernelLimit, PageMin, IInv, Record
<1>3. CASE AllocPage
  BY <1>1, <1>2, <1>3, GrantCounts DEF AllocPage, pmm_alloc_page
<1>4. CASE AllocContiguous
  <2>1. PICK n \in 0..MaxCount : Take("kernel", n, pmm_alloc_contiguous_pages(pmm, n))
    BY <1>4 DEF AllocContiguous
  <2>2. CASE n = 0 \/ n > pmm.free_pages
    BY <1>1, <2>1, <2>2, RefusedCounts DEF pmm_alloc_contiguous_pages
  <2>3. CASE ~(n = 0 \/ n > pmm.free_pages)
    BY <1>1, <1>2, <2>1, <2>3, GrantCounts DEF pmm_alloc_contiguous_pages
  <2> QED
    BY <2>2, <2>3
<1>5. CASE AllocUserPage
  BY <1>1, <1>2, <1>5, GrantCounts DEF AllocUserPage, pmm_alloc_user_page
<1>6. CASE AllocContiguousUser
  <2>1. PICK n \in 0..MaxCount : Take("user", n, pmm_alloc_contiguous_user_pages(pmm, n))
    BY <1>6 DEF AllocContiguousUser
  <2>2. CASE n = 0 \/ n > pmm.free_pages
    BY <1>1, <2>1, <2>2, RefusedCounts DEF pmm_alloc_contiguous_user_pages
  <2>3. CASE ~(n = 0 \/ n > pmm.free_pages)
    BY <1>1, <1>2, <2>1, <2>3, GrantCounts DEF pmm_alloc_contiguous_user_pages
  <2> QED
    BY <2>2, <2>3
<1>7. CASE UNCHANGED vars
  BY <1>1, <1>7 DEF vars, CInv, FreeCountExact
<1> QED
  BY <1>3, <1>4, <1>5, <1>6, <1>7 DEF Next

LEMMA SpecCInv == Spec => []CInv
  BY InitCInv, CInvStep, PTL DEF Spec

(* free_pages stays the number of clear bits through every mix of single   *)
(* and contiguous calls, on every regular memory map (pmm.c:84-170).       *)
THEOREM FreeCountStaysExact == Spec => []FreeCountExact
<1>1. CInv => FreeCountExact
  BY DEF CInv
<1> QED
  BY <1>1, SpecCInv, PTL

(* A scan that finds nothing had nothing to find.                          *)
LEMMA NoPageNoRun ==
    ASSUME NEW m, NEW lo \in Nat, NEW hi \in Int, NEW n \in Nat,
           Alloc(m, lo, hi, n).ret = NoPage
    PROVE  FreeRuns(m, lo, hi, n) = {}
<1> SUFFICES ASSUME FreeRuns(m, lo, hi, n) # {} PROVE FALSE
  OBVIOUS
<1>1. FreeRuns(m, lo, hi, n) \subseteq Nat
  BY DEF FreeRuns
<1>2. \E s \in FreeRuns(m, lo, hi, n) : \A r \in FreeRuns(m, lo, hi, n) : s <= r
  BY <1>1, LeastNat
<1>3. Alloc(m, lo, hi, n).ret \in FreeRuns(m, lo, hi, n)
  BY <1>2, Zenon DEF Alloc
<1> QED
  BY <1>1, <1>3 DEF NoPage

(* A run of free pages between the limits is found by the scan.            *)
LEMMA RunIsFound ==
    ASSUME CInv, NEW s \in usable, NEW n \in Nat \ {0}, Pages(s, n) \subseteq Left,
           NEW lo \in Nat, NEW hi \in Int, lo <= s, s + n <= hi
    PROVE  n <= pmm.free_pages /\ Alloc(pmm, lo, hi, n).ret # NoPage
<1>1. IInv /\ usable \subseteq 0..(pmm.total_pages - 1) /\ FreeCountExact
  BY DEF CInv
<1>2. s \in Nat
  BY <1>1
<1>3. IsFiniteSet(Left) /\ Cardinality(Left) = pmm.free_pages
  BY <1>1, LeftFinite DEF FreeCountExact, Left
<1>4. Cardinality(Pages(s, n)) = n
  BY <1>2, PagesCount
<1>5. Cardinality(Pages(s, n)) <= Cardinality(Left)
  BY <1>3, FS_Subset
<1>6. s \in FreeRuns(pmm, lo, hi, n)
  <2>1. s \in lo..(hi - 1)
    BY <1>2
  <2>2. Pages(s, n) \cap pmm.used = {}
    BY DEF Left
  <2> QED
    BY <2>1, <2>2 DEF FreeRuns
<1>7. Alloc(pmm, lo, hi, n).ret # NoPage
  BY <1>6, NoPageNoRun
<1> QED
  BY <1>3, <1>4, <1>5, <1>7

(* A contiguous request is refused only when its region has no such run,   *)
(* on every regular map: the early test against free_pages is harmless     *)
(* because the counter is exact (pmm.c:96-170).                            *)
THEOREM RefusedOnlyWithoutRunHolds == Spec => []RefusedOnlyWithoutRun
<1>1. CInv => RefusedOnlyWithoutRun
  <2> SUFFICES ASSUME CInv, NEW n \in 1..MaxCount, NEW s \in usable,
                      Pages(s, n) \subseteq usable \ pmm.used
               PROVE  /\ pmm_alloc_contiguous_pages(pmm, n).ret = NoPage => s + n > KernelEnd
                      /\ pmm_alloc_contiguous_user_pages(pmm, n).ret = NoPage => s < KernelEnd
    BY Zenon DEF RefusedOnlyWithoutRun
  <2>1. Pages(s, n) \subseteq Left
    BY DEF Left
  <2>2. /\ usable \subseteq 0..(pmm.total_pages - 1) /\ pmm.total_pages \in Int
        /\ KernelEnd \in Nat /\ n \in Nat \ {0} /\ s \in Nat
    BY KernelEndNat, MaxCountAssumption DEF CInv, IInv, Record
  <2>3. s + n <= pmm.total_pages
    <3>1. s + n - 1 \in Pages(s, n)
      BY <2>2 DEF Pages
    <3>2. s + n - 1 \in 0..(pmm.total_pages - 1)
      BY <2>2, <3>1
    <3> QED
      BY <2>2, <3>2
  <2>4. ASSUME s + n <= KernelEnd PROVE pmm_alloc_contiguous_pages(pmm, n).ret # NoPage
    <3>1. KernelLimit(pmm) \in Int /\ s + n <= KernelLimit(pmm)
      BY <2>2, <2>3, <2>4 DEF KernelLimit, PageMin
    <3>2. n <= pmm.free_pages /\ Alloc(pmm, 0, KernelLimit(pmm), n).ret # NoPage
      BY <2>1, <2>2, <3>1, RunIsFound
    <3>3. ~(n = 0 \/ n > pmm.free_pages)
      <4>1. pmm.free_pages \in Nat
        BY LeftFinite DEF CInv, FreeCountExact, Left
      <4> QED
        BY <2>2, <3>2, <4>1
    <3> QED
      BY <3>2, <3>3, Zenon DEF pmm_alloc_contiguous_pages
  <2>5. ASSUME s >= KernelEnd PROVE pmm_alloc_contiguous_user_pages(pmm, n).ret # NoPage
    <3>1. n <= pmm.free_pages /\ Alloc(pmm, KernelEnd, pmm.total_pages, n).ret # NoPage
      BY <2>1, <2>2, <2>3, <2>5, RunIsFound
    <3>2. ~(n = 0 \/ n > pmm.free_pages)
      <4>1. pmm.free_pages \in Nat
        BY LeftFinite DEF CInv, FreeCountExact, Left
      <4> QED
        BY <2>2, <3>1, <4>1
    <3> QED
      BY <3>1, <3>2, Zenon DEF pmm_alloc_contiguous_user_pages
  <2> QED
    BY <2>2, <2>4, <2>5
<1> QED
  BY <1>1, SpecCInv, PTL
-----------------------------------------------------------------------------
(* The type invariant.                                                     *)

TInv == CInv /\ TypeOK

LEMMA InitTInv == Init => TInv
<1> SUFFICES ASSUME Init PROVE TInv
  OBVIOUS
<1>1. CInv
  BY InitCInv
<1>2. blocks = {} /\ usable \subseteq 0..(pmm.total_pages - 1)
  BY <1>1 DEF Init, CInv
<1>3. pmm.total_pages \in Nat
  <2>1. PICK top : top = TopOfMemory(StoredRegions(reported))
    OBVIOUS
  <2>2. top \in Nat /\ top >= ManagedBase
    BY <2>1, MapsAssumption DEF Init
  <2>3. pmm.total_pages = (top - ManagedBase) \div PageSize
    BY <2>1 DEF Init, pmm_init
  <2> QED
    BY <2>2, <2>3, PmmAssumption
<1>4. pmm.used \subseteq 0..(pmm.total_pages - 1)
  BY DEF Init, pmm_init
<1>5. pmm.free_pages \in Nat
  BY <1>1, LeftFinite DEF CInv, FreeCountExact, Left
<1> QED
  BY <1>1, <1>2, <1>3, <1>4, <1>5 DEF TInv, TypeOK

(* The bitmap has finitely many bits.                                      *)
LEMMA BitsFinite == \A top \in Int : IsFiniteSet(0..(top - 1))
<1> TAKE top \in Int
<1>1. top - 1 \in Int
  OBVIOUS
<1> QED
  BY <1>1, FS_Interval

LEMMA GrantType ==
    ASSUME TInv, CInv', NEW kind \in {"kernel", "user"}, NEW lo \in Nat, NEW hi \in Int,
           NEW n \in Nat, hi <= pmm.total_pages,
           Take(kind, n, Alloc(pmm, lo, hi, n))
    PROVE  TInv'
<1>1. IInv /\ TypeOK /\ usable' = usable
  BY DEF TInv, CInv, Take
<1>2. pmm'.free_pages \in Nat
  <2>1. pmm.total_pages \in Int
    BY <1>1 DEF TypeOK
  <2>2. IsFiniteSet(0..(pmm.total_pages - 1))
    BY <2>1, BitsFinite, Zenon
  <2>3. usable \ pmm'.used \in SUBSET (0..(pmm.total_pages - 1))
    BY <1>1 DEF TypeOK
  <2>4. IsFiniteSet(usable \ pmm'.used)
    BY <2>2, <2>3, FS_Subset
  <2>5. pmm'.free_pages = Cardinality(usable \ pmm'.used)
    BY <1>1 DEF CInv, FreeCountExact
  <2> QED
    BY <2>4, <2>5, FS_CardinalityType
<1>3. CASE Alloc(pmm, lo, hi, n).ret = NoPage
  BY <1>1, <1>3, AllocRefused DEF Take, TInv, TypeOK
<1>4. CASE Alloc(pmm, lo, hi, n).ret # NoPage
  <2>1. PICK s : s = Alloc(pmm, lo, hi, n).ret
    OBVIOUS
  <2>2. /\ s \in FreeRuns(pmm, lo, hi, n)
        /\ pmm' = [total_pages |-> pmm.total_pages, used |-> pmm.used \cup Pages(s, n),
                    free_pages |-> pmm.free_pages - n]
    BY <1>1, <1>4, <2>1, AllocSpec DEF Take, IInv, Record
  <2>3. s \in Nat /\ s + n <= pmm.total_pages
    <3>1. s \in lo..(hi - 1) /\ s + n <= hi /\ pmm.total_pages \in Nat
      BY <1>1, <2>2 DEF FreeRuns, TypeOK
    <3> QED
      BY <3>1
  <2>4. Pages(s, n) \subseteq 0..(pmm.total_pages - 1)
    BY <1>1, <2>3 DEF Pages, TypeOK
  <2>5. blocks' = blocks \cup {[kind |-> kind, start |-> s, count |-> n]}
    BY <1>4, <2>1 DEF Take
  <2>6. \A b \in blocks' : b.kind \in {"kernel", "user"} /\ b.start \in Nat /\ b.count \in Nat
    BY <1>1, <2>3, <2>5 DEF TypeOK
  <2>7. /\ pmm'.total_pages = pmm.total_pages
        /\ pmm'.used \subseteq 0..(pmm.total_pages - 1)
    BY <1>1, <2>2, <2>4 DEF TypeOK
  <2> QED
    BY <1>1, <1>2, <2>6, <2>7 DEF TInv, TypeOK
<1> QED
  BY <1>3, <1>4

LEMMA TInvStep == TInv /\ [Next]_vars => TInv'
<1> SUFFICES ASSUME TInv, [Next]_vars PROVE TInv'
  OBVIOUS
<1>1. CInv /\ CInv' /\ TypeOK
  BY CInvStep DEF TInv
<1>2. /\ KernelEnd \in Nat /\ KernelLimit(pmm) \in Int
      /\ KernelLimit(pmm) <= pmm.total_pages
      /\ pmm.total_pages \in Int /\ pmm.total_pages <= pmm.total_pages /\ MaxCount \in Nat
  BY <1>1, KernelEndNat, MaxCountAssumption DEF KernelLimit, PageMin, TypeOK
<1>3. ASSUME NEW kind, NEW n, Take(kind, n, [pmm |-> pmm, ret |-> NoPage]) PROVE TInv'
  BY <1>1, <1>3 DEF Take, TInv, TypeOK
<1>4. CASE AllocPage
  BY <1>1, <1>2, <1>4, GrantType DEF AllocPage, pmm_alloc_page
<1>5. CASE AllocContiguous
  <2>1. PICK n \in 0..MaxCount : Take("kernel", n, pmm_alloc_contiguous_pages(pmm, n))
    BY <1>5 DEF AllocContiguous
  <2>2. CASE n = 0 \/ n > pmm.free_pages
    BY <1>3, <2>1, <2>2 DEF pmm_alloc_contiguous_pages
  <2>3. CASE ~(n = 0 \/ n > pmm.free_pages)
    BY <1>1, <1>2, <2>1, <2>3, GrantType DEF pmm_alloc_contiguous_pages
  <2> QED
    BY <2>2, <2>3
<1>6. CASE AllocUserPage
  BY <1>1, <1>2, <1>6, GrantType DEF AllocUserPage, pmm_alloc_user_page
<1>7. CASE AllocContiguousUser
  <2>1. PICK n \in 0..MaxCount : Take("user", n, pmm_alloc_contiguous_user_pages(pmm, n))
    BY <1>7 DEF AllocContiguousUser
  <2>2. CASE n = 0 \/ n > pmm.free_pages
    BY <1>3, <2>1, <2>2 DEF pmm_alloc_contiguous_user_pages
  <2>3. CASE ~(n = 0 \/ n > pmm.free_pages)
    BY <1>1, <1>2, <2>1, <2>3, GrantType DEF pmm_alloc_contiguous_user_pages
  <2> QED
    BY <2>2, <2>3
<1>8. CASE UNCHANGED vars
  BY <1>1, <1>8 DEF vars, TInv, TypeOK
<1> QED
  BY <1>4, <1>5, <1>6, <1>7, <1>8 DEF Next

(* Page counts stay natural numbers and every set bit or block lies within *)
(* the bitmap (pmm.c:21-158).                                              *)
THEOREM TypeCorrect == Spec => []TypeOK
<1>1. TInv => TypeOK
  BY DEF TInv
<1> QED
  BY <1>1, InitTInv, TInvStep, PTL DEF Spec
-----------------------------------------------------------------------------
(* The pages handed out are memory the boot loader reported.               *)

\* The regions multiboot_parse can keep of a memory map.
Kept(map) == {Clipped(map[i]) : i \in {j \in 1..Len(map) : map[j].base < AddrSpace}}

\* One pass of multiboot_parse's loop, after the list kept so far.
KeepStep(map, list, n) ==
    IF map[n].base >= AddrSpace \/ Len(list) = MaxRegions THEN list
    ELSE Append(list, Clipped(map[n]))

\* f is the list kept after each of the first n entries.
Keeps(map, f, n) ==
    f = [k \in 0..n |-> IF k = 0 THEN <<>> ELSE KeepStep(map, f[k - 1], k)]

LEMMA EntryType ==
    ASSUME NEW map \in Seq([base : Nat, length : Nat]), NEW i \in 1..Len(map)
    PROVE  map[i].base \in Nat /\ map[i].length \in Nat
<1>1. map[i] \in [base : Nat, length : Nat]
  BY ElementOfSeq
<1> QED
  BY <1>1

(* The loop over the first n entries is well defined.                      *)
LEMMA LoopDefined ==
    ASSUME NEW map, NEW last \in Nat
    PROVE  \E f : Keeps(map, f, last)
<1> DEFINE Bad == {n \in Nat : ~ \E f : Keeps(map, f, n)}
<1>1. SUFFICES ASSUME Bad # {} PROVE FALSE
  OBVIOUS
<1>2. PICK n \in Bad : \A k \in Bad : n <= k
  <2>1. Bad \subseteq Nat
    OBVIOUS
  <2> QED
    BY <1>1, <2>1, LeastNat
<1>3. CASE n = 0
  <2>1. Keeps(map, [k \in 0..0 |-> <<>>], 0)
    BY DEF Keeps
  <2> QED
    BY <1>2, <1>3, <2>1
<1>4. CASE n # 0
  <2>1. n \in Nat /\ n - 1 \in Nat /\ n - 1 \notin Bad
    BY <1>2, <1>4
  <2>2. PICK f : Keeps(map, f, n - 1)
    BY <2>1
  <2>3. PICK g : g = [k \in 0..n |-> IF k = n THEN KeepStep(map, f[n - 1], n) ELSE f[k]]
    OBVIOUS
  <2>4. \A k \in 0..n : g[k] = IF k = 0 THEN <<>> ELSE KeepStep(map, g[k - 1], k)
    <3> TAKE k \in 0..n
    <3>1. CASE k = n
      <4>1. g[k] = KeepStep(map, f[n - 1], n) /\ g[k - 1] = f[n - 1]
        BY <2>1, <2>3, <3>1
      <4> QED
        BY <3>1, <4>1, <1>4
    <3>2. CASE k # n
      <4>1. k \in 0..(n - 1) /\ g[k] = f[k]
        BY <2>1, <2>3, <3>2
      <4>2. f[k] = IF k = 0 THEN <<>> ELSE KeepStep(map, f[k - 1], k)
        BY <2>2, <4>1 DEF Keeps
      <4>3. k # 0 => g[k - 1] = f[k - 1]
        BY <2>1, <2>3, <4>1
      <4> QED
        BY <4>1, <4>2, <4>3
    <3> QED
      BY <3>1, <3>2
  <2>5. Keeps(map, g, n)
    <3>1. g = [k \in 0..n |-> g[k]]
      BY <2>3
    <3> QED
      BY <2>4, <3>1 DEF Keeps
  <2> QED
    BY <1>2, <2>5
<1> QED
  BY <1>3, <1>4

(* What multiboot_parse stores was reported, below 4 GB and cut there.     *)
LEMMA StoredAreKept ==
    ASSUME NEW map, map \in Seq([base : Nat, length : Nat])
    PROVE  StoredRegions(map) \in Seq(Kept(map))
<1>1. PICK last : last = Len(map)
  OBVIOUS
<1>2. last \in Nat
  BY <1>1
<1>3. PICK f : /\ f = [n \in 0..last |-> IF n = 0 THEN <<>> ELSE KeepStep(map, f[n - 1], n)]
              /\ StoredRegions(map) = f[last]
  <2>1. \E f : Keeps(map, f, last)
    BY <1>2, LoopDefined
  <2>2. StoredRegions(map) = (CHOOSE f : Keeps(map, f, last))[last]
    BY <1>1, Zenon DEF StoredRegions, Keeps, KeepStep
  <2> QED
    BY <2>1, <2>2, Zenon DEF Keeps
<1>4. \A n \in 0..last : f[n] \in Seq(Kept(map))
  <2> DEFINE Bad == {n \in Nat : n <= last /\ f[n] \notin Seq(Kept(map))}
  <2>1. SUFFICES ASSUME Bad # {} PROVE FALSE
    BY <1>2
  <2>2. PICK n \in Bad : \A k \in Bad : n <= k
    <3>1. Bad \subseteq Nat
      OBVIOUS
    <3> QED
      BY <2>1, <3>1, LeastNat
  <2>3. CASE n = 0
    BY <1>2, <1>3, <2>2, <2>3
  <2>4. CASE n # 0
    <3>1. n \in 1..last /\ n - 1 \in Nat /\ n - 1 \notin Bad /\ n - 1 <= last
      BY <1>2, <2>2, <2>4
    <3>2. f[n - 1] \in Seq(Kept(map))
      BY <3>1
    <3>3. f[n] = KeepStep(map, f[n - 1], n)
      BY <1>2, <1>3, <3>1, <2>4
    <3>4. map[n].base \in Nat /\ AddrSpace \in Nat
      BY <1>1, <3>1, EntryType, PmmAssumption
    <3>5. map[n].base >= AddrSpace \/ n \in {j \in 1..Len(map) : map[j].base < AddrSpace}
      BY <1>1, <3>1, <3>4
    <3>6. map[n].base >= AddrSpace \/ Clipped(map[n]) \in Kept(map)
      BY <3>5, Zenon DEF Kept
    <3>7. PICK K, list, e : K = Kept(map) /\ list = f[n - 1] /\ e = Clipped(map[n])
      OBVIOUS
    <3>8. list \in Seq(K) /\ (e \in K => Append(list, e) \in Seq(K))
      BY <3>2, <3>7
    <3>9. KeepStep(map, f[n - 1], n) \in Seq(Kept(map))
      BY <3>6, <3>7, <3>8, Zenon DEF KeepStep
    <3> QED
      BY <2>2, <3>3, <3>9
  <2> QED
    BY <2>3, <2>4
<1> QED
  BY <1>2, <1>3, <1>4

(* The loop over one region visits addresses of whole reported pages.      *)
LEMMA VisitedReported ==
    ASSUME NEW m \in MemoryMaps, NEW region \in Kept(m), NEW top \in Nat,
           NEW a \in Visited(region, top)
    PROVE  /\ a \in Nat /\ ManagedBase + PageOf(a) * PageSize = a
           /\ a + PageSize - 1 < AddrSpace
           /\ \E i \in 1..Len(m) :
                 m[i].base <= a /\ a + PageSize - 1 < m[i].base + m[i].length
<1>1. PICK i \in 1..Len(m) : m[i].base < AddrSpace /\ region = Clipped(m[i])
  BY DEF Kept
<1>2. PICK base, size : base = m[i].base /\ size = m[i].length
  OBVIOUS
<1>3. base \in Nat /\ size \in Nat
  BY <1>1, <1>2, EntryType, AlignedMaps
<1>4. PICK start : start = PageMax(base, ManagedBase)
  OBVIOUS
<1>5. start \in Nat /\ start >= base /\ start >= ManagedBase
  BY <1>3, <1>4, PmmAssumption DEF PageMax
<1>6. PICK cut : cut = IF base + size > AddrSpace THEN AddrSpace - base ELSE size
  OBVIOUS
<1>7. region.base = base /\ region.length = cut % AddrSpace
  BY <1>1, <1>2, <1>6 DEF Clipped
<1>8. PICK end : end = (base + (cut % AddrSpace)) % AddrSpace
  OBVIOUS
<1>9. /\ a \in start..(PageMin(end, top) - 1) /\ (a - start) % PageSize = 0
      /\ a >= FirstFree
  <2>1. PageMax(region.base, ManagedBase) = start
    BY <1>4, <1>7
  <2>2. EndOf(region) = end
    BY <1>7, <1>8, Zenon DEF EndOf
  <2>3. a \in {addr \in PageMax(region.base, ManagedBase)..(PageMin(EndOf(region), top) - 1) :
                 (addr - PageMax(region.base, ManagedBase)) % PageSize = 0
                 /\ addr >= FirstFree}
    BY Zenon DEF Visited
  <2> QED
    BY <2>1, <2>2, <2>3
<1>10. cut \in Nat /\ base + cut <= AddrSpace /\ AddrSpace \in Nat \ {0} /\ base < AddrSpace
  <2>1. base < AddrSpace
    BY <1>1, <1>2
  <2> QED
    BY <1>3, <1>6, <2>1, PmmAssumption
<1>11. end = 0 \/ (end = base + cut /\ cut < AddrSpace /\ base + cut < AddrSpace)
  BY <1>3, <1>8, <1>10
<1>12. end \in Nat /\ a \in Nat /\ start <= a /\ a < end
  BY <1>3, <1>5, <1>8, <1>9, <1>10, <1>11 DEF PageMin
<1>13. end = base + size /\ end < AddrSpace
  BY <1>3, <1>6, <1>10, <1>11, <1>12
<1>14. (start - ManagedBase) % PageSize = 0 /\ (end - ManagedBase) % PageSize = 0
  <2>1. base + size > ManagedBase
    BY <1>5, <1>12, <1>13, PmmAssumption
  <2> QED
    BY <1>1, <1>2, <1>4, <1>13, <2>1, AlignedMaps
<1>15. PICK d \in Nat : d = PageSize /\ d # 0
  BY PmmAssumption
<1>16. PICK j \in Int : start - ManagedBase = j * d
  <2>1. start - ManagedBase \in Int
    BY <1>5, PmmAssumption
  <2> QED
    BY <1>14, <1>15, <2>1, Multiple
<1>17. PICK k \in Int : a - start = k * d
  <2>1. a - start \in Int /\ (a - start) % d = 0
    BY <1>5, <1>9, <1>12, <1>15
  <2> QED
    BY <1>15, <2>1, Multiple
<1>18. PICK l \in Int : end - ManagedBase = l * d
  <2>1. end - ManagedBase \in Int
    BY <1>12, PmmAssumption
  <2> QED
    BY <1>14, <1>15, <2>1, Multiple
<1>19. a - ManagedBase = (j + k) * d
  BY <1>5, <1>12, <1>15, <1>16, <1>17, PmmAssumption
<1>20. PageOf(a) = j + k
  BY <1>12, <1>15, <1>19, MultipleQuotient, PmmAssumption DEF PageOf
<1>21. ManagedBase + PageOf(a) * PageSize = a
  BY <1>12, <1>15, <1>19, <1>20, PmmAssumption
<1>22. (l - (j + k)) * d = end - a /\ end - a > 0
  BY <1>12, <1>15, <1>18, <1>19, PmmAssumption
<1>23. end - a >= d
  <2>1. PICK e \in Int : e = l - (j + k)
    OBVIOUS
  <2>2. e * d > 0
    BY <1>12, <1>22, <2>1
  <2>3. e >= 1
    BY <1>15, <2>1, <2>2
  <2>4. e * d >= d
    BY <1>15, <2>3
  <2> QED
    BY <1>22, <2>1, <2>4
<1>24. a + PageSize - 1 < end
  BY <1>12, <1>15, <1>23
<1>25. a + PageSize - 1 < AddrSpace
  BY <1>10, <1>12, <1>13, <1>15, <1>24
<1>26. m[i].base <= a /\ a + PageSize - 1 < m[i].base + m[i].length
  BY <1>2, <1>3, <1>5, <1>12, <1>13, <1>24
<1> QED
  BY <1>1, <1>12, <1>21, <1>25, <1>26

\* What never changes: the memory map, and the pages pmm_init made usable.
RInv ==
    /\ IInv
    /\ reported \in MemoryMaps
    /\ \A p \in usable : \E a \in Nat :
          /\ a = ManagedBase + p * PageSize /\ a + PageSize - 1 < AddrSpace
          /\ \E i \in 1..Len(reported) :
                reported[i].base <= a /\ a + PageSize - 1 < reported[i].base + reported[i].length

LEMMA InitRInv == Init => RInv
<1> SUFFICES ASSUME Init PROVE RInv
  OBVIOUS
<1>1. reported \in MemoryMaps /\ IInv
  BY InitIInv DEF Init
<1>2. PICK map : map = StoredRegions(reported)
  OBVIOUS
<1>3. PICK top : top = TopOfMemory(map)
  OBVIOUS
<1>4. top \in Nat /\ map \in Seq(Kept(reported))
  BY <1>1, <1>2, <1>3, MapsAssumption, AlignedMaps, StoredAreKept
<1>5. PICK freed, total : /\ freed = UNION {{PageOf(a) : a \in Visited(map[r], top)} : r \in 1..Len(map)}
                          /\ pmm.used = (0..(total - 1)) \ freed
                          /\ pmm.total_pages = total
  <2>1. PICK visits : visits = [r \in 1..Len(map) |-> Visited(map[r], top)]
    OBVIOUS
  <2>2. PICK freed : freed = UNION {{PageOf(a) : a \in visits[r]} : r \in 1..Len(map)}
    OBVIOUS
  <2>3. freed = UNION {{PageOf(a) : a \in Visited(map[r], top)} : r \in 1..Len(map)}
    BY <2>1, <2>2
  <2>4. pmm = pmm_init(map, top)
    BY <1>2, <1>3 DEF Init
  <2>5. /\ pmm.total_pages = (top - ManagedBase) \div PageSize
        /\ pmm.used = (0..((top - ManagedBase) \div PageSize - 1)) \ freed
    BY <2>1, <2>2, <2>4, Zenon DEF pmm_init
  <2> QED
    BY <2>3, <2>5
<1>6. ASSUME NEW p \in usable
      PROVE  \E a \in Nat :
          /\ a = ManagedBase + p * PageSize /\ a + PageSize - 1 < AddrSpace
          /\ \E i \in 1..Len(reported) :
                reported[i].base <= a /\ a + PageSize - 1 < reported[i].base + reported[i].length
  <2>1. p \in freed
    BY <1>5 DEF Init
  <2>2. PICK r \in 1..Len(map) : \E a \in Visited(map[r], top) : p = PageOf(a)
    <3>1. p \in UNION {{PageOf(a) : a \in Visited(map[r], top)} : r \in 1..Len(map)}
      BY <1>5, <2>1
    <3>2. PICK X \in {{PageOf(a) : a \in Visited(map[r], top)} : r \in 1..Len(map)} : p \in X
      BY <3>1, Zenon
    <3>3. PICK r \in 1..Len(map) : X = {PageOf(a) : a \in Visited(map[r], top)}
      BY <3>2, Zenon
    <3> QED
      BY <3>2, <3>3, Zenon
  <2>3. PICK a \in Visited(map[r], top) : p = PageOf(a)
    BY <2>2
  <2>4. map[r] \in Kept(reported)
    BY <1>4, <2>2, ElementOfSeq
  <2>5. /\ a \in Nat /\ ManagedBase + p * PageSize = a
        /\ a + PageSize - 1 < AddrSpace
        /\ \E i \in 1..Len(reported) :
              reported[i].base <= a /\ a + PageSize - 1 < reported[i].base + reported[i].length
    BY <1>1, <1>4, <2>3, <2>4, VisitedReported
  <2> QED
    BY <2>5
<1> QED
  BY <1>1, <1>6 DEF RInv

LEMMA RInvStep == RInv /\ [Next]_vars => RInv'
<1> SUFFICES ASSUME RInv, [Next]_vars PROVE RInv'
  OBVIOUS
<1>1. IInv'
  BY IInvStep DEF RInv
<1>2. UNCHANGED <<reported, usable>>
  BY DEF Next, vars, Take, AllocPage, AllocContiguous, AllocUserPage, AllocContiguousUser
<1> QED
  BY <1>1, <1>2 DEF RInv

(* Whatever regions reach, pass or lie above 4 GB, a page handed out is    *)
(* memory the boot loader reported, whole and below 4 GB.                  *)
THEOREM PagesAreReported == Spec => []PagesReported
<1>1. RInv => PagesReported
  <2> SUFFICES ASSUME RInv, NEW b \in blocks, NEW p \in Pages(b.start, b.count)
               PROVE  LET first == ManagedBase + p * PageSize
                          last  == first + PageSize - 1
                      IN  /\ last < AddrSpace
                          /\ \E r \in 1..Len(reported) :
                                /\ reported[r].base <= first
                                /\ last < reported[r].base + reported[r].length
    BY DEF PagesReported
  <2>1. p \in usable
    BY DEF RInv, IInv, BlocksInRegion
  <2> QED
    BY <2>1 DEF RInv
<1> QED
  BY <1>1, InitRInv, RInvStep, PTL DEF Spec

=============================================================================
