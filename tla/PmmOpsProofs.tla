------------------------------ MODULE PmmOpsProofs -----------------------------
(***************************************************************************)
(* What the scans of the page allocator return, and the arithmetic of      *)
(* pages: lemmas shared by the proofs about the allocator's users.         *)
(***************************************************************************)
EXTENDS PmmOps, WellFoundedInduction, TLAPS

(* The end of the kernel region is a page index.                           *)
LEMMA KernelEndNat == KernelEnd \in Nat
BY PmmAssumption, SMT DEF KernelEnd

(* A set of natural numbers has a least element.                           *)
LEMMA LeastNat ==
    ASSUME NEW S, S \subseteq Nat, S # {}
    PROVE  \E s \in S : \A r \in S : s <= r
<1>1. PICK s \in S : \A r \in S : ~(<<r, s>> \in OpToRel(<, Nat))
  BY NatLessThanWellFounded, WFMin
<1>2. \A r \in S : ~(r < s)
  BY <1>1 DEF OpToRel
<1> QED
  BY <1>2

(* What a scan returns: nothing, with the allocator unchanged, or a run of *)
(* clear bits between its two limits, which it sets.                       *)
LEMMA AllocSpec ==
    ASSUME NEW m, NEW lo \in Nat, NEW hi \in Int, NEW n \in Nat,
           m = [total_pages |-> m.total_pages, used |-> m.used, free_pages |-> m.free_pages],
           NEW r, r = Alloc(m, lo, hi, n), r.ret # NoPage
    PROVE  /\ r.ret \in FreeRuns(m, lo, hi, n)
           /\ r.pmm = [total_pages |-> m.total_pages,
                       used |-> m.used \cup Pages(r.ret, n),
                       free_pages |-> m.free_pages - n]
<1>1. FreeRuns(m, lo, hi, n) # {}
  BY DEF Alloc
<1>2. FreeRuns(m, lo, hi, n) \subseteq Nat
  BY DEF FreeRuns
<1>3. \E s \in FreeRuns(m, lo, hi, n) : \A q \in FreeRuns(m, lo, hi, n) : s <= q
  BY <1>1, <1>2, LeastNat
<1>4. /\ r.ret \in FreeRuns(m, lo, hi, n)
      /\ r.pmm = [m EXCEPT !.used = @ \cup Pages(r.ret, n), !.free_pages = @ - n]
  BY <1>1, <1>3, Zenon DEF Alloc
<1> QED
  BY <1>4

(* A refused request leaves the bitmap as it was.                          *)
LEMMA AllocRefused ==
    ASSUME NEW m, NEW lo \in Nat, NEW hi \in Int, NEW n \in Nat,
           Alloc(m, lo, hi, n).ret = NoPage
    PROVE  Alloc(m, lo, hi, n).pmm = m
<1>1. CASE FreeRuns(m, lo, hi, n) = {}
  BY <1>1 DEF Alloc
<1>2. CASE FreeRuns(m, lo, hi, n) # {}
  <2>1. FreeRuns(m, lo, hi, n) \subseteq Nat
    BY DEF FreeRuns
  <2>2. \E s \in FreeRuns(m, lo, hi, n) : \A r \in FreeRuns(m, lo, hi, n) : s <= r
    BY <1>2, <2>1, LeastNat
  <2>3. Alloc(m, lo, hi, n).ret \in FreeRuns(m, lo, hi, n)
    BY <1>2, <2>2, Zenon DEF Alloc
  <2> QED
    BY <2>1, <2>3 DEF NoPage
<1> QED
  BY <1>1, <1>2

-----------------------------------------------------------------------------
(* Division by the page size, as a comparison.                             *)
LEMMA DivAtLeast ==
    ASSUME NEW d \in Nat \ {0}, NEW x \in Int, NEW k \in Int
    PROVE  /\ x \div d \in Int
           /\ x \div d >= k <=> x >= k * d
           /\ x \div d < k <=> x < k * d
<1>1. PICK q : q = x \div d
  OBVIOUS
<1>2. PICK m : m = x % d
  OBVIOUS
<1>3. q \in Int /\ m \in 0..(d - 1) /\ x = d * q + m
  BY <1>1, <1>2
<1>4. CASE q >= k
  <2>1. PICK e \in Nat : q = k + e
    BY <1>3, <1>4
  <2>2. x = k * d + (e * d + m) /\ e * d \in Nat /\ k * d \in Int
    BY <1>3, <2>1
  <2> QED
    BY <1>1, <1>3, <1>4, <2>2
<1>5. CASE q < k
  <2>1. PICK e \in Nat : k = q + 1 + e
    BY <1>3, <1>5
  <2>2. k * d = q * d + d + e * d /\ e * d \in Nat /\ q * d \in Int
    BY <1>3, <2>1
  <2> QED
    BY <1>1, <1>3, <1>5, <2>2
<1> QED
  BY <1>3, <1>4, <1>5

(* Quotient and remainder.                                                 *)
LEMMA DivMod ==
    ASSUME NEW d \in Nat \ {0}, NEW x \in Int
    PROVE  x \div d \in Int /\ x % d \in 0..(d - 1) /\ x = (x \div d) * d + (x % d)
<1>1. x = d * (x \div d) + (x % d) /\ x \div d \in Int /\ x % d \in 0..(d - 1)
  OBVIOUS
<1> QED
  BY <1>1

(* A number without remainder is a multiple, whose quotient is the factor. *)
LEMMA Multiple ==
    ASSUME NEW d \in Nat \ {0}, NEW x \in Int, x % d = 0
    PROVE  \E k \in Int : x = k * d
<1>1. x = d * (x \div d) + 0 /\ x \div d \in Int
  OBVIOUS
<1> QED
  BY <1>1

LEMMA MultipleQuotient ==
    ASSUME NEW d \in Nat \ {0}, NEW k \in Int
    PROVE  (k * d) \div d = k
<1>1. k * d \in Int /\ k * d >= k * d /\ k * d < (k + 1) * d
  OBVIOUS
<1>2. (k * d) \div d >= k /\ (k * d) \div d < k + 1 /\ (k * d) \div d \in Int
  BY <1>1, DivAtLeast
<1> QED
  BY <1>2

-----------------------------------------------------------------------------
(* The allocator's state, as far as its users depend on it.                *)
IsPmm(m) ==
    /\ m = [total_pages |-> m.total_pages, used |-> m.used, free_pages |-> m.free_pages]
    /\ m.total_pages \in Int

\* r refuses a request, or grants it a run of clear bits between two limits.
Outcome(m, r, lo, hi, n) ==
    \/ r.ret = NoPage /\ r.pmm = m
    \/ /\ r.ret \in Nat /\ lo <= r.ret /\ r.ret + n <= hi
       /\ Pages(r.ret, n) \cap m.used = {}
       /\ IsPmm(r.pmm) /\ r.pmm.total_pages = m.total_pages
       /\ r.pmm.used = m.used \cup Pages(r.ret, n)

LEMMA AllocOutcome ==
    ASSUME NEW m, IsPmm(m), NEW lo \in Nat, NEW hi \in Int, NEW n \in Nat
    PROVE  Outcome(m, Alloc(m, lo, hi, n), lo, hi, n)
<1>1. PICK r : r = Alloc(m, lo, hi, n)
  OBVIOUS
<1>2. CASE r.ret = NoPage
  BY <1>1, <1>2, AllocRefused DEF Outcome, IsPmm
<1>3. CASE r.ret # NoPage
  <2>1. /\ r.ret \in FreeRuns(m, lo, hi, n)
        /\ r.pmm = [total_pages |-> m.total_pages, used |-> m.used \cup Pages(r.ret, n),
                    free_pages |-> m.free_pages - n]
    BY <1>1, <1>3, AllocSpec DEF IsPmm
  <2>2. /\ r.ret \in Nat /\ lo <= r.ret /\ r.ret + n <= hi
        /\ Pages(r.ret, n) \cap m.used = {}
    BY <2>1 DEF FreeRuns
  <2>3. /\ IsPmm(r.pmm) /\ r.pmm.total_pages = m.total_pages
        /\ r.pmm.used = m.used \cup Pages(r.ret, n)
    BY <2>1 DEF IsPmm
  <2> QED
    BY <1>1, <2>2, <2>3 DEF Outcome
<1> QED
  BY <1>2, <1>3

(* The limit of the kernel region.                                         *)
LEMMA KernelLimitType ==
    ASSUME NEW m, IsPmm(m)
    PROVE  KernelLimit(m) \in Int /\ KernelLimit(m) <= KernelEnd
           /\ KernelLimit(m) <= m.total_pages
BY KernelEndNat DEF IsPmm, KernelLimit, PageMin

(* The four calls.                                                         *)
LEMMA KernelPageOutcome ==
    ASSUME NEW m, IsPmm(m)
    PROVE  Outcome(m, pmm_alloc_page(m), 0, KernelLimit(m), 1)
<1>1. KernelLimit(m) \in Int
  BY KernelLimitType
<1> QED
  BY <1>1, AllocOutcome, Zenon DEF pmm_alloc_page

LEMMA KernelRunOutcome ==
    ASSUME NEW m, IsPmm(m), NEW n \in Nat
    PROVE  Outcome(m, pmm_alloc_contiguous_pages(m, n), 0, KernelLimit(m), n)
<1>1. KernelLimit(m) \in Int
  BY KernelLimitType
<1>2. CASE n = 0 \/ n > m.free_pages
  BY <1>2 DEF pmm_alloc_contiguous_pages, Outcome
<1>3. CASE ~(n = 0 \/ n > m.free_pages)
  <2>1. pmm_alloc_contiguous_pages(m, n) = Alloc(m, 0, KernelLimit(m), n)
    BY <1>3 DEF pmm_alloc_contiguous_pages
  <2> QED
    BY <1>1, <2>1, AllocOutcome
<1> QED
  BY <1>2, <1>3

LEMMA UserPageOutcome ==
    ASSUME NEW m, IsPmm(m)
    PROVE  Outcome(m, pmm_alloc_user_page(m), KernelEnd, m.total_pages, 1)
BY KernelEndNat, AllocOutcome DEF pmm_alloc_user_page, IsPmm

LEMMA UserRunOutcome ==
    ASSUME NEW m, IsPmm(m), NEW n \in Nat
    PROVE  Outcome(m, pmm_alloc_contiguous_user_pages(m, n), KernelEnd, m.total_pages, n)
<1>1. m.total_pages \in Int /\ KernelEnd \in Nat
  BY KernelEndNat DEF IsPmm
<1>2. CASE n = 0 \/ n > m.free_pages
  BY <1>2 DEF pmm_alloc_contiguous_user_pages, Outcome
<1>3. CASE ~(n = 0 \/ n > m.free_pages)
  <2>1. pmm_alloc_contiguous_user_pages(m, n) = Alloc(m, KernelEnd, m.total_pages, n)
    BY <1>3 DEF pmm_alloc_contiguous_user_pages
  <2> QED
    BY <1>1, <2>1, AllocOutcome
<1> QED
  BY <1>2, <1>3

(* pmm_init returns an allocator's state.                                  *)
LEMMA InitIsPmm ==
    ASSUME NEW map, NEW top \in Nat
    PROVE  IsPmm(pmm_init(map, top))
<1>1. (top - ManagedBase) \div PageSize \in Int
  BY PmmAssumption, DivAtLeast
<1>2. PICK u, f : pmm_init(map, top) = [total_pages |-> (top - ManagedBase) \div PageSize,
                                         used |-> u, free_pages |-> f]
  BY Zenon DEF pmm_init
<1> QED
  BY <1>1, <1>2 DEF IsPmm
=============================================================================
