------------------------------ MODULE SpacesProofs -----------------------------
(***************************************************************************)
(* Theorems about Spaces: whatever launches succeed or fail part-way, the  *)
(* page tables give every program its own pages, keep the kernel's out of  *)
(* reach, and a shortage of user pages never stops the machine.            *)
(***************************************************************************)
EXTENDS Spaces, PmmOpsProofs, FiniteSetTheorems, SequenceTheorems, TLAPS

-----------------------------------------------------------------------------
(* Constants of the layout.                                                *)
TotalPages == (MemTop - ManagedBase) \div PageSize

\* Every managed page has an entry of a directory, and the sizes are numbers.
LEMMA Layout ==
    /\ TotalPages \in Int /\ TableCount \in Nat /\ KernelEnd \in Nat
    /\ \A p \in 0..(TotalPages - 1) : PdIndex(p) \in PdIndices
<1>1. /\ PageSize \in Nat \ {0} /\ PtSpan \in Nat \ {0} /\ MemTop \in Nat
      /\ ManagedBase \in Nat /\ MemTop >= ManagedBase
  BY PmmAssumption, SpacesAssumption
<1>2. PICK W : W = PtSpan * PageSize
  OBVIOUS
<1>3. W \in Nat \ {0}
  BY <1>1, <1>2
<1>4. PICK base : base = ManagedBase \div PageSize
  OBVIOUS
<1>5. base \in Nat /\ ManagedBase = base * PageSize
  <2>1. base \in Int /\ ManagedBase = base * PageSize + (ManagedBase % PageSize)
    BY <1>1, <1>4, DivMod
  <2>2. base >= 0
    BY <1>1, <1>4, DivAtLeast
  <2> QED
    BY <1>1, <2>1, <2>2, SpacesAssumption
<1>6. TotalPages \in Int
  BY <1>1, DivAtLeast DEF TotalPages
<1>7. TableCount \in Nat
  <2>1. TableCount = (MemTop + W - 1) \div W
    BY <1>2 DEF TableCount
  <2>2. MemTop + W - 1 >= 0 * W /\ MemTop + W - 1 \in Int
    BY <1>1, <1>3
  <2> QED
    BY <1>3, <2>1, <2>2, DivAtLeast
<1>8. ASSUME NEW p \in 0..(TotalPages - 1) PROVE PdIndex(p) \in PdIndices
  <2>1. p \in Nat /\ base + p \in Nat /\ p + 1 <= TotalPages
    BY <1>5, <1>6
  <2>2. (p + 1) * PageSize <= MemTop - ManagedBase
    <3>1. MemTop - ManagedBase \in Int /\ p + 1 \in Int
      BY <1>1, <2>1
    <3> QED
      BY <1>1, <2>1, <3>1, DivAtLeast DEF TotalPages
  <2>3. (base + p + 1) * PageSize <= MemTop
    BY <1>1, <1>5, <2>1, <2>2
  <2>4. PICK k : k = (base + p) \div PtSpan
    OBVIOUS
  <2>5. k \in Nat /\ k * PtSpan <= base + p
    <3>1. k \in Int /\ k >= 0
      BY <1>1, <2>1, <2>4, DivAtLeast
    <3>2. (base + p) \div PtSpan >= k
      BY <2>4, <3>1
    <3> QED
      BY <1>1, <2>1, <3>1, <3>2, DivAtLeast
  <2>6. k * W < MemTop
    <3>1. k * W = (k * PtSpan) * PageSize
      BY <1>1, <1>2, <2>5
    <3>2. PICK x : x = k * PtSpan
      OBVIOUS
    <3>3. x \in Nat /\ x + 1 <= base + p + 1
      BY <1>1, <2>1, <2>5, <3>2
    <3>7. PICK e : e = base + p - x
      OBVIOUS
    <3>4. e \in Nat /\ base + p + 1 = x + 1 + e
      BY <1>5, <2>1, <3>3, <3>7
    <3>5. (base + p + 1) * PageSize = x * PageSize + PageSize + e * PageSize
      BY <1>1, <1>5, <2>1, <3>3, <3>4
    <3>6. e * PageSize \in Nat /\ x * PageSize \in Nat
      BY <1>1, <3>3, <3>4
    <3> QED
      BY <1>1, <2>3, <3>1, <3>2, <3>5, <3>6
  <2>7. (k + 1) * W <= MemTop + W - 1
    <3>1. (k + 1) * W = k * W + W /\ k * W \in Nat
      BY <1>3, <2>5
    <3> QED
      BY <1>1, <1>3, <2>6, <3>1
  <2>8. (MemTop + W - 1) \div W >= k + 1
    <3>1. MemTop + W - 1 \in Int /\ k + 1 \in Int
      BY <1>1, <1>3, <2>5
    <3> QED
      BY <1>3, <2>7, <3>1, DivAtLeast
  <2>9. PdIndex(p) = k /\ TableCount >= k + 1
    BY <1>2, <1>4, <2>4, <2>8 DEF PdIndex, TableCount
  <2> QED
    BY <1>7, <2>5, <2>9 DEF PdIndices
<1> QED
  BY <1>6, <1>7, <1>8, KernelEndNat

-----------------------------------------------------------------------------
(* What the page tables keep to through every step of a launch.            *)

IsMem(m) ==
    /\ m = [pmm |-> m.pmm, kernelPD |-> m.kernelPD, pd |-> m.pd, ptUser |-> m.ptUser,
            room |-> m.room, fault |-> m.fault]
    /\ IsPmm(m.pmm) /\ m.pmm.total_pages = TotalPages
    /\ m.room \in Nat /\ m.fault \in BOOLEAN

\* Directories and page tables are pages of the kernel region, all different.
Placed(m) ==
    /\ m.kernelPD \in DOMAIN m.pd
    /\ \A d \in DOMAIN m.pd : m.pd[d] \in [PdIndices -> [pt : DOMAIN m.ptUser, user : BOOLEAN]]
    /\ DOMAIN m.pd \cup DOMAIN m.ptUser \subseteq m.pmm.used \cap (0..(KernelEnd - 1))
    /\ DOMAIN m.pd \cap DOMAIN m.ptUser = {}

\* The kernel's tables open nothing; an entry is open to ring 3 if its table
\* is not the kernel's.
Closed(m) ==
    /\ \A i \in PdIndices : m.ptUser[m.pd[m.kernelPD][i].pt] = {}
    /\ \A d \in DOMAIN m.pd, i \in PdIndices :
          m.pd[d][i].user <=> m.pd[d][i].pt # m.pd[m.kernelPD][i].pt

\* Only the kernel's table stands behind more than one entry.
Owned(m) ==
    \A d, e \in DOMAIN m.pd, i, j \in PdIndices :
       m.pd[d][i].pt = m.pd[e][j].pt =>
          i = j /\ (d = e \/ m.pd[d][i].pt = m.pd[m.kernelPD][i].pt)

Paging(m) == Placed(m) /\ Closed(m) /\ Owned(m)
Sound(m)  == IsMem(m) /\ Paging(m)

\* n came of m without a change to what m had; what is new was free then.
Extends(m, n) ==
    /\ n.kernelPD = m.kernelPD
    /\ m.pmm.used \subseteq n.pmm.used
    /\ DOMAIN m.pd \subseteq DOMAIN n.pd /\ DOMAIN m.ptUser \subseteq DOMAIN n.ptUser
    /\ \A d \in DOMAIN m.pd : n.pd[d] = m.pd[d]
    /\ \A t \in DOMAIN m.ptUser : n.ptUser[t] = m.ptUser[t]
    /\ \A q \in DOMAIN n.pd \cup DOMAIN n.ptUser :
          q \in DOMAIN m.pd \cup DOMAIN m.ptUser \/ q \notin m.pmm.used

SameTables(m, n) == n.kernelPD = m.kernelPD /\ n.pd = m.pd /\ n.ptUser = m.ptUser

\* Steps that only add tables add up.
LEMMA ExtendsTrans ==
    ASSUME NEW a, NEW b, NEW c, Extends(a, b), Extends(b, c) PROVE Extends(a, c)
BY DEF Extends

\* Taking pages without touching a table keeps memory sound.
LEMMA SameTablesSound ==
    ASSUME NEW m, NEW n, Sound(m), IsMem(n), SameTables(m, n), m.pmm.used \subseteq n.pmm.used
    PROVE  Sound(n) /\ Extends(m, n)
<1>1. Placed(n)
  BY DEF Sound, Paging, Placed, SameTables
<1>2. Closed(n)
  BY DEF Sound, Paging, Closed, SameTables
<1>3. Owned(n)
  BY DEF Sound, Paging, Owned, SameTables
<1>4. Extends(m, n)
  BY DEF Extends, SameTables
<1> QED
  BY <1>1, <1>2, <1>3, <1>4 DEF Sound, Paging

\* The machine after the allocator's answer r.
Take(m, r) == [m EXCEPT !.pmm = r.pmm]

\* What it has after asking for n pages between lo and hi.
Given(m, k, r, lo, hi, n) ==
    /\ Sound(k) /\ Extends(m, k) /\ SameTables(m, k)
    /\ k.pmm = r.pmm /\ k.fault = m.fault
    /\ r.ret # NoPage => /\ r.ret \in Nat /\ lo <= r.ret /\ r.ret + n <= hi
                         /\ Pages(r.ret, n) \subseteq k.pmm.used
                         /\ Pages(r.ret, n) \cap m.pmm.used = {}

(* Taking pages changes the allocator alone.                               *)
LEMMA TakeSound ==
    ASSUME NEW m, Sound(m), NEW r, NEW lo \in Nat, NEW hi \in Int, NEW n \in Nat,
           Outcome(m.pmm, r, lo, hi, n),
           NEW k, k = Take(m, r)
    PROVE  Given(m, k, r, lo, hi, n)
<1>1. k = [pmm |-> r.pmm, kernelPD |-> m.kernelPD, pd |-> m.pd, ptUser |-> m.ptUser,
           room |-> m.room, fault |-> m.fault]
  BY DEF Sound, IsMem, Take
<1>2. /\ k.pmm = r.pmm /\ k.kernelPD = m.kernelPD /\ k.pd = m.pd /\ k.ptUser = m.ptUser
      /\ k.room = m.room /\ k.fault = m.fault
  BY <1>1
<1>3. /\ IsPmm(r.pmm) /\ r.pmm.total_pages = TotalPages /\ m.pmm.used \subseteq r.pmm.used
      /\ m.room \in Nat /\ m.fault \in BOOLEAN
  BY DEF Outcome, Sound, IsMem
<1>4. IsMem(k)
  BY <1>1, <1>2, <1>3, Zenon DEF IsMem
<1>5. SameTables(m, k)
  BY <1>2 DEF SameTables
<1>6. Sound(k) /\ Extends(m, k)
  BY <1>2, <1>3, <1>4, <1>5, SameTablesSound
<1>7. r.ret # NoPage => /\ r.ret \in Nat /\ lo <= r.ret /\ r.ret + n <= hi
                        /\ Pages(r.ret, n) \subseteq r.pmm.used
                        /\ Pages(r.ret, n) \cap m.pmm.used = {}
  BY DEF Outcome
<1>8. r.ret # NoPage => /\ r.ret \in Nat /\ lo <= r.ret /\ r.ret + n <= hi
                        /\ Pages(r.ret, n) \subseteq k.pmm.used
                        /\ Pages(r.ret, n) \cap m.pmm.used = {}
  BY <1>2, <1>7
<1> QED
  BY <1>2, <1>5, <1>6, <1>8, Zenon DEF Given

(* A fault changes nothing but its flag.                                   *)
LEMMA FaultSound ==
    ASSUME NEW m, Sound(m)
    PROVE  /\ Sound(Fault(m)) /\ Extends(m, Fault(m)) /\ SameTables(m, Fault(m))
           /\ Fault(m).pmm = m.pmm /\ Fault(m).fault
<1>1. PICK k : k = Fault(m)
  OBVIOUS
<1>2. k = [pmm |-> m.pmm, kernelPD |-> m.kernelPD, pd |-> m.pd, ptUser |-> m.ptUser,
           room |-> m.room, fault |-> TRUE]
  BY <1>1, Zenon DEF Fault, Sound, IsMem
<1>3. /\ k.pmm = m.pmm /\ k.kernelPD = m.kernelPD /\ k.pd = m.pd /\ k.ptUser = m.ptUser
      /\ k.room = m.room
  BY <1>2
<1>4. k.fault = TRUE
  BY <1>2, Zenon
<1>5. IsMem(k)
  BY <1>2, <1>3, <1>4, Zenon DEF IsMem, Sound
<1>6. SameTables(m, k)
  BY <1>3 DEF SameTables
<1>7. Sound(k) /\ Extends(m, k)
  BY <1>3, <1>5, <1>6, SameTablesSound
<1> QED
  BY <1>1, <1>3, <1>4, <1>6, <1>7

\* Nothing is left for the heap to grow by.
NoHeapLeft(p) == pmm_alloc_contiguous_pages(p, ExpandPages).ret = NoPage

\* k is m with p for its allocator and so much room in its heap.
Becomes(m, k, p, room) ==
    k = [pmm |-> p, kernelPD |-> m.kernelPD, pd |-> m.pd, ptUser |-> m.ptUser,
         room |-> room, fault |-> m.fault]

(* The heap takes from the allocator alone, and refuses only when it       *)
(* cannot grow.                                                            *)
LEMMA KmallocSound ==
    ASSUME NEW m, Sound(m)
    PROVE  /\ Sound(kmalloc(m).mem) /\ Extends(m, kmalloc(m).mem)
           /\ SameTables(m, kmalloc(m).mem) /\ kmalloc(m).mem.fault = m.fault
           /\ ~kmalloc(m).ok => kmalloc(m).mem = m /\ NoHeapLeft(m.pmm)
<1> DEFINE grown == pmm_alloc_contiguous_pages(m.pmm, ExpandPages)
<1>1. /\ HeapSlots - 1 \in Nat /\ ExpandPages \in Nat
      /\ IsPmm(m.pmm) /\ m.room \in Nat /\ m.fault \in BOOLEAN
  BY SpacesAssumption DEF Sound, IsMem
<1>2. Outcome(m.pmm, grown, 0, KernelLimit(m.pmm), ExpandPages)
  BY <1>1, KernelRunOutcome
<1>3. /\ m.pmm.total_pages = TotalPages
      /\ m = [pmm |-> m.pmm, kernelPD |-> m.kernelPD, pd |-> m.pd, ptUser |-> m.ptUser,
              room |-> m.room, fault |-> m.fault]
  BY DEF Sound, IsMem
<1>4. ASSUME NEW p, NEW room \in Nat, NEW k,
             Becomes(m, k, p, room), IsPmm(p), p.total_pages = TotalPages, m.pmm.used \subseteq p.used
      PROVE  Sound(k) /\ Extends(m, k) /\ SameTables(m, k) /\ k.fault = m.fault
  <2>1. /\ k.pmm = p /\ k.kernelPD = m.kernelPD /\ k.pd = m.pd /\ k.ptUser = m.ptUser
        /\ k.room = room /\ k.fault = m.fault
    BY <1>4 DEF Becomes
  <2>2. IsMem(k)
    BY <1>1, <1>4, <2>1, Zenon DEF IsMem, Becomes
  <2>3. SameTables(m, k)
    BY <2>1 DEF SameTables
  <2> QED
    BY <1>4, <2>1, <2>2, <2>3, SameTablesSound
<1>5. CASE m.room > 0
  <2>1. m.room - 1 \in Nat
    BY <1>1, <1>5
  <2>2. PICK k : k = [m EXCEPT !.room = @ - 1]
    OBVIOUS
  <2>3. kmalloc(m) = [mem |-> k, ok |-> TRUE]
    BY <1>5, <2>2 DEF kmalloc
  <2>4. k = [pmm |-> m.pmm, kernelPD |-> m.kernelPD, pd |-> m.pd, ptUser |-> m.ptUser,
             room |-> m.room - 1, fault |-> m.fault]
    BY <1>3, <2>2
  <2>5. Sound(k) /\ Extends(m, k) /\ SameTables(m, k) /\ k.fault = m.fault
    <3>1. PICK p, room : p = m.pmm /\ room = m.room - 1
      OBVIOUS
    <3>2. room \in Nat /\ IsPmm(p) /\ p.total_pages = TotalPages /\ m.pmm.used \subseteq p.used
      BY <1>1, <1>3, <2>1, <3>1
    <3>3. Becomes(m, k, p, room)
      BY <2>4, <3>1, Zenon DEF Becomes
    <3> QED
      BY <1>4, <3>2, <3>3
  <2>6. kmalloc(m).mem = k
    BY <2>3
  <2>7. kmalloc(m).ok
    BY <2>3
  <2> QED
    BY <2>5, <2>6, <2>7, Zenon
<1>6. CASE m.room = 0 /\ grown.ret # NoPage
  <2>1. PICK k : k = [m EXCEPT !.pmm = grown.pmm, !.room = HeapSlots - 1]
    OBVIOUS
  <2>2. kmalloc(m) = [mem |-> k, ok |-> TRUE]
    BY <1>6, <2>1 DEF kmalloc
  <2>3. k = [pmm |-> grown.pmm, kernelPD |-> m.kernelPD, pd |-> m.pd, ptUser |-> m.ptUser,
             room |-> HeapSlots - 1, fault |-> m.fault]
    BY <1>3, <2>1
  <2>4. /\ IsPmm(grown.pmm) /\ grown.pmm.total_pages = TotalPages
        /\ m.pmm.used \subseteq grown.pmm.used
    BY <1>2, <1>3, <1>6 DEF Outcome
  <2>5. Sound(k) /\ Extends(m, k) /\ SameTables(m, k) /\ k.fault = m.fault
    <3>1. PICK p, room : p = grown.pmm /\ room = HeapSlots - 1
      OBVIOUS
    <3>2. room \in Nat /\ IsPmm(p) /\ p.total_pages = TotalPages /\ m.pmm.used \subseteq p.used
      BY <1>1, <2>4, <3>1, Zenon
    <3>3. Becomes(m, k, p, room)
      BY <2>3, <3>1, Zenon DEF Becomes
    <3> QED
      BY <1>4, <3>2, <3>3
  <2>6. kmalloc(m).mem = k
    BY <2>2
  <2>7. kmalloc(m).ok
    BY <2>2
  <2> QED
    BY <2>5, <2>6, <2>7, Zenon
<1>7. CASE m.room = 0 /\ grown.ret = NoPage
  <2>5. ~(m.room > 0) /\ ~(grown.ret # NoPage)
    BY <1>7
  <2>1. kmalloc(m) = [mem |-> m, ok |-> FALSE]
    BY <2>5, Zenon DEF kmalloc
  <2>2. kmalloc(m).mem = m
    BY <2>1
  <2>4. ~kmalloc(m).ok
    BY <2>1
  <2>3. Sound(m) /\ Extends(m, m) /\ SameTables(m, m)
    BY DEF Extends, SameTables
  <2> QED
    BY <1>7, <2>2, <2>3, <2>4, Zenon DEF NoHeapLeft
<1> QED
  BY <1>1, <1>5, <1>6, <1>7

-----------------------------------------------------------------------------
(* Opening one page under entry i of a directory d: its table is t then.   *)

Entry(T) == [pt : T, user : BOOLEAN]

OpensAt(m, n, d, i, t, p) ==
    /\ IsMem(n) /\ n.kernelPD = m.kernelPD /\ n.fault = m.fault
    /\ m.pmm.used \subseteq n.pmm.used
    /\ DOMAIN n.pd = DOMAIN m.pd /\ DOMAIN n.ptUser = DOMAIN m.ptUser \cup {t}
    /\ \A e \in DOMAIN m.pd : e # d => n.pd[e] = m.pd[e]
    /\ n.pd[d] \in [PdIndices -> Entry(DOMAIN n.ptUser)]
    /\ \A j \in PdIndices : j # i => n.pd[d][j] = m.pd[d][j]
    /\ n.pd[d][i].pt = t /\ n.pd[d][i].user
    /\ \A x \in DOMAIN m.ptUser : x # t => n.ptUser[x] = m.ptUser[x]
    /\ n.ptUser[t] = (IF t \in DOMAIN m.ptUser THEN m.ptUser[t] ELSE {}) \cup {p}

\* The table an entry gets is the private one it has, or a page that was free.
TableFor(m, n, d, i, t) ==
    \/ t = m.pd[d][i].pt /\ t # m.pd[m.kernelPD][i].pt
    \/ /\ m.pd[d][i].pt = m.pd[m.kernelPD][i].pt
       /\ t \notin m.pmm.used /\ t \in n.pmm.used \cap (0..(KernelEnd - 1))

(* A page opened this way disturbs no other directory.                     *)
LEMMA OpensSound ==
    ASSUME NEW m, NEW n, Sound(m), NEW d \in DOMAIN m.pd, d # m.kernelPD,
           NEW i \in PdIndices, NEW t, NEW p, OpensAt(m, n, d, i, t, p),
           TableFor(m, n, d, i, t)
    PROVE  Sound(n)
<1> DEFINE k == m.kernelPD
<1>1. /\ k \in DOMAIN m.pd /\ DOMAIN m.pd \cap DOMAIN m.ptUser = {}
      /\ \A e \in DOMAIN m.pd : m.pd[e] \in [PdIndices -> Entry(DOMAIN m.ptUser)]
      /\ DOMAIN m.pd \cup DOMAIN m.ptUser \subseteq m.pmm.used \cap (0..(KernelEnd - 1))
  BY DEF Sound, Paging, Placed, Entry
<1>2. \A e \in DOMAIN m.pd, j \in PdIndices :
         m.pd[e][j].pt \in DOMAIN m.ptUser /\ m.pd[e][j].user \in BOOLEAN
  <2> TAKE e \in DOMAIN m.pd, j \in PdIndices
  <2>1. m.pd[e][j] \in Entry(DOMAIN m.ptUser)
    BY <1>1
  <2> QED
    BY <2>1 DEF Entry
<1>3. /\ n.kernelPD = k /\ DOMAIN n.pd = DOMAIN m.pd
      /\ DOMAIN n.ptUser = DOMAIN m.ptUser \cup {t} /\ m.pmm.used \subseteq n.pmm.used
      /\ \A e \in DOMAIN m.pd : e # d => n.pd[e] = m.pd[e]
      /\ n.pd[d] \in [PdIndices -> Entry(DOMAIN n.ptUser)]
      /\ \A j \in PdIndices : j # i => n.pd[d][j] = m.pd[d][j]
      /\ n.pd[d][i].pt = t /\ n.pd[d][i].user
      /\ \A x \in DOMAIN m.ptUser : x # t => n.ptUser[x] = m.ptUser[x]
  BY DEF OpensAt
<1>4. t # m.pd[k][i].pt
  BY <1>1, <1>2 DEF TableFor
<1>5. \A e \in DOMAIN m.pd, j \in PdIndices : (e # d \/ j # i) => n.pd[e][j] = m.pd[e][j]
  BY <1>3
<1>6. \A e \in DOMAIN m.pd, j \in PdIndices : m.pd[e][j].pt = t => e = d /\ j = i
  <2> SUFFICES ASSUME NEW e \in DOMAIN m.pd, NEW j \in PdIndices, m.pd[e][j].pt = t
               PROVE  e = d /\ j = i
    OBVIOUS
  <2>1. t \in DOMAIN m.ptUser /\ t \in m.pmm.used
    BY <1>1, <1>2
  <2>2. t = m.pd[d][i].pt /\ t # m.pd[k][i].pt
    BY <2>1 DEF TableFor
  <2> QED
    BY <2>2 DEF Sound, Paging, Owned
<1>7. \A j \in PdIndices : n.pd[k][j] = m.pd[k][j]
  BY <1>1, <1>5
<1>8. Placed(n)
  <2>1. ASSUME NEW e \in DOMAIN n.pd PROVE n.pd[e] \in [PdIndices -> Entry(DOMAIN n.ptUser)]
    <3>1. CASE e = d
      BY <1>3, <3>1
    <3>2. CASE e # d
      <4>1. n.pd[e] = m.pd[e] /\ m.pd[e] \in [PdIndices -> Entry(DOMAIN m.ptUser)]
        BY <1>1, <1>3, <3>2
      <4>2. DOMAIN m.ptUser \subseteq DOMAIN n.ptUser
        BY <1>3
      <4>3. Entry(DOMAIN m.ptUser) \subseteq Entry(DOMAIN n.ptUser)
        BY <4>2 DEF Entry
      <4> QED
        BY <4>1, <4>3
    <3> QED
      BY <3>1, <3>2
  <2>2. t \in n.pmm.used \cap (0..(KernelEnd - 1)) /\ t \notin DOMAIN m.pd
    BY <1>1, <1>2, <1>3 DEF TableFor
  <2>3. DOMAIN n.pd \cup DOMAIN n.ptUser \subseteq n.pmm.used \cap (0..(KernelEnd - 1))
    BY <1>1, <1>3, <2>2
  <2>4. DOMAIN n.pd \cap DOMAIN n.ptUser = {}
    BY <1>1, <1>3, <2>2
  <2> QED
    BY <1>1, <1>3, <2>1, <2>3, <2>4, Zenon DEF Placed, Entry
<1>9. Closed(n)
  <2>1. \A j \in PdIndices : m.ptUser[m.pd[k][j].pt] = {}
    BY DEF Sound, Paging, Closed
  <2>2. \A e \in DOMAIN m.pd, j \in PdIndices : m.pd[e][j].user <=> m.pd[e][j].pt # m.pd[k][j].pt
    BY DEF Sound, Paging, Closed
  <2>3. ASSUME NEW j \in PdIndices PROVE n.ptUser[n.pd[k][j].pt] = {}
    <3>1. m.pd[k][j].pt # t /\ m.pd[k][j].pt \in DOMAIN m.ptUser
      BY <1>1, <1>2, <1>6
    <3> QED
      BY <1>3, <1>7, <2>1, <3>1
  <2>4. ASSUME NEW e \in DOMAIN n.pd, NEW j \in PdIndices
        PROVE  n.pd[e][j].user <=> n.pd[e][j].pt # n.pd[k][j].pt
    <3>1. CASE e = d /\ j = i
      BY <1>3, <1>4, <1>7, <3>1
    <3>2. CASE ~(e = d /\ j = i)
      BY <1>3, <1>5, <1>7, <2>2, <3>2
    <3> QED
      BY <3>1, <3>2
  <2> QED
    BY <1>3, <2>3, <2>4 DEF Closed
<1>10. Owned(n)
  <2> SUFFICES ASSUME NEW e \in DOMAIN n.pd, NEW f \in DOMAIN n.pd, NEW j \in PdIndices,
                      NEW l \in PdIndices, n.pd[e][j].pt = n.pd[f][l].pt
               PROVE  j = l /\ (e = f \/ n.pd[e][j].pt = n.pd[k][j].pt)
    BY <1>3 DEF Owned
  <2>1. e \in DOMAIN m.pd /\ f \in DOMAIN m.pd
    BY <1>3
  <2>2. CASE e = d /\ j = i
    <3>1. f = d /\ l = i
      BY <1>3, <1>5, <1>6, <2>1, <2>2
    <3> QED
      BY <2>2, <3>1
  <2>3. CASE f = d /\ l = i
    <3>1. e = d /\ j = i
      BY <1>3, <1>5, <1>6, <2>1, <2>3
    <3> QED
      BY <2>3, <3>1
  <2>4. CASE ~(e = d /\ j = i) /\ ~(f = d /\ l = i)
    <3>1. n.pd[e][j] = m.pd[e][j] /\ n.pd[f][l] = m.pd[f][l] /\ n.pd[k][j] = m.pd[k][j]
      BY <1>5, <1>7, <2>1, <2>4
    <3>2. m.pd[e][j].pt = m.pd[f][l].pt
      BY <3>1
    <3>3. j = l /\ (e = f \/ m.pd[e][j].pt = m.pd[k][j].pt)
      BY <2>1, <3>2 DEF Sound, Paging, Owned
    <3> QED
      BY <3>1, <3>3
  <2> QED
    BY <2>2, <2>3, <2>4
<1> QED
  BY <1>8, <1>9, <1>10 DEF Sound, Paging, OpensAt

\* The pages a directory opens to ring 3.
Reached(m, d) ==
    {p \in 0..(TotalPages - 1) : /\ PdIndex(p) \in PdIndices
                                 /\ m.pd[d][PdIndex(p)].user
                                 /\ p \in m.ptUser[m.pd[d][PdIndex(p)].pt]}

(* It opens that page and no other.                                        *)
LEMMA OpensReached ==
    ASSUME NEW m, NEW n, Sound(m), NEW d \in DOMAIN m.pd,
           NEW t, NEW p \in 0..(TotalPages - 1),
           OpensAt(m, n, d, PdIndex(p), t, p), TableFor(m, n, d, PdIndex(p), t)
    PROVE  Reached(n, d) = Reached(m, d) \cup {p}
<1> DEFINE k == m.kernelPD
<1>1. PICK i \in PdIndices : i = PdIndex(p)
  BY Layout
<1>2. /\ \A e \in DOMAIN m.pd, j \in PdIndices : m.pd[e][j].pt \in DOMAIN m.ptUser
      /\ DOMAIN m.ptUser \subseteq m.pmm.used /\ k \in DOMAIN m.pd
  <2>1. ASSUME NEW e \in DOMAIN m.pd, NEW j \in PdIndices
        PROVE  m.pd[e][j].pt \in DOMAIN m.ptUser
    <3>1. m.pd[e][j] \in [pt : DOMAIN m.ptUser, user : BOOLEAN]
      BY DEF Sound, Paging, Placed
    <3> QED
      BY <3>1
  <2> QED
    BY <2>1 DEF Sound, Paging, Placed
<1>3. \A e \in DOMAIN m.pd, j \in PdIndices : m.pd[e][j].user <=> m.pd[e][j].pt # m.pd[k][j].pt
  BY DEF Sound, Paging, Closed
<1>4. /\ \A j \in PdIndices : j # i => n.pd[d][j] = m.pd[d][j]
      /\ n.pd[d][i].pt = t /\ n.pd[d][i].user
      /\ \A x \in DOMAIN m.ptUser : x # t => n.ptUser[x] = m.ptUser[x]
      /\ n.ptUser[t] = (IF t \in DOMAIN m.ptUser THEN m.ptUser[t] ELSE {}) \cup {p}
  BY <1>1 DEF OpensAt
<1>5. ASSUME NEW q \in 0..(TotalPages - 1), PdIndex(q) # i
      PROVE  q \in Reached(n, d) <=> q \in Reached(m, d)
  <2>1. PICK j \in PdIndices : j = PdIndex(q)
    BY Layout
  <2>2. n.pd[d][j] = m.pd[d][j] /\ m.pd[d][j].pt \in DOMAIN m.ptUser
    BY <1>2, <1>4, <1>5, <2>1
  <2>3. m.pd[d][j].pt # t
    <3>1. CASE t = m.pd[d][i].pt
      <4>1. t # m.pd[k][i].pt
        BY <1>1, <1>2, <3>1 DEF TableFor
      <4> QED
        BY <1>5, <2>1, <3>1, <4>1 DEF Sound, Paging, Owned
    <3>2. CASE t # m.pd[d][i].pt
      BY <1>1, <1>2, <2>2, <3>2 DEF TableFor
    <3> QED
      BY <3>1, <3>2
  <2>4. n.ptUser[m.pd[d][j].pt] = m.ptUser[m.pd[d][j].pt]
    BY <1>4, <2>2, <2>3
  <2> QED
    BY <2>1, <2>2, <2>4 DEF Reached
<1>6. ASSUME NEW q \in 0..(TotalPages - 1), PdIndex(q) = i
      PROVE  q \in Reached(n, d) <=> q \in Reached(m, d) \/ q = p
  <2>1. q \in Reached(n, d) <=> q \in n.ptUser[t]
    BY <1>1, <1>4, <1>6 DEF Reached
  <2>2. CASE t = m.pd[d][i].pt /\ t # m.pd[k][i].pt
    <3>1. m.pd[d][i].user /\ t \in DOMAIN m.ptUser
      BY <1>2, <1>3, <2>2
    <3>2. q \in Reached(m, d) <=> q \in m.ptUser[t]
      BY <1>1, <1>6, <2>2, <3>1 DEF Reached
    <3> QED
      BY <1>4, <2>1, <3>1, <3>2
  <2>3. CASE m.pd[d][i].pt = m.pd[k][i].pt /\ t \notin m.pmm.used
    <3>1. ~m.pd[d][i].user /\ t \notin DOMAIN m.ptUser
      BY <1>2, <1>3, <2>3
    <3>2. q \notin Reached(m, d)
      BY <1>1, <1>6, <3>1 DEF Reached
    <3> QED
      BY <1>4, <2>1, <3>1, <3>2
  <2> QED
    BY <1>1, <2>2, <2>3 DEF TableFor
<1>7. \A q : q \in Reached(n, d) \/ q \in Reached(m, d) => q \in 0..(TotalPages - 1)
  BY DEF Reached
<1>8. p \in Reached(n, d)
  BY <1>1, <1>6
<1> QED
  BY <1>5, <1>6, <1>7, <1>8, <1>1

-----------------------------------------------------------------------------
(* When no kernel page is left, the heap cannot grow (pmm.c:84-119).       *)
LEMMA NoPageNoHeap ==
    ASSUME NEW m, IsPmm(m), pmm_alloc_page(m).ret = NoPage
    PROVE  NoHeapLeft(m)
<1> DEFINE hi == KernelLimit(m)
           n  == ExpandPages
<1>1. n \in Nat \ {0} /\ hi \in Int
  BY SpacesAssumption, KernelLimitType
<1>2. \A k \in Nat : FreeRuns(m, 0, hi, k) \subseteq Nat
  BY <1>1 DEF FreeRuns
<1>3. FreeRuns(m, 0, hi, 1) = {}
  <2>1. ASSUME FreeRuns(m, 0, hi, 1) # {} PROVE FALSE
    <3>1. \E s \in FreeRuns(m, 0, hi, 1) : \A r \in FreeRuns(m, 0, hi, 1) : s <= r
      BY <1>2, <2>1, LeastNat
    <3>2. Alloc(m, 0, hi, 1).ret \in FreeRuns(m, 0, hi, 1)
      BY <2>1, <3>1, Zenon DEF Alloc
    <3>3. Alloc(m, 0, hi, 1).ret = NoPage
      BY DEF pmm_alloc_page
    <3> QED
      BY <1>2, <3>2, <3>3 DEF NoPage
  <2> QED
    BY <2>1
<1>4. FreeRuns(m, 0, hi, n) = {}
  <2>1. ASSUME NEW s \in FreeRuns(m, 0, hi, n) PROVE FALSE
    <3>1. s \in 0..(hi - 1) /\ s + n <= hi /\ Pages(s, n) \cap m.used = {}
      BY DEF FreeRuns
    <3>2. s + 1 <= hi /\ Pages(s, 1) \subseteq Pages(s, n)
      BY <1>1, <3>1 DEF Pages
    <3>3. s \in FreeRuns(m, 0, hi, 1)
      BY <3>1, <3>2 DEF FreeRuns
    <3> QED
      BY <1>3, <3>3
  <2> QED
    BY <2>1
<1>5. Alloc(m, 0, hi, n).ret = NoPage
  BY <1>4 DEF Alloc
<1>6. CASE n = 0 \/ n > m.free_pages
  BY <1>6 DEF pmm_alloc_contiguous_pages, NoHeapLeft
<1>7. CASE ~(n = 0 \/ n > m.free_pages)
  BY <1>5, <1>7 DEF pmm_alloc_contiguous_pages, NoHeapLeft
<1> QED
  BY <1>6, <1>7

\* m with a page added to the set behind table x, and its entry opened.
Shown(m, d, i, x, p) == [m EXCEPT !.ptUser[x] = @ \cup {p}, !.pd[d][i].user = TRUE]

\* m with table x, fresh from the allocator, behind entry i of d.
Privy(m, a, d, i, x, content) ==
    [m EXCEPT !.pmm = a, !.ptUser = With(@, x, content),
              !.pd[d][i] = [pt |-> x, user |-> FALSE]]

\* Field by field, for entries that point to tables of the set T.
IsShown(m, n, d, i, x, p, T) ==
    /\ IsMem(n) /\ n.pmm = m.pmm /\ n.kernelPD = m.kernelPD /\ n.fault = m.fault
    /\ DOMAIN n.pd = DOMAIN m.pd /\ DOMAIN n.ptUser = DOMAIN m.ptUser
    /\ \A e \in DOMAIN m.pd : e # d => n.pd[e] = m.pd[e]
    /\ n.pd[d] \in [PdIndices -> Entry(T)]
    /\ \A j \in PdIndices : j # i => n.pd[d][j] = m.pd[d][j]
    /\ n.pd[d][i].pt = x /\ n.pd[d][i].user
    /\ \A y \in DOMAIN m.ptUser : y # x => n.ptUser[y] = m.ptUser[y]
    /\ n.ptUser[x] = m.ptUser[x] \cup {p}

IsPrivy(m, n, a, d, i, x, content, T) ==
    /\ IsMem(n) /\ n.pmm = a /\ n.kernelPD = m.kernelPD /\ n.fault = m.fault
    /\ DOMAIN n.pd = DOMAIN m.pd /\ DOMAIN n.ptUser = DOMAIN m.ptUser \cup {x}
    /\ \A e \in DOMAIN m.pd : e # d => n.pd[e] = m.pd[e]
    /\ n.pd[d] \in [PdIndices -> Entry(T \cup {x})]
    /\ \A j \in PdIndices : j # i => n.pd[d][j] = m.pd[d][j]
    /\ n.pd[d][i].pt = x
    /\ \A y \in DOMAIN m.ptUser : n.ptUser[y] = m.ptUser[y]
    /\ n.ptUser[x] = content

\* Setting the user bits of one page changes nothing else.
LEMMA ShownIs ==
    ASSUME NEW m, IsMem(m), NEW d \in DOMAIN m.pd, NEW i \in PdIndices, NEW p,
           NEW T, m.pd[d] \in [PdIndices -> Entry(T)],
           NEW x \in DOMAIN m.ptUser, x = m.pd[d][i].pt,
           NEW n, n = Shown(m, d, i, x, p)
    PROVE  IsShown(m, n, d, i, x, p, T)
<1>1. m = [pmm |-> m.pmm, kernelPD |-> m.kernelPD, pd |-> m.pd, ptUser |-> m.ptUser,
           room |-> m.room, fault |-> m.fault]
  BY DEF IsMem
<1>2. PICK open : open = [m.pd[d][i] EXCEPT !.user = TRUE]
  OBVIOUS
<1>3. PICK row : row = [m.pd[d] EXCEPT ![i] = open]
  OBVIOUS
<1>4. PICK pd : pd = [m.pd EXCEPT ![d] = row]
  OBVIOUS
<1>5. PICK pu : pu = [m.ptUser EXCEPT ![x] = @ \cup {p}]
  OBVIOUS
<1>6. n = [pmm |-> m.pmm, kernelPD |-> m.kernelPD, pd |-> pd, ptUser |-> pu,
           room |-> m.room, fault |-> m.fault]
  <2>1. n.pd = pd
    BY <1>1, <1>2, <1>3, <1>4 DEF Shown
  <2>2. n.ptUser = pu
    BY <1>1, <1>5 DEF Shown
  <2>3. n = [pmm |-> n.pmm, kernelPD |-> n.kernelPD, pd |-> n.pd, ptUser |-> n.ptUser,
             room |-> n.room, fault |-> n.fault]
    BY <1>1 DEF Shown
  <2>4. n.pmm = m.pmm /\ n.kernelPD = m.kernelPD /\ n.room = m.room /\ n.fault = m.fault
    BY <1>1 DEF Shown
  <2> QED
    BY <2>1, <2>2, <2>3, <2>4
<1>7. /\ n.pmm = m.pmm /\ n.kernelPD = m.kernelPD /\ n.pd = pd /\ n.ptUser = pu
      /\ n.room = m.room /\ n.fault = m.fault
  BY <1>6
<1>8. IsMem(n)
  BY <1>6, <1>7, Zenon DEF IsMem
<1>9. m.pd[d][i] \in Entry(T)
  OBVIOUS
<1>10. open.pt = x /\ open.user /\ open \in Entry(T)
  BY <1>2, <1>9 DEF Entry
<1>11. /\ row \in [PdIndices -> Entry(T)] /\ row[i] = open
       /\ \A j \in PdIndices : j # i => row[j] = m.pd[d][j]
  BY <1>3, <1>10
<1>12. /\ DOMAIN pd = DOMAIN m.pd /\ pd[d] = row
       /\ \A e \in DOMAIN m.pd : e # d => pd[e] = m.pd[e]
  BY <1>4
<1>13. /\ DOMAIN pu = DOMAIN m.ptUser /\ pu[x] = m.ptUser[x] \cup {p}
       /\ \A y \in DOMAIN m.ptUser : y # x => pu[y] = m.ptUser[y]
  BY <1>5
<1> QED
  BY <1>7, <1>8, <1>10, <1>11, <1>12, <1>13 DEF IsShown

\* Giving one entry a table of its own changes nothing else.
LEMMA PrivyIs ==
    ASSUME NEW m, IsMem(m), NEW d \in DOMAIN m.pd, NEW i \in PdIndices, NEW x, NEW content,
           NEW T, m.pd[d] \in [PdIndices -> Entry(T)], x \notin DOMAIN m.ptUser,
           NEW a, IsPmm(a), a.total_pages = TotalPages,
           NEW n, n = Privy(m, a, d, i, x, content)
    PROVE  IsPrivy(m, n, a, d, i, x, content, T)
<1>1. m = [pmm |-> m.pmm, kernelPD |-> m.kernelPD, pd |-> m.pd, ptUser |-> m.ptUser,
           room |-> m.room, fault |-> m.fault]
  BY DEF IsMem
<1>2. PICK shut : shut = [pt |-> x, user |-> FALSE]
  OBVIOUS
<1>3. PICK row : row = [m.pd[d] EXCEPT ![i] = shut]
  OBVIOUS
<1>4. PICK pd : pd = [m.pd EXCEPT ![d] = row]
  OBVIOUS
<1>5. PICK pu : pu = With(m.ptUser, x, content)
  OBVIOUS
<1>6. n = [pmm |-> a, kernelPD |-> m.kernelPD, pd |-> pd, ptUser |-> pu,
           room |-> m.room, fault |-> m.fault]
  <2>1. n.pd = pd
    BY <1>1, <1>2, <1>3, <1>4 DEF Privy
  <2>2. n.ptUser = pu
    BY <1>1, <1>5 DEF Privy
  <2>3. n = [pmm |-> n.pmm, kernelPD |-> n.kernelPD, pd |-> n.pd, ptUser |-> n.ptUser,
             room |-> n.room, fault |-> n.fault]
    BY <1>1 DEF Privy
  <2>4. n.pmm = a /\ n.kernelPD = m.kernelPD /\ n.room = m.room /\ n.fault = m.fault
    BY <1>1 DEF Privy
  <2> QED
    BY <2>1, <2>2, <2>3, <2>4
<1>7. /\ n.pmm = a /\ n.kernelPD = m.kernelPD /\ n.pd = pd /\ n.ptUser = pu
      /\ n.room = m.room /\ n.fault = m.fault
  BY <1>6
<1>8. IsMem(n)
  BY <1>6, <1>7, Zenon DEF IsMem
<1>9. Entry(T) \subseteq Entry(T \cup {x})
  BY DEF Entry
<1>10. shut.pt = x /\ shut \in Entry(T \cup {x})
  BY <1>2 DEF Entry
<1>11. /\ row \in [PdIndices -> Entry(T \cup {x})] /\ row[i] = shut
       /\ \A j \in PdIndices : j # i => row[j] = m.pd[d][j]
  BY <1>3, <1>9, <1>10
<1>12. /\ DOMAIN pd = DOMAIN m.pd /\ pd[d] = row
       /\ \A e \in DOMAIN m.pd : e # d => pd[e] = m.pd[e]
  BY <1>4
<1>13. /\ DOMAIN pu = DOMAIN m.ptUser \cup {x} /\ pu[x] = content
       /\ \A y \in DOMAIN m.ptUser : pu[y] = m.ptUser[y]
  BY <1>5 DEF With
<1> QED
  BY <1>7, <1>8, <1>10, <1>11, <1>12, <1>13 DEF IsPrivy

(* The three ends of opening a page: nothing on a dead machine, the page   *)
(* open, or a fault because no page is left for a table.                   *)
LEMMA SetUserAccessible ==
    ASSUME NEW m, Sound(m), NEW d \in DOMAIN m.pd, d # m.kernelPD,
           NEW p \in 0..(TotalPages - 1),
           NEW n, n = paging_set_user_accessible_for_task(d, p, m)
    PROVE  \/ m.fault /\ n = m
           \/ ~m.fault /\ n = Fault(m) /\ NoHeapLeft(m.pmm)
           \/ /\ ~m.fault
              /\ \E t : OpensAt(m, n, d, PdIndex(p), t, p) /\ TableFor(m, n, d, PdIndex(p), t)
<1> DEFINE kernel == m.pd[m.kernelPD][PdIndex(p)].pt
           r == pmm_alloc_page(m.pmm)
<1>1. PICK i \in PdIndices : i = PdIndex(p)
  BY Layout
<1>2. /\ IsMem(m) /\ IsPmm(m.pmm) /\ m.pmm.total_pages = TotalPages
      /\ \A e \in DOMAIN m.pd : m.pd[e] \in [PdIndices -> Entry(DOMAIN m.ptUser)]
      /\ m.kernelPD \in DOMAIN m.pd /\ DOMAIN m.ptUser \subseteq m.pmm.used
      /\ m.ptUser[kernel] = {}
  BY <1>1 DEF Sound, IsMem, Paging, Placed, Closed, Entry
<1>3. m.pd[d][i].pt \in DOMAIN m.ptUser /\ kernel \in DOMAIN m.ptUser
  <2>1. m.pd[d][i] \in Entry(DOMAIN m.ptUser) /\ m.pd[m.kernelPD][i] \in Entry(DOMAIN m.ptUser)
    BY <1>2
  <2> QED
    BY <1>1, <2>1 DEF Entry
<1>4. CASE m.fault
  BY <1>4 DEF paging_set_user_accessible_for_task, Dead
<1>5. CASE ~m.fault /\ m.pd[d][i].pt # kernel
  <2>1. PICK x : x = m.pd[d][i].pt
    OBVIOUS
  <2>2. n = Shown(m, d, i, x, p)
    BY <1>1, <1>5, <2>1, Zenon DEF paging_set_user_accessible_for_task, Dead, Shown
  <2>3. x \in DOMAIN m.ptUser
    BY <1>3, <2>1
  <2>4. PICK T : T = DOMAIN m.ptUser /\ m.pd[d] \in [PdIndices -> Entry(T)]
    BY <1>2
  <2>5. /\ IsMem(n) /\ n.pmm = m.pmm /\ n.kernelPD = m.kernelPD /\ n.fault = m.fault
        /\ DOMAIN n.pd = DOMAIN m.pd /\ DOMAIN n.ptUser = DOMAIN m.ptUser
        /\ \A e \in DOMAIN m.pd : e # d => n.pd[e] = m.pd[e]
        /\ n.pd[d] \in [PdIndices -> Entry(T)]
        /\ \A j \in PdIndices : j # i => n.pd[d][j] = m.pd[d][j]
        /\ n.pd[d][i].pt = x /\ n.pd[d][i].user
        /\ \A y \in DOMAIN m.ptUser : y # x => n.ptUser[y] = m.ptUser[y]
        /\ n.ptUser[x] = m.ptUser[x] \cup {p}
    <3>1. IsShown(m, n, d, i, x, p, T)
      BY <1>2, <2>1, <2>2, <2>3, <2>4, ShownIs
    <3> QED
      BY <3>1, Zenon DEF IsShown
  <2>6. DOMAIN n.ptUser = DOMAIN m.ptUser \cup {x}
    BY <2>3, <2>5
  <2>7. n.ptUser[x] = (IF x \in DOMAIN m.ptUser THEN m.ptUser[x] ELSE {}) \cup {p}
    BY <2>3, <2>5
  <2>8. m.pmm.used \subseteq n.pmm.used
    BY <2>5
  <2>9. OpensAt(m, n, d, i, x, p)
    BY <2>4, <2>5, <2>6, <2>7, <2>8, Zenon DEF OpensAt
  <2>10. TableFor(m, n, d, i, x)
    BY <1>1, <1>5, <2>1, Zenon DEF TableFor
  <2> QED
    BY <1>1, <1>5, <2>9, <2>10
<1>6. CASE ~m.fault /\ m.pd[d][i].pt = kernel /\ r.ret = NoPage
  <2>1. n = Fault(m)
    BY <1>1, <1>6, Zenon DEF paging_set_user_accessible_for_task, Dead
  <2> QED
    BY <1>2, <1>6, <2>1, NoPageNoHeap
<1>7. CASE ~m.fault /\ m.pd[d][i].pt = kernel /\ r.ret # NoPage
  <2>1. PICK x, a : x = r.ret /\ a = r.pmm
    OBVIOUS
  <2>2. PICK c : c = Privy(m, a, d, i, x, {})
    OBVIOUS
  <2>3. n = [c EXCEPT !.ptUser[c.pd[d][i].pt] = @ \cup {p}, !.pd[d][i].user = TRUE]
    BY <1>1, <1>2, <1>7, <2>1, <2>2, Zenon
    DEF paging_set_user_accessible_for_task, Dead, Privy
  <2>4. Outcome(m.pmm, r, 0, KernelLimit(m.pmm), 1)
    BY <1>2, KernelPageOutcome
  <2>5. /\ x \in Nat /\ x + 1 <= KernelLimit(m.pmm) /\ Pages(x, 1) \cap m.pmm.used = {}
        /\ IsPmm(a) /\ a.total_pages = TotalPages
        /\ a.used = m.pmm.used \cup Pages(x, 1)
    BY <1>2, <1>7, <2>1, <2>4 DEF Outcome
  <2>6. /\ x \notin m.pmm.used /\ x \in a.used \cap (0..(KernelEnd - 1))
        /\ m.pmm.used \subseteq a.used
    BY <1>2, <2>5, KernelLimitType, Layout DEF Pages
  <2>7. x \notin DOMAIN m.ptUser
    BY <1>2, <2>6
  <2>8. PICK T : T = DOMAIN m.ptUser /\ m.pd[d] \in [PdIndices -> Entry(T)]
    BY <1>2
  <2>9. /\ IsMem(c) /\ c.pmm = a /\ c.kernelPD = m.kernelPD /\ c.fault = m.fault
        /\ DOMAIN c.pd = DOMAIN m.pd /\ DOMAIN c.ptUser = DOMAIN m.ptUser \cup {x}
        /\ \A e \in DOMAIN m.pd : e # d => c.pd[e] = m.pd[e]
        /\ c.pd[d] \in [PdIndices -> Entry(T \cup {x})]
        /\ \A j \in PdIndices : j # i => c.pd[d][j] = m.pd[d][j]
        /\ c.pd[d][i].pt = x
        /\ \A y \in DOMAIN m.ptUser : c.ptUser[y] = m.ptUser[y]
        /\ c.ptUser[x] = {}
    <3>1. IsPrivy(m, c, a, d, i, x, {}, T)
      BY <1>2, <2>2, <2>5, <2>7, <2>8, PrivyIs
    <3> QED
      BY <3>1, Zenon DEF IsPrivy
  <2>10. n = Shown(c, d, i, x, p)
    BY <2>3, <2>9, Zenon DEF Shown
  <2>11. PICK U : U = T \cup {x}
    OBVIOUS
  <2>12. /\ d \in DOMAIN c.pd /\ c.pd[d] \in [PdIndices -> Entry(U)]
         /\ x \in DOMAIN c.ptUser /\ x = c.pd[d][i].pt
    BY <2>9, <2>11
  <2>13. /\ IsMem(n) /\ n.pmm = c.pmm /\ n.kernelPD = c.kernelPD /\ n.fault = c.fault
         /\ DOMAIN n.pd = DOMAIN c.pd /\ DOMAIN n.ptUser = DOMAIN c.ptUser
         /\ \A e \in DOMAIN c.pd : e # d => n.pd[e] = c.pd[e]
         /\ n.pd[d] \in [PdIndices -> Entry(U)]
         /\ \A j \in PdIndices : j # i => n.pd[d][j] = c.pd[d][j]
         /\ n.pd[d][i].pt = x /\ n.pd[d][i].user
         /\ \A y \in DOMAIN c.ptUser : y # x => n.ptUser[y] = c.ptUser[y]
         /\ n.ptUser[x] = c.ptUser[x] \cup {p}
    <3>1. IsShown(c, n, d, i, x, p, U)
      BY <2>9, <2>10, <2>12, ShownIs
    <3> QED
      BY <3>1, Zenon DEF IsShown
  <2>14. DOMAIN n.ptUser = U
    BY <2>8, <2>9, <2>11, <2>13
  <2>15. /\ \A e \in DOMAIN m.pd : e # d => n.pd[e] = m.pd[e]
         /\ \A j \in PdIndices : j # i => n.pd[d][j] = m.pd[d][j]
         /\ \A y \in DOMAIN m.ptUser : y # x => n.ptUser[y] = m.ptUser[y]
         /\ n.ptUser[x] = (IF x \in DOMAIN m.ptUser THEN m.ptUser[x] ELSE {}) \cup {p}
         /\ n.pmm.used = a.used /\ m.pmm.used \subseteq n.pmm.used
         /\ n.kernelPD = m.kernelPD /\ n.fault = m.fault
         /\ DOMAIN n.pd = DOMAIN m.pd /\ DOMAIN n.ptUser = DOMAIN m.ptUser \cup {x}
    BY <2>6, <2>7, <2>9, <2>13
  <2>16. OpensAt(m, n, d, i, x, p)
    BY <2>13, <2>14, <2>15, Zenon DEF OpensAt
  <2>17. TableFor(m, n, d, i, x)
    BY <1>1, <1>7, <2>6, <2>15 DEF TableFor
  <2> QED
    BY <1>1, <1>7, <2>16, <2>17
<1> QED
  BY <1>4, <1>5, <1>6, <1>7

-----------------------------------------------------------------------------
(* The loop that marks the pages of a new task.                            *)

\* n came of b by creating the directory d and opening pages in it.
Building(b, n, d) ==
    /\ Sound(n) /\ Extends(b, n)
    /\ d \in DOMAIN n.pd /\ d # n.kernelPD /\ d \notin DOMAIN b.pd
    /\ \A i \in PdIndices : n.pd[d][i].user => n.pd[d][i].pt \notin DOMAIN b.ptUser

\* Opening a page in the new directory touches no table of another one.
LEMMA OpenBuilds ==
    ASSUME NEW b, NEW m, NEW n, NEW d, Sound(b), Building(b, m, d),
           NEW i \in PdIndices, NEW t, NEW p,
           OpensAt(m, n, d, i, t, p), TableFor(m, n, d, i, t)
    PROVE  Building(b, n, d)
<1>1. Sound(m) /\ d \in DOMAIN m.pd /\ d # m.kernelPD /\ d \notin DOMAIN b.pd
      /\ m.kernelPD = b.kernelPD
  BY DEF Building, Extends
<1>2. Sound(n)
  BY <1>1, OpensSound
<1>3. /\ n.kernelPD = m.kernelPD /\ m.pmm.used \subseteq n.pmm.used
      /\ DOMAIN n.pd = DOMAIN m.pd /\ DOMAIN n.ptUser = DOMAIN m.ptUser \cup {t}
      /\ \A e \in DOMAIN m.pd : e # d => n.pd[e] = m.pd[e]
      /\ \A j \in PdIndices : j # i => n.pd[d][j] = m.pd[d][j]
      /\ n.pd[d][i].pt = t
      /\ \A x \in DOMAIN m.ptUser : x # t => n.ptUser[x] = m.ptUser[x]
  BY DEF OpensAt
<1>4. /\ m.pmm.used \subseteq n.pmm.used /\ b.pmm.used \subseteq m.pmm.used
      /\ DOMAIN b.pd \subseteq DOMAIN m.pd /\ DOMAIN b.ptUser \subseteq DOMAIN m.ptUser
      /\ \A e \in DOMAIN b.pd : m.pd[e] = b.pd[e]
      /\ \A x \in DOMAIN b.ptUser : m.ptUser[x] = b.ptUser[x]
      /\ \A q \in DOMAIN m.pd \cup DOMAIN m.ptUser :
            q \in DOMAIN b.pd \cup DOMAIN b.ptUser \/ q \notin b.pmm.used
  BY <1>3 DEF Building, Extends
<1>5. t \notin DOMAIN b.ptUser
  <2>1. CASE t = m.pd[d][i].pt /\ t # m.pd[m.kernelPD][i].pt
    <3>1. m.pd[d][i].user
      BY <1>1, <2>1 DEF Sound, Paging, Closed
    <3> QED
      BY <2>1, <3>1 DEF Building
  <2>2. CASE t \notin m.pmm.used
    <3>1. DOMAIN b.ptUser \subseteq b.pmm.used
      BY DEF Sound, Paging, Placed
    <3> QED
      BY <1>4, <2>2, <3>1
  <2> QED
    BY <2>1, <2>2 DEF TableFor
<1>6. t \in DOMAIN m.ptUser \/ t \notin m.pmm.used
  <2>1. m.pd[d][i].pt \in DOMAIN m.ptUser
    <3>1. m.pd[d][i] \in [pt : DOMAIN m.ptUser, user : BOOLEAN]
      BY <1>1 DEF Sound, Paging, Placed
    <3> QED
      BY <3>1
  <2> QED
    BY <2>1 DEF TableFor
<1>7. Extends(b, n)
  <2>1. \A q \in DOMAIN n.pd \cup DOMAIN n.ptUser :
           q \in DOMAIN b.pd \cup DOMAIN b.ptUser \/ q \notin b.pmm.used
    BY <1>3, <1>4, <1>6
  <2>2. \A e \in DOMAIN b.pd : n.pd[e] = b.pd[e]
    BY <1>1, <1>3, <1>4
  <2>3. \A x \in DOMAIN b.ptUser : n.ptUser[x] = b.ptUser[x]
    BY <1>3, <1>4, <1>5
  <2>4. /\ n.kernelPD = b.kernelPD /\ b.pmm.used \subseteq n.pmm.used
        /\ DOMAIN b.pd \subseteq DOMAIN n.pd /\ DOMAIN b.ptUser \subseteq DOMAIN n.ptUser
    BY <1>1, <1>3, <1>4
  <2> QED
    BY <2>1, <2>2, <2>3, <2>4, Zenon DEF Extends
<1>8. \A j \in PdIndices : n.pd[d][j].user => n.pd[d][j].pt \notin DOMAIN b.ptUser
  <2> TAKE j \in PdIndices
  <2>1. CASE j = i
    BY <1>3, <1>5, <2>1
  <2>2. CASE j # i
    BY <1>3, <2>2 DEF Building
  <2> QED
    BY <2>1, <2>2
<1> QED
  BY <1>1, <1>2, <1>3, <1>7, <1>8 DEF Building

\* f is the loop over the first n pages.
Marks(d, pages, m, f, n) ==
    f = [k \in 0..n |-> IF k = 0 THEN m ELSE paging_set_user_accessible_for_task(d, pages[k], f[k - 1])]

\* The marking loop has a value after every number of pages.
LEMMA MarksDefined ==
    ASSUME NEW d, NEW pages, NEW m, NEW last \in Nat
    PROVE  \E f : Marks(d, pages, m, f, last)
<1> DEFINE Bad == {n \in Nat : ~ \E f : Marks(d, pages, m, f, n)}
<1>1. SUFFICES ASSUME Bad # {} PROVE FALSE
  OBVIOUS
<1>2. PICK n \in Bad : \A k \in Bad : n <= k
  <2>1. Bad \subseteq Nat
    OBVIOUS
  <2> QED
    BY <1>1, <2>1, LeastNat
<1>3. PICK z : z = m
  OBVIOUS
<1>4. CASE n = 0
  <2>1. PICK f : f = [k \in 0..0 |-> z]
    OBVIOUS
  <2>2. f = [k \in 0..0 |-> IF k = 0 THEN z ELSE paging_set_user_accessible_for_task(d, pages[k], f[k - 1])]
    BY <2>1
  <2>3. Marks(d, pages, m, f, 0)
    BY <1>3, <2>2, Zenon DEF Marks
  <2> QED
    BY <1>2, <1>4, <2>3
<1>5. CASE n # 0
  <2>1. n \in Nat /\ n - 1 \in Nat /\ n - 1 \notin Bad
    BY <1>2, <1>5
  <2>2. PICK f : f = [k \in 0..(n - 1) |-> IF k = 0 THEN z ELSE paging_set_user_accessible_for_task(d, pages[k], f[k - 1])]
    <3>1. PICK f : Marks(d, pages, m, f, n - 1)
      BY <2>1
    <3> QED
      BY <1>3, <3>1, Zenon DEF Marks
  <2>3. PICK g : g = [k \in 0..n |-> IF k = n THEN paging_set_user_accessible_for_task(d, pages[n], f[n - 1]) ELSE f[k]]
    OBVIOUS
  <2>4. \A k \in 0..n : g[k] = IF k = 0 THEN z ELSE paging_set_user_accessible_for_task(d, pages[k], g[k - 1])
    <3> TAKE k \in 0..n
    <3>1. CASE k = n
      <4>1. g[k] = paging_set_user_accessible_for_task(d, pages[n], f[n - 1]) /\ g[k - 1] = f[n - 1]
        BY <2>1, <2>3, <3>1
      <4> QED
        BY <3>1, <4>1, <1>5
    <3>2. CASE k # n
      <4>1. k \in 0..(n - 1) /\ g[k] = f[k]
        BY <2>1, <2>3, <3>2
      <4>2. f[k] = IF k = 0 THEN z ELSE paging_set_user_accessible_for_task(d, pages[k], f[k - 1])
        BY <2>2, <4>1
      <4>3. k # 0 => g[k - 1] = f[k - 1]
        BY <2>1, <2>3, <4>1
      <4> QED
        BY <4>1, <4>2, <4>3
    <3> QED
      BY <3>1, <3>2
  <2>5. g = [k \in 0..n |-> IF k = 0 THEN z ELSE paging_set_user_accessible_for_task(d, pages[k], g[k - 1])]
    <3>1. g = [k \in 0..n |-> g[k]]
      BY <2>3
    <3> QED
      BY <2>4, <3>1
  <2>6. Marks(d, pages, m, g, n)
    BY <1>3, <2>5, Zenon DEF Marks
  <2> QED
    BY <1>2, <2>6
<1> QED
  BY <1>4, <1>5

\* What the loop has made of b after opening the pages of `opened' in d.
Marked(b, n, d, opened) ==
    /\ Building(b, n, d)
    /\ n.fault => NoHeapLeft(n.pmm)
    /\ ~n.fault => Reached(n, d) = opened

\* One turn of the loop: the page is reached too, or the machine has faulted
\* with no kernel page left for a table.
LEMMA MarkStep ==
    ASSUME NEW b, Sound(b), NEW m, NEW d, NEW opened, Marked(b, m, d, opened),
           NEW p \in 0..(TotalPages - 1),
           NEW n, n = paging_set_user_accessible_for_task(d, p, m)
    PROVE  Marked(b, n, d, opened \cup {p}) /\ m.pmm.used \subseteq n.pmm.used
<1>1. Sound(m) /\ d \in DOMAIN m.pd /\ d # m.kernelPD
  BY DEF Marked, Building
<1>2. CASE m.fault /\ n = m
  BY <1>2, Zenon DEF Marked
<1>3. CASE ~m.fault /\ n = Fault(m) /\ NoHeapLeft(m.pmm)
  <2>1. Sound(n) /\ Extends(m, n) /\ SameTables(m, n) /\ n.pmm = m.pmm /\ n.fault
    BY <1>1, <1>3, FaultSound
  <2>2. Building(b, n, d)
    <3>1. Extends(b, n)
      BY <2>1, ExtendsTrans DEF Marked, Building
    <3> QED
      BY <2>1, <3>1 DEF Marked, Building, SameTables
  <2>3. m.pmm.used \subseteq n.pmm.used
    BY <2>1
  <2> QED
    BY <1>3, <2>1, <2>2, <2>3, Zenon DEF Marked
<1>4. CASE /\ ~m.fault
           /\ \E t : OpensAt(m, n, d, PdIndex(p), t, p) /\ TableFor(m, n, d, PdIndex(p), t)
  <2>1. PICK t : OpensAt(m, n, d, PdIndex(p), t, p) /\ TableFor(m, n, d, PdIndex(p), t)
    BY <1>4
  <2>2. PICK i \in PdIndices : i = PdIndex(p)
    BY Layout
  <2>3. Building(b, n, d)
    BY <2>1, <2>2, OpenBuilds DEF Marked
  <2>4. Reached(n, d) = Reached(m, d) \cup {p}
    BY <1>1, <2>1, OpensReached
  <2>5. Reached(m, d) = opened /\ ~n.fault
    BY <1>4, <2>1 DEF Marked, OpensAt
  <2>6. m.pmm.used \subseteq n.pmm.used
    BY <2>1 DEF OpensAt
  <2> QED
    BY <2>3, <2>4, <2>5, <2>6, Zenon DEF Marked
<1> QED
  BY <1>1, <1>2, <1>3, <1>4, SetUserAccessible

(* After the loop all pages of the list are open in the new directory, and *)
(* nothing else, or the machine died for want of a kernel page             *)
(* (task.c:218-222).                                                       *)
LEMMA MarkPagesMarks ==
    ASSUME NEW b, Sound(b), NEW m, NEW d, Marked(b, m, d, {}),
           NEW pages \in Seq(0..(TotalPages - 1))
    PROVE  /\ Marked(b, MarkPages(d, pages, m), d, ToSet(pages))
           /\ m.pmm.used \subseteq MarkPages(d, pages, m).pmm.used
<1>1. PICK last \in Nat : last = Len(pages)
  OBVIOUS
<1>2. PICK f : Marks(d, pages, m, f, last) /\ MarkPages(d, pages, m) = f[last]
  <2>1. \E f : Marks(d, pages, m, f, last)
    BY MarksDefined
  <2>2. MarkPages(d, pages, m) = (CHOOSE f : Marks(d, pages, m, f, last))[last]
    BY <1>1, Zenon DEF MarkPages, Marks
  <2> QED
    BY <2>1, <2>2, Zenon
<1>3. /\ 0 \in 0..last /\ f[0] = m
      /\ \A k \in 0..last : k # 0 =>
            f[k] = paging_set_user_accessible_for_task(d, pages[k], f[k - 1])
  <2>1. f = [k \in 0..last |-> IF k = 0 THEN m
                ELSE paging_set_user_accessible_for_task(d, pages[k], f[k - 1])]
    BY <1>2, Zenon DEF Marks
  <2> QED
    BY <2>1
<1>9. \A k \in 1..last : pages[k] \in 0..(TotalPages - 1)
  <2>1. PICK S : S = 0..(TotalPages - 1)
    OBVIOUS
  <2>2. pages \in Seq(S)
    BY <2>1
  <2>3. \A k \in 1..last : pages[k] \in S
    BY <1>1, <2>2
  <2> QED
    BY <2>1, <2>3
<1> DEFINE First(n) == {pages[k] : k \in 1..n}
           Good(n) == Marked(b, f[n], d, First(n)) /\ m.pmm.used \subseteq f[n].pmm.used
           Bad == {n \in 0..last : ~Good(n)}
<1>4. First(0) = {}
  OBVIOUS
<1>5. \A n \in Nat \ {0} : First(n) = First(n - 1) \cup {pages[n]}
  OBVIOUS
<1>6. First(last) = ToSet(pages)
  BY <1>1 DEF ToSet
<1> HIDE DEF First
<1>7. Good(0)
  BY <1>3, <1>4, Zenon
<1>8. ASSUME NEW n \in 1..last, Good(n - 1) PROVE Good(n)
  <2>1. pages[n] \in 0..(TotalPages - 1)
    BY <1>9
  <2>2. f[n] = paging_set_user_accessible_for_task(d, pages[n], f[n - 1])
    BY <1>3
  <2>3. PICK g, h, op, p : g = f[n - 1] /\ h = f[n] /\ op = First(n - 1) /\ p = pages[n]
    OBVIOUS
  <2>4. Marked(b, g, d, op) /\ m.pmm.used \subseteq g.pmm.used
    BY <1>8, <2>3, Zenon
  <2>5. p \in 0..(TotalPages - 1) /\ h = paging_set_user_accessible_for_task(d, p, g)
    BY <2>1, <2>2, <2>3
  <2>6. Marked(b, h, d, op \cup {p}) /\ g.pmm.used \subseteq h.pmm.used
    BY <2>4, <2>5, MarkStep
  <2>7. First(n) = op \cup {p}
    BY <1>5, <2>3
  <2>8. m.pmm.used \subseteq h.pmm.used
    BY <2>4, <2>6
  <2> QED
    BY <2>3, <2>6, <2>7, <2>8, Zenon
<1> HIDE DEF Good
<1>10. Bad = {}
  <2> SUFFICES ASSUME Bad # {} PROVE FALSE
    OBVIOUS
  <2>1. PICK n \in Bad : \A k \in Bad : n <= k
    <3>1. Bad \subseteq Nat
      OBVIOUS
    <3> QED
      BY <3>1, LeastNat
  <2>2. n \in 0..last /\ ~Good(n)
    OBVIOUS
  <2>3. n # 0
    BY <1>7, <2>2
  <2>4. n \in 1..last /\ n - 1 \in 0..last /\ ~(n <= n - 1)
    BY <2>2, <2>3
  <2>5. Good(n - 1)
    BY <2>1, <2>4
  <2> QED
    BY <1>8, <2>2, <2>4, <2>5
<1>11. Good(last)
  BY <1>10
<1> USE DEF Good
<1> QED
  BY <1>2, <1>6, <1>11, Zenon

-----------------------------------------------------------------------------
(* Creating a task.                                                        *)

(* A new directory starts as the kernel's, and opens nothing (paging.c).   *)
LEMMA CloneMarks ==
    ASSUME NEW b, Sound(b), ~b.fault, NEW c, c = paging_clone_kernel_pd(b), c.pd # NoPage
    PROVE  Marked(b, c.mem, c.pd, {}) /\ ~c.mem.fault
<1> DEFINE r == pmm_alloc_page(b.pmm)
           k == b.kernelPD
<1>1. PICK d, a : d = r.ret /\ a = r.pmm
  OBVIOUS
<1>2. PICK row : row = b.pd[k]
  OBVIOUS
<1>3. PICK n : n = [b EXCEPT !.pmm = a, !.pd = With(@, d, row)]
  OBVIOUS
<1>4. c.pd = d
  BY <1>1 DEF paging_clone_kernel_pd
<1>5. c.mem = n
  <2>1. r.ret # NoPage
    BY <1>1, <1>4
  <2> QED
    BY <1>1, <1>2, <1>3, <2>1 DEF paging_clone_kernel_pd
<1>6. /\ IsMem(b) /\ IsPmm(b.pmm) /\ b.pmm.total_pages = TotalPages
      /\ \A e \in DOMAIN b.pd : b.pd[e] \in [PdIndices -> Entry(DOMAIN b.ptUser)]
      /\ k \in DOMAIN b.pd /\ DOMAIN b.pd \cap DOMAIN b.ptUser = {}
      /\ DOMAIN b.pd \cup DOMAIN b.ptUser \subseteq b.pmm.used \cap (0..(KernelEnd - 1))
  BY DEF Sound, IsMem, Paging, Placed, Entry
<1>7. /\ \A i \in PdIndices : b.ptUser[b.pd[k][i].pt] = {}
      /\ \A e \in DOMAIN b.pd, i \in PdIndices : b.pd[e][i].user <=> b.pd[e][i].pt # b.pd[k][i].pt
  BY DEF Sound, Paging, Closed
<1>8. /\ IsPmm(a) /\ a.total_pages = TotalPages /\ b.pmm.used \subseteq a.used
      /\ d \in a.used \cap (0..(KernelEnd - 1)) /\ d \notin b.pmm.used
  <2>1. Outcome(b.pmm, r, 0, KernelLimit(b.pmm), 1)
    BY <1>6, KernelPageOutcome
  <2>2. /\ d \in Nat /\ d + 1 <= KernelLimit(b.pmm) /\ Pages(d, 1) \cap b.pmm.used = {}
        /\ IsPmm(a) /\ a.total_pages = TotalPages
        /\ a.used = b.pmm.used \cup Pages(d, 1)
    BY <1>1, <1>4, <1>6, <2>1 DEF Outcome
  <2> QED
    BY <1>6, <2>2, KernelLimitType, Layout DEF Pages
<1>9. PICK pd : pd = With(b.pd, d, row)
  OBVIOUS
<1>10. n = [pmm |-> a, kernelPD |-> b.kernelPD, pd |-> pd, ptUser |-> b.ptUser,
            room |-> b.room, fault |-> b.fault]
  BY <1>3, <1>6, <1>9 DEF IsMem
<1>11. /\ n.pmm = a /\ n.kernelPD = k /\ n.pd = pd /\ n.ptUser = b.ptUser
       /\ n.room = b.room /\ n.fault = b.fault
  BY <1>10
<1>12. IsMem(n)
  BY <1>6, <1>8, <1>10, <1>11, Zenon DEF IsMem
<1>13. /\ DOMAIN pd = DOMAIN b.pd \cup {d} /\ pd[d] = row
       /\ \A e \in DOMAIN b.pd : e # d => pd[e] = b.pd[e]
  BY <1>9 DEF With
<1>14. d \notin DOMAIN b.pd /\ d \notin DOMAIN b.ptUser
  BY <1>6, <1>8
<1>15. \A e \in DOMAIN b.pd : pd[e] = b.pd[e]
  BY <1>13, <1>14
<1>16. pd[k] = row
  BY <1>2, <1>6, <1>15
<1>17. Placed(n)
  <2>1. \A e \in DOMAIN pd : pd[e] \in [PdIndices -> Entry(DOMAIN b.ptUser)]
    BY <1>2, <1>6, <1>13, <1>15
  <2>2. DOMAIN pd \cup DOMAIN b.ptUser \subseteq a.used \cap (0..(KernelEnd - 1))
    BY <1>6, <1>8, <1>13
  <2>3. k \in DOMAIN pd /\ DOMAIN pd \cap DOMAIN b.ptUser = {}
    BY <1>6, <1>13, <1>14
  <2>4. /\ n.kernelPD \in DOMAIN n.pd /\ DOMAIN n.pd \cap DOMAIN n.ptUser = {}
        /\ \A e \in DOMAIN n.pd : n.pd[e] \in [PdIndices -> Entry(DOMAIN n.ptUser)]
        /\ DOMAIN n.pd \cup DOMAIN n.ptUser \subseteq n.pmm.used \cap (0..(KernelEnd - 1))
    BY <1>11, <2>1, <2>2, <2>3
  <2> QED
    BY <2>4 DEF Placed, Entry
<1>18. Closed(n)
  <2>1. \A i \in PdIndices : pd[k][i] = b.pd[k][i]
    BY <1>2, <1>16
  <2>2. ASSUME NEW e \in DOMAIN pd, NEW i \in PdIndices
        PROVE  pd[e][i].user <=> pd[e][i].pt # pd[k][i].pt
    <3>1. PICK x \in DOMAIN b.pd : pd[e] = b.pd[x]
      BY <1>2, <1>6, <1>13, <1>15
    <3> QED
      BY <1>7, <2>1, <3>1
  <2>3. \A i \in PdIndices : b.ptUser[pd[k][i].pt] = {}
    BY <1>7, <2>1
  <2> QED
    BY <1>11, <2>2, <2>3 DEF Closed
<1>19. Owned(n)
  <2>1. \A e, f \in DOMAIN b.pd, i, j \in PdIndices : b.pd[e][i].pt = b.pd[f][j].pt =>
           i = j /\ (e = f \/ b.pd[e][i].pt = b.pd[k][i].pt)
    BY DEF Sound, Paging, Owned
  <2> SUFFICES ASSUME NEW e \in DOMAIN pd, NEW f \in DOMAIN pd, NEW i \in PdIndices,
                      NEW j \in PdIndices, pd[e][i].pt = pd[f][j].pt
               PROVE  i = j /\ (e = f \/ pd[e][i].pt = pd[k][i].pt)
    BY <1>11 DEF Owned
  <2>2. PICK x \in DOMAIN b.pd : pd[e] = b.pd[x] /\ (x = e \/ x = k)
    BY <1>2, <1>6, <1>13, <1>15
  <2>3. PICK y \in DOMAIN b.pd : pd[f] = b.pd[y] /\ (y = f \/ y = k)
    BY <1>2, <1>6, <1>13, <1>15
  <2>4. i = j /\ (x = y \/ b.pd[x][i].pt = b.pd[k][i].pt)
    BY <2>1, <2>2, <2>3
  <2>5. pd[k] = b.pd[k]
    BY <1>2, <1>16
  <2> QED
    BY <2>2, <2>3, <2>4, <2>5
<1>20. Extends(b, n)
  BY <1>8, <1>11, <1>13, <1>14, <1>15 DEF Extends
<1>21. \A i \in PdIndices : ~n.pd[d][i].user
  BY <1>2, <1>6, <1>7, <1>11, <1>13
<1>22. Building(b, n, d)
  BY <1>6, <1>11, <1>12, <1>13, <1>14, <1>17, <1>18, <1>19, <1>20, <1>21
  DEF Building, Sound, Paging
<1>23. Reached(n, d) = {}
  BY <1>21 DEF Reached
<1>24. ~n.fault
  BY <1>11
<1>25. Marked(b, n, d, {})
  BY <1>22, <1>23, <1>24, Zenon DEF Marked
<1> QED
  BY <1>4, <1>5, <1>24, <1>25, Zenon

(* Taking the stack page leaves the new directory as it is.                *)
LEMMA TakeMarks ==
    ASSUME NEW b, NEW c, NEW d, Marked(b, c, d, {}), ~c.fault, NEW s,
           Sound(s), Extends(c, s), SameTables(c, s), s.fault = c.fault
    PROVE  Marked(b, s, d, {})
<1>1. /\ s.kernelPD = c.kernelPD /\ s.pd = c.pd /\ s.ptUser = c.ptUser
  BY DEF SameTables
<1>2. /\ Extends(b, c) /\ d \in DOMAIN c.pd /\ d # c.kernelPD /\ d \notin DOMAIN b.pd
      /\ \A i \in PdIndices : c.pd[d][i].user => c.pd[d][i].pt \notin DOMAIN b.ptUser
      /\ Reached(c, d) = {}
  BY DEF Marked, Building
<1>3. Extends(b, s)
  BY <1>2, ExtendsTrans
<1>4. Building(b, s, d)
  BY <1>1, <1>2, <1>3 DEF Building
<1>5. Reached(s, d) = {}
  BY <1>1, <1>2 DEF Reached
<1> QED
  BY <1>4, <1>5, Zenon DEF Marked

(* What a launched task stands on.                                         *)
TaskFits(m, k) ==
    /\ k = [pd |-> k.pd, kstack |-> k.kstack, pages |-> k.pages]
    /\ k.pd \in DOMAIN m.pd /\ k.pd # m.kernelPD
    /\ k.kstack \in Nat
    /\ Pages(k.kstack, 2) \subseteq m.pmm.used
    /\ Pages(k.kstack, 2) \cap (DOMAIN m.pd \cup DOMAIN m.ptUser) = {}
    /\ k.pages = Reached(m, k.pd)
    /\ k.pages \subseteq m.pmm.used \cap (KernelEnd..(TotalPages - 1))

\* A later launch takes nothing from a task that runs.
LEMMA TaskStays ==
    ASSUME NEW m, NEW n, Sound(m), Extends(m, n), NEW k, TaskFits(m, k)
    PROVE  TaskFits(n, k)
<1>1. /\ n.kernelPD = m.kernelPD /\ m.pmm.used \subseteq n.pmm.used
      /\ DOMAIN m.pd \subseteq DOMAIN n.pd
      /\ \A d \in DOMAIN m.pd : n.pd[d] = m.pd[d]
      /\ \A t \in DOMAIN m.ptUser : n.ptUser[t] = m.ptUser[t]
      /\ \A q \in DOMAIN n.pd \cup DOMAIN n.ptUser :
            q \in DOMAIN m.pd \cup DOMAIN m.ptUser \/ q \notin m.pmm.used
  BY DEF Extends
<1>2. /\ k.pd \in DOMAIN m.pd /\ k.pd # m.kernelPD
      /\ k.kstack \in Nat /\ Pages(k.kstack, 2) \subseteq m.pmm.used
      /\ Pages(k.kstack, 2) \cap (DOMAIN m.pd \cup DOMAIN m.ptUser) = {}
      /\ k.pages = Reached(m, k.pd)
      /\ k.pages \subseteq m.pmm.used \cap (KernelEnd..(TotalPages - 1))
  BY DEF TaskFits
<1>3. Reached(n, k.pd) = Reached(m, k.pd)
  <2>1. n.pd[k.pd] = m.pd[k.pd]
    BY <1>1, <1>2
  <2>2. ASSUME NEW i \in PdIndices PROVE n.ptUser[m.pd[k.pd][i].pt] = m.ptUser[m.pd[k.pd][i].pt]
    <3>1. m.pd[k.pd][i] \in [pt : DOMAIN m.ptUser, user : BOOLEAN]
      BY <1>2 DEF Sound, Paging, Placed
    <3> QED
      BY <1>1, <3>1
  <2> QED
    BY <2>1, <2>2 DEF Reached
<1>4. Pages(k.kstack, 2) \cap (DOMAIN n.pd \cup DOMAIN n.ptUser) = {}
  BY <1>1, <1>2
<1>5. Pages(k.kstack, 2) \subseteq n.pmm.used
  BY <1>1, <1>2
<1>6. k.pages \subseteq n.pmm.used \cap (KernelEnd..(TotalPages - 1))
  BY <1>1, <1>2
<1>7. k = [pd |-> k.pd, kstack |-> k.kstack, pages |-> k.pages]
  BY DEF TaskFits
<1> QED
  BY <1>1, <1>2, <1>3, <1>4, <1>5, <1>6, <1>7 DEF TaskFits

\* A task new since m: nothing of it but pages of the set shared was taken
\* then.
NewTask(m, n, k, shared) ==
    /\ TaskFits(n, k)
    /\ k.pd \notin DOMAIN m.pd
    /\ Pages(k.kstack, 2) \cap m.pmm.used = {}
    /\ k.pages \cap m.pmm.used \subseteq shared

\* A step from m to n, which may create a task.
Launches(m, n, task, shared) ==
    /\ Sound(n) /\ Extends(m, n)
    /\ n.fault => NoHeapLeft(n.pmm)
    /\ \/ task = <<>>
       \/ ~n.fault /\ \E k : task = <<k>> /\ NewTask(m, n, k, shared)

(* Launches after other steps that only took memory.                       *)
LEMMA LaunchesLater ==
    ASSUME NEW l, NEW m, NEW n, NEW task, NEW shared, NEW all,
           Launches(m, n, task, shared), Extends(l, m), shared \cap l.pmm.used \subseteq all
    PROVE  Launches(l, n, task, all)
<1>1. /\ Sound(n) /\ Extends(m, n) /\ Extends(l, n) /\ (n.fault => NoHeapLeft(n.pmm))
  BY ExtendsTrans DEF Launches
<1>2. l.pmm.used \subseteq m.pmm.used /\ DOMAIN l.pd \subseteq DOMAIN m.pd
  BY DEF Extends
<1>3. ASSUME NEW k, NewTask(m, n, k, shared) PROVE NewTask(l, n, k, all)
  BY <1>2, <1>3 DEF NewTask
<1>4. \/ task = <<>>
      \/ ~n.fault /\ \E k : task = <<k>> /\ NewTask(l, n, k, all)
  BY <1>3 DEF Launches
<1> QED
  BY <1>1, <1>4, Zenon DEF Launches

(* Whichever of its steps fails, the creation of a task ends in an intact  *)
(* machine, with or without a task, or for want of kernel pages            *)
(* (task.c:171-279).                                                       *)
LEMMA CreateLaunches ==
    ASSUME NEW m, Sound(m), ~m.fault,
           NEW pages \in Seq(KernelEnd..(TotalPages - 1)), ToSet(pages) \subseteq m.pmm.used,
           NEW esp \in BOOLEAN,
           NEW r, r = task_create_user_with_pages(m, pages, esp)
    PROVE  Launches(m, r.mem, r.task, ToSet(pages))
<1>1. PICK ks : ks = pmm_alloc_contiguous_pages(m.pmm, 2)
  OBVIOUS
<1>2. PICK a : a = Take(m, ks)
  OBVIOUS
<1>3. PICK c : c = paging_clone_kernel_pd(a)
  OBVIOUS
<1>4. PICK st : st = IF esp THEN [pmm |-> c.mem.pmm, ret |-> NoPage]
                     ELSE pmm_alloc_user_page(c.mem.pmm)
  OBVIOUS
<1>5. PICK all : all = IF esp THEN pages ELSE Append(pages, st.ret)
  OBVIOUS
<1>6. PICK s : s = Take(c.mem, st)
  OBVIOUS
<1>7. PICK w : w = MarkPages(c.pd, all, s)
  OBVIOUS
<1>8. PICK tcb : tcb = kmalloc(w)
  OBVIOUS
<1>9. r = IF ks.ret = NoPage THEN [mem |-> m, task |-> <<>>]
          ELSE IF c.pd = NoPage THEN [mem |-> c.mem, task |-> <<>>]
          ELSE IF ~esp /\ st.ret = NoPage THEN [mem |-> c.mem, task |-> <<>>]
          ELSE IF Dead(w) THEN [mem |-> w, task |-> <<>>]
          ELSE IF ~tcb.ok THEN [mem |-> Fault(w), task |-> <<>>]
          ELSE [mem  |-> tcb.mem,
                task |-> <<[pd |-> c.pd, kstack |-> ks.ret, pages |-> ToSet(all)]>>]
  BY <1>1, <1>2, <1>3, <1>4, <1>5, <1>6, <1>7, <1>8, Zenon
  DEF task_create_user_with_pages, Take
<1>10. ASSUME NEW n, r = [mem |-> n, task |-> <<>>], Sound(n), Extends(m, n),
              n.fault => NoHeapLeft(n.pmm)
       PROVE  Launches(m, r.mem, r.task, ToSet(pages))
  <2>1. r.mem = n /\ r.task = <<>>
    BY <1>10
  <2>2. PICK task : task = <<>>
    OBVIOUS
  <2>3. Sound(n) /\ Extends(m, n) /\ (n.fault => NoHeapLeft(n.pmm))
    BY <1>10
  <2>4. Launches(m, n, task, ToSet(pages))
    BY <2>2, <2>3, Zenon DEF Launches
  <2> QED
    BY <2>1, <2>2, <2>4, Zenon
<1>11. Outcome(m.pmm, ks, 0, KernelLimit(m.pmm), 2) /\ KernelLimit(m.pmm) \in Int
  BY <1>1, KernelRunOutcome, KernelLimitType DEF Sound, IsMem
<1>12. /\ Sound(a) /\ Extends(m, a) /\ SameTables(m, a) /\ ~a.fault
       /\ ks.ret # NoPage => /\ ks.ret \in Nat
                             /\ Pages(ks.ret, 2) \subseteq a.pmm.used
                             /\ Pages(ks.ret, 2) \cap m.pmm.used = {}
  <2>1. PICK hi \in Int : hi = KernelLimit(m.pmm)
    BY <1>11
  <2>2. Outcome(m.pmm, ks, 0, hi, 2)
    BY <1>11, <2>1
  <2> QED
    <3>1. Given(m, a, ks, 0, hi, 2)
      BY <1>2, <2>2, TakeSound
    <3> QED
      BY <3>1 DEF Given
<1>13. CASE ks.ret = NoPage
  <2>1. r = [mem |-> m, task |-> <<>>]
    BY <1>9, <1>13
  <2>2. Extends(m, m)
    BY DEF Extends
  <2> QED
    BY <1>10, <2>1, <2>2
<1>14. CASE ks.ret # NoPage /\ c.pd = NoPage
  <2>1. r = [mem |-> c.mem, task |-> <<>>]
    BY <1>9, <1>14
  <2>2. c.mem = a
    BY <1>3, <1>14 DEF paging_clone_kernel_pd
  <2> QED
    BY <1>10, <1>12, <2>1, <2>2
<1>15. CASE ks.ret # NoPage /\ c.pd # NoPage
  <2>1. Marked(a, c.mem, c.pd, {}) /\ ~c.mem.fault
    BY <1>3, <1>12, <1>15, CloneMarks
  <2>2. Sound(c.mem) /\ Extends(a, c.mem)
    BY <2>1 DEF Marked, Building
  <2>3. Extends(m, c.mem)
    BY <1>12, <2>2, ExtendsTrans
  <2>4. CASE ~esp /\ st.ret = NoPage
    <3>1. r = [mem |-> c.mem, task |-> <<>>]
      BY <1>9, <1>15, <2>4
    <3> QED
      BY <1>10, <2>1, <2>2, <2>3, <3>1
  <2>5. CASE esp \/ st.ret # NoPage
    <3>1. Outcome(c.mem.pmm, st, KernelEnd, TotalPages, 1)
      <4>1. IsPmm(c.mem.pmm) /\ c.mem.pmm.total_pages = TotalPages
        BY <2>2 DEF Sound, IsMem
      <4>2. CASE esp
        BY <1>4, <4>2 DEF Outcome
      <4>3. CASE ~esp
        BY <1>4, <4>1, <4>3, UserPageOutcome
      <4> QED
        BY <4>2, <4>3
    <3>2. /\ Sound(s) /\ Extends(c.mem, s) /\ SameTables(c.mem, s) /\ s.fault = c.mem.fault
          /\ st.ret # NoPage => /\ st.ret \in Nat /\ KernelEnd <= st.ret /\ st.ret + 1 <= TotalPages
                                /\ Pages(st.ret, 1) \subseteq s.pmm.used
                                /\ Pages(st.ret, 1) \cap c.mem.pmm.used = {}
      <4>1. PICK x : x = c.mem
        OBVIOUS
      <4>2. PICK lo \in Nat, hi \in Int : lo = KernelEnd /\ hi = TotalPages
        BY Layout
      <4>3. Sound(x) /\ Outcome(x.pmm, st, lo, hi, 1) /\ s = Take(x, st)
        BY <1>6, <2>2, <3>1, <4>1, <4>2
      <4>4. Given(x, s, st, lo, hi, 1)
        BY <4>3, TakeSound
      <4> QED
        BY <4>1, <4>2, <4>4 DEF Given
    <3>3. Marked(a, s, c.pd, {})
      BY <2>1, <3>2, TakeMarks
    <3>4. ToSet(all) \ ToSet(pages) \subseteq {st.ret} /\ (esp => ToSet(all) = ToSet(pages))
          /\ all \in Seq(KernelEnd..(TotalPages - 1))
          /\ ToSet(all) \subseteq KernelEnd..(TotalPages - 1)
      <4>0. PICK S : S = KernelEnd..(TotalPages - 1)
        OBVIOUS
      <4>3. \A q \in Seq(S) : ToSet(q) \subseteq S
        BY DEF ToSet
      <4>1. CASE esp
        BY <1>5, <4>0, <4>1, <4>3
      <4>2. CASE ~esp
        <5>1. all = Append(pages, st.ret) /\ st.ret \in KernelEnd..(TotalPages - 1)
          BY <1>5, <2>5, <3>2, <4>2, Layout
        <5>2. pages \in Seq(S) /\ st.ret \in S
          BY <4>0, <5>1
        <5>3. all \in Seq(S) /\ ToSet(all) = ToSet(pages) \cup {st.ret}
          BY <5>1, <5>2 DEF ToSet
        <5> QED
          BY <4>0, <4>2, <4>3, <5>3
      <4> QED
        BY <4>1, <4>2
    <3>5. all \in Seq(0..(TotalPages - 1))
      <4>1. PICK S, T : S = KernelEnd..(TotalPages - 1) /\ T = 0..(TotalPages - 1)
        OBVIOUS
      <4>2. S \subseteq T
        BY <4>1, Layout
      <4>3. all \in Seq(S)
        BY <3>4, <4>1
      <4>4. all \in Seq(T)
        BY <4>2, <4>3
      <4> QED
        BY <4>1, <4>4
    <3>6. Marked(a, w, c.pd, ToSet(all)) /\ s.pmm.used \subseteq w.pmm.used
      BY <1>7, <1>12, <3>3, <3>5, MarkPagesMarks
    <3>7. Sound(w) /\ Extends(a, w) /\ Extends(m, w) /\ (w.fault => NoHeapLeft(w.pmm))
      BY <1>12, <3>6, ExtendsTrans DEF Marked, Building
    <3>8. CASE w.fault
      <4>1. r = [mem |-> w, task |-> <<>>]
        BY <1>9, <1>15, <2>5, <3>8 DEF Dead
      <4> QED
        BY <1>10, <3>7, <4>1
    <3>9. CASE ~w.fault /\ ~tcb.ok
      <4>1. r = [mem |-> Fault(w), task |-> <<>>]
        BY <1>9, <1>15, <2>5, <3>9 DEF Dead
      <4>2. NoHeapLeft(w.pmm)
        BY <1>8, <3>7, <3>9, KmallocSound
      <4>3. Sound(Fault(w)) /\ Extends(w, Fault(w)) /\ Fault(w).pmm = w.pmm
        BY <3>7, FaultSound
      <4>4. Extends(m, Fault(w))
        BY <3>7, <4>3, ExtendsTrans
      <4> QED
        BY <1>10, <4>1, <4>2, <4>3, <4>4
    <3>10. CASE ~w.fault /\ tcb.ok
      <4>1. PICK t, k : t = tcb.mem /\ k = [pd |-> c.pd, kstack |-> ks.ret, pages |-> ToSet(all)]
        OBVIOUS
      <4>2. r = [mem |-> t, task |-> <<k>>]
        BY <1>9, <1>15, <2>5, <3>10, <4>1 DEF Dead
      <4>3. Sound(t) /\ Extends(w, t) /\ SameTables(w, t) /\ ~t.fault
        BY <1>8, <3>7, <3>10, <4>1, KmallocSound
      <4>4. Extends(a, t) /\ Extends(m, t) /\ w.pmm.used \subseteq t.pmm.used
        BY <3>7, <4>3, ExtendsTrans DEF Extends
      <4>5. /\ k = [pd |-> k.pd, kstack |-> k.kstack, pages |-> k.pages]
            /\ k.pd = c.pd /\ k.kstack = ks.ret /\ k.pages = ToSet(all)
        BY <4>1
      <4>6. /\ k.pd \in DOMAIN t.pd /\ k.pd # t.kernelPD /\ k.pd \notin DOMAIN a.pd
            /\ Reached(t, k.pd) = k.pages
        <5>1. /\ c.pd \in DOMAIN w.pd /\ c.pd # w.kernelPD /\ c.pd \notin DOMAIN a.pd
              /\ Reached(w, c.pd) = ToSet(all)
          BY <3>6, <3>10 DEF Marked, Building
        <5>2. t.kernelPD = w.kernelPD /\ t.pd = w.pd /\ t.ptUser = w.ptUser
          BY <4>3 DEF SameTables
        <5> QED
          BY <4>5, <5>1, <5>2 DEF Reached
      <4>7. Pages(k.kstack, 2) \cap (DOMAIN t.pd \cup DOMAIN t.ptUser) = {}
        <5>1. \A q \in DOMAIN t.pd \cup DOMAIN t.ptUser :
                 q \in DOMAIN a.pd \cup DOMAIN a.ptUser \/ q \notin a.pmm.used
          BY <4>4 DEF Extends
        <5>2. DOMAIN m.pd \cup DOMAIN m.ptUser \subseteq m.pmm.used
          BY DEF Sound, Paging, Placed
        <5>3. a.pd = m.pd /\ a.ptUser = m.ptUser
          BY <1>12 DEF SameTables
        <5> QED
          BY <1>12, <1>15, <4>5, <5>1, <5>2, <5>3
      <4>8. k.kstack \in Nat /\ Pages(k.kstack, 2) \subseteq t.pmm.used
            /\ Pages(k.kstack, 2) \cap m.pmm.used = {}
        BY <1>12, <1>15, <4>4, <4>5 DEF Extends
      <4>9. k.pages \subseteq t.pmm.used \cap (KernelEnd..(TotalPages - 1))
        <5>1. ToSet(pages) \subseteq t.pmm.used
          BY <4>4 DEF Extends
        <5>2. ~esp => st.ret \in t.pmm.used
          <6>1. st.ret \in Nat => st.ret \in Pages(st.ret, 1)
            BY DEF Pages
          <6> QED
            BY <2>5, <3>2, <3>6, <4>4, <6>1
        <5> QED
          BY <3>4, <4>5, <5>1, <5>2
      <4>10. k.pages \cap m.pmm.used \subseteq ToSet(pages)
        <5>1. ~esp => st.ret \notin m.pmm.used
          <6>1. m.pmm.used \subseteq c.mem.pmm.used
            BY <2>3 DEF Extends
          <6>2. st.ret \in Nat => st.ret \in Pages(st.ret, 1)
            BY DEF Pages
          <6> QED
            BY <2>5, <3>2, <6>1, <6>2
        <5> QED
          BY <3>4, <4>5, <5>1
      <4>11. TaskFits(t, k)
        BY <4>5, <4>6, <4>7, <4>8, <4>9, Zenon DEF TaskFits
      <4>12. NewTask(m, t, k, ToSet(pages))
        <5>1. k.pd \notin DOMAIN m.pd
          BY <1>12, <4>6 DEF SameTables
        <5> QED
          BY <4>8, <4>10, <4>11, <5>1, Zenon DEF NewTask
      <4>13. r.mem = t /\ r.task = <<k>>
        BY <4>2
      <4> QED
        BY <4>3, <4>4, <4>12, <4>13, Zenon DEF Launches
    <3> QED
      BY <3>8, <3>9, <3>10
  <2> QED
    BY <2>4, <2>5
<1> QED
  BY <1>13, <1>14, <1>15

-----------------------------------------------------------------------------
(* The loader and the machine.                                             *)

\* What the loader has made of m: pages new since then, or none.
Loads(m, n, pages) ==
    /\ Sound(n) /\ Extends(m, n)
    /\ n.fault => NoHeapLeft(n.pmm)
    /\ pages # <<>> => /\ ~n.fault
                       /\ pages \in Seq(KernelEnd..(TotalPages - 1))
                       /\ ToSet(pages) \subseteq n.pmm.used
                       /\ ToSet(pages) \cap m.pmm.used = {}

(* elf_load takes pages that were free, or fails with what it took still   *)
(* taken (elf.c).                                                          *)
LEMMA ElfLoads ==
    ASSUME NEW m, Sound(m), ~m.fault, NEW count \in Nat, NEW r, r = elf_load(m, count)
    PROVE  Loads(m, r.mem, r.pages)
<1>1. PICK run : run = pmm_alloc_contiguous_user_pages(m.pmm, count)
  OBVIOUS
<1>2. PICK a : a = Take(m, run)
  OBVIOUS
<1>3. PICK list : list = kmalloc(a)
  OBVIOUS
<1>4. r = IF run.ret = NoPage THEN [mem |-> m, pages |-> <<>>]
          ELSE IF ~list.ok THEN [mem |-> Fault(list.mem), pages |-> <<>>]
          ELSE [mem |-> list.mem, pages |-> [i \in 1..count |-> run.ret + i - 1]]
  BY <1>1, <1>2, <1>3, Zenon DEF elf_load, Take
<1>5. PICK lo \in Nat, hi \in Int : lo = KernelEnd /\ hi = TotalPages
  BY Layout
<1>6. Given(m, a, run, lo, hi, count)
  <2>1. Outcome(m.pmm, run, lo, hi, count)
    <3>1. IsPmm(m.pmm) /\ m.pmm.total_pages = TotalPages
      BY DEF Sound, IsMem
    <3> QED
      BY <1>1, <1>5, <3>1, UserRunOutcome
  <2> QED
    BY <1>2, <2>1, TakeSound
<1>7. Sound(a) /\ Extends(m, a) /\ ~a.fault
  BY <1>6 DEF Given
<1>8. /\ Sound(list.mem) /\ Extends(a, list.mem) /\ SameTables(a, list.mem)
      /\ ~list.mem.fault
      /\ ~list.ok => NoHeapLeft(list.mem.pmm)
  BY <1>3, <1>7, KmallocSound
<1>9. Extends(m, list.mem)
  BY <1>7, <1>8, ExtendsTrans
<1>10. PICK none : none = <<>>
  OBVIOUS
<1>11. CASE run.ret = NoPage
  <2>1. r.mem = m /\ r.pages = none
    BY <1>4, <1>10, <1>11
  <2>2. Extends(m, m)
    BY DEF Extends
  <2>3. Loads(m, m, none)
    BY <1>10, <2>2, Zenon DEF Loads
  <2> QED
    BY <2>1, <2>3, Zenon
<1>12. CASE run.ret # NoPage /\ ~list.ok
  <2>1. PICK x : x = Fault(list.mem)
    OBVIOUS
  <2>2. r.mem = x /\ r.pages = none
    BY <1>4, <1>10, <1>12, <2>1
  <2>3. Sound(x) /\ Extends(list.mem, x) /\ x.pmm = list.mem.pmm
    BY <1>8, <2>1, FaultSound
  <2>4. Extends(m, x) /\ NoHeapLeft(x.pmm)
    BY <1>8, <1>9, <1>12, <2>3, ExtendsTrans
  <2>5. Loads(m, x, none)
    BY <1>10, <2>3, <2>4, Zenon DEF Loads
  <2> QED
    BY <2>2, <2>5, Zenon
<1>13. CASE run.ret # NoPage /\ list.ok
  <2>1. PICK x, pages : x = list.mem /\ pages = [i \in 1..count |-> run.ret + i - 1]
    OBVIOUS
  <2>2. r = [mem |-> x, pages |-> pages]
    BY <1>4, <1>13, <2>1, Zenon
  <2>3. r.mem = x /\ r.pages = pages
    BY <2>2
  <2>4. /\ run.ret \in Nat /\ lo <= run.ret /\ run.ret + count <= hi
        /\ Pages(run.ret, count) \subseteq a.pmm.used
        /\ Pages(run.ret, count) \cap m.pmm.used = {}
    BY <1>6, <1>13 DEF Given
  <2>5. \A i \in 1..count : pages[i] = run.ret + i - 1
    BY <2>1
  <2>6. \A i \in 1..count : pages[i] \in Pages(run.ret, count) /\ pages[i] \in lo..(hi - 1)
    BY <2>4, <2>5 DEF Pages
  <2>7. pages \in Seq(lo..(hi - 1)) /\ Len(pages) = count
    <3>1. PICK S : S = lo..(hi - 1)
      OBVIOUS
    <3>2. pages \in [1..count -> S]
      BY <2>1, <2>6, <3>1
    <3> QED
      BY <3>1, <3>2
  <2>8. ToSet(pages) \subseteq Pages(run.ret, count)
    BY <2>6, <2>7 DEF ToSet
  <2>9. a.pmm.used \subseteq x.pmm.used
    BY <1>8, <2>1 DEF Extends
  <2>10. /\ ToSet(pages) \subseteq x.pmm.used /\ ToSet(pages) \cap m.pmm.used = {}
         /\ pages \in Seq(KernelEnd..(TotalPages - 1))
    BY <1>5, <2>4, <2>7, <2>8, <2>9
  <2>11. Sound(x) /\ Extends(m, x) /\ ~x.fault
    BY <1>8, <1>9, <2>1
  <2>12. Loads(m, x, pages)
    BY <2>10, <2>11, Zenon DEF Loads
  <2> QED
    BY <2>3, <2>12, Zenon
<1> QED
  BY <1>11, <1>12, <1>13

(* Giving back heap memory leaves everything else as it is.                *)
LEMMA KfreeSound ==
    ASSUME NEW m, Sound(m), NEW k, k = kfree(m)
    PROVE  Sound(k) /\ Extends(m, k) /\ SameTables(m, k) /\ k.pmm = m.pmm /\ k.fault = m.fault
<1>1. /\ m = [pmm |-> m.pmm, kernelPD |-> m.kernelPD, pd |-> m.pd, ptUser |-> m.ptUser,
              room |-> m.room, fault |-> m.fault]
      /\ IsPmm(m.pmm) /\ m.pmm.total_pages = TotalPages /\ m.room \in Nat /\ m.fault \in BOOLEAN
  BY DEF Sound, IsMem
<1>2. PICK room \in Nat : room = m.room + 1
  BY <1>1
<1>3. k = [pmm |-> m.pmm, kernelPD |-> m.kernelPD, pd |-> m.pd, ptUser |-> m.ptUser,
           room |-> room, fault |-> m.fault]
  BY <1>1, <1>2 DEF kfree
<1>4. /\ k.pmm = m.pmm /\ k.kernelPD = m.kernelPD /\ k.pd = m.pd /\ k.ptUser = m.ptUser
      /\ k.room = room /\ k.fault = m.fault
  BY <1>3
<1>5. IsMem(k)
  BY <1>1, <1>3, <1>4, Zenon DEF IsMem
<1>6. SameTables(m, k)
  BY <1>4 DEF SameTables
<1> QED
  BY <1>4, <1>5, <1>6, SameTablesSound

Task == [pd : Nat, kstack : Nat, pages : SUBSET Nat]

\* Two tasks have nothing in common but pages of a set.
Apart(k, l, shared) ==
    /\ k.pd # l.pd
    /\ Pages(k.kstack, 2) \cap Pages(l.kstack, 2) = {}
    /\ k.pages \cap l.pages \subseteq shared

Consistent(m, list, shared) ==
    /\ Sound(m) /\ list \in Seq(Task)
    /\ \A t \in 1..Len(list) : TaskFits(m, list[t])
    /\ \A s, t \in 1..Len(list) : s # t => Apart(list[s], list[t], shared)
    /\ shared \subseteq m.pmm.used \cap (KernelEnd..(TotalPages - 1))

(* A launch, successful or not, fits in with the tasks there are.          *)
LEMMA LaunchFits ==
    ASSUME NEW m, NEW n, NEW list, NEW task, NEW shared, Consistent(m, list, shared),
           Launches(m, n, task, shared)
    PROVE  Consistent(n, list \o task, shared)
<1>1. /\ Sound(m) /\ list \in Seq(Task)
      /\ \A t \in 1..Len(list) : TaskFits(m, list[t])
      /\ \A s, t \in 1..Len(list) : s # t => Apart(list[s], list[t], shared)
      /\ shared \subseteq m.pmm.used \cap (KernelEnd..(TotalPages - 1))
  BY DEF Consistent
<1>2. Sound(n) /\ Extends(m, n) /\ m.pmm.used \subseteq n.pmm.used
  BY DEF Launches, Extends
<1>3. \A t \in 1..Len(list) : TaskFits(n, list[t])
  BY <1>1, <1>2, TaskStays
<1>4. shared \subseteq n.pmm.used \cap (KernelEnd..(TotalPages - 1))
  BY <1>1, <1>2
<1>5. CASE task = <<>>
  <2>1. list \o task = list
    BY <1>1, <1>5
  <2>2. Consistent(n, list, shared)
    BY <1>1, <1>2, <1>3, <1>4, Zenon DEF Consistent
  <2> QED
    BY <2>1, <2>2, Zenon
<1>6. CASE \E k : task = <<k>> /\ NewTask(m, n, k, shared)
  <2>1. PICK k : task = <<k>> /\ NewTask(m, n, k, shared)
    BY <1>6
  <2>2. PICK new : new = list \o task
    OBVIOUS
  <2>3. TaskFits(n, k)
    BY <2>1 DEF NewTask
  <2>4. k \in Task
    <3>1. /\ k = [pd |-> k.pd, kstack |-> k.kstack, pages |-> k.pages]
          /\ k.pd \in DOMAIN n.pd /\ k.kstack \in Nat
          /\ k.pages \subseteq KernelEnd..(TotalPages - 1)
      BY <2>3 DEF TaskFits
    <3>2. DOMAIN n.pd \subseteq Nat
      BY <1>2 DEF Sound, Paging, Placed
    <3>3. k.pages \subseteq Nat
      BY <3>1, Layout
    <3> QED
      BY <3>1, <3>2, <3>3 DEF Task
  <2>5. /\ new \in Seq(Task) /\ Len(new) = Len(list) + 1 /\ new[Len(list) + 1] = k
        /\ \A t \in 1..Len(list) : new[t] = list[t]
    BY <1>1, <2>1, <2>2, <2>4
  <2>6. ASSUME NEW t \in 1..Len(new) PROVE TaskFits(n, new[t])
    <3>1. t \in 1..Len(list) \/ t = Len(list) + 1
      BY <1>1, <2>5
    <3> QED
      BY <1>3, <2>3, <2>5, <3>1
  <2>7. ASSUME NEW t \in 1..Len(list) PROVE Apart(list[t], k, shared) /\ Apart(k, list[t], shared)
    <3>1. PICK l : l = list[t]
      OBVIOUS
    <3>2. /\ l.pd \in DOMAIN m.pd /\ Pages(l.kstack, 2) \subseteq m.pmm.used
          /\ l.pages \subseteq m.pmm.used
      BY <1>1, <3>1 DEF TaskFits
    <3>3. /\ k.pd \notin DOMAIN m.pd /\ Pages(k.kstack, 2) \cap m.pmm.used = {}
          /\ k.pages \cap m.pmm.used \subseteq shared
      BY <2>1 DEF NewTask
    <3>4. Apart(l, k, shared) /\ Apart(k, l, shared)
      BY <3>2, <3>3 DEF Apart
    <3> QED
      BY <3>1, <3>4
  <2>8. ASSUME NEW s \in 1..Len(new), NEW t \in 1..Len(new), s # t
        PROVE  Apart(new[s], new[t], shared)
    <3>1. /\ s \in 1..Len(list) \/ s = Len(list) + 1
          /\ t \in 1..Len(list) \/ t = Len(list) + 1
      BY <1>1, <2>5
    <3> QED
      BY <1>1, <2>5, <2>7, <2>8, <3>1
  <2>9. Consistent(n, new, shared)
    BY <1>2, <1>4, <2>5, <2>6, <2>8, Zenon DEF Consistent
  <2> QED
    BY <2>2, <2>9, Zenon
<1> QED
  BY <1>5, <1>6 DEF Launches

-----------------------------------------------------------------------------
(* The inductive invariant.                                                *)

Codes == {code[p] : p \in Programs}

SpacesInv ==
    /\ Consistent(mem, tasks, Codes)
    /\ code \in [Programs -> Int]
    /\ booted \in BOOLEAN /\ halted = mem.fault
    /\ booted /\ halted => NoHeapLeft(mem.pmm)

(* The machine may also die of a shortage while it boots.                  *)
LEMMA FaultFits ==
    ASSUME NEW m, NEW list, NEW shared, Consistent(m, list, shared)
    PROVE  Consistent(Fault(m), list, shared)
<1>1. PICK n : n = Fault(m)
  OBVIOUS
<1>2. /\ Sound(m) /\ list \in Seq(Task)
      /\ \A t \in 1..Len(list) : TaskFits(m, list[t])
      /\ \A s, t \in 1..Len(list) : s # t => Apart(list[s], list[t], shared)
      /\ shared \subseteq m.pmm.used \cap (KernelEnd..(TotalPages - 1))
  BY DEF Consistent
<1>3. Sound(n) /\ Extends(m, n) /\ n.pmm = m.pmm
  BY <1>1, <1>2, FaultSound
<1>4. \A t \in 1..Len(list) : TaskFits(n, list[t])
  BY <1>2, <1>3, TaskStays
<1>5. shared \subseteq n.pmm.used \cap (KernelEnd..(TotalPages - 1))
  BY <1>2, <1>3
<1>6. Consistent(n, list, shared)
  BY <1>2, <1>3, <1>4, <1>5, Zenon DEF Consistent
<1> QED
  BY <1>1, <1>6

(* Starting a program on pages of which those outside `shared' are new.    *)
LEMMA StartLaunches ==
    ASSUME NEW l, NEW m, Sound(m), Extends(l, m), ~m.fault,
           NEW pages \in Seq(KernelEnd..(TotalPages - 1)), ToSet(pages) \subseteq m.pmm.used,
           NEW shared, ToSet(pages) \cap l.pmm.used \subseteq shared,
           NEW esp \in BOOLEAN,
           NEW r, r = task_create_user_with_pages(m, pages, esp)
    PROVE  Launches(l, r.mem, r.task, shared)
<1>1. Launches(m, r.mem, r.task, ToSet(pages))
  BY CreateLaunches
<1> QED
  BY <1>1, LaunchesLater

\* A step that creates no task.
LEMMA NoLaunch ==
    ASSUME NEW m, NEW n, Sound(n), Extends(m, n), n.fault => NoHeapLeft(n.pmm),
           NEW task, task = <<>>, NEW shared
    PROVE  Launches(m, n, task, shared)
BY Zenon DEF Launches

\* A user page is a free page of the user region.
LEMMA UserPageTaken ==
    ASSUME NEW m, Sound(m), NEW r, r = pmm_alloc_user_page(m.pmm), r.ret # NoPage,
           NEW k, k = Take(m, r)
    PROVE  /\ Sound(k) /\ Extends(m, k) /\ k.fault = m.fault
           /\ r.ret \in k.pmm.used \cap (KernelEnd..(TotalPages - 1))
           /\ r.ret \notin m.pmm.used
<1>1. PICK lo \in Nat, hi \in Int : lo = KernelEnd /\ hi = TotalPages
  BY Layout
<1>2. Outcome(m.pmm, r, lo, hi, 1)
  <2>1. IsPmm(m.pmm) /\ m.pmm.total_pages = TotalPages
    BY DEF Sound, IsMem
  <2> QED
    BY <1>1, <2>1, UserPageOutcome
<1>3. Given(m, k, r, lo, hi, 1)
  BY <1>2, TakeSound
<1>4. r.ret \in Nat => r.ret \in Pages(r.ret, 1)
  BY DEF Pages
<1>5. /\ r.ret \in Nat /\ lo <= r.ret /\ r.ret + 1 <= hi
      /\ Pages(r.ret, 1) \subseteq k.pmm.used
      /\ Pages(r.ret, 1) \cap m.pmm.used = {}
      /\ Sound(k) /\ Extends(m, k) /\ k.fault = m.fault
  BY <1>3 DEF Given
<1> QED
  BY <1>1, <1>4, <1>5

\* Every launch, successful or cut short, keeps the invariant.
LEMMA InvStep == SpacesInv /\ [Next]_vars => SpacesInv'
<1> SUFFICES ASSUME SpacesInv, [Next]_vars PROVE SpacesInv'
  OBVIOUS
<1>1. /\ Consistent(mem, tasks, Codes) /\ code \in [Programs -> Int]
      /\ booted \in BOOLEAN /\ halted = mem.fault
      /\ booted /\ halted => NoHeapLeft(mem.pmm)
  BY DEF SpacesInv
<1>2. Sound(mem) /\ Codes \subseteq mem.pmm.used \cap (KernelEnd..(TotalPages - 1))
  BY <1>1 DEF Consistent
<1>3. ASSUME NEW r, Launched(r), UNCHANGED booted, Launches(mem, r.mem, r.task, Codes)
      PROVE  SpacesInv'
  <2>1. /\ mem' = r.mem /\ tasks' = tasks \o r.task /\ code' = code /\ Codes' = Codes
        /\ halted' = mem'.fault /\ booted' = booted
    BY <1>3 DEF Launched, Dead, Codes
  <2>2. Consistent(r.mem, tasks \o r.task, Codes)
    BY <1>1, <1>3, LaunchFits
  <2>3. r.mem.fault => NoHeapLeft(r.mem.pmm)
    BY <1>3 DEF Launches
  <2>4. Consistent(mem', tasks', Codes')
    BY <2>1, <2>2, Zenon
  <2>5. booted' /\ halted' => NoHeapLeft(mem'.pmm)
    BY <2>1, <2>3
  <2> QED
    BY <1>1, <2>1, <2>4, <2>5, Zenon DEF SpacesInv
<1>4. CASE BootTask
  <2>1. PICK page : page = pmm_alloc_user_page(mem.pmm)
    OBVIOUS
  <2>2. ~booted /\ ~mem.fault /\ UNCHANGED booted
    BY <1>1, <1>4 DEF BootTask
  <2>3. CASE page.ret = NoPage
    <3>1. Launched([mem |-> Fault(mem), task |-> <<>>])
      BY <1>4, <2>1, <2>3, Zenon DEF BootTask
    <3>2. PICK x : x = Fault(mem)
      OBVIOUS
    <3>3. mem' = x /\ tasks' = tasks \o <<>> /\ halted' = x.fault /\ Codes' = Codes /\ code' = code
      BY <3>1, <3>2 DEF Launched, Dead, Codes
    <3>4. tasks' = tasks
      BY <1>1, <3>3 DEF Consistent
    <3>5. Consistent(mem', tasks', Codes')
      <4>1. Consistent(x, tasks, Codes)
        BY <1>1, <3>2, FaultFits
      <4> QED
        BY <3>3, <3>4, <4>1, Zenon
    <3>6. halted' = mem'.fault /\ ~booted' /\ booted' \in BOOLEAN
      BY <1>1, <2>2, <3>3
    <3> QED
      BY <1>1, <3>3, <3>5, <3>6, Zenon DEF SpacesInv
  <2>4. CASE page.ret # NoPage
    <3>1. PICK m, list, r : /\ m = Take(mem, page) /\ list = <<page.ret>>
                            /\ r = task_create_user_with_pages(m, list, FALSE)
      OBVIOUS
    <3>2. Launched(r)
      BY <1>4, <2>1, <2>4, <3>1, Zenon DEF BootTask, Take
    <3>3. /\ Sound(m) /\ Extends(mem, m) /\ ~m.fault
          /\ page.ret \in m.pmm.used \cap (KernelEnd..(TotalPages - 1))
          /\ page.ret \notin mem.pmm.used
      BY <1>2, <2>1, <2>2, <2>4, <3>1, UserPageTaken
    <3>4. list \in Seq(KernelEnd..(TotalPages - 1)) /\ ToSet(list) = {page.ret}
      BY <3>1, <3>3 DEF ToSet
    <3>5. Launches(mem, r.mem, r.task, Codes)
      BY <3>1, <3>3, <3>4, StartLaunches
    <3> QED
      BY <1>3, <2>2, <3>2, <3>5
  <2> QED
    BY <2>3, <2>4
<1>5. CASE Boot
  <2>1. /\ mem' = mem /\ tasks' = tasks /\ code' = code /\ Codes' = Codes
        /\ halted' = halted /\ ~halted /\ booted' = TRUE
    BY <1>5 DEF Boot, Codes
  <2> QED
    BY <1>1, <2>1 DEF SpacesInv
<1>6. CASE run_exec
  <2>1. PICK name \in Programs :
           Launched(task_create_user_with_pages(mem, <<code[name]>>, FALSE))
    BY <1>6, Zenon DEF run_exec
  <2>2. ~mem.fault /\ UNCHANGED booted
    BY <1>1, <1>6 DEF run_exec
  <2>3. PICK list, r : /\ list = <<code[name]>>
                       /\ r = task_create_user_with_pages(mem, list, FALSE)
    OBVIOUS
  <2>4. code[name] \in Codes
    BY DEF Codes
  <2>5. list \in Seq(KernelEnd..(TotalPages - 1)) /\ ToSet(list) = {code[name]}
    BY <1>2, <2>3, <2>4 DEF ToSet
  <2>6. Extends(mem, mem)
    BY DEF Extends
  <2>7. Launches(mem, r.mem, r.task, Codes)
    BY <1>2, <2>2, <2>3, <2>4, <2>5, <2>6, StartLaunches
  <2>8. Launched(r)
    BY <2>1, <2>3, Zenon
  <2> QED
    BY <1>3, <2>2, <2>7, <2>8
<1>7. CASE exec_elf_from_path
  <2>1. ~mem.fault /\ UNCHANGED booted
    BY <1>1, <1>7 DEF exec_elf_from_path
  <2>2. PICK n \in 0..MaxElfPages, valid \in BOOLEAN :
           LET buf    == pmm_alloc_contiguous_pages(mem.pmm, ElfBufPages)
               loaded == elf_load([mem EXCEPT !.pmm = buf.pmm], n)
               stack  == pmm_alloc_user_page(loaded.mem.pmm)
               made   == task_create_user_with_pages([loaded.mem EXCEPT !.pmm = stack.pmm],
                                                     <<stack.ret>> \o loaded.pages, TRUE)
               Fails(m) == Launched([mem |-> m, task |-> <<>>])
           IN  IF buf.ret = NoPage THEN Fails(mem)
               ELSE IF ~valid THEN Fails([mem EXCEPT !.pmm = buf.pmm])
               ELSE IF loaded.pages = <<>> THEN Fails(loaded.mem)
               ELSE IF stack.ret = NoPage THEN Fails(loaded.mem)
               ELSE IF Dead(made.mem) THEN Fails(made.mem)
               ELSE Launched([mem |-> kfree(made.mem), task |-> made.task])
    BY <1>7, Zenon DEF exec_elf_from_path
  <2>3. PICK buf, m : buf = pmm_alloc_contiguous_pages(mem.pmm, ElfBufPages) /\ m = Take(mem, buf)
    OBVIOUS
  <2>4. PICK loaded : loaded = elf_load(m, n)
    OBVIOUS
  <2>5. PICK lm, pages : lm = loaded.mem /\ pages = loaded.pages
    OBVIOUS
  <2>6. PICK stack, s : stack = pmm_alloc_user_page(lm.pmm) /\ s = Take(lm, stack)
    OBVIOUS
  <2>7. PICK all : all = <<stack.ret>> \o pages
    OBVIOUS
  <2>8. PICK made : made = task_create_user_with_pages(s, all, TRUE)
    OBVIOUS
  <2>9. IF buf.ret = NoPage THEN Launched([mem |-> mem, task |-> <<>>])
        ELSE IF ~valid THEN Launched([mem |-> m, task |-> <<>>])
        ELSE IF pages = <<>> THEN Launched([mem |-> lm, task |-> <<>>])
        ELSE IF stack.ret = NoPage THEN Launched([mem |-> lm, task |-> <<>>])
        ELSE IF Dead(made.mem) THEN Launched([mem |-> made.mem, task |-> <<>>])
        ELSE Launched([mem |-> kfree(made.mem), task |-> made.task])
    BY <2>2, <2>3, <2>4, <2>5, <2>6, <2>7, <2>8, Zenon DEF Take
  <2>10. ASSUME NEW x, Launched([mem |-> x, task |-> <<>>]), Sound(x), Extends(mem, x),
                x.fault => NoHeapLeft(x.pmm)
         PROVE  SpacesInv'
    <3>1. PICK r : r = [mem |-> x, task |-> <<>>]
      OBVIOUS
    <3>2. r.mem = x /\ r.task = <<>>
      BY <3>1
    <3>3. Launches(mem, r.mem, r.task, Codes)
      <4>1. PICK task : task = <<>>
        OBVIOUS
      <4>2. Launches(mem, x, task, Codes)
        BY <2>10, <4>1, NoLaunch
      <4> QED
        BY <3>2, <4>1, <4>2, Zenon
    <3>4. Launched(r)
      BY <2>10, <3>1, Zenon
    <3> QED
      BY <1>3, <2>1, <3>3, <3>4
  <2>11. Sound(m) /\ Extends(mem, m) /\ ~m.fault
    <3>1. PICK hi \in Int, e \in Nat : hi = KernelLimit(mem.pmm) /\ e = ElfBufPages
      BY <1>2, KernelLimitType, SpacesAssumption DEF Sound, IsMem
    <3>2. Outcome(mem.pmm, buf, 0, hi, e)
      BY <1>2, <2>3, <3>1, KernelRunOutcome DEF Sound, IsMem
    <3>3. Given(mem, m, buf, 0, hi, e)
      BY <1>2, <2>3, <3>2, TakeSound
    <3> QED
      BY <2>1, <3>3 DEF Given
  <2>12. Loads(m, lm, pages)
    <3>1. n \in Nat
      BY SpacesAssumption
    <3> QED
      BY <2>4, <2>5, <2>11, <3>1, ElfLoads
  <2>13. Sound(lm) /\ Extends(m, lm) /\ Extends(mem, lm) /\ (lm.fault => NoHeapLeft(lm.pmm))
    BY <2>11, <2>12, ExtendsTrans DEF Loads
  <2>14. CASE buf.ret = NoPage
    <3>1. Launched([mem |-> mem, task |-> <<>>])
      BY <2>9, <2>14, Zenon
    <3>2. Extends(mem, mem)
      BY DEF Extends
    <3> QED
      BY <1>2, <2>1, <2>10, <3>1, <3>2
  <2>15. CASE buf.ret # NoPage /\ ~valid
    <3>1. Launched([mem |-> m, task |-> <<>>])
      BY <2>9, <2>15, Zenon
    <3> QED
      BY <2>10, <2>11, <3>1
  <2>16. CASE buf.ret # NoPage /\ valid /\ (pages = <<>> \/ stack.ret = NoPage)
    <3>1. Launched([mem |-> lm, task |-> <<>>])
      BY <2>9, <2>16, Zenon
    <3> QED
      BY <2>10, <2>13, <3>1
  <2>17. CASE buf.ret # NoPage /\ valid /\ pages # <<>> /\ stack.ret # NoPage
    <3>1. /\ ~lm.fault /\ pages \in Seq(KernelEnd..(TotalPages - 1))
          /\ ToSet(pages) \subseteq lm.pmm.used /\ ToSet(pages) \cap m.pmm.used = {}
      BY <2>12, <2>17 DEF Loads
    <3>2. /\ Sound(s) /\ Extends(lm, s) /\ ~s.fault
          /\ stack.ret \in s.pmm.used \cap (KernelEnd..(TotalPages - 1))
          /\ stack.ret \notin lm.pmm.used
      BY <2>6, <2>13, <2>17, <3>1, UserPageTaken
    <3>3. all \in Seq(KernelEnd..(TotalPages - 1)) /\ ToSet(all) = {stack.ret} \cup ToSet(pages)
      <4>1. PICK S, e : S = KernelEnd..(TotalPages - 1) /\ e = stack.ret
        OBVIOUS
      <4>2. pages \in Seq(S) /\ e \in S /\ all = <<e>> \o pages
        BY <2>7, <3>1, <3>2, <4>1
      <4>3. /\ all \in Seq(S) /\ Len(all) = Len(pages) + 1 /\ all[1] = e
            /\ \A i \in 2..(Len(pages) + 1) : all[i] = pages[i - 1]
        BY <4>2
      <4>4. ToSet(all) = {e} \cup ToSet(pages)
        <5>1. /\ ToSet(all) = {all[i] : i \in 1..(Len(pages) + 1)} /\ Len(pages) \in Nat
              /\ ToSet(pages) = {pages[i] : i \in 1..Len(pages)}
          <6>1. DOMAIN all = 1..(Len(pages) + 1) /\ DOMAIN pages = 1..Len(pages)
            BY <4>2, <4>3
          <6>2. Len(pages) \in Nat
            BY <4>2
          <6> QED
            BY <6>1, <6>2, Zenon DEF ToSet
        <5>2. ASSUME NEW i \in 1..(Len(pages) + 1) PROVE all[i] \in {e} \cup ToSet(pages)
          <6>1. i = 1 \/ (i \in 2..(Len(pages) + 1) /\ i - 1 \in 1..Len(pages))
            BY <5>1
          <6> QED
            BY <4>3, <5>1, <6>1
        <5>3. ASSUME NEW i \in 1..Len(pages) PROVE pages[i] \in ToSet(all)
          <6>1. i + 1 \in 2..(Len(pages) + 1) /\ i + 1 \in 1..(Len(pages) + 1) /\ i + 1 - 1 = i
            BY <5>1
          <6>2. all[i + 1] = pages[i]
            BY <4>3, <6>1
          <6> QED
            BY <5>1, <6>1, <6>2
        <5>4. e \in ToSet(all)
          <6>1. 1 \in 1..(Len(pages) + 1)
            BY <5>1
          <6> QED
            BY <4>3, <5>1, <6>1
        <5> QED
          BY <5>1, <5>2, <5>3, <5>4
      <4> QED
        BY <4>1, <4>3, <4>4
    <3>4. Extends(mem, s) /\ lm.pmm.used \subseteq s.pmm.used
          /\ mem.pmm.used \subseteq m.pmm.used /\ mem.pmm.used \subseteq lm.pmm.used
      BY <2>11, <2>13, <3>2, ExtendsTrans DEF Extends
    <3>5. ToSet(all) \subseteq s.pmm.used /\ ToSet(all) \cap mem.pmm.used \subseteq Codes
      BY <3>1, <3>2, <3>3, <3>4
    <3>6. Launches(mem, made.mem, made.task, Codes)
      BY <2>8, <3>2, <3>3, <3>4, <3>5, StartLaunches
    <3>7. CASE Dead(made.mem)
      <4>1. Launched([mem |-> made.mem, task |-> <<>>])
        BY <2>9, <2>17, <3>7, Zenon
      <4> QED
        BY <2>10, <3>6, <4>1 DEF Launches
    <3>8. CASE ~Dead(made.mem)
      <4>1. PICK y, x, task : y = made.mem /\ x = kfree(y) /\ task = made.task
        OBVIOUS
      <4>2. PICK r : r = [mem |-> x, task |-> task]
        OBVIOUS
      <4>3. Launched(r) /\ r.mem = x /\ r.task = task
        BY <2>9, <2>17, <3>8, <4>1, <4>2
      <4>4. Launches(mem, y, task, Codes) /\ ~y.fault
        BY <3>6, <3>8, <4>1 DEF Dead
      <4>5. Sound(x) /\ Extends(y, x) /\ SameTables(y, x) /\ x.pmm = y.pmm /\ ~x.fault
        BY <4>1, <4>4, KfreeSound DEF Launches
      <4>6. ASSUME NEW k, NewTask(mem, y, k, Codes) PROVE NewTask(mem, x, k, Codes)
        <5>1. TaskFits(x, k)
          BY <4>4, <4>5, <4>6, TaskStays DEF NewTask, Launches
        <5> QED
          BY <4>6, <5>1 DEF NewTask
      <4>7. Extends(mem, x)
        BY <4>4, <4>5, ExtendsTrans DEF Launches
      <4>8. Launches(mem, x, task, Codes)
        BY <4>4, <4>5, <4>6, <4>7 DEF Launches
      <4> QED
        BY <1>3, <2>1, <4>3, <4>8
    <3> QED
      BY <3>7, <3>8
  <2> QED
    BY <2>14, <2>15, <2>16, <2>17
<1>8. CASE UNCHANGED vars
  BY <1>1, <1>8 DEF vars, SpacesInv, Codes
<1> QED
  BY <1>4, <1>5, <1>6, <1>7, <1>8 DEF Next

-----------------------------------------------------------------------------
(* Booting.                                                                *)

\* f is a chain of n requests for a kernel page.
Asks(p, f, n) ==
    f = [k \in 0..n |-> IF k = 0 THEN [pmm |-> p, ret |-> NoPage] ELSE pmm_alloc_page(f[k - 1].pmm)]

\* A chain of requests has a value at every length.
LEMMA AsksDefined ==
    ASSUME NEW p, NEW last \in Nat
    PROVE  \E f : Asks(p, f, last)
<1> DEFINE Bad == {n \in Nat : ~ \E f : Asks(p, f, n)}
<1>1. SUFFICES ASSUME Bad # {} PROVE FALSE
  OBVIOUS
<1>2. PICK n \in Bad : \A k \in Bad : n <= k
  <2>1. Bad \subseteq Nat
    OBVIOUS
  <2> QED
    BY <1>1, <2>1, LeastNat
<1>3. PICK z : z = [pmm |-> p, ret |-> NoPage]
  OBVIOUS
<1>4. CASE n = 0
  <2>1. PICK f : f = [k \in 0..0 |-> z]
    OBVIOUS
  <2>2. f = [k \in 0..0 |-> IF k = 0 THEN z ELSE pmm_alloc_page(f[k - 1].pmm)]
    BY <2>1
  <2>3. Asks(p, f, 0)
    BY <1>3, <2>2, Zenon DEF Asks
  <2> QED
    BY <1>2, <1>4, <2>3
<1>5. CASE n # 0
  <2>1. n \in Nat /\ n - 1 \in Nat /\ n - 1 \notin Bad
    BY <1>2, <1>5
  <2>2. PICK f : f = [k \in 0..(n - 1) |-> IF k = 0 THEN z ELSE pmm_alloc_page(f[k - 1].pmm)]
    <3>1. PICK f : Asks(p, f, n - 1)
      BY <2>1
    <3> QED
      BY <1>3, <3>1, Zenon DEF Asks
  <2>3. PICK g : g = [k \in 0..n |-> IF k = n THEN pmm_alloc_page(f[n - 1].pmm) ELSE f[k]]
    OBVIOUS
  <2>4. \A k \in 0..n : g[k] = IF k = 0 THEN z ELSE pmm_alloc_page(g[k - 1].pmm)
    <3> TAKE k \in 0..n
    <3>1. CASE k = n
      <4>1. g[k] = pmm_alloc_page(f[n - 1].pmm) /\ g[k - 1] = f[n - 1]
        BY <2>1, <2>3, <3>1
      <4> QED
        BY <3>1, <4>1, <1>5
    <3>2. CASE k # n
      <4>1. k \in 0..(n - 1) /\ g[k] = f[k]
        BY <2>1, <2>3, <3>2
      <4>2. f[k] = IF k = 0 THEN z ELSE pmm_alloc_page(f[k - 1].pmm)
        BY <2>2, <4>1
      <4>3. k # 0 => g[k - 1] = f[k - 1]
        BY <2>1, <2>3, <4>1
      <4> QED
        BY <4>1, <4>2, <4>3
    <3> QED
      BY <3>1, <3>2
  <2>5. g = [k \in 0..n |-> IF k = 0 THEN z ELSE pmm_alloc_page(g[k - 1].pmm)]
    <3>1. g = [k \in 0..n |-> g[k]]
      BY <2>3
    <3> QED
      BY <2>4, <3>1
  <2>6. Asks(p, g, n)
    BY <1>3, <2>5, Zenon DEF Asks
  <2> QED
    BY <1>2, <2>6
<1> QED
  BY <1>4, <1>5

\* What so many requests for a kernel page return: different free pages.
Answers(p, f, n) ==
    /\ IsPmm(f[n].pmm) /\ f[n].pmm.total_pages = TotalPages
    /\ p.used \subseteq f[n].pmm.used
    /\ \A j \in 1..n : f[j].ret # NoPage =>
          /\ f[j].ret \in f[n].pmm.used \cap (0..(KernelEnd - 1))
          /\ \A l \in 1..n : f[j].ret = f[l].ret => j = l

\* One more request: its page is none of those given before.
LEMMA AnswerStep ==
    ASSUME NEW p, NEW f, NEW n \in Nat, Answers(p, f, n),
           f[n + 1] = pmm_alloc_page(f[n].pmm)
    PROVE  Answers(p, f, n + 1)
<1>1. PICK q, r : q = f[n].pmm /\ r = f[n + 1]
  OBVIOUS
<1>2. /\ IsPmm(q) /\ q.total_pages = TotalPages /\ p.used \subseteq q.used
      /\ \A j \in 1..n : f[j].ret # NoPage =>
            /\ f[j].ret \in q.used \cap (0..(KernelEnd - 1))
            /\ \A l \in 1..n : f[j].ret = f[l].ret => j = l
  BY <1>1, Zenon DEF Answers
<1>3. Outcome(q, r, 0, KernelLimit(q), 1)
  BY <1>1, <1>2, KernelPageOutcome
<1>4. /\ IsPmm(r.pmm) /\ r.pmm.total_pages = TotalPages /\ q.used \subseteq r.pmm.used
      /\ r.ret # NoPage => r.ret \in r.pmm.used \cap (0..(KernelEnd - 1)) /\ r.ret \notin q.used
  <2>1. CASE r.ret = NoPage /\ r.pmm = q
    BY <1>2, <2>1
  <2>2. CASE /\ r.ret \in Nat /\ 0 <= r.ret /\ r.ret + 1 <= KernelLimit(q)
             /\ Pages(r.ret, 1) \cap q.used = {}
             /\ IsPmm(r.pmm) /\ r.pmm.total_pages = q.total_pages
             /\ r.pmm.used = q.used \cup Pages(r.ret, 1)
    BY <1>2, <2>2, KernelLimitType, Layout DEF Pages
  <2> QED
    BY <1>3, <2>1, <2>2 DEF Outcome
<1>5. ASSUME NEW j \in 1..(n + 1), f[j].ret # NoPage
      PROVE  /\ f[j].ret \in r.pmm.used \cap (0..(KernelEnd - 1))
             /\ \A l \in 1..(n + 1) : f[j].ret = f[l].ret => j = l
  <2>1. \A l \in 1..(n + 1) : l \in 1..n \/ l = n + 1
    OBVIOUS
  <2>2. CASE j \in 1..n
    <3>1. f[j].ret \in q.used
      BY <1>2, <1>5, <2>2
    <3> QED
      BY <1>1, <1>2, <1>4, <1>5, <2>1, <2>2, <3>1
  <2>3. CASE j = n + 1
    BY <1>1, <1>2, <1>4, <1>5, <2>1, <2>3
  <2> QED
    BY <2>1, <2>2, <2>3
<1>6. p.used \subseteq r.pmm.used
  BY <1>2, <1>4
<1> QED
  BY <1>1, <1>4, <1>5, <1>6, Zenon DEF Answers

\* Requests for kernel pages return pages of the kernel region, all different.
LEMMA KernelPagesAnswer ==
    ASSUME NEW p, IsPmm(p), p.total_pages = TotalPages, NEW count \in Nat
    PROVE  Answers(p, KernelPages(p, count), count)
<1>1. PICK f : Asks(p, f, count) /\ KernelPages(p, count) = f
  <2>1. \E f : Asks(p, f, count)
    BY AsksDefined
  <2>2. KernelPages(p, count) = CHOOSE f : Asks(p, f, count)
    BY Zenon DEF KernelPages, Asks
  <2> QED
    BY <2>1, <2>2, Zenon
<1>2. /\ f[0] = [pmm |-> p, ret |-> NoPage]
      /\ \A k \in 0..count : k # 0 => f[k] = pmm_alloc_page(f[k - 1].pmm)
  <2>1. f = [k \in 0..count |-> IF k = 0 THEN [pmm |-> p, ret |-> NoPage]
                                ELSE pmm_alloc_page(f[k - 1].pmm)]
    BY <1>1, Zenon DEF Asks
  <2> QED
    BY <2>1
<1>3. Answers(p, f, 0)
  <2>1. f[0].pmm = p
    BY <1>2
  <2> QED
    BY <2>1 DEF Answers
<1>4. ASSUME NEW n \in 1..count, Answers(p, f, n - 1) PROVE Answers(p, f, n)
  <2>1. PICK k \in Nat : k = n - 1
    OBVIOUS
  <2>2. n = k + 1 /\ f[k + 1] = pmm_alloc_page(f[k].pmm)
    BY <1>2, <2>1
  <2>3. Answers(p, f, k)
    BY <1>4, <2>1
  <2> QED
    BY <2>2, <2>3, AnswerStep
<1> DEFINE Bad == {n \in 0..count : ~Answers(p, f, n)}
<1>5. Bad = {}
  <2> SUFFICES ASSUME Bad # {} PROVE FALSE
    OBVIOUS
  <2>1. PICK n \in Bad : \A k \in Bad : n <= k
    <3>1. Bad \subseteq Nat
      OBVIOUS
    <3> QED
      BY <3>1, LeastNat
  <2>2. n \in 0..count /\ ~Answers(p, f, n)
    OBVIOUS
  <2>3. n # 0
    BY <1>3, <2>2
  <2>4. n \in 1..count /\ n - 1 \in 0..count /\ ~(n <= n - 1)
    BY <2>2, <2>3
  <2>5. Answers(p, f, n - 1)
    BY <2>1, <2>4
  <2> QED
    BY <1>4, <2>2, <2>4, <2>5
<1> QED
  BY <1>1, <1>5

(* paging_init: one directory of supervisor tables, all of them pages of   *)
(* their own (paging.c).                                                   *)
LEMMA PagingInitPaging ==
    ASSUME NEW p, IsPmm(p), p.total_pages = TotalPages,
           NEW g, g = paging_init(p),
           g.kernelPD # NoPage, \A i \in PdIndices : g.pd[g.kernelPD][i].pt # NoPage
    PROVE  /\ g = [pmm |-> g.pmm, kernelPD |-> g.kernelPD, pd |-> g.pd, ptUser |-> g.ptUser,
                   room |-> 0, fault |-> FALSE]
           /\ IsPmm(g.pmm) /\ g.pmm.total_pages = TotalPages
           /\ Paging(g)
<1>1. PICK count \in Nat : count = TableCount + 1
  BY Layout
<1>2. PICK page : page = KernelPages(p, count)
  OBVIOUS
<1>3. Answers(p, page, count)
  BY <1>2, KernelPagesAnswer
<1>4. PICK k, q, table : /\ k = page[1].ret /\ q = page[count].pmm
                         /\ table = [i \in PdIndices |-> page[i + 2].ret]
  OBVIOUS
<1>5. PICK row : row = [i \in PdIndices |-> [pt |-> table[i], user |-> FALSE]]
  OBVIOUS
<1>6. PICK pd, pu : /\ pd = [d \in {k} |-> row]
                    /\ pu = [t \in {table[i] : i \in PdIndices} |-> {}]
  OBVIOUS
<1>7. g = [pmm |-> q, kernelPD |-> k, pd |-> pd, ptUser |-> pu, room |-> 0, fault |-> FALSE]
  <2>1. \A i \in PdIndices : table[i] = page[i + 2].ret
    BY <1>4
  <2>2. PICK x : x = [i \in PdIndices |-> [pt |-> page[i + 2].ret, user |-> FALSE]]
    OBVIOUS
  <2>3. row = x
    BY <1>5, <2>1, <2>2
  <2>4. {table[i] : i \in PdIndices} = {page[i + 2].ret : i \in PdIndices}
    BY <2>1
  <2>5. pu = [t \in {page[i + 2].ret : i \in PdIndices} |-> {}]
    BY <1>6, <2>4, Zenon
  <2>6. pd = [d \in {k} |-> x]
    BY <1>6, <2>3, Zenon
  <2>7. paging_init(p) = [pmm |-> page[count].pmm, kernelPD |-> page[1].ret,
                          pd |-> [d \in {page[1].ret} |->
                                    [i \in PdIndices |-> [pt |-> page[i + 2].ret, user |-> FALSE]]],
                          ptUser |-> [t \in {page[i + 2].ret : i \in PdIndices} |-> {}],
                          room |-> 0, fault |-> FALSE]
    BY <1>1, <1>2, Zenon DEF paging_init
  <2> QED
    BY <1>4, <2>2, <2>5, <2>6, <2>7, Zenon
<1>8. /\ g.pmm = q /\ g.kernelPD = k /\ g.pd = pd /\ g.ptUser = pu
  BY <1>7
<1>9. /\ DOMAIN pd = {k} /\ pd[k] = row
      /\ \A i \in PdIndices : row[i].pt = table[i] /\ ~row[i].user
      /\ DOMAIN pu = {table[i] : i \in PdIndices} /\ \A i \in PdIndices : pu[table[i]] = {}
  <2>1. \A i \in PdIndices : row[i] = [pt |-> table[i], user |-> FALSE]
    BY <1>5
  <2>2. ASSUME NEW i \in PdIndices PROVE row[i].pt = table[i] /\ ~row[i].user
    <3>1. PICK e, t, shut : e = row[i] /\ t = table[i] /\ shut = FALSE
      OBVIOUS
    <3>2. e = [pt |-> t, user |-> shut]
      BY <2>1, <3>1, Zenon
    <3>3. e.pt = t /\ e.user = shut
      BY <3>2
    <3>4. row[i].pt = table[i]
      BY <3>1, <3>3, Zenon
    <3>5. row[i].user = FALSE
      BY <3>1, <3>3, Zenon
    <3> QED
      BY <3>4, <3>5
  <2> QED
    BY <1>6, <2>2
<1>10. k # NoPage /\ \A i \in PdIndices : table[i] # NoPage
  BY <1>8, <1>9
<1>11. /\ IsPmm(q) /\ q.total_pages = TotalPages
       /\ \A j \in 1..count : page[j].ret # NoPage =>
             /\ page[j].ret \in q.used \cap (0..(KernelEnd - 1))
             /\ \A l \in 1..count : page[j].ret = page[l].ret => j = l
  BY <1>3, <1>4, Zenon DEF Answers
<1>12. \A i \in PdIndices : i \in Int /\ i + 2 \in 1..count /\ i + 2 # 1
  BY <1>1, Layout DEF PdIndices
<1>13. 1 \in 1..count
  BY <1>1, Layout
<1>14. k \in q.used \cap (0..(KernelEnd - 1))
  BY <1>4, <1>10, <1>11, <1>13
<1>15. ASSUME NEW i \in PdIndices
       PROVE  table[i] \in q.used \cap (0..(KernelEnd - 1)) /\ table[i] # k
  <2>1. PICK j \in 1..count : j = i + 2 /\ j # 1
    BY <1>12
  <2>2. table[i] = page[j].ret
    BY <1>4, <2>1
  <2> QED
    BY <1>4, <1>10, <1>11, <1>13, <2>1, <2>2
<1>16. ASSUME NEW i \in PdIndices, NEW j \in PdIndices, table[i] = table[j] PROVE i = j
  <2>1. PICK x \in 1..count, y \in 1..count : x = i + 2 /\ y = j + 2
    BY <1>12
  <2>2. table[i] = page[x].ret /\ table[j] = page[y].ret
    BY <1>4, <2>1
  <2>3. x = y
    BY <1>10, <1>11, <1>16, <2>2
  <2> QED
    BY <1>12, <2>1, <2>3
<1>17. Placed(g)
  <2>1. row \in [PdIndices -> Entry(DOMAIN pu)]
    <3>1. \A i \in PdIndices : [pt |-> table[i], user |-> FALSE] \in Entry(DOMAIN pu)
      BY <1>9 DEF Entry
    <3> QED
      BY <1>5, <3>1
  <2>2. /\ g.kernelPD \in DOMAIN g.pd /\ DOMAIN g.pd \cap DOMAIN g.ptUser = {}
        /\ \A d \in DOMAIN g.pd : g.pd[d] \in [PdIndices -> Entry(DOMAIN g.ptUser)]
        /\ DOMAIN g.pd \cup DOMAIN g.ptUser \subseteq g.pmm.used \cap (0..(KernelEnd - 1))
    BY <1>8, <1>9, <1>14, <1>15, <2>1
  <2> QED
    BY <2>2, Zenon DEF Placed, Entry
<1>18. Closed(g)
  BY <1>8, <1>9 DEF Closed
<1>19. Owned(g)
  BY <1>8, <1>9, <1>16 DEF Owned
<1>20. g = [pmm |-> g.pmm, kernelPD |-> g.kernelPD, pd |-> g.pd, ptUser |-> g.ptUser,
            room |-> 0, fault |-> FALSE]
  BY <1>7, <1>8, Zenon
<1> QED
  BY <1>8, <1>11, <1>17, <1>18, <1>19, <1>20, Zenon DEF Paging

\* q came of p by requests alone.
Grown(p, q) == IsPmm(q) /\ q.total_pages = TotalPages /\ p.used \subseteq q.used

\* A request leaves the allocator with at least the pages in use before.
LEMMA OutcomeGrown ==
    ASSUME NEW p, IsPmm(p), p.total_pages = TotalPages, NEW r, NEW lo, NEW hi, NEW n,
           Outcome(p, r, lo, hi, n)
    PROVE  Grown(p, r.pmm)
BY DEF Outcome, Grown

(* What kmain has set up when it starts its first task.                    *)
LEMMA BootSound ==
    ASSUME NEW tables \in 0..MaxFbTables, NEW at, at = AtBoot(tables)
    PROVE  /\ Sound(at.mem) /\ ~at.mem.fault
           /\ at.code \in Nat /\ KernelEnd <= at.code /\ at.code + ProgramCount <= TotalPages
           /\ Pages(at.code, ProgramCount) \subseteq at.mem.pmm.used
<1> DEFINE whole == <<[base |-> ManagedBase, length |-> MemTop - ManagedBase]>>
<1>1. PICK p0 : p0 = pmm_init(whole, MemTop)
  OBVIOUS
<1>2. PICK p1 : p1 = pmm_alloc_page(p0).pmm
  OBVIOUS
<1>3. PICK g : g = paging_init(p1)
  OBVIOUS
<1>4. PICK p2 : p2 = pmm_alloc_contiguous_pages(g.pmm, HeapInitPages).pmm
  OBVIOUS
<1>5. PICK p3 : p3 = paging_map_phys_range(p2, tables)
  OBVIOUS
<1>6. PICK res : res = pmm_alloc_contiguous_user_pages(p3, ProgramCount)
  OBVIOUS
<1>7. PICK m : m = [g EXCEPT !.pmm = res.pmm, !.room = HeapSlots]
  OBVIOUS
<1>8. at = [mem |-> m, code |-> res.ret]
  BY <1>1, <1>2, <1>3, <1>4, <1>5, <1>6, <1>7, Zenon DEF AtBoot
<1>9. at.mem = m /\ at.code = res.ret
  BY <1>8
<1>10. /\ m.kernelPD # NoPage /\ \A i \in PdIndices : m.pd[m.kernelPD][i].pt # NoPage
       /\ res.ret # NoPage
  BY <1>9, BootAssumption
<1>11. MemTop \in Nat /\ HeapInitPages \in Nat /\ HeapSlots \in Nat /\ ProgramCount \in Nat
       /\ tables \in Nat
  BY SpacesAssumption
<1>12. IsPmm(p0) /\ p0.total_pages = TotalPages
  <2>1. IsPmm(p0)
    BY <1>1, <1>11, InitIsPmm
  <2>2. p0.total_pages = TotalPages
    BY <1>1 DEF pmm_init, TotalPages
  <2> QED
    BY <2>1, <2>2
<1>13. IsPmm(p1) /\ p1.total_pages = TotalPages
  BY <1>2, <1>12, KernelPageOutcome, OutcomeGrown DEF Grown
<1>14. g.kernelPD = m.kernelPD /\ g.pd = m.pd
  <2>1. PICK q, k, pd, pu : g = [pmm |-> q, kernelPD |-> k, pd |-> pd, ptUser |-> pu,
                                 room |-> 0, fault |-> FALSE]
    BY <1>3, Zenon DEF paging_init
  <2> QED
    BY <1>7, <2>1
<1>15. /\ g = [pmm |-> g.pmm, kernelPD |-> g.kernelPD, pd |-> g.pd, ptUser |-> g.ptUser,
               room |-> 0, fault |-> FALSE]
       /\ IsPmm(g.pmm) /\ g.pmm.total_pages = TotalPages
       /\ Paging(g)
  BY <1>3, <1>10, <1>13, <1>14, PagingInitPaging
<1>16. Grown(g.pmm, p2)
  BY <1>4, <1>11, <1>15, KernelRunOutcome, OutcomeGrown
<1>17. Grown(p2, p3)
  <2>1. IsPmm(p2) /\ p2.total_pages = TotalPages
    BY <1>16 DEF Grown
  <2>2. Answers(p2, KernelPages(p2, tables), tables)
    BY <1>11, <2>1, KernelPagesAnswer
  <2> QED
    BY <1>5, <2>2, Zenon DEF Answers, Grown, paging_map_phys_range
<1>18. PICK lo \in Nat, hi \in Int : lo = KernelEnd /\ hi = TotalPages
  BY Layout
<1>19. Outcome(p3, res, lo, hi, ProgramCount)
  <2>1. IsPmm(p3) /\ p3.total_pages = TotalPages
    BY <1>17 DEF Grown
  <2> QED
    BY <1>6, <1>11, <1>18, <2>1, UserRunOutcome
<1>20. /\ Grown(p3, res.pmm)
       /\ res.ret \in Nat /\ lo <= res.ret /\ res.ret + ProgramCount <= hi
       /\ Pages(res.ret, ProgramCount) \subseteq res.pmm.used
  <2>1. IsPmm(p3) /\ p3.total_pages = TotalPages
    BY <1>17 DEF Grown
  <2>2. Grown(p3, res.pmm)
    BY <1>19, <2>1, OutcomeGrown
  <2>3. /\ res.ret \in Nat /\ lo <= res.ret /\ res.ret + ProgramCount <= hi
        /\ Pages(res.ret, ProgramCount) \subseteq res.pmm.used
    BY <1>10, <1>19 DEF Outcome
  <2> QED
    BY <2>2, <2>3
<1>21. IsPmm(res.pmm) /\ res.pmm.total_pages = TotalPages /\ g.pmm.used \subseteq res.pmm.used
  BY <1>16, <1>17, <1>20 DEF Grown
<1>22. m = [pmm |-> res.pmm, kernelPD |-> g.kernelPD, pd |-> g.pd, ptUser |-> g.ptUser,
            room |-> HeapSlots, fault |-> FALSE]
  <2>1. PICK none, fine : none = 0 /\ fine = FALSE
    OBVIOUS
  <2>2. g = [pmm |-> g.pmm, kernelPD |-> g.kernelPD, pd |-> g.pd, ptUser |-> g.ptUser,
             room |-> none, fault |-> fine]
    BY <1>15, <2>1, Zenon
  <2>3. PICK q : q = res.pmm
    OBVIOUS
  <2>4. m = [g EXCEPT !.pmm = q, !.room = HeapSlots]
    BY <1>7, <2>3
  <2>5. PICK p, k, pd, pu : p = g.pmm /\ k = g.kernelPD /\ pd = g.pd /\ pu = g.ptUser
    OBVIOUS
  <2>6. g = [pmm |-> p, kernelPD |-> k, pd |-> pd, ptUser |-> pu, room |-> none, fault |-> fine]
    BY <2>2, <2>5, Zenon
  <2>7. m = [pmm |-> q, kernelPD |-> k, pd |-> pd, ptUser |-> pu,
             room |-> HeapSlots, fault |-> fine]
    <3>1. m = [[pmm |-> p, kernelPD |-> k, pd |-> pd, ptUser |-> pu, room |-> none, fault |-> fine]
                 EXCEPT !.pmm = q, !.room = HeapSlots]
      BY <2>4, <2>6, Zenon
    <3> QED
      BY <3>1
  <2> QED
    BY <2>1, <2>3, <2>5, <2>7, Zenon
<1>23. /\ m.pmm = res.pmm /\ m.kernelPD = g.kernelPD /\ m.pd = g.pd /\ m.ptUser = g.ptUser
       /\ m.room = HeapSlots
  BY <1>22
<1>24. m.fault = FALSE
  BY <1>22, Zenon
<1>25. IsMem(m)
  BY <1>11, <1>21, <1>22, <1>23, <1>24, Zenon DEF IsMem
<1>26. Placed(m)
  <2>1. /\ g.kernelPD \in DOMAIN g.pd /\ DOMAIN g.pd \cap DOMAIN g.ptUser = {}
        /\ \A d \in DOMAIN g.pd : g.pd[d] \in [PdIndices -> Entry(DOMAIN g.ptUser)]
        /\ DOMAIN g.pd \cup DOMAIN g.ptUser \subseteq g.pmm.used \cap (0..(KernelEnd - 1))
    BY <1>15 DEF Paging, Placed, Entry
  <2>2. /\ m.kernelPD \in DOMAIN m.pd /\ DOMAIN m.pd \cap DOMAIN m.ptUser = {}
        /\ \A d \in DOMAIN m.pd : m.pd[d] \in [PdIndices -> Entry(DOMAIN m.ptUser)]
        /\ DOMAIN m.pd \cup DOMAIN m.ptUser \subseteq m.pmm.used \cap (0..(KernelEnd - 1))
    BY <1>21, <1>23, <2>1
  <2> QED
    BY <2>2, Zenon DEF Placed, Entry
<1>27. Closed(m)
  BY <1>15, <1>23 DEF Paging, Closed
<1>28. Owned(m)
  BY <1>15, <1>23 DEF Paging, Owned
<1>29. Sound(m)
  BY <1>25, <1>26, <1>27, <1>28, Zenon DEF Sound, Paging
<1> QED
  BY <1>9, <1>18, <1>20, <1>23, <1>24, <1>29

\* The invariant holds when kmain starts its first task.
LEMMA InvInit == Init => SpacesInv
<1> SUFFICES ASSUME Init PROVE SpacesInv
  OBVIOUS
<1>1. PICK tables \in 0..MaxFbTables :
         /\ mem = AtBoot(tables).mem
         /\ code = [i \in Programs |-> AtBoot(tables).code + i]
         /\ tasks = <<>> /\ booted = FALSE /\ halted = FALSE
  BY Zenon DEF Init
<1>2. PICK at : at = AtBoot(tables)
  OBVIOUS
<1>3. /\ Sound(mem) /\ ~mem.fault
      /\ at.code \in Nat /\ KernelEnd <= at.code /\ at.code + ProgramCount <= TotalPages
      /\ Pages(at.code, ProgramCount) \subseteq mem.pmm.used
  BY <1>1, <1>2, BootSound
<1>4. ProgramCount \in Nat /\ KernelEnd \in Nat /\ TotalPages \in Int
  BY Layout, SpacesAssumption
<1>5. \A i \in Programs : code[i] = at.code + i /\ i \in Nat /\ i < ProgramCount
  BY <1>1, <1>2, <1>4 DEF Programs
<1>6. code \in [Programs -> Int]
  BY <1>1, <1>2, <1>3, <1>5
<1>7. Codes \subseteq mem.pmm.used \cap (KernelEnd..(TotalPages - 1))
  BY <1>3, <1>4, <1>5 DEF Codes, Pages
<1>8. tasks \in Seq(Task) /\ 1..Len(tasks) = {}
  BY <1>1
<1>9. Consistent(mem, tasks, Codes)
  BY <1>3, <1>7, <1>8, Zenon DEF Consistent
<1>10. mem.fault \in BOOLEAN
  BY <1>3 DEF Sound, IsMem
<1>11. halted = mem.fault /\ ~booted /\ booted \in BOOLEAN
  BY <1>1, <1>3, <1>10
<1> QED
  BY <1>6, <1>9, <1>11 DEF SpacesInv

(* Whatever launches do, the page tables and the tasks stay consistent     *)
(* with each other and with the allocator.                                 *)
LEMMA Invariance == Spec => []SpacesInv
<1>1. Init => SpacesInv
  BY InvInit
<1>2. SpacesInv /\ [Next]_vars => SpacesInv'
  BY InvStep
<1> QED
  BY <1>1, <1>2, PTL DEF Spec

-----------------------------------------------------------------------------
(* The theorems.                                                           *)

(* What the MMU grants a task is what its directory opens.                 *)
LEMMA ReachIs ==
    ASSUME SpacesInv, NEW t \in Live
    PROVE  /\ Reach(t) = Reached(mem, tasks[t].pd) /\ Reach(t) = tasks[t].pages
           /\ TaskFits(mem, tasks[t])
<1>1. TaskFits(mem, tasks[t]) /\ mem.pmm.total_pages = TotalPages
  BY DEF SpacesInv, Consistent, Live, Sound, IsMem
<1>2. PICK d : d = tasks[t].pd
  OBVIOUS
<1>3. \A p \in 0..(TotalPages - 1) : p >= 0
  BY Layout
<1>4. Reach(t) = Reached(mem, d)
  BY <1>1, <1>2, <1>3 DEF Reach, Reached, AllPages, page_is_user_accessible
<1> QED
  BY <1>1, <1>2, <1>4 DEF TaskFits

(* Ring 3 reaches exactly the pages its task was created with, after any   *)
(* sequence of launches: paging_set_user_accessible_for_task drops none    *)
(* and shows none of another task's.                                       *)
THEOREM OwnPagesReached == Spec => []ReachesItsOwnPages
<1>1. SpacesInv => ReachesItsOwnPages
  BY ReachIs DEF ReachesItsOwnPages
<1> QED
  BY <1>1, Invariance, PTL

(* Two tasks share no page but the code page of a program both run.        *)
THEOREM OnlyProgramsShared == Spec => []SharesOnlyPrograms
<1>1. SpacesInv => SharesOnlyPrograms
  <2> SUFFICES ASSUME SpacesInv, NEW s \in Live, NEW t \in Live, s # t
               PROVE  Reach(s) \cap Reach(t) \subseteq Codes
    BY DEF SharesOnlyPrograms, Codes
  <2>1. Apart(tasks[s], tasks[t], Codes)
    BY DEF SpacesInv, Consistent, Live
  <2>2. Reach(s) = tasks[s].pages /\ Reach(t) = tasks[t].pages
    BY ReachIs
  <2> QED
    BY <2>1, <2>2 DEF Apart
<1> QED
  BY <1>1, Invariance, PTL

(* Ring 3 reaches nothing the kernel keeps for itself: neither its own     *)
(* tables nor a page of the kernel region.                                 *)
THEOREM KernelHidden == Spec => []KernelOutOfReach
<1>1. SpacesInv => KernelOutOfReach
  <2> SUFFICES ASSUME SpacesInv PROVE KernelOutOfReach
    OBVIOUS
  <2>1. Sound(mem)
    BY DEF SpacesInv, Consistent
  <2>2. ASSUME NEW i \in PdIndices
        PROVE  /\ ~mem.pd[mem.kernelPD][i].user
               /\ mem.ptUser[mem.pd[mem.kernelPD][i].pt] = {}
    <3>1. mem.kernelPD \in DOMAIN mem.pd
      BY <2>1 DEF Sound, Paging, Placed
    <3> QED
      BY <2>1, <3>1 DEF Sound, Paging, Closed
  <2>3. ASSUME NEW t \in Live, NEW p \in Reach(t) PROVE p >= KernelEnd
    <3>1. p \in KernelEnd..(TotalPages - 1)
      BY ReachIs DEF TaskFits
    <3> QED
      BY <3>1, Layout
  <2> QED
    BY <2>2, <2>3 DEF KernelOutOfReach
<1> QED
  BY <1>1, Invariance, PTL

(* Once booted, only a kernel region without room for the heap stops the   *)
(* machine; a shortage of user pages is always reported.                   *)
THEOREM ShortageReported == Spec => []UserShortageReported
<1>1. SpacesInv => UserShortageReported
  BY DEF SpacesInv, UserShortageReported, NoHeapLeft
<1> QED
  BY <1>1, Invariance, PTL

\* The tables a directory does not share with the kernel.
PrivateTables(t) == {mem.pd[tasks[t].pd][i].pt : i \in Private(t)}

\* A task has one table, and another one, for every directory entry it opened.
LEMMA TablesOfTask ==
    ASSUME SpacesInv, NEW t \in Live
    PROVE  /\ IsFiniteSet(PrivateTables(t))
           /\ Cardinality(PrivateTables(t)) = Cardinality(Private(t))
           /\ PrivateTables(t) \subseteq DOMAIN mem.ptUser
<1>1. PICK d, k : d = tasks[t].pd /\ k = mem.kernelPD
  OBVIOUS
<1>2. PICK S : S = Private(t)
  OBVIOUS
<1>3. PICK T : T = PrivateTables(t)
  OBVIOUS
<1>4. d \in DOMAIN mem.pd /\ Sound(mem)
  BY <1>1, ReachIs DEF TaskFits, SpacesInv, Consistent
<1>5. S \subseteq PdIndices
  BY <1>2 DEF Private
<1>6. IsFiniteSet(S)
  <2>1. PICK a \in Int, b \in Int : PdIndices = a..b
    BY Layout DEF PdIndices
  <2>2. IsFiniteSet(PdIndices)
    BY <2>1, FS_Interval
  <2> QED
    BY <1>5, <2>2, FS_Subset
<1>7. PICK f : f = [i \in S |-> mem.pd[d][i].pt]
  OBVIOUS
<1>8. T = {f[i] : i \in S}
  BY <1>1, <1>2, <1>3, <1>7 DEF PrivateTables
<1>9. \A i, j \in S : f[i] = f[j] => i = j
  BY <1>4, <1>5, <1>7 DEF Sound, Paging, Owned
<1>10. f \in Surjection(S, T)
  BY <1>7, <1>8 DEF Surjection
<1>11. f \in Injection(S, T)
  BY <1>7, <1>8, <1>9 DEF Injection, IsInjective
<1>12. IsFiniteSet(T) /\ Cardinality(T) = Cardinality(S)
  BY <1>6, <1>10, <1>11, FS_Surjection
<1>13. ASSUME NEW i \in PdIndices PROVE mem.pd[d][i].pt \in DOMAIN mem.ptUser
  <2>1. mem.pd[d][i] \in [pt : DOMAIN mem.ptUser, user : BOOLEAN]
    BY <1>4 DEF Sound, Paging, Placed
  <2> QED
    BY <2>1
<1>14. T \subseteq DOMAIN mem.ptUser
  BY <1>5, <1>7, <1>8, <1>13
<1> QED
  BY <1>2, <1>3, <1>12, <1>14

(* A task's kernel stack, directory and private tables are pages of their  *)
(* own, and no other task's.                                               *)
THEOREM TablesOwned == Spec => []OwnTables
<1>1. ASSUME SpacesInv, NEW t \in Live
      PROVE  Cardinality(TaskPages(t)) = 3 + Cardinality(Private(t))
  <2>1. PICK d, ks, T : d = tasks[t].pd /\ ks = tasks[t].kstack /\ T = PrivateTables(t)
    OBVIOUS
  <2>2. /\ d \in DOMAIN mem.pd /\ ks \in Nat
        /\ Pages(ks, 2) \cap (DOMAIN mem.pd \cup DOMAIN mem.ptUser) = {}
    BY <1>1, <2>1, ReachIs DEF TaskFits
  <2>3. IsFiniteSet(T) /\ Cardinality(T) = Cardinality(Private(t)) /\ T \subseteq DOMAIN mem.ptUser
    BY <1>1, <2>1, TablesOfTask
  <2>4. DOMAIN mem.pd \cap DOMAIN mem.ptUser = {}
    BY <1>1 DEF SpacesInv, Consistent, Sound, Paging, Placed
  <2>5. Pages(ks, 2) = {ks, ks + 1} /\ ks # ks + 1
    BY <2>2 DEF Pages
  <2>6. PICK x : x = ks + 1
    OBVIOUS
  <2>7. ks # x /\ Pages(ks, 2) = {ks, x}
    BY <2>5, <2>6
  <2>8. d \notin T /\ ks \notin T \cup {d} /\ x \notin (T \cup {d}) \cup {ks}
    BY <2>2, <2>3, <2>4, <2>7
  <2>9. TaskPages(t) = ((T \cup {d}) \cup {ks}) \cup {x}
    BY <2>1, <2>7 DEF TaskPages, PrivateTables
  <2>10. PICK A, B : A = T \cup {d} /\ B = A \cup {ks}
    OBVIOUS
  <2>11. IsFiniteSet(A) /\ Cardinality(A) = Cardinality(T) + 1
    BY <2>3, <2>8, <2>10, FS_AddElement
  <2>12. IsFiniteSet(B) /\ Cardinality(B) = Cardinality(A) + 1
    BY <2>8, <2>10, <2>11, FS_AddElement
  <2>13. Cardinality(TaskPages(t)) = Cardinality(B) + 1
    BY <2>8, <2>9, <2>10, <2>12, FS_AddElement
  <2>14. Cardinality(T) \in Nat
    BY <2>3, FS_CardinalityType
  <2> QED
    BY <2>3, <2>11, <2>12, <2>13, <2>14
<1>2. ASSUME SpacesInv, NEW s \in Live, NEW t \in Live, s # t
      PROVE  TaskPages(s) \cap TaskPages(t) = {}
  <2>1. PICK d, e, k : d = tasks[s].pd /\ e = tasks[t].pd /\ k = mem.kernelPD
    OBVIOUS
  <2>2. PICK P, Q : P = Pages(tasks[s].kstack, 2) /\ Q = Pages(tasks[t].kstack, 2)
    OBVIOUS
  <2>3. /\ d \in DOMAIN mem.pd /\ e \in DOMAIN mem.pd
        /\ P \cap (DOMAIN mem.pd \cup DOMAIN mem.ptUser) = {}
        /\ Q \cap (DOMAIN mem.pd \cup DOMAIN mem.ptUser) = {}
    BY <1>2, <2>1, <2>2, ReachIs DEF TaskFits
  <2>4. d # e /\ P \cap Q = {}
    BY <1>2, <2>1, <2>2 DEF SpacesInv, Consistent, Apart, Live
  <2>5. PrivateTables(s) \subseteq DOMAIN mem.ptUser /\ PrivateTables(t) \subseteq DOMAIN mem.ptUser
    BY <1>2, TablesOfTask
  <2>6. DOMAIN mem.pd \cap DOMAIN mem.ptUser = {} /\ Owned(mem)
    BY <1>2 DEF SpacesInv, Consistent, Sound, Paging, Placed
  <2>7. PrivateTables(s) \cap PrivateTables(t) = {}
    <3> SUFFICES ASSUME NEW i \in Private(s), NEW j \in Private(t),
                        mem.pd[d][i].pt = mem.pd[e][j].pt
                 PROVE  FALSE
      BY <2>1, Zenon DEF PrivateTables
    <3>1. /\ i \in PdIndices /\ j \in PdIndices
          /\ mem.pd[d][i].pt # mem.pd[k][i].pt
      BY <2>1 DEF Private
    <3> QED
      BY <2>1, <2>3, <2>4, <2>6, <3>1 DEF Owned
  <2>8. /\ TaskPages(s) = {d} \cup P \cup PrivateTables(s)
        /\ TaskPages(t) = {e} \cup Q \cup PrivateTables(t)
    BY <2>1, <2>2, Zenon DEF TaskPages, PrivateTables
  <2> QED
    BY <2>3, <2>4, <2>5, <2>6, <2>7, <2>8
<1>3. SpacesInv => OwnTables
  BY <1>1, <1>2 DEF OwnTables
<1> QED
  BY <1>3, Invariance, PTL

-----------------------------------------------------------------------------
(* The checks of the copy routines.                                        *)

(* Every address of a page has the page's number.                          *)
LEMMA SamePage ==
    ASSUME NEW a \in Int
    PROVE  /\ a - (a % PageSize) = (a \div PageSize) * PageSize
           /\ PageOf((a \div PageSize) * PageSize) = PageOf(a)
           /\ a \div PageSize \in Int /\ a % PageSize \in 0..(PageSize - 1)
<1>1. PageSize \in Nat \ {0} /\ ManagedBase \in Int
  BY PmmAssumption
<1>2. PICK q \in Int, r \in 0..(PageSize - 1) :
         q = a \div PageSize /\ r = a % PageSize /\ a = q * PageSize + r
  BY <1>1, DivMod
<1>3. PICK base \in Int : ManagedBase = base * PageSize
  BY <1>1, Multiple, SpacesAssumption
<1>4. /\ q * PageSize - ManagedBase = (q - base) * PageSize /\ q - base \in Int
      /\ a - ManagedBase = (q - base) * PageSize + r
  BY <1>1, <1>2, <1>3
<1>5. (q * PageSize - ManagedBase) \div PageSize = q - base
  BY <1>1, <1>4, MultipleQuotient
<1>6. (a - ManagedBase) \div PageSize = q - base
  <2>1. PICK x \in Int, c \in Int : x = a - ManagedBase /\ c = q - base
    BY <1>1, <1>4
  <2>2. PICK y \in Int : y = c * PageSize /\ x = y + r
    BY <1>1, <1>4, <2>1
  <2>3. x >= c * PageSize /\ x < c * PageSize + PageSize
    BY <1>1, <1>2, <2>2
  <2>4. (c + 1) * PageSize = c * PageSize + PageSize
    BY <1>1, <2>1
  <2>5. x \div PageSize \in Int /\ x \div PageSize >= c
    BY <1>1, <2>1, <2>3, DivAtLeast
  <2>6. x \div PageSize < c + 1
    <3>1. x < (c + 1) * PageSize /\ c + 1 \in Int
      BY <2>3, <2>4
    <3> QED
      BY <1>1, <2>1, <3>1, DivAtLeast
  <2>7. x \div PageSize = c
    BY <2>5, <2>6
  <2> QED
    BY <2>1, <2>7
<1> QED
  BY <1>1, <1>2, <1>5, <1>6 DEF PageOf

(* A range that passes is_user_accessible_range holds no byte the program  *)
(* may not touch (syscall.c).                                              *)
LEMMA RangeInReach ==
    ASSUME NEW pd, NEW start \in 0..(AddrSpace - 1), NEW size \in 1..(PageSize + 1),
           is_user_accessible_range(pd, start, size),
           NEW b \in start..(start + size - 1)
    PROVE  page_is_user_accessible(pd, PageOf(b % AddrSpace))
<1>1. /\ AddrSpace \in Nat \ {0} /\ PageSize \in Nat \ {0} /\ PageSize + 1 < AddrSpace
      /\ start \in Nat /\ start < AddrSpace /\ size \in Nat /\ size < AddrSpace /\ size # 0
      /\ b \in Nat
  BY PmmAssumption, SpacesAssumption
<1>2. PICK end, first : end = (start + size) % AddrSpace /\ first = start - (start % PageSize)
  OBVIOUS
<1>3. /\ end >= start
      /\ \A page \in first..(end - 1) :
            (page - first) % PageSize = 0 => page_is_user_accessible(pd, PageOf(page))
  BY <1>1, <1>2 DEF is_user_accessible_range
<1>4. end = start + size
  <2>1. PICK q \in Int, r \in 0..(AddrSpace - 1) :
           r = (start + size) % AddrSpace /\ start + size = q * AddrSpace + r
    <3>1. PICK x \in Int : x = start + size
      BY <1>1
    <3>2. /\ x \div AddrSpace \in Int /\ x % AddrSpace \in 0..(AddrSpace - 1)
          /\ x = (x \div AddrSpace) * AddrSpace + (x % AddrSpace)
      BY <1>1, DivMod
    <3> QED
      BY <3>1, <3>2
  <2>2. q = 0 \/ q = 1
    <3>1. start + size < 2 * AddrSpace /\ start + size \in Int
      BY <1>1
    <3>2. q < 2
      <4>1. q >= 2 => q * AddrSpace >= 2 * AddrSpace
        BY <1>1
      <4> QED
        BY <1>1, <2>1, <3>1, <4>1
    <3>3. q >= 0
      <4>1. q <= -1 => q * AddrSpace <= (-1) * AddrSpace
        BY <1>1
      <4> QED
        BY <1>1, <2>1, <3>1, <4>1
    <3> QED
      BY <3>2, <3>3
  <2>3. q # 1
    BY <1>1, <1>2, <1>3, <2>1
  <2> QED
    BY <1>1, <1>2, <2>1, <2>2, <2>3
<1>5. b % AddrSpace = b
  <2>1. b < AddrSpace
    <3>1. end < AddrSpace
      <4>1. (start + size) % AddrSpace \in 0..(AddrSpace - 1)
        BY <1>1, DivMod
      <4> QED
        BY <1>1, <1>2, <4>1
    <3> QED
      BY <1>1, <1>4, <3>1
  <2> QED
    BY <1>1, <2>1
<1>6. PICK p, f : p = b \div PageSize /\ f = start \div PageSize
  OBVIOUS
<1>7. /\ p \in Int /\ f \in Int /\ first = f * PageSize
      /\ b - (b % PageSize) = p * PageSize /\ b % PageSize \in 0..(PageSize - 1)
      /\ start - (start % PageSize) = f * PageSize /\ start % PageSize \in 0..(PageSize - 1)
      /\ PageOf(p * PageSize) = PageOf(b)
  <2>1. b \in Int /\ start \in Int
    BY <1>1
  <2>2. /\ b - (b % PageSize) = (b \div PageSize) * PageSize
        /\ PageOf((b \div PageSize) * PageSize) = PageOf(b)
        /\ b \div PageSize \in Int /\ b % PageSize \in 0..(PageSize - 1)
    BY <2>1, SamePage
  <2>3. /\ start - (start % PageSize) = (start \div PageSize) * PageSize
        /\ start \div PageSize \in Int /\ start % PageSize \in 0..(PageSize - 1)
    BY <2>1, SamePage
  <2> QED
    BY <1>2, <1>6, <2>2, <2>3
<1>8. PICK x, y : x = p * PageSize /\ y = f * PageSize
  OBVIOUS
<1>9. x \in Int /\ y \in Int /\ x <= b /\ b < x + PageSize /\ y <= start /\ start < y + PageSize
  BY <1>1, <1>7, <1>8
<1>10. p >= f
  <2>1. b >= f * PageSize
    BY <1>1, <1>8, <1>9
  <2> QED
    BY <1>1, <1>6, <1>7, <2>1, DivAtLeast
<1>11. x - y = (p - f) * PageSize
  BY <1>1, <1>7, <1>8
<1>12. (x - first) % PageSize = 0
  <2>1. PICK z \in Int : z = p - f
    BY <1>7
  <2>2. x - first = z * PageSize
    BY <1>7, <1>8, <1>11, <2>1
  <2>3. (z * PageSize) \div PageSize = z
    BY <1>1, <2>1, MultipleQuotient
  <2>4. PICK w \in Int : w = z * PageSize
    BY <1>1
  <2>5. w = (w \div PageSize) * PageSize + (w % PageSize) /\ w % PageSize \in Int
    BY <1>1, DivMod
  <2>6. w \div PageSize = z
    BY <2>3, <2>4
  <2>7. w % PageSize = 0
    BY <2>4, <2>5, <2>6
  <2> QED
    BY <2>2, <2>4, <2>7
<1>13. x \in first..(end - 1)
  <2>1. x - y >= 0
    <3>1. PICK z \in Nat : z = p - f
      BY <1>7, <1>10
    <3>2. z * PageSize \in Nat
      BY <1>1
    <3> QED
      BY <1>11, <3>1, <3>2
  <2> QED
    BY <1>1, <1>4, <1>7, <1>8, <1>9, <2>1
<1>14. page_is_user_accessible(pd, PageOf(x))
  BY <1>3, <1>12, <1>13
<1> QED
  BY <1>5, <1>7, <1>8, <1>14

(* Nor does a string that passes copy_from_user_string: the page looked up *)
(* last is the page of every byte up to the next change of page.           *)
LEMMA StringInReach ==
    ASSUME NEW pd, NEW start \in 0..(AddrSpace - 1), NEW size \in 1..(PageSize + 1), NEW max,
           copy_from_user_string(pd, start, size - 1, max),
           NEW b \in start..(start + size - 1)
    PROVE  page_is_user_accessible(pd, PageOf(b % AddrSpace))
<1>1. /\ AddrSpace \in Nat \ {0} /\ PageSize \in Nat \ {0}
      /\ start \in Nat /\ size - 1 \in Nat /\ size \in Nat
  BY PmmAssumption
<1>2. PICK nul \in Nat : nul = size - 1
  BY <1>1
<1>3. PICK page : page = [i \in 0..nul |-> ((start + i) % AddrSpace) \div PageSize]
  OBVIOUS
<1> DEFINE Open(i) == page_is_user_accessible(pd, PageOf(page[i] * PageSize))
           Bad == {i \in 0..nul : ~Open(i)}
<1>4. \A i \in 0..nul : page[i] = ((start + i) % AddrSpace) \div PageSize
  BY <1>3
<1>5. ASSUME NEW i \in 0..nul, i = 0 \/ page[i] # page[i - 1] PROVE Open(i)
  <2>1. i = 0 \/ i - 1 \in 0..nul
    OBVIOUS
  <2>2. i = 0 \/ ((start + i) % AddrSpace) \div PageSize
                    # ((start + (i - 1)) % AddrSpace) \div PageSize
    BY <1>4, <1>5, <2>1
  <2>3. page_is_user_accessible(pd, PageOf((((start + i) % AddrSpace) \div PageSize) * PageSize))
    BY <1>2, <2>2 DEF copy_from_user_string
  <2> QED
    BY <1>4, <2>3
<1> HIDE DEF Open
<1>6. ASSUME NEW i \in 1..nul, page[i] = page[i - 1], Open(i - 1) PROVE Open(i)
  BY <1>6, Zenon DEF Open
<1>7. Bad = {}
  <2> SUFFICES ASSUME Bad # {} PROVE FALSE
    OBVIOUS
  <2>1. PICK i \in Bad : \A k \in Bad : i <= k
    <3>1. Bad \subseteq Nat
      OBVIOUS
    <3> QED
      BY <3>1, LeastNat
  <2>2. i \in 0..nul /\ ~Open(i)
    OBVIOUS
  <2>3. i # 0 /\ page[i] = page[i - 1]
    BY <1>5, <2>2
  <2>4. i \in 1..nul /\ i - 1 \in 0..nul /\ ~(i <= i - 1)
    BY <2>2, <2>3
  <2>5. Open(i - 1)
    BY <2>1, <2>4
  <2> QED
    BY <1>6, <2>2, <2>3, <2>4, <2>5
<1>8. PICK i \in 0..nul : b = start + i
  <2>1. b - start \in 0..nul /\ b = start + (b - start)
    BY <1>1, <1>2
  <2> QED
    BY <2>1
<1>9. PICK a \in Int : a = b % AddrSpace
  <2>1. b \in Int
    BY <1>1
  <2>2. b % AddrSpace \in 0..(AddrSpace - 1)
    BY <1>1, <2>1, DivMod
  <2> QED
    BY <1>1, <2>2
<1>10. page[i] = a \div PageSize
  BY <1>4, <1>8, <1>9
<1>11. Open(i)
  BY <1>7
<1>12. page_is_user_accessible(pd, PageOf((a \div PageSize) * PageSize))
  BY <1>10, <1>11, Zenon DEF Open
<1>13. PageOf((a \div PageSize) * PageSize) = PageOf(a)
  BY SamePage
<1> QED
  BY <1>9, <1>12, <1>13, Zenon

(* The copy routines accept nothing but memory whose every byte the        *)
(* program itself may touch, at the top of the address space too.          *)
THEOREM CopiesInReach == Spec => []CopiesStayInReach
<1>1. CopiesStayInReach
  <2> SUFFICES ASSUME NEW t \in Live, NEW start \in 0..(AddrSpace - 1),
                      NEW size \in 1..(PageSize + 1), NEW b \in start..(start + size - 1),
                      \/ is_user_accessible_range(tasks[t].pd, start, size)
                      \/ copy_from_user_string(tasks[t].pd, start, size - 1, 2 * PageSize)
               PROVE  page_is_user_accessible(tasks[t].pd, PageOf(b % AddrSpace))
    BY Zenon DEF CopiesStayInReach
  <2>1. PICK pd : pd = tasks[t].pd
    OBVIOUS
  <2>2. PICK max : max = 2 * PageSize
    OBVIOUS
  <2>3. is_user_accessible_range(pd, start, size)
           \/ copy_from_user_string(pd, start, size - 1, max)
    BY <2>1, <2>2, Zenon
  <2>4. page_is_user_accessible(pd, PageOf(b % AddrSpace))
    BY <2>3, RangeInReach, StringInReach
  <2> QED
    BY <2>1, <2>4, Zenon
<1> QED
  BY <1>1, PTL
=============================================================================
