------------------------------ MODULE KHeapProofs ------------------------------
(***************************************************************************)
(* The kernel heap keeps its structure through every sequence of calls,    *)
(* for every page size, heap size and set of request sizes: blocks tile    *)
(* the heap's pages, the free list holds each free block once, and nobody  *)
(* touches a block that somebody holds.  To its callers it is an           *)
(* Allocator, which refuses a request only when it is full.                *)
(***************************************************************************)
EXTENDS KHeap, PmmOpsProofs, FiniteSetTheorems, SequenceTheorems, TLAPS

(* Headers stand at addresses and give a size with room for list pointers. *)
Headers(f) ==
    /\ f \in [DOMAIN f -> [size : Nat, free : BOOLEAN]]
    /\ \A b \in DOMAIN f : b \in Nat /\ f[b].size >= MinBlock

\* The blocks f describes fill the pages, each unit of them once.
Tiles(f, pages) ==
    /\ Headers(f)
    /\ \A a, b \in DOMAIN f : a = b \/ a + f[a].size <= b \/ b + f[b].size <= a
    /\ \A x \in Int : (\E b \in DOMAIN f : b <= x /\ x < b + f[b].size)
                         <=> x >= ManagedBase /\ PageOf(x) \in pages

\* The list l holds each element of S once.
Lists(l, S) ==
    /\ l \in Seq(Nat)
    /\ \A i \in 1..Len(l) : l[i] \in S
    /\ \A i, j \in 1..Len(l) : l[i] = l[j] => i = j
    /\ \A x \in S : \E i \in 1..Len(l) : l[i] = x

(* From f to g no header but b's changes; b gets one; c gets one and b's   *)
(* changes; c loses its own and b's changes.                               *)
Changes(f, g, b)   == DOMAIN g = DOMAIN f /\ \A x \in DOMAIN f \ {b} : g[x] = f[x]
Adds(f, g, b)      == /\ b \notin DOMAIN f /\ DOMAIN g = DOMAIN f \cup {b}
                      /\ \A x \in DOMAIN f : g[x] = f[x]
Splits(f, g, b, c) == /\ c \notin DOMAIN f /\ DOMAIN g = DOMAIN f \cup {c}
                      /\ \A x \in DOMAIN f \ {b} : g[x] = f[x]
Merges(f, g, b, c) == /\ b # c /\ DOMAIN g = DOMAIN f \ {c}
                      /\ \A x \in DOMAIN f \ {b, c} : g[x] = f[x]

FreeBlocks(f) == {b \in DOMAIN f : f[b].free}

IsHeap(h) == h = [pmm |-> h.pmm, hdr |-> h.hdr, list |-> h.list, pages |-> h.pages]

\* The pages below the user region.
KernelRegion == 0..(KernelEnd - 1)

(* The structure of the heap with the list holding the blocks of S.        *)
Structure(h, S) ==
    /\ IsHeap(h) /\ IsPmm(h.pmm)
    /\ h.pages \subseteq KernelRegion /\ h.pages \subseteq h.pmm.used
    /\ Tiles(h.hdr, h.pages)
    /\ Lists(h.list, S)

Sound(h) == Structure(h, FreeBlocks(h.hdr))

(* What a walk over data leaves is not followed: the headers are as the    *)
(* last call left them.                                                    *)
IInv == /\ wild \in BOOLEAN
        /\ Headers(hdr)
        /\ ~wild => /\ Sound(Heap)
                    /\ DOMAIN held = {b \in DOMAIN hdr : ~hdr[b].free}

-----------------------------------------------------------------------------
(* Tiles.                                                                  *)

\* The kernel's pages have natural numbers.
LEMMA InRegion == KernelRegion \subseteq Nat
BY KernelEndNat DEF KernelRegion

(* Which units a run of pages has.                                         *)
LEMMA UnitOfRun ==
    ASSUME NEW s \in Int, NEW n \in Int, NEW x \in Int
    PROVE  /\ PageOf(x) \in Int
           /\ PageOf(x) \in Pages(s, n) <=> /\ ManagedBase + s * PageSize <= x
                                            /\ x < ManagedBase + (s + n) * PageSize
<1>1. PICK d \in Nat \ {0} : d = PageSize
  BY PmmAssumption
<1>2. PICK y \in Int : y = x - ManagedBase
  BY PmmAssumption
<1>3. PICK q : q = y \div d
  OBVIOUS
<1>4. q \in Int /\ (q >= s <=> y >= s * d) /\ (q < s + n <=> y < (s + n) * d)
  BY <1>1, <1>3, DivAtLeast
<1>5. PageOf(x) = q
  BY <1>1, <1>2, <1>3 DEF PageOf
<1>6. PageOf(x) \in Pages(s, n) <=> q >= s /\ q < s + n
  BY <1>4, <1>5 DEF Pages
<1>7. PICK u, v \in Int : u = s * d /\ v = (s + n) * d
  OBVIOUS
<1> QED
  BY <1>1, <1>2, <1>4, <1>5, <1>6, <1>7, PmmAssumption

(* The span of len units from base is the units of the pages.              *)
IsSpanOf(base, len, pages) ==
    \A x \in Int : PageOf(x) \in pages <=> base <= x /\ x < base + len

(* Where the block a run of pages becomes lies.                            *)
LEMMA RunIsSpan ==
    ASSUME NEW s \in Nat, NEW n \in Nat \ {0}, NEW base, NEW len,
           base = ManagedBase + s * PageSize, len = n * PageSize
    PROVE  /\ base \in Nat /\ base >= ManagedBase /\ len \in Nat /\ len >= MinBlock
           /\ IsSpanOf(base, len, Pages(s, n))
<1>1. PICK d \in Nat : d = PageSize /\ d >= 2
  BY HeapAssumption, PmmAssumption DEF MinBlock
<1>2. len \in Nat /\ len >= 2
  <2>1. PICK m \in Nat : n = m + 1
    BY SMT
  <2>2. m * d \in Nat /\ n * d = m * d + d
    BY <1>1, <2>1
  <2> QED
    BY <1>1, <2>2
<1>3. base \in Nat /\ base >= ManagedBase
  <2>1. s * PageSize \in Nat
    BY PmmAssumption
  <2> QED
    BY <2>1, PmmAssumption
<1>4. ASSUME NEW x \in Int
      PROVE  PageOf(x) \in Pages(s, n) <=> base <= x /\ x < base + len
  <2>1. (s + n) * d = s * d + n * d /\ s * d \in Nat /\ n * d \in Nat
    OBVIOUS
  <2>2. PageOf(x) \in Pages(s, n) <=> /\ ManagedBase + s * d <= x
                                      /\ x < ManagedBase + (s + n) * d
    BY <1>1, UnitOfRun
  <2> QED
    BY <1>1, <2>1, <2>2, PmmAssumption
<1> QED
  BY <1>2, <1>3, <1>4 DEF MinBlock, IsSpanOf

(* The pages of the heap, unit by unit.                                    *)
LEMMA UnitsOfPages ==
    ASSUME NEW pages, pages \subseteq Nat, NEW x
    PROVE  x \in UNION {(ManagedBase + p * PageSize)..(ManagedBase + (p + 1) * PageSize - 1) :
                           p \in pages}
             <=> x \in Int /\ x >= ManagedBase /\ PageOf(x) \in pages
<1> DEFINE Of(p) == (ManagedBase + p * PageSize)..(ManagedBase + (p + 1) * PageSize - 1)
<1>1. ASSUME NEW p \in pages
      PROVE  x \in Of(p) <=> x \in Int /\ x >= ManagedBase /\ PageOf(x) = p
  <2>1. PICK u, v \in Nat : u = p * PageSize /\ v = (p + 1) * PageSize
    BY PmmAssumption
  <2>2. x \in Of(p) <=> x \in Int /\ ManagedBase + u <= x /\ x < ManagedBase + v
    BY <2>1, PmmAssumption
  <2>3. ASSUME x \in Int
        PROVE  PageOf(x) = p <=> ManagedBase + u <= x /\ x < ManagedBase + v
    <3>1. PageOf(x) \in Pages(p, 1) <=> ManagedBase + u <= x /\ x < ManagedBase + v
      BY <2>1, <2>3, UnitOfRun
    <3>2. PageOf(x) \in Pages(p, 1) <=> PageOf(x) = p
      BY <2>3, UnitOfRun DEF Pages
    <3> QED
      BY <3>1, <3>2
  <2>4. x \in Int /\ ManagedBase + u <= x => x >= ManagedBase
    BY <2>1, PmmAssumption
  <2> QED
    BY <2>2, <2>3, <2>4, Zenon
<1>2. x \in UNION {Of(p) : p \in pages} <=> \E p \in pages : x \in Of(p)
  OBVIOUS
<1> QED
  BY <1>1, <1>2, Zenon

(* A block behind another one in the same page starts where that one ends. *)
LEMMA NextBlock ==
    ASSUME NEW f, NEW pages, Tiles(f, pages), NEW b \in DOMAIN f,
           b + f[b].size < PageEnd(b)
    PROVE  b + f[b].size \in DOMAIN f
<1>1. PICK s \in Nat : s = f[b].size
  BY DEF Tiles, Headers
<1>2. b \in Nat /\ s >= 2
  BY <1>1 DEF Tiles, Headers, MinBlock
<1>3. b >= ManagedBase /\ PageOf(b) \in pages
  BY <1>1, <1>2 DEF Tiles
<1>4. PageOf(b + s) = PageOf(b)
  <2>1. PICK d \in Nat \ {0} : d = PageSize
    BY PmmAssumption
  <2>2. PICK q \in Int : ManagedBase = q * d
    <3>1. ManagedBase % d = 0 /\ ManagedBase \in Int
      BY <2>1, HeapAssumption, PmmAssumption
    <3> QED
      BY <3>1, Multiple
  <2>3. PICK m : m = b % d
    OBVIOUS
  <2>4. m \in 0..(d - 1) /\ b + s < b - m + d
    BY <1>1, <1>2, <2>1, <2>3 DEF PageEnd, PageStart
  <2>5. PICK p \in Int : b = p * d + m
    <3>1. b \in Int /\ d \in Nat \ {0}
      BY <1>2
    <3>2. b \div d \in Int /\ b = (b \div d) * d + (b % d)
      BY <3>1, DivMod, Zenon
    <3> QED
      BY <2>3, <3>2, Zenon
  <2>6. PICK u, v, w \in Int : u = p * d /\ v = q * d /\ w = (p - q) * d /\ w = u - v
                               /\ (p - q + 1) * d = w + d
    BY <2>1
  <2>7. ASSUME NEW x \in {b, b + s} PROVE PageOf(x) = p - q
    <3>1. x \in Int /\ x - ManagedBase \in Int /\ x - ManagedBase >= w
          /\ x - ManagedBase < w + d
      BY <1>2, <2>2, <2>4, <2>5, <2>6
    <3>2. PICK y \in Int : y = x - ManagedBase
      BY <3>1
    <3>3. y \div d \in Int /\ y \div d >= p - q /\ y \div d < p - q + 1
      BY <2>6, <3>1, <3>2, DivAtLeast
    <3> QED
      BY <2>1, <3>2, <3>3 DEF PageOf
  <2> QED
    BY <2>7
<1>5. PICK c \in DOMAIN f : c <= b + s /\ b + s < c + f[c].size
  <2>1. b + s \in Int /\ b + s >= ManagedBase /\ PageOf(b + s) \in pages
    BY <1>2, <1>3, <1>4, PmmAssumption
  <2> QED
    BY <2>1 DEF Tiles
<1>6. c \in Nat /\ f[c].size \in Nat
  BY DEF Tiles, Headers
<1>7. c = b \/ c + f[c].size <= b \/ b + s <= c
  BY <1>1 DEF Tiles
<1> QED
  BY <1>1, <1>2, <1>5, <1>6, <1>7

(* A header's fields.                                                      *)
LEMMA HeaderFields ==
    ASSUME NEW n \in Nat, NEW flag \in BOOLEAN, NEW v, v = [size |-> n, free |-> flag]
    PROVE  v.size = n /\ v.free = flag /\ v \in [size : Nat, free : BOOLEAN]
OBVIOUS

(* Only sizes and places matter to the tiling.                             *)
LEMMA TilesSameSizes ==
    ASSUME NEW f, NEW g, NEW pages, Tiles(f, pages), Headers(g),
           DOMAIN g = DOMAIN f, \A b \in DOMAIN f : g[b].size = f[b].size
    PROVE  Tiles(g, pages)
BY DEF Tiles

(* A block is added where the tiles have nothing.                          *)
LEMMA TilesAdd ==
    ASSUME NEW f, NEW g, NEW pages, Tiles(f, pages), NEW more, more \cap pages = {},
           NEW base \in Nat, base >= ManagedBase, NEW len \in Nat, len >= MinBlock,
           IsSpanOf(base, len, more),
           NEW v \in [size : Nat, free : BOOLEAN], v.size = len, g = With(f, base, v)
    PROVE  Tiles(g, pages \cup more) /\ Adds(f, g, base) /\ g[base] = v
<1>2. len >= 2
  BY DEF MinBlock
<1>5. \A x \in Int : base <= x /\ x < base + len =>
         \A b \in DOMAIN f : ~(b <= x /\ x < b + f[b].size)
  BY DEF Tiles, IsSpanOf
<1>6. base \notin DOMAIN f
  <2>1. base <= base /\ base < base + len
    BY <1>2
  <2>2. base \in DOMAIN f => base < base + f[base].size
    BY DEF Tiles, Headers, MinBlock
  <2> QED
    BY <1>5, <2>1, <2>2
<1>7. /\ DOMAIN g = DOMAIN f \cup {base}
      /\ \A b \in DOMAIN f : g[b] = f[b]
      /\ g[base] = v
      /\ g = [x \in DOMAIN f \cup {base} |-> g[x]]
  BY <1>6 DEF With
<1>8. /\ g[base].size = len /\ g[base] \in [size : Nat, free : BOOLEAN]
      /\ \A b \in DOMAIN f : g[b].size = f[b].size
  BY <1>7
<1>9. Headers(g)
  <2>1. ASSUME NEW b \in DOMAIN g
        PROVE  /\ g[b] \in [size : Nat, free : BOOLEAN]
               /\ b \in Nat /\ g[b].size >= MinBlock
    <3>1. CASE b = base
      BY <1>8, <3>1
    <3>2. CASE b \in DOMAIN f
      BY <1>7, <3>2 DEF Tiles, Headers
    <3> QED
      BY <1>7, <3>1, <3>2
  <2> QED
    BY <1>7, <2>1 DEF Headers
<1>10. ASSUME NEW b \in DOMAIN f
       PROVE  /\ b \in Nat /\ f[b].size \in Nat /\ g[b].size = f[b].size
              /\ b + f[b].size <= base \/ base + len <= b
  <2>1. PICK m \in Nat : m = f[b].size
    BY DEF Tiles, Headers
  <2>2. b \in Nat /\ m >= 2
    BY <2>1 DEF Tiles, Headers, MinBlock
  <2>3. ~(base <= b /\ b < base + len)
    <3>1. b <= b /\ b < b + m /\ b \in Int
      BY <2>2
    <3> QED
      BY <1>5, <2>1, <3>1
  <2>4. ~(b <= base /\ base < b + m)
    <3>1. base <= base /\ base < base + len /\ base \in Int
      BY <1>2
    <3> QED
      BY <1>5, <2>1, <3>1
  <2>5. b + m <= base \/ base + len <= b
    BY <2>2, <2>3, <2>4
  <2> QED
    BY <1>8, <2>1, <2>2, <2>5
<1>11. ASSUME NEW a \in DOMAIN g, NEW b \in DOMAIN g
       PROVE  a = b \/ a + g[a].size <= b \/ b + g[b].size <= a
  <2>1. CASE a \in DOMAIN f /\ b \in DOMAIN f
    <3>1. a = b \/ a + f[a].size <= b \/ b + f[b].size <= a
      BY <2>1 DEF Tiles
    <3> QED
      BY <1>10, <2>1, <3>1
  <2>2. CASE a = base /\ b \in DOMAIN f
    BY <1>8, <1>10, <2>2
  <2>3. CASE a \in DOMAIN f /\ b = base
    BY <1>8, <1>10, <2>3
  <2> QED
    BY <1>7, <2>1, <2>2, <2>3
<1>12. ASSUME NEW x \in Int
       PROVE  (\E b \in DOMAIN g : b <= x /\ x < b + g[b].size)
                 <=> x >= ManagedBase /\ PageOf(x) \in pages \cup more
  <2>1. (\E b \in DOMAIN g : b <= x /\ x < b + g[b].size)
          <=> (\E b \in DOMAIN f : b <= x /\ x < b + f[b].size)
              \/ (base <= x /\ x < base + len)
    <3>1. \A b \in DOMAIN g : b = base \/ b \in DOMAIN f
      BY <1>7
    <3>2. base \in DOMAIN g /\ DOMAIN f \subseteq DOMAIN g
      BY <1>7
    <3> QED
      BY <1>8, <3>1, <3>2
  <2>2. (\E b \in DOMAIN f : b <= x /\ x < b + f[b].size)
          <=> x >= ManagedBase /\ PageOf(x) \in pages
    BY DEF Tiles
  <2>3. base <= x => x >= ManagedBase
    BY PmmAssumption
  <2>4. PageOf(x) \in more <=> base <= x /\ x < base + len
    BY DEF IsSpanOf
  <2> QED
    BY <2>1, <2>2, <2>3, <2>4
<1> QED
  BY <1>6, <1>7, <1>9, <1>11, <1>12 DEF Tiles, Adds

(* A block is cut in two.                                                  *)
LEMMA TilesSplit ==
    ASSUME NEW f, NEW g, NEW pages, Tiles(f, pages), NEW b \in DOMAIN f,
           NEW n \in Nat, n >= MinBlock, f[b].size - n >= MinBlock, NEW r, r = b + n,
           NEW v \in [size : Nat, free : BOOLEAN], v.size = f[b].size - n,
           NEW w \in [size : Nat, free : BOOLEAN], w.size = n,
           g = With(With(f, r, v), b, w)
    PROVE  Tiles(g, pages) /\ Splits(f, g, b, r) /\ r \in Nat /\ g[b] = w /\ g[r] = v
<1>1. PICK size \in Nat : size = f[b].size
  BY DEF Tiles, Headers
<1>2. b \in Nat /\ size - n \in Nat /\ size - n >= 2 /\ n >= 2
  BY <1>1 DEF Tiles, Headers, MinBlock
<1>4. r \in Nat /\ r \notin DOMAIN f /\ r # b
  BY <1>1, <1>2 DEF Tiles, Headers, MinBlock
<1>5. /\ DOMAIN g = DOMAIN f \cup {r}
      /\ \A c \in DOMAIN f \ {b} : g[c] = f[c]
      /\ g[b] = w /\ g[r] = v
      /\ g = [x \in DOMAIN f \cup {r} |-> g[x]]
  BY <1>4 DEF With
<1>6. /\ g[b].size = n /\ g[b] \in [size : Nat, free : BOOLEAN]
      /\ g[r].size = size - n /\ g[r] \in [size : Nat, free : BOOLEAN]
  BY <1>1, <1>5
<1>7. Headers(g)
  <2>1. ASSUME NEW c \in DOMAIN g
        PROVE  /\ g[c] \in [size : Nat, free : BOOLEAN]
               /\ c \in Nat /\ g[c].size >= MinBlock
    <3>1. CASE c = b
      BY <1>2, <1>6, <3>1 DEF MinBlock
    <3>2. CASE c = r
      BY <1>2, <1>4, <1>6, <3>2 DEF MinBlock
    <3>3. CASE c \in DOMAIN f \ {b}
      BY <1>5, <3>3 DEF Tiles, Headers
    <3> QED
      BY <1>5, <3>1, <3>2, <3>3
  <2> QED
    BY <1>5, <2>1 DEF Headers
<1>8. ASSUME NEW x \in DOMAIN f \ {b}
      PROVE  /\ x \in Nat /\ g[x].size = f[x].size /\ f[x].size \in Nat
             /\ x + f[x].size <= b \/ b + size <= x
  BY <1>1, <1>5 DEF Tiles, Headers
<1>9. ASSUME NEW a \in DOMAIN g, NEW c \in DOMAIN g
      PROVE  a = c \/ a + g[a].size <= c \/ c + g[c].size <= a
  <2>1. \A x \in DOMAIN g : x = b \/ x = r \/ x \in DOMAIN f \ {b}
    BY <1>5
  <2>2. CASE a \in DOMAIN f \ {b} /\ c \in DOMAIN f \ {b}
    <3>1. a = c \/ a + f[a].size <= c \/ c + f[c].size <= a
      BY <2>2 DEF Tiles
    <3>2. g[a].size = f[a].size /\ g[c].size = f[c].size
      BY <1>8, <2>2
    <3> QED
      BY <3>1, <3>2, Zenon
  <2>3. CASE a \in DOMAIN f \ {b} /\ c = b
    <3>1. PICK m \in Nat : m = f[a].size
      BY <1>8, <2>3
    <3>2. a \in Nat /\ g[a].size = m /\ (a + m <= b \/ b + size <= a)
      BY <1>8, <2>3, <3>1
    <3>3. g[c].size = n
      BY <1>6, <2>3
    <3>4. a + m <= c \/ c + (n) <= a
      BY <1>1, <1>2, <2>3, <3>2
    <3> QED
      BY <3>2, <3>3, <3>4
  <2>4. CASE a \in DOMAIN f \ {b} /\ c = r
    <3>1. PICK m \in Nat : m = f[a].size
      BY <1>8, <2>4
    <3>2. a \in Nat /\ g[a].size = m /\ (a + m <= b \/ b + size <= a)
      BY <1>8, <2>4, <3>1
    <3>3. g[c].size = size - n
      BY <1>6, <2>4
    <3>4. a + m <= c \/ c + (size - n) <= a
      BY <1>1, <1>2, <2>4, <3>2
    <3> QED
      BY <3>2, <3>3, <3>4
  <2>5. CASE c \in DOMAIN f \ {b} /\ a = b
    <3>1. PICK m \in Nat : m = f[c].size
      BY <1>8, <2>5
    <3>2. c \in Nat /\ g[c].size = m /\ (c + m <= b \/ b + size <= c)
      BY <1>8, <2>5, <3>1
    <3>3. g[a].size = n
      BY <1>6, <2>5
    <3>4. c + m <= a \/ a + (n) <= c
      BY <1>1, <1>2, <2>5, <3>2
    <3> QED
      BY <3>2, <3>3, <3>4
  <2>6. CASE c \in DOMAIN f \ {b} /\ a = r
    <3>1. PICK m \in Nat : m = f[c].size
      BY <1>8, <2>6
    <3>2. c \in Nat /\ g[c].size = m /\ (c + m <= b \/ b + size <= c)
      BY <1>8, <2>6, <3>1
    <3>3. g[a].size = size - n
      BY <1>6, <2>6
    <3>4. c + m <= a \/ a + (size - n) <= c
      BY <1>1, <1>2, <2>6, <3>2
    <3> QED
      BY <3>2, <3>3, <3>4
  <2>7. CASE (a = b \/ a = r) /\ (c = b \/ c = r)
    BY <1>2, <1>6, <2>7
  <2> QED
    BY <2>1, <2>2, <2>3, <2>4, <2>5, <2>6, <2>7
<1>10. ASSUME NEW x \in Int
       PROVE  (\E c \in DOMAIN g : c <= x /\ x < c + g[c].size)
                 <=> (\E c \in DOMAIN f : c <= x /\ x < c + f[c].size)
  <2>1. b <= x /\ x < b + size
          <=> (b <= x /\ x < b + g[b].size) \/ (r <= x /\ x < r + g[r].size)
    BY <1>2, <1>6
  <2>2. /\ \A c \in DOMAIN g : c = b \/ c = r \/ c \in DOMAIN f \ {b}
        /\ b \in DOMAIN g /\ r \in DOMAIN g /\ DOMAIN f \subseteq DOMAIN g
    BY <1>5
  <2> QED
    BY <1>1, <1>8, <2>1, <2>2
<1> QED
  BY <1>4, <1>5, <1>6, <1>7, <1>9, <1>10 DEF Tiles, Splits

(* A block absorbs the one behind it.                                      *)
LEMMA TilesMerge ==
    ASSUME NEW f, NEW g, NEW pages, Tiles(f, pages), NEW b \in DOMAIN f,
           NEW c \in DOMAIN f, c = b + f[b].size,
           g = Merged(f, b, c)
    PROVE  Tiles(g, pages) /\ Merges(f, g, b, c) /\ g[b].free = f[b].free
<1>1. PICK m, n \in Nat : m = f[b].size /\ n = f[c].size
  BY DEF Tiles, Headers
<1>2. b \in Nat /\ c \in Nat /\ m >= 2 /\ n >= 2 /\ c = b + m /\ b # c
  BY <1>1 DEF Tiles, Headers, MinBlock
<1>3. /\ DOMAIN g = DOMAIN f \ {c}
      /\ \A x \in DOMAIN f \ {b, c} : g[x] = f[x]
      /\ g[b] = [f[b] EXCEPT !.size = m + n]
      /\ g = [x \in DOMAIN f \ {c} |-> g[x]]
  BY <1>1, <1>2 DEF Merged, Without
<1>4. g[b].size = m + n /\ g[b].free = f[b].free /\ g[b] \in [size : Nat, free : BOOLEAN]
  BY <1>3 DEF Tiles, Headers
<1>5. Headers(g)
  <2>1. ASSUME NEW x \in DOMAIN g
        PROVE  /\ g[x] \in [size : Nat, free : BOOLEAN]
               /\ x \in Nat /\ g[x].size >= MinBlock
    <3>1. CASE x = b
      BY <1>2, <1>4, <3>1 DEF MinBlock
    <3>2. CASE x \in DOMAIN f \ {b, c}
      BY <1>3, <3>2 DEF Tiles, Headers
    <3> QED
      BY <1>3, <3>1, <3>2
  <2> QED
    BY <1>3, <2>1 DEF Headers
<1>6. ASSUME NEW x \in DOMAIN f \ {b, c}
      PROVE  /\ x \in Nat /\ g[x].size = f[x].size /\ f[x].size \in Nat
             /\ x + f[x].size <= b \/ b + m + n <= x
  <2>1. x \in Nat /\ g[x].size = f[x].size /\ f[x].size \in Nat /\ f[x].size >= 2
    BY <1>3 DEF Tiles, Headers, MinBlock
  <2>2. x + f[x].size <= b \/ b + m <= x
    BY <1>1 DEF Tiles
  <2>3. x + f[x].size <= c \/ c + n <= x
    BY <1>1 DEF Tiles
  <2> QED
    BY <1>2, <2>1, <2>2, <2>3
<1>7. ASSUME NEW a \in DOMAIN g, NEW e \in DOMAIN g
      PROVE  a = e \/ a + g[a].size <= e \/ e + g[e].size <= a
  <2>1. \A x \in DOMAIN g : x = b \/ x \in DOMAIN f \ {b, c}
    BY <1>3
  <2>2. CASE a \in DOMAIN f \ {b, c} /\ e \in DOMAIN f \ {b, c}
    <3>1. a = e \/ a + f[a].size <= e \/ e + f[e].size <= a
      BY <2>2 DEF Tiles
    <3>2. g[a].size = f[a].size /\ g[e].size = f[e].size
      BY <1>6, <2>2
    <3> QED
      BY <3>1, <3>2, Zenon
  <2>3. CASE a \in DOMAIN f \ {b, c} /\ e = b
    <3>1. PICK k \in Nat : k = f[a].size
      BY <1>6, <2>3
    <3>2. a \in Nat /\ g[a].size = k /\ (a + k <= b \/ b + m + n <= a)
      BY <1>6, <2>3, <3>1
    <3>3. g[e].size = m + n
      BY <1>4, <2>3
    <3>4. a + k <= e \/ e + (m + n) <= a
      BY <1>2, <2>3, <3>2
    <3> QED
      BY <3>2, <3>3, <3>4
  <2>4. CASE a = b /\ e \in DOMAIN f \ {b, c}
    <3>1. PICK k \in Nat : k = f[e].size
      BY <1>6, <2>4
    <3>2. e \in Nat /\ g[e].size = k /\ (e + k <= b \/ b + m + n <= e)
      BY <1>6, <2>4, <3>1
    <3>3. g[a].size = m + n
      BY <1>4, <2>4
    <3>4. e + k <= a \/ a + (m + n) <= e
      BY <1>2, <2>4, <3>2
    <3> QED
      BY <3>2, <3>3, <3>4
  <2>5. CASE a = b /\ e = b
    BY <2>5
  <2> QED
    BY <2>1, <2>2, <2>3, <2>4, <2>5
<1>8. ASSUME NEW x \in Int
      PROVE  (\E a \in DOMAIN g : a <= x /\ x < a + g[a].size)
                 <=> (\E a \in DOMAIN f : a <= x /\ x < a + f[a].size)
  <2>1. b <= x /\ x < b + g[b].size
          <=> (b <= x /\ x < b + m) \/ (c <= x /\ x < c + n)
    BY <1>2, <1>4
  <2>2. /\ \A a \in DOMAIN g : a = b \/ a \in DOMAIN f \ {b, c}
        /\ \A a \in DOMAIN f : a \in DOMAIN g \/ a = c
        /\ b \in DOMAIN g /\ c \in DOMAIN f
    BY <1>2, <1>3
  <2> QED
    BY <1>1, <1>6, <2>1, <2>2
<1> QED
  BY <1>2, <1>3, <1>4, <1>5, <1>7, <1>8 DEF Tiles, Merges

-----------------------------------------------------------------------------
(* The free list.                                                          *)

LEMMA Inserted ==
    ASSUME NEW l, NEW S, Lists(l, S), NEW b \in Nat, b \notin S
    PROVE  Lists(<<b>> \o l, S \cup {b})
<1>1. PICK r : r = <<b>> \o l
  OBVIOUS
<1>2. l \in Seq(Nat) /\ <<b>> \in Seq(Nat) /\ Len(<<b>>) = 1
  BY DEF Lists
<1>3. /\ r \in Seq(Nat) /\ Len(r) = Len(l) + 1 /\ Len(l) \in Nat /\ r[1] = b
      /\ \A i \in 1..Len(l) : r[i + 1] = l[i]
      /\ \A i \in 2..Len(r) : r[i] = l[i - 1]
  BY <1>1, <1>2
<1>4. \A i \in 1..Len(r) : i = 1 \/ (i \in 2..Len(r) /\ i - 1 \in 1..Len(l))
  BY <1>3
<1>5. \A i \in 1..Len(r) : r[i] \in S \cup {b}
  BY <1>3, <1>4 DEF Lists
<1>6. ASSUME NEW i \in 1..Len(r), NEW j \in 1..Len(r), r[i] = r[j] PROVE i = j
  <2>0. ASSUME NEW k \in 1..Len(r), k # 1 PROVE r[k] # b
    <3>1. k - 1 \in 1..Len(l) /\ r[k] = l[k - 1]
      BY <1>3, <1>4, <2>0
    <3> QED
      BY <3>1 DEF Lists
  <2>1. CASE i = 1
    BY <1>3, <1>6, <2>0, <2>1
  <2>2. CASE j = 1
    BY <1>3, <1>6, <2>0, <2>2
  <2>3. CASE i # 1 /\ j # 1
    <3>1. /\ i - 1 \in 1..Len(l) /\ j - 1 \in 1..Len(l)
          /\ l[i - 1] = l[j - 1]
      BY <1>3, <1>4, <1>6, <2>3
    <3>2. i - 1 = j - 1
      BY <3>1 DEF Lists
    <3> QED
      BY <3>2
  <2> QED
    BY <2>1, <2>2, <2>3
<1>7. \A x \in S \cup {b} : \E i \in 1..Len(r) : r[i] = x
  <2>1. ASSUME NEW x \in S PROVE \E i \in 1..Len(r) : r[i] = x
    <3>1. PICK i \in 1..Len(l) : l[i] = x
      BY DEF Lists
    <3>2. i + 1 \in 1..Len(r) /\ r[i + 1] = x
      BY <1>3, <3>1
    <3> QED
      BY <3>2
  <2>2. 1 \in 1..Len(r)
    BY <1>3
  <2> QED
    BY <1>3, <2>1, <2>2
<1> QED
  BY <1>1, <1>3, <1>5, <1>6, <1>7 DEF Lists

LEMMA Removed ==
    ASSUME NEW l, NEW S, Lists(l, S), NEW b \in S
    PROVE  Lists(RemoveFirst(l, b), S \ {b})
<1>1. l \in Seq(Nat) /\ Len(l) \in Nat /\ \E i \in 1..Len(l) : l[i] = b
  BY DEF Lists
<1>2. PICK k \in 1..Len(l) : l[k] = b /\ RemoveFirst(l, b) = RemoveAt(l, k)
  <2> DEFINE I == {i \in 1..Len(l) : l[i] = b}
  <2>1. I # {} /\ I \subseteq Nat
    BY <1>1
  <2>2. \E i \in I : \A j \in I : i <= j
    BY <2>1, LeastNat
  <2>3. SelectInSeq(l, LAMBDA v : v = b) = (CHOOSE i \in I : \A j \in I : i <= j)
    BY <2>1, Zenon DEF SelectInSeq, Min
  <2>4. SelectInSeq(l, LAMBDA v : v = b) \in I
    BY <2>2, <2>3, Zenon
  <2>5. RemoveFirst(l, b) = RemoveAt(l, SelectInSeq(l, LAMBDA v : v = b))
    BY <1>1, Zenon DEF RemoveFirst
  <2> QED
    BY <2>4, <2>5, Zenon
<1>3. PICK r : r = RemoveAt(l, k)
  OBVIOUS
<1>4. /\ r \in Seq(Nat) /\ Len(r) = Len(l) - 1
      /\ \A i \in 1..Len(r) : i < k => r[i] = l[i]
      /\ \A i \in 1..Len(r) : i >= k => r[i] = l[i + 1]
  <2>1. PICK p, q : p = SubSeq(l, 1, k - 1) /\ q = SubSeq(l, k + 1, Len(l))
    OBVIOUS
  <2>2. /\ p \in Seq(Nat) /\ Len(p) = k - 1 /\ \A i \in 1..(k - 1) : p[i] = l[i]
    BY <1>1, <2>1
  <2>3. /\ q \in Seq(Nat) /\ Len(q) = Len(l) - k
        /\ \A i \in 1..(Len(l) - k) : q[i] = l[k + i]
    BY <1>1, <2>1
  <2>4. r = p \o q
    BY <1>3, <2>1 DEF RemoveAt
  <2>5. PICK n \in Nat : n = Len(l) /\ k \in 1..n
    BY <1>1
  <2>6. Len(p) + Len(q) = n - 1
    BY <2>2, <2>3, <2>5
  <2>7. /\ r \in Seq(Nat) /\ Len(r) = n - 1
        /\ \A i \in 1..(n - 1) : r[i] = IF i <= Len(p) THEN p[i] ELSE q[i - Len(p)]
    <3>1. /\ r \in Seq(Nat) /\ Len(r) = Len(p) + Len(q)
          /\ \A i \in 1..(Len(p) + Len(q)) :
                r[i] = IF i <= Len(p) THEN p[i] ELSE q[i - Len(p)]
      BY <2>2, <2>3, <2>4, ConcatProperties, Zenon
    <3> QED
      BY <2>6, <3>1
  <2>8. ASSUME NEW i \in 1..(n - 1), i < k PROVE r[i] = l[i]
    <3>1. i \in 1..(k - 1) /\ i <= Len(p)
      BY <2>2, <2>5, <2>8
    <3>2. r[i] = p[i]
      BY <2>7, <3>1
    <3> QED
      BY <2>2, <3>1, <3>2
  <2>9. ASSUME NEW i \in 1..(n - 1), i >= k PROVE r[i] = l[i + 1]
    <3>1. PICK e : e = i - (k - 1)
      OBVIOUS
    <3>2. e \in 1..(n - k) /\ k + e = i + 1
      BY <2>5, <2>9, <3>1
    <3>3. r[i] = q[e]
      BY <2>2, <2>5, <2>7, <2>9, <3>1
    <3>4. q[e] = l[k + e]
      BY <2>3, <2>5, <3>2
    <3> QED
      BY <3>2, <3>3, <3>4
  <2> QED
    BY <2>5, <2>7, <2>8, <2>9
<1> DEFINE at(i) == IF i < k THEN i ELSE i + 1
<1>5. ASSUME NEW i \in 1..Len(r)
      PROVE  at(i) \in 1..Len(l) /\ at(i) # k /\ r[i] = l[at(i)]
  <2>1. CASE i < k
    <3>1. at(i) = i
      BY <2>1, Zenon
    <3> HIDE DEF at
    <3>2. i \in 1..(Len(l) - 1) /\ i \in Nat /\ k \in Nat /\ Len(l) \in Nat
      BY <1>1, <1>4
    <3>3. r[i] = l[i]
      BY <1>4, <2>1
    <3>4. i \in 1..Len(l) /\ i # k
      BY <2>1, <3>2
    <3> QED
      BY <3>1, <3>3, <3>4, Zenon
  <2>2. CASE i >= k
    <3>1. i \in 1..(Len(l) - 1) /\ i \in Nat /\ k \in Nat /\ Len(l) \in Nat
      BY <1>1, <1>4
    <3>2. ~(i < k)
      BY <2>2, <3>1
    <3>3. at(i) = i + 1
      BY <3>2, Zenon
    <3> HIDE DEF at
    <3>4. r[i] = l[i + 1]
      BY <1>4, <2>2
    <3>5. i + 1 \in 1..Len(l) /\ i + 1 # k
      BY <2>2, <3>1
    <3> QED
      BY <3>3, <3>4, <3>5, Zenon
  <2> QED
    BY <1>4, <2>1, <2>2
<1>6. \A i \in 1..Len(r) : r[i] \in S \ {b}
  <2> TAKE i \in 1..Len(r)
  <2>1. PICK j \in 1..Len(l) : j # k /\ r[i] = l[j]
    BY <1>5
  <2> QED
    BY <1>2, <2>1 DEF Lists
<1>7. ASSUME NEW i \in 1..Len(r), NEW j \in 1..Len(r), r[i] = r[j] PROVE i = j
  <2>1. at(i) = at(j)
    <3>1. /\ at(i) \in 1..Len(l) /\ at(j) \in 1..Len(l)
          /\ l[at(i)] = l[at(j)]
      BY <1>5, <1>7, Zenon
    <3> HIDE DEF at
    <3> QED
      BY <3>1, Zenon DEF Lists
  <2> QED
    BY <2>1
<1>8. ASSUME NEW x \in S \ {b} PROVE \E i \in 1..Len(r) : r[i] = x
  <2>1. PICK j \in 1..Len(l) : l[j] = x
    BY DEF Lists
  <2>2. j # k
    BY <1>2, <2>1
  <2>3. CASE j < k
    <3>1. j \in 1..Len(r) /\ r[j] = l[j]
      BY <1>1, <1>4, <2>3
    <3> QED
      BY <2>1, <3>1
  <2>4. CASE j > k
    <3>1. j - 1 \in 1..Len(r) /\ ~(j - 1 < k) /\ j - 1 + 1 = j
      BY <1>1, <1>4, <2>4
    <3>2. r[j - 1] = l[j]
      BY <1>4, <3>1
    <3> QED
      BY <2>1, <3>1, <3>2
  <2> QED
    BY <2>2, <2>3, <2>4
<1> QED
  BY <1>2, <1>3, <1>4, <1>6, <1>7, <1>8 DEF Lists

LEMMA Replaced ==
    ASSUME NEW l, NEW S, Lists(l, S), NEW b \in S, NEW r \in Nat, r \notin S
    PROVE  Lists([i \in DOMAIN l |-> IF l[i] = b THEN r ELSE l[i]], (S \ {b}) \cup {r})
<1>1. PICK m : m = [i \in DOMAIN l |-> IF l[i] = b THEN r ELSE l[i]]
  OBVIOUS
<1>2. l \in Seq(Nat) /\ Len(l) \in Nat /\ DOMAIN l = 1..Len(l)
  BY DEF Lists
<1>3. /\ m \in Seq(Nat) /\ Len(m) = Len(l)
      /\ \A i \in 1..Len(l) : m[i] = IF l[i] = b THEN r ELSE l[i]
  <2>1. m \in [1..Len(l) -> Nat]
    BY <1>1, <1>2
  <2> QED
    BY <1>1, <1>2, <2>1
<1>4. \A i \in 1..Len(m) : m[i] \in (S \ {b}) \cup {r}
  BY <1>3 DEF Lists
<1>5. \A i, j \in 1..Len(m) : m[i] = m[j] => i = j
  BY <1>3 DEF Lists
<1>6. \A x \in (S \ {b}) \cup {r} : \E i \in 1..Len(m) : m[i] = x
  BY <1>3 DEF Lists
<1> QED
  BY <1>1, <1>3, <1>4, <1>5, <1>6 DEF Lists

(* A list of the elements of a set is as long as the set is large.         *)
LEMMA ListLength ==
    ASSUME NEW l, NEW S, Lists(l, S)
    PROVE  IsFiniteSet(S) /\ Cardinality(S) = Len(l)
<1>1. Len(l) \in Nat /\ l \in [1..Len(l) -> Nat]
  BY DEF Lists
<1>2. IsFiniteSet(1..Len(l)) /\ Cardinality(1..Len(l)) = Len(l)
  BY <1>1, FS_Interval
<1>3. l \in Bijection(1..Len(l), S)
  <2>1. l \in [1..Len(l) -> S]
    BY <1>1 DEF Lists
  <2>2. \A i, j \in 1..Len(l) : l[i] = l[j] => i = j
    BY DEF Lists
  <2>3. \A x \in S : \E i \in 1..Len(l) : l[i] = x
    BY DEF Lists
  <2> QED
    BY <2>1, <2>2, <2>3 DEF Bijection, Injection, Surjection, IsInjective
<1>4. ExistsBijection(1..Len(l), S)
  BY <1>3 DEF ExistsBijection
<1> QED
  BY <1>2, <1>4, FS_Bijection

-----------------------------------------------------------------------------
(* The heap's helpers, field by field.                                     *)

SetFlag(f, b, flag) == [f EXCEPT ![b].free = flag]

LEMMA FlInsertIs ==
    ASSUME NEW h, IsHeap(h), NEW b
    PROVE  fl_insert(h, b) = [pmm |-> h.pmm, hdr |-> SetFlag(h.hdr, b, TRUE),
                              list |-> <<b>> \o h.list, pages |-> h.pages]
<1>1. PICK m, f, l, p : h = [pmm |-> m, hdr |-> f, list |-> l, pages |-> p]
  BY DEF IsHeap
<1>2. PICK k : k = SetFlag(f, b, TRUE)
  OBVIOUS
<1>3. fl_insert(h, b) = [h EXCEPT !.hdr = k, !.list = <<b>> \o l]
  BY <1>1, <1>2 DEF fl_insert, SetFlag
<1> QED
  BY <1>1, <1>2, <1>3

LEMMA FlRemoveIs ==
    ASSUME NEW h, IsHeap(h), NEW b
    PROVE  fl_remove(h, b) = [pmm |-> h.pmm, hdr |-> h.hdr,
                              list |-> RemoveFirst(h.list, b), pages |-> h.pages]
BY DEF IsHeap, fl_remove

(* Setting a header's flag.                                                *)
LEMMA Flagged ==
    ASSUME NEW f, Headers(f), NEW b \in DOMAIN f, NEW flag \in BOOLEAN,
           NEW g, g = SetFlag(f, b, flag)
    PROVE  Headers(g) /\ Changes(f, g, b) /\ g[b].size = f[b].size /\ g[b].free = flag
<1>1. g = [f EXCEPT ![b] = [f[b] EXCEPT !.free = flag]]
  BY Zenon DEF SetFlag
<1>2. PICK n \in Nat, t \in BOOLEAN : f[b] = [size |-> n, free |-> t]
  BY DEF Headers
<1>3. [f[b] EXCEPT !.free = flag] = [size |-> n, free |-> flag]
  BY <1>2
<1>4. g = [f EXCEPT ![b] = [size |-> n, free |-> flag]]
  BY <1>1, <1>3, Zenon
<1>5. g[b] = [size |-> n, free |-> flag]
  BY <1>4
<1>6. g[b].size = n /\ g[b].free = flag /\ f[b].size = n
  BY <1>2, <1>5
<1>7. DOMAIN g = DOMAIN f /\ \A x \in DOMAIN f \ {b} : g[x] = f[x]
  BY <1>4
<1>8. Headers(g)
  BY <1>4, <1>5, <1>6, <1>7 DEF Headers
<1> QED
  BY <1>5, <1>6, <1>7, <1>8 DEF Changes

(* The block a run of pages becomes.                                       *)
LEMMA AddRunIs ==
    ASSUME NEW h, IsHeap(h), NEW n, NEW run, run = pmm_alloc_contiguous_pages(h.pmm, n),
           run.ret # NoPage,
           NEW base, base = ManagedBase + run.ret * PageSize,
           NEW g, g = With(h.hdr, base, [size |-> n * PageSize, free |-> TRUE])
    PROVE  AddRun(h, n) = [ok |-> TRUE,
                           heap |-> [pmm |-> run.pmm, hdr |-> SetFlag(g, base, TRUE),
                                     list |-> <<base>> \o h.list,
                                     pages |-> h.pages \cup Pages(run.ret, n)]]
<1>1. PICK k : k = [h EXCEPT !.pmm = run.pmm,
                             !.hdr = With(@, base, [size |-> n * PageSize, free |-> TRUE]),
                             !.pages = @ \cup Pages(run.ret, n)]
  OBVIOUS
<1>2. AddRun(h, n) = [ok |-> TRUE, heap |-> fl_insert(k, base)]
  BY <1>1, Zenon DEF AddRun
<1>3. k = [pmm |-> run.pmm, hdr |-> g, list |-> h.list, pages |-> h.pages \cup Pages(run.ret, n)]
  BY <1>1 DEF IsHeap
<1>4. IsHeap(k) /\ k.hdr = g /\ k.list = h.list /\ k.pmm = run.pmm
      /\ k.pages = h.pages \cup Pages(run.ret, n)
  BY <1>3 DEF IsHeap
<1>6. fl_insert(k, base) = [pmm |-> k.pmm, hdr |-> SetFlag(k.hdr, base, TRUE),
                            list |-> <<base>> \o k.list, pages |-> k.pages]
  BY <1>4, FlInsertIs, Zenon
<1> QED
  BY <1>2, <1>4, <1>6, Zenon

-----------------------------------------------------------------------------
(* The calls.                                                              *)

Used(f) == {b \in DOMAIN f : ~f[b].free}

(* From f to g the blocks that are not free stay as they are.              *)
Undisturbed(f, g) == Used(g) = Used(f) /\ \A b \in Used(f) : g[b] = f[b]

(* A heap is sound if its fields are.                                      *)
LEMMA SoundFields ==
    ASSUME NEW m, NEW f, NEW l, NEW p, NEW h,
           h = [pmm |-> m, hdr |-> f, list |-> l, pages |-> p],
           IsPmm(m), p \subseteq KernelRegion, p \subseteq m.used, Tiles(f, p), Lists(l, FreeBlocks(f))
    PROVE  Sound(h) /\ h.pmm = m /\ h.hdr = f /\ h.list = l /\ h.pages = p
<1>1. h.pmm = m /\ h.hdr = f /\ h.list = l /\ h.pages = p
  OBVIOUS
<1>2. IsHeap(h)
  BY <1>1, Zenon DEF IsHeap
<1> QED
  BY <1>1, <1>2, Zenon DEF Sound, Structure

(* Growing the heap by a run of pages.                                     *)
LEMMA AddRunSound ==
    ASSUME NEW h, Sound(h), NEW n \in Nat \ {0}
    PROVE  /\ AddRun(h, n).ok \in BOOLEAN
           /\ Sound(AddRun(h, n).heap)
           /\ Undisturbed(h.hdr, AddRun(h, n).heap.hdr)
<1>1. PICK run : run = pmm_alloc_contiguous_pages(h.pmm, n)
  OBVIOUS
<1>2. CASE run.ret = NoPage
  <2>1. AddRun(h, n) = [ok |-> FALSE, heap |-> h]
    BY <1>1, <1>2, Zenon DEF AddRun
  <2>2. AddRun(h, n).ok = FALSE /\ AddRun(h, n).heap = h
    BY <2>1
  <2> QED
    BY <2>2, Zenon DEF Undisturbed
<1>3. CASE run.ret # NoPage
  <2>1. IsHeap(h) /\ IsPmm(h.pmm) /\ h.pages \subseteq KernelRegion /\ h.pages \subseteq h.pmm.used
        /\ Tiles(h.hdr, h.pages) /\ Lists(h.list, FreeBlocks(h.hdr))
    BY DEF Sound, Structure
  <2>2. PICK s \in Nat : s = run.ret
    BY <1>1, <1>3, <2>1, KernelRunOutcome DEF Outcome
  <2>3. /\ Pages(s, n) \cap h.pmm.used = {} /\ IsPmm(run.pmm)
        /\ run.pmm.used = h.pmm.used \cup Pages(s, n)
        /\ s + n <= KernelLimit(h.pmm)
    BY <1>1, <1>3, <2>1, <2>2, KernelRunOutcome DEF Outcome
  <2>4. Pages(s, n) \cap h.pages = {} /\ Pages(s, n) \subseteq KernelRegion
    BY <2>1, <2>3, KernelLimitType, KernelEndNat DEF Pages, KernelRegion
  <2>5. PICK base, len : base = ManagedBase + s * PageSize /\ len = n * PageSize
    OBVIOUS
  <2>v. PICK v : v = [size |-> len, free |-> TRUE]
    OBVIOUS
  <2>6. /\ base \in Nat /\ base >= ManagedBase /\ len \in Nat /\ len >= MinBlock
        /\ IsSpanOf(base, len, Pages(s, n))
    BY <2>5, RunIsSpan
  <2>7. PICK g : g = With(h.hdr, base, v)
    OBVIOUS
  <2>8. Tiles(g, h.pages \cup Pages(s, n)) /\ Adds(h.hdr, g, base)
    <3>1. v \in [size : Nat, free : BOOLEAN] /\ v.size = len
      BY <2>6, <2>v, HeaderFields, Zenon
    <3>2. PICK f, old, new : f = h.hdr /\ old = h.pages /\ new = Pages(s, n)
      OBVIOUS
    <3>3. /\ Tiles(f, old) /\ new \cap old = {}
          /\ IsSpanOf(base, len, new) /\ g = With(f, base, v)
      BY <2>1, <2>4, <2>6, <2>7, <3>2, Zenon
    <3>4. Tiles(g, old \cup new) /\ Adds(f, g, base)
      BY <2>6, <3>1, <3>3, TilesAdd
    <3> QED
      BY <3>2, <3>4, Zenon
  <2>9. PICK k : k = SetFlag(g, base, TRUE)
    OBVIOUS
  <2>10. Headers(k) /\ Changes(g, k, base) /\ k[base].size = g[base].size
         /\ k[base].free = TRUE
    <3>1. Headers(g) /\ base \in DOMAIN g
      BY <2>8 DEF Tiles, Adds
    <3>2. PICK t : t \in BOOLEAN /\ t = TRUE
      OBVIOUS
    <3>3. k = SetFlag(g, base, t)
      BY <2>9, <3>2, Zenon
    <3>4. Headers(k) /\ Changes(g, k, base) /\ k[base].size = g[base].size /\ k[base].free = t
      BY <3>1, <3>2, <3>3, Flagged
    <3> QED
      BY <3>2, <3>4, Zenon
  <2>11. Tiles(k, h.pages \cup Pages(s, n))
    BY <2>8, <2>10, TilesSameSizes DEF Changes, Adds
  <2>12. FreeBlocks(k) = FreeBlocks(h.hdr) \cup {base}
    BY <2>8, <2>10 DEF FreeBlocks, Changes, Adds
  <2>13. Lists(<<base>> \o h.list, FreeBlocks(k))
    <3>1. base \notin FreeBlocks(h.hdr)
      BY <2>8 DEF FreeBlocks, Adds
    <3> QED
      BY <2>1, <2>6, <2>12, <3>1, Inserted
  <2>14. Undisturbed(h.hdr, k)
    BY <2>8, <2>10 DEF Undisturbed, Used, Changes, Adds
  <2>15. AddRun(h, n) = [ok |-> TRUE,
                         heap |-> [pmm |-> run.pmm, hdr |-> k, list |-> <<base>> \o h.list,
                                   pages |-> h.pages \cup Pages(s, n)]]
    BY <1>1, <1>3, <2>1, <2>2, <2>5, <2>v, <2>7, <2>9, AddRunIs, Zenon
  <2>16. AddRun(h, n).ok = TRUE
         /\ AddRun(h, n).heap = [pmm |-> run.pmm, hdr |-> k, list |-> <<base>> \o h.list,
                                 pages |-> h.pages \cup Pages(s, n)]
    BY <2>15
  <2>17. Sound(AddRun(h, n).heap) /\ AddRun(h, n).heap.hdr = k
    <3>1. h.pages \cup Pages(s, n) \subseteq KernelRegion /\ h.pages \cup Pages(s, n) \subseteq run.pmm.used
      BY <2>1, <2>3, <2>4
    <3>2. PICK hp, pages, l : /\ hp = AddRun(h, n).heap /\ pages = h.pages \cup Pages(s, n)
                              /\ l = <<base>> \o h.list
      OBVIOUS
    <3>3. /\ hp = [pmm |-> run.pmm, hdr |-> k, list |-> l, pages |-> pages]
          /\ pages \subseteq KernelRegion /\ pages \subseteq run.pmm.used
          /\ Tiles(k, pages) /\ Lists(l, FreeBlocks(k))
      BY <2>11, <2>13, <2>16, <3>1, <3>2, Zenon
    <3>4. PICK m : m = run.pmm
      OBVIOUS
    <3>5. Sound(hp) /\ hp.hdr = k
      BY <2>3, <3>3, <3>4, SoundFields
    <3> QED
      BY <3>2, <3>5, Zenon
  <2> QED
    BY <2>14, <2>16, <2>17, Zenon
<1> QED
  BY <1>2, <1>3

-----------------------------------------------------------------------------
(* kmalloc's loop: however often the heap grows, it stays sound.           *)

Good(h, g) == Sound(g.heap) /\ Undisturbed(h.hdr, g.heap.hdr)

LEMMA UndisturbedTwice ==
    ASSUME NEW f, NEW g, NEW k, Undisturbed(f, g), Undisturbed(g, k)
    PROVE  Undisturbed(f, k)
BY DEF Undisturbed

LEMMA RetryGood ==
    ASSUME NEW h, NEW g, Good(h, g), NEW needed
    PROVE  Good(h, Retry(g, needed))
<1>1. CASE Fits(g.heap, needed) # {} \/ ~g.ok
  BY <1>1 DEF Retry
<1>2. CASE ~(Fits(g.heap, needed) # {} \/ ~g.ok)
  <2>1. Retry(g, needed) = heap_expand(g.heap)
    BY <1>2, Zenon DEF Retry
  <2>2. CASE Cardinality(g.heap.pages) + ExpandPages > MaxHeapPages
    <3>1. heap_expand(g.heap) = [ok |-> FALSE, heap |-> g.heap]
      BY <2>2, Zenon DEF heap_expand
    <3>2. Retry(g, needed).heap = g.heap
      BY <2>1, <3>1
    <3> QED
      BY <3>2, Zenon DEF Good
  <2>3. CASE ~(Cardinality(g.heap.pages) + ExpandPages > MaxHeapPages)
    <3>1. Retry(g, needed) = AddRun(g.heap, ExpandPages)
      BY <2>1, <2>3, Zenon DEF heap_expand
    <3>2. Sound(g.heap) /\ Undisturbed(h.hdr, g.heap.hdr) /\ ExpandPages \in Nat \ {0}
      BY HeapAssumption DEF Good
    <3>3. PICK a : a = AddRun(g.heap, ExpandPages)
      OBVIOUS
    <3>4. Sound(a.heap) /\ Undisturbed(g.heap.hdr, a.heap.hdr)
      BY <3>2, <3>3, AddRunSound
    <3>5. Undisturbed(h.hdr, a.heap.hdr)
      BY <3>2, <3>4, UndisturbedTwice
    <3> QED
      BY <3>1, <3>3, <3>4, <3>5, Zenon DEF Good
  <2> QED
    BY <2>2, <2>3
<1> QED
  BY <1>1, <1>2

\* f is the loop over n tries.
Tries(h, needed, f, n) ==
    f = [k \in 0..n |-> IF k = 0 THEN [ok |-> TRUE, heap |-> h] ELSE Retry(f[k - 1], needed)]

LEMMA TriesDefined ==
    ASSUME NEW h, NEW needed, NEW last \in Nat
    PROVE  \E f : Tries(h, needed, f, last)
<1> DEFINE Bad == {n \in Nat : ~ \E f : Tries(h, needed, f, n)}
<1>1. SUFFICES ASSUME Bad # {} PROVE FALSE
  OBVIOUS
<1>2. PICK n \in Bad : \A k \in Bad : n <= k
  <2>1. Bad \subseteq Nat
    OBVIOUS
  <2> QED
    BY <1>1, <2>1, LeastNat
<1>3. PICK z : z = [ok |-> TRUE, heap |-> h]
  OBVIOUS
<1>4. CASE n = 0
  <2>1. PICK f : f = [k \in 0..0 |-> z]
    OBVIOUS
  <2>2. f = [k \in 0..0 |-> IF k = 0 THEN z ELSE Retry(f[k - 1], needed)]
    BY <2>1
  <2>3. Tries(h, needed, f, 0)
    BY <1>3, <2>2, Zenon DEF Tries
  <2> QED
    BY <1>2, <1>4, <2>3
<1>5. CASE n # 0
  <2>1. n \in Nat /\ n - 1 \in Nat /\ n - 1 \notin Bad
    BY <1>2, <1>5
  <2>2. PICK f : f = [k \in 0..(n - 1) |-> IF k = 0 THEN z ELSE Retry(f[k - 1], needed)]
    <3>1. PICK f : Tries(h, needed, f, n - 1)
      BY <2>1
    <3> QED
      BY <1>3, <3>1, Zenon DEF Tries
  <2>3. PICK g : g = [k \in 0..n |-> IF k = n THEN Retry(f[n - 1], needed) ELSE f[k]]
    OBVIOUS
  <2>4. \A k \in 0..n : g[k] = IF k = 0 THEN z ELSE Retry(g[k - 1], needed)
    <3> TAKE k \in 0..n
    <3>1. CASE k = n
      <4>1. g[k] = Retry(f[n - 1], needed) /\ g[k - 1] = f[n - 1]
        BY <2>1, <2>3, <3>1
      <4> QED
        BY <3>1, <4>1, <1>5
    <3>2. CASE k # n
      <4>1. k \in 0..(n - 1) /\ g[k] = f[k]
        BY <2>1, <2>3, <3>2
      <4>2. f[k] = IF k = 0 THEN z ELSE Retry(f[k - 1], needed)
        BY <2>2, <4>1
      <4>3. k # 0 => g[k - 1] = f[k - 1]
        BY <2>1, <2>3, <4>1
      <4> QED
        BY <4>1, <4>2, <4>3
    <3> QED
      BY <3>1, <3>2
  <2>5. g = [k \in 0..n |-> IF k = 0 THEN z ELSE Retry(g[k - 1], needed)]
    <3>1. g = [k \in 0..n |-> g[k]]
      BY <2>3
    <3> QED
      BY <2>4, <3>1
  <2>6. Tries(h, needed, g, n)
    BY <1>3, <2>5, Zenon DEF Tries
  <2> QED
    BY <1>2, <2>6
<1> QED
  BY <1>4, <1>5

LEMMA GrownGood ==
    ASSUME NEW h, Sound(h), NEW needed
    PROVE  Sound(Grown(h, needed)) /\ Undisturbed(h.hdr, Grown(h, needed).hdr)
<1>1. PICK last : last = MaxHeapPages \div ExpandPages + 1
  OBVIOUS
<1>2. last \in Nat
  <2>1. ExpandPages \in Nat \ {0} /\ MaxHeapPages \in Nat
    BY HeapAssumption
  <2>2. PICK e \in Nat \ {0}, m \in Nat : e = ExpandPages /\ m = MaxHeapPages
    BY <2>1
  <2>3. m \div e \in Int /\ m \div e >= 0
    BY DivAtLeast
  <2> QED
    BY <1>1, <2>2, <2>3
<1>3. PICK f : Tries(h, needed, f, last) /\ Grown(h, needed) = f[last].heap
  <2>1. \E f : Tries(h, needed, f, last)
    BY <1>2, TriesDefined
  <2>2. Grown(h, needed) = (CHOOSE f : Tries(h, needed, f, last))[last].heap
    BY <1>1, Zenon DEF Grown, Tries
  <2> QED
    BY <2>1, <2>2, Zenon
<1>4. PICK z : z = [ok |-> TRUE, heap |-> h]
  OBVIOUS
<1>5. /\ 0 \in 0..last /\ f[0] = z
      /\ \A k \in 0..last : k # 0 => f[k] = Retry(f[k - 1], needed)
  <2>1. f = [k \in 0..last |-> IF k = 0 THEN z ELSE Retry(f[k - 1], needed)]
    BY <1>3, <1>4, Zenon DEF Tries
  <2> QED
    BY <1>2, <2>1
<1>6. Good(h, z)
  <2>1. z.heap = h
    BY <1>4
  <2> QED
    BY <2>1, Zenon DEF Good, Undisturbed
<1>7. \A k \in 0..last : Good(h, f[k])
  <2> DEFINE Bad == {k \in Nat : k <= last /\ ~Good(h, f[k])}
  <2>1. SUFFICES ASSUME Bad # {} PROVE FALSE
    BY <1>2
  <2>2. PICK n \in Bad : \A k \in Bad : n <= k
    <3>1. Bad \subseteq Nat
      OBVIOUS
    <3> QED
      BY <2>1, <3>1, LeastNat
  <2>3. n # 0
    BY <1>5, <1>6, <2>2
  <2>4. n - 1 \in Nat /\ n - 1 <= last /\ n - 1 \notin Bad /\ n \in 0..last
    BY <1>2, <2>2, <2>3
  <2>5. Good(h, f[n - 1])
    BY <2>4
  <2>6. Good(h, f[n])
    BY <1>5, <2>3, <2>4, <2>5, RetryGood
  <2> QED
    BY <2>2, <2>6
<1>8. Good(h, f[last])
  BY <1>2, <1>7
<1> QED
  BY <1>3, <1>8, Zenon DEF Good

-----------------------------------------------------------------------------
(* kmalloc's loop: it ends because a block fits or the heap cannot grow.   *)

\* What makes heap_expand fail: the limit, or no run of pages.
NoMore(h) ==
    \/ Cardinality(h.pages) + ExpandPages > MaxHeapPages
    \/ pmm_alloc_contiguous_pages(h.pmm, ExpandPages).ret = NoPage

LEMMA PagesFinite ==
    ASSUME NEW S, S \subseteq KernelRegion
    PROVE  IsFiniteSet(S) /\ Cardinality(S) \in Nat
<1>1. IsFiniteSet(KernelRegion)
  BY KernelEndNat, FS_Interval DEF KernelRegion
<1>2. IsFiniteSet(S)
  BY <1>1, FS_Subset
<1> QED
  BY <1>2, FS_CardinalityType

LEMMA AddRunGrows ==
    ASSUME NEW h, Sound(h), NEW n \in Nat \ {0},
           pmm_alloc_contiguous_pages(h.pmm, n).ret # NoPage
    PROVE  /\ AddRun(h, n).ok
           /\ Cardinality(AddRun(h, n).heap.pages) = Cardinality(h.pages) + n
<1>1. PICK run : run = pmm_alloc_contiguous_pages(h.pmm, n)
  OBVIOUS
<1>2. /\ IsHeap(h) /\ IsPmm(h.pmm)
      /\ h.pages \subseteq KernelRegion /\ h.pages \subseteq h.pmm.used
  BY DEF Sound, Structure
<1>3. PICK s \in Nat : s = run.ret
  BY <1>1, <1>2, KernelRunOutcome DEF Outcome
<1>4. Pages(s, n) \cap h.pmm.used = {}
  BY <1>1, <1>2, <1>3, KernelRunOutcome DEF Outcome
<1>5. PICK new, old : new = Pages(s, n) /\ old = h.pages
  OBVIOUS
<1>6. IsFiniteSet(new) /\ Cardinality(new) = n
  <2>1. s \in Int /\ s + n - 1 \in Int /\ ~(s > s + n - 1) /\ s + n - 1 - s + 1 = n
    OBVIOUS
  <2> QED
    BY <1>5, <2>1, FS_Interval DEF Pages
<1>7. Cardinality(old \cup new) = Cardinality(old) + n
  <2>1. old \cap new = {}
    BY <1>2, <1>4, <1>5
  <2>2. IsFiniteSet(old) /\ Cardinality(old) \in Nat
    BY <1>2, <1>5, PagesFinite
  <2>3. Cardinality(old \cup new) = Cardinality(old) + Cardinality(new) - Cardinality({})
    BY <1>6, <2>1, <2>2, FS_Union
  <2> QED
    BY <1>6, <2>2, <2>3, FS_EmptySet
<1>8. AddRun(h, n).ok = TRUE /\ AddRun(h, n).heap.pages = old \cup new
  <2>1. PICK base, g : /\ base = ManagedBase + run.ret * PageSize
                       /\ g = With(h.hdr, base, [size |-> n * PageSize, free |-> TRUE])
    OBVIOUS
  <2>2. PICK f, l, m : f = SetFlag(g, base, TRUE) /\ l = <<base>> \o h.list /\ m = run.pmm
    OBVIOUS
  <2>3. AddRun(h, n) = [ok |-> TRUE,
                        heap |-> [pmm |-> m, hdr |-> f, list |-> l, pages |-> old \cup new]]
    BY <1>1, <1>2, <1>3, <1>5, <2>1, <2>2, AddRunIs, Zenon
  <2> QED
    BY <2>3
<1> QED
  BY <1>5, <1>7, <1>8

(* After k tries something fits, or the last one failed, or each one added *)
(* its pages.                                                              *)
Progress(g, needed, k) ==
    \/ Fits(g.heap, needed) # {}
    \/ ~g.ok /\ NoMore(g.heap)
    \/ /\ g.ok /\ Cardinality(g.heap.pages) >= k * ExpandPages
       /\ k # 0 => Cardinality(g.heap.pages) <= MaxHeapPages

LEMMA RetryProgress ==
    ASSUME NEW g, Sound(g.heap), NEW needed, NEW k \in Nat, Progress(g, needed, k)
    PROVE  Progress(Retry(g, needed), needed, k + 1)
<1>1. CASE Fits(g.heap, needed) # {} \/ ~g.ok
  BY <1>1 DEF Retry, Progress
<1>2. CASE ~(Fits(g.heap, needed) # {} \/ ~g.ok)
  <2>1. Retry(g, needed) = heap_expand(g.heap)
    BY <1>2, Zenon DEF Retry
  <2>2. PICK h, e : h = g.heap /\ e = ExpandPages
    OBVIOUS
  <2>3. e \in Nat \ {0} /\ MaxHeapPages \in Nat
    BY <2>2, HeapAssumption
  <2>4. CASE Cardinality(h.pages) + e > MaxHeapPages
    <3>1. Retry(g, needed) = [ok |-> FALSE, heap |-> h]
      BY <2>1, <2>2, <2>4, Zenon DEF heap_expand
    <3>2. ~Retry(g, needed).ok /\ Retry(g, needed).heap = h
      BY <3>1
    <3> QED
      BY <2>2, <2>4, <3>2 DEF Progress, NoMore
  <2>5. CASE ~(Cardinality(h.pages) + e > MaxHeapPages)
    <3>1. Retry(g, needed) = AddRun(h, e)
      BY <2>1, <2>2, <2>5, Zenon DEF heap_expand
    <3>2. CASE pmm_alloc_contiguous_pages(h.pmm, e).ret = NoPage
      <4>1. AddRun(h, e) = [ok |-> FALSE, heap |-> h]
        BY <3>2, Zenon DEF AddRun
      <4>2. ~Retry(g, needed).ok /\ Retry(g, needed).heap = h
        BY <3>1, <4>1
      <4> QED
        BY <2>2, <3>2, <4>2 DEF Progress, NoMore
    <3>3. CASE pmm_alloc_contiguous_pages(h.pmm, e).ret # NoPage
      <4>1. PICK a, c, d : /\ a = AddRun(h, e) /\ c = Cardinality(h.pages)
                           /\ d = Cardinality(a.heap.pages)
        OBVIOUS
      <4>2. a.ok /\ d = c + e
        BY <2>2, <2>3, <3>3, <4>1, AddRunGrows
      <4>3. c \in Nat
        <5>1. h.pages \subseteq KernelRegion
          BY <2>2 DEF Sound, Structure
        <5> QED
          BY <4>1, <5>1, PagesFinite
      <4>4. c >= k * e /\ (k + 1) * e = k * e + e /\ k * e \in Nat
        BY <1>2, <2>2, <2>3, <4>1 DEF Progress
      <4>5. d >= (k + 1) * e
        BY <2>3, <4>2, <4>3, <4>4
      <4>6. d <= MaxHeapPages
        BY <2>3, <2>5, <4>1, <4>2, <4>3
      <4> QED
        BY <2>2, <3>1, <4>1, <4>2, <4>5, <4>6 DEF Progress
    <3> QED
      BY <3>2, <3>3
  <2> QED
    BY <2>4, <2>5
<1> QED
  BY <1>1, <1>2

\* The tries do not run out before the heap has grown as far as it can.
LEMMA GrownEnds ==
    ASSUME NEW h, Sound(h), NEW needed, Fits(Grown(h, needed), needed) = {}
    PROVE  NoMore(Grown(h, needed))
<1>1. PICK e \in Nat \ {0}, m \in Nat, last \in Int :
        e = ExpandPages /\ m = MaxHeapPages /\ last = m \div e + 1
  BY HeapAssumption
<1>2. last \in Nat /\ last * e > m /\ last # 0
  <2>1. PICK q \in Int : q = m \div e /\ q >= 0
    BY <1>1, DivAtLeast
  <2>2. q + 1 \in Int /\ m \div e < q + 1
    BY <2>1
  <2>3. m < (q + 1) * e
    BY <2>2, DivAtLeast
  <2> QED
    BY <1>1, <2>1, <2>3
<1>3. PICK f : Tries(h, needed, f, last) /\ Grown(h, needed) = f[last].heap
  <2>1. \E f : Tries(h, needed, f, last)
    BY <1>2, TriesDefined
  <2>2. Grown(h, needed) = (CHOOSE f : Tries(h, needed, f, last))[last].heap
    BY <1>1, Zenon DEF Grown, Tries
  <2> QED
    BY <2>1, <2>2, Zenon
<1>4. /\ f[0] = [ok |-> TRUE, heap |-> h]
      /\ \A k \in 0..last : k # 0 => f[k] = Retry(f[k - 1], needed)
  <2>1. PICK z : z = [ok |-> TRUE, heap |-> h]
    OBVIOUS
  <2>2. f = [k \in 0..last |-> IF k = 0 THEN z ELSE Retry(f[k - 1], needed)]
    BY <1>3, <2>1, Zenon DEF Tries
  <2>3. f[0] = z /\ \A k \in 0..last : k # 0 => f[k] = Retry(f[k - 1], needed)
    BY <1>2, <2>2
  <2> QED
    BY <2>1, <2>3, Zenon
<1>5. \A k \in 0..last : Good(h, f[k]) /\ Progress(f[k], needed, k)
  <2> DEFINE Bad == {k \in Nat : k <= last /\ ~(Good(h, f[k]) /\ Progress(f[k], needed, k))}
  <2>1. SUFFICES ASSUME Bad # {} PROVE FALSE
    BY <1>2
  <2>2. PICK n \in Bad : \A k \in Bad : n <= k
    <3>1. Bad \subseteq Nat
      OBVIOUS
    <3> QED
      BY <2>1, <3>1, LeastNat
  <2>3. n # 0
    <3>1. f[0].ok /\ f[0].heap = h
      BY <1>4
    <3>2. Good(h, f[0])
      BY <3>1 DEF Good, Undisturbed
    <3>3. Cardinality(h.pages) >= 0 * ExpandPages
      <4>1. h.pages \subseteq KernelRegion
        BY DEF Sound, Structure
      <4> QED
        BY <1>1, <4>1, PagesFinite
    <3>4. Progress(f[0], needed, 0)
      BY <3>1, <3>3 DEF Progress
    <3> QED
      BY <2>2, <3>2, <3>4
  <2>4. n - 1 \in Nat /\ n - 1 <= last /\ n - 1 \notin Bad /\ n \in 0..last
    BY <1>2, <2>2, <2>3
  <2>5. Good(h, f[n - 1]) /\ Progress(f[n - 1], needed, n - 1)
    BY <2>4
  <2>6. Good(h, f[n])
    BY <1>4, <2>3, <2>4, <2>5, RetryGood
  <2>7. Progress(f[n], needed, n)
    <3>1. Progress(Retry(f[n - 1], needed), needed, (n - 1) + 1)
      BY <2>4, <2>5, RetryProgress DEF Good
    <3> QED
      BY <1>4, <2>3, <2>4, <3>1
  <2> QED
    BY <2>2, <2>6, <2>7
<1>6. Progress(f[last], needed, last)
  BY <1>2, <1>5
<1>7. ~(Cardinality(f[last].heap.pages) >= last * e /\ Cardinality(f[last].heap.pages) <= m)
  <2>1. Sound(f[last].heap)
    BY <1>2, <1>5 DEF Good
  <2>2. PICK c : c = Cardinality(f[last].heap.pages)
    OBVIOUS
  <2>3. c \in Nat
    BY <2>1, <2>2, PagesFinite DEF Sound, Structure
  <2>4. PICK p \in Int : p = last * e
    BY <1>1, <1>2
  <2> QED
    BY <1>1, <1>2, <2>2, <2>3, <2>4
<1> QED
  BY <1>1, <1>2, <1>3, <1>6, <1>7 DEF Progress

-----------------------------------------------------------------------------
(* Taking a block from the list.                                           *)

(* From f to g the block b, free in f, is taken.                           *)
Taken(f, g, b) == Used(g) = Used(f) \cup {b} /\ \A x \in Used(f) : g[x] = f[x]

LEMMA TakeSound ==
    ASSUME NEW h, Sound(h), NEW b \in FreeBlocks(h.hdr),
           NEW needed \in Nat, needed >= MinBlock, h.hdr[b].size >= needed
    PROVE  /\ Sound(Take(h, b, needed))
           /\ Taken(h.hdr, Take(h, b, needed).hdr, b)
           /\ Take(h, b, needed).hdr[b].size >= needed
<1>1. PICK m, f, l, p : m = h.pmm /\ f = h.hdr /\ l = h.list /\ p = h.pages
  OBVIOUS
<1>2. /\ IsHeap(h) /\ IsPmm(m) /\ p \subseteq KernelRegion /\ p \subseteq m.used
      /\ Tiles(f, p) /\ Lists(l, FreeBlocks(f)) /\ b \in FreeBlocks(f)
      /\ f[b].size >= needed
  BY <1>1, Zenon DEF Sound, Structure
<1>3. h = [pmm |-> m, hdr |-> f, list |-> l, pages |-> p]
  BY <1>1, <1>2, Zenon DEF IsHeap
<1>4. Headers(f) /\ b \in DOMAIN f /\ f[b].free /\ b \in Nat /\ f[b].size \in Nat
  BY <1>2 DEF FreeBlocks, Tiles, Headers
<1>5. PICK t, e : t = TRUE /\ e = FALSE
  OBVIOUS
<1>6. CASE f[b].size - needed >= MinBlock
  <2>1. PICK rest \in Nat : rest = f[b].size - needed
    BY <1>2, <1>4
  <2>2. PICK r, v, w : r = b + needed /\ v = [size |-> rest, free |-> t]
                       /\ w = [size |-> needed, free |-> e]
    OBVIOUS
  <2>3. /\ v \in [size : Nat, free : BOOLEAN] /\ v.size = f[b].size - needed /\ v.free = t
        /\ w \in [size : Nat, free : BOOLEAN] /\ w.size = needed /\ w.free = e
    <3>1. t \in BOOLEAN /\ e \in BOOLEAN
      BY <1>5
    <3>2. v \in [size : Nat, free : BOOLEAN] /\ v.size = rest /\ v.free = t
      BY <2>2, <3>1, HeaderFields
    <3>3. w \in [size : Nat, free : BOOLEAN] /\ w.size = needed /\ w.free = e
      BY <2>2, <3>1, HeaderFields
    <3> QED
      BY <2>1, <3>2, <3>3
  <2>4. PICK g : g = With(With(f, r, v), b, w)
    OBVIOUS
  <2>5. Tiles(g, p) /\ Splits(f, g, b, r) /\ r \in Nat /\ g[b] = w /\ g[r] = v
    BY <1>2, <1>4, <1>6, <2>2, <2>3, <2>4, TilesSplit
  <2>6. v.free /\ ~w.free
    BY <1>5, <2>3, Zenon
  <2>7. FreeBlocks(g) = (FreeBlocks(f) \ {b}) \cup {r}
    BY <1>4, <2>5, <2>6 DEF FreeBlocks, Splits
  <2>8. Taken(f, g, b) /\ g[b].size >= needed
    BY <1>4, <2>3, <2>5, <2>6 DEF Taken, Used, Splits
  <2>9. PICK k : k = [i \in DOMAIN l |-> IF l[i] = b THEN r ELSE l[i]]
    OBVIOUS
  <2>10. Lists(k, FreeBlocks(g))
    <3>1. r \notin FreeBlocks(f)
      BY <2>5 DEF FreeBlocks, Splits
    <3>2. PICK S : S = FreeBlocks(f)
      OBVIOUS
    <3>3. Lists(k, (S \ {b}) \cup {r})
      BY <1>2, <2>5, <2>9, <3>1, <3>2, Replaced
    <3> QED
      BY <2>7, <3>2, <3>3
  <2>11. Take(h, b, needed) = [pmm |-> m, hdr |-> g, list |-> k, pages |-> p]
    <3>1. Take(h, b, needed) =
            [h EXCEPT !.hdr = With(With(@, b + needed,
                                        [size |-> h.hdr[b].size - needed, free |-> TRUE]),
                                   b, [size |-> needed, free |-> FALSE]),
                      !.list = [i \in DOMAIN @ |-> IF @[i] = b THEN b + needed ELSE @[i]]]
      BY <1>1, <1>6, Zenon DEF Take
    <3>2. Take(h, b, needed) =
            [h EXCEPT !.hdr = With(With(h.hdr, r, v), b, w),
                      !.list = [i \in DOMAIN h.list |-> IF h.list[i] = b THEN r ELSE h.list[i]]]
      BY <1>1, <1>5, <2>1, <2>2, <3>1, Zenon
    <3>3. Take(h, b, needed) = [h EXCEPT !.hdr = g, !.list = k]
      BY <1>1, <2>4, <2>9, <3>2, Zenon
    <3> QED
      BY <1>3, <3>3
  <2> QED
    <3>1. PICK q : q = Take(h, b, needed)
      OBVIOUS
    <3>2. q = [pmm |-> m, hdr |-> g, list |-> k, pages |-> p]
      BY <2>11, <3>1, Zenon
    <3>3. Sound(q) /\ q.hdr = g
      BY <1>2, <2>5, <2>10, <3>2, SoundFields
    <3> QED
      BY <1>1, <2>8, <3>1, <3>3, Zenon
<1>7. CASE ~(f[b].size - needed >= MinBlock)
  <2>1. PICK g, k : g = SetFlag(f, b, e) /\ k = RemoveFirst(l, b)
    OBVIOUS
  <2>2. Headers(g) /\ Changes(f, g, b) /\ g[b].size = f[b].size /\ g[b].free = e
    <3>1. e \in BOOLEAN
      BY <1>5
    <3> QED
      BY <1>4, <2>1, <3>1, Flagged
  <2>3. ~g[b].free
    BY <1>5, <2>2, Zenon
  <2>4. Tiles(g, p)
    BY <1>2, <2>2, TilesSameSizes DEF Changes
  <2>5. /\ FreeBlocks(g) = FreeBlocks(f) \ {b} /\ Taken(f, g, b)
        /\ g[b].size >= needed
    BY <1>2, <1>4, <2>2, <2>3 DEF FreeBlocks, Taken, Used, Changes
  <2>6. Lists(k, FreeBlocks(g))
    BY <1>2, <2>1, <2>5, Removed
  <2>7. Take(h, b, needed) = [pmm |-> m, hdr |-> g, list |-> k, pages |-> p]
    <3>1. Take(h, b, needed) = [fl_remove(h, b) EXCEPT !.hdr[b].free = FALSE]
      BY <1>1, <1>7, Zenon DEF Take
    <3>2. PICK x : x = fl_remove(h, b)
      OBVIOUS
    <3>3. x = [pmm |-> m, hdr |-> f, list |-> k, pages |-> p]
      BY <1>1, <1>2, <2>1, <3>2, FlRemoveIs, Zenon
    <3>4. Take(h, b, needed) = [x EXCEPT !.hdr = SetFlag(@, b, FALSE)]
      BY <3>1, <3>2 DEF SetFlag
    <3>5. Take(h, b, needed) = [x EXCEPT !.hdr = SetFlag(x.hdr, b, e)]
      BY <1>5, <3>4, Zenon
    <3>6. x.hdr = f
      BY <3>3
    <3>7. Take(h, b, needed) = [x EXCEPT !.hdr = g]
      BY <2>1, <3>5, <3>6, Zenon
    <3> QED
      BY <3>3, <3>7
  <2> QED
    <3>1. PICK q : q = Take(h, b, needed)
      OBVIOUS
    <3>2. q = [pmm |-> m, hdr |-> g, list |-> k, pages |-> p]
      BY <2>7, <3>1, Zenon
    <3>3. Sound(q) /\ q.hdr = g
      BY <1>2, <2>4, <2>6, <3>2, SoundFields
    <3> QED
      BY <1>1, <2>5, <3>1, <3>3, Zenon
<1> QED
  BY <1>6, <1>7

-----------------------------------------------------------------------------
(* Giving a block back.                                                    *)

(* The heap while kfree is at work on b, which is free and not listed.     *)
Half(h, b) == Structure(h, FreeBlocks(h.hdr) \ {b}) /\ b \in FreeBlocks(h.hdr)

LEMMA HalfFields ==
    ASSUME NEW m, NEW f, NEW l, NEW p, NEW h, NEW b,
           h = [pmm |-> m, hdr |-> f, list |-> l, pages |-> p], b \in FreeBlocks(f),
           IsPmm(m), p \subseteq KernelRegion, p \subseteq m.used, Tiles(f, p),
           Lists(l, FreeBlocks(f) \ {b})
    PROVE  Half(h, b) /\ h.pmm = m /\ h.hdr = f /\ h.list = l /\ h.pages = p
<1>1. h.pmm = m /\ h.hdr = f /\ h.list = l /\ h.pages = p
  OBVIOUS
<1>2. IsHeap(h)
  BY <1>1, Zenon DEF IsHeap
<1> QED
  BY <1>1, <1>2, Zenon DEF Half, Structure

(* From h to g the block b is given back.                                  *)
Released(h, g, b) == /\ g.pmm = h.pmm /\ g.pages = h.pages
                     /\ Used(g.hdr) = Used(h.hdr) \ {b}
                     /\ \A x \in Used(g.hdr) : g.hdr[x] = h.hdr[x]

(* kfree sets the block's flag.                                            *)
LEMMA FreeFlag ==
    ASSUME NEW h, Sound(h), NEW b \in Used(h.hdr)
    PROVE  Half([h EXCEPT !.hdr[b].free = TRUE], b)
           /\ Released(h, [h EXCEPT !.hdr[b].free = TRUE], b)
<1>0. PICK g : g = [h EXCEPT !.hdr[b].free = TRUE]
  OBVIOUS
<1>1. PICK m, f, l, p : m = h.pmm /\ f = h.hdr /\ l = h.list /\ p = h.pages
  OBVIOUS
<1>2. /\ IsHeap(h) /\ IsPmm(m) /\ p \subseteq KernelRegion /\ p \subseteq m.used
      /\ Tiles(f, p) /\ Lists(l, FreeBlocks(f)) /\ b \in Used(f)
  BY <1>1, Zenon DEF Sound, Structure
<1>3. h = [pmm |-> m, hdr |-> f, list |-> l, pages |-> p]
  BY <1>1, <1>2, Zenon DEF IsHeap
<1>4. Headers(f) /\ b \in DOMAIN f /\ ~f[b].free
  BY <1>2 DEF Used, Tiles
<1>5. PICK t : t = TRUE
  OBVIOUS
<1>6. PICK k : k = SetFlag(f, b, t)
  OBVIOUS
<1>7. g = [pmm |-> m, hdr |-> k, list |-> l, pages |-> p]
  <2>1. g = [h EXCEPT !.hdr = SetFlag(@, b, TRUE)]
    BY <1>0 DEF SetFlag
  <2>2. g = [h EXCEPT !.hdr = k]
    BY <1>1, <1>5, <1>6, <2>1, Zenon
  <2> QED
    BY <1>3, <2>2
<1>8. Headers(k) /\ Changes(f, k, b) /\ k[b].size = f[b].size /\ k[b].free = t
  <2>1. t \in BOOLEAN
    BY <1>5
  <2> QED
    BY <1>4, <1>6, <2>1, Flagged
<1>9. k[b].free
  BY <1>5, <1>8, Zenon
<1>10. Tiles(k, p)
  BY <1>2, <1>8, TilesSameSizes DEF Changes
<1>11. /\ b \in FreeBlocks(k) /\ FreeBlocks(k) \ {b} = FreeBlocks(f)
       /\ Used(k) = Used(f) \ {b} /\ \A x \in Used(f) \ {b} : k[x] = f[x]
  BY <1>4, <1>8, <1>9 DEF FreeBlocks, Used, Changes
<1>12. Half(g, b) /\ g.pmm = m /\ g.hdr = k /\ g.list = l /\ g.pages = p
  <2>1. Lists(l, FreeBlocks(k) \ {b})
    BY <1>2, <1>11, Zenon
  <2> QED
    BY <1>2, <1>7, <1>10, <1>11, <2>1, HalfFields
<1>13. Released(h, g, b)
  BY <1>1, <1>11, <1>12, Zenon DEF Released
<1> QED
  BY <1>0, <1>12, <1>13, Zenon

LEMMA ForwardHalf ==
    ASSUME NEW h, NEW b, Half(h, b)
    PROVE  /\ Half(coalesce_forward(h, b), b)
           /\ Undisturbed(h.hdr, coalesce_forward(h, b).hdr)
           /\ coalesce_forward(h, b).pmm = h.pmm /\ coalesce_forward(h, b).pages = h.pages
<1>1. PICK m, f, l, p : m = h.pmm /\ f = h.hdr /\ l = h.list /\ p = h.pages
  OBVIOUS
<1>2. /\ IsHeap(h) /\ IsPmm(m) /\ p \subseteq KernelRegion /\ p \subseteq m.used
      /\ Tiles(f, p) /\ Lists(l, FreeBlocks(f) \ {b}) /\ b \in FreeBlocks(f)
  BY <1>1, Zenon DEF Half, Structure
<1>3. h = [pmm |-> m, hdr |-> f, list |-> l, pages |-> p]
  BY <1>1, <1>2, Zenon DEF IsHeap
<1>4. PICK c : c = b + f[b].size
  OBVIOUS
<1>5. CASE c >= PageEnd(b) \/ ~f[c].free
  <2>1. coalesce_forward(h, b) = h
    BY <1>1, <1>4, <1>5, Zenon DEF coalesce_forward
  <2> QED
    BY <2>1, Zenon DEF Undisturbed
<1>6. CASE ~(c >= PageEnd(b) \/ ~f[c].free)
  <2>1. c \in DOMAIN f /\ f[c].free /\ b \in DOMAIN f /\ f[b].free
    <3>1. b \in DOMAIN f /\ f[b].free
      BY <1>2 DEF FreeBlocks
    <3>2. b \in Nat /\ f[b].size \in Nat
      BY <1>2, <3>1 DEF Tiles, Headers
    <3>3. PageEnd(b) \in Int
      BY <3>2, PmmAssumption DEF PageEnd, PageStart
    <3>4. b + f[b].size < PageEnd(b)
      BY <1>4, <1>6, <3>2, <3>3
    <3> QED
      BY <1>2, <1>4, <1>6, <3>1, <3>4, NextBlock
  <2>2. PICK g, k : g = Merged(f, b, c) /\ k = RemoveFirst(l, c)
    OBVIOUS
  <2>3. Tiles(g, p) /\ Merges(f, g, b, c) /\ g[b].free = f[b].free
    BY <1>2, <1>4, <2>1, <2>2, TilesMerge, Zenon
  <2>4. g[b].free
    BY <2>1, <2>3
  <2>5. /\ b \in FreeBlocks(g) /\ FreeBlocks(g) \ {b} = (FreeBlocks(f) \ {b}) \ {c}
        /\ c \in FreeBlocks(f) \ {b} /\ Undisturbed(f, g)
    BY <2>1, <2>3, <2>4 DEF FreeBlocks, Merges, Undisturbed, Used
  <2>6. Lists(k, FreeBlocks(g) \ {b})
    <3>1. PICK S : S = FreeBlocks(f) \ {b}
      OBVIOUS
    <3>2. Lists(k, S \ {c})
      BY <1>2, <2>2, <2>5, <3>1, Removed
    <3> QED
      BY <2>5, <3>1, <3>2, Zenon
  <2>7. coalesce_forward(h, b) = [pmm |-> m, hdr |-> g, list |-> k, pages |-> p]
    <3>1. PICK x : x = fl_remove(h, c)
      OBVIOUS
    <3>2. x = [pmm |-> m, hdr |-> f, list |-> k, pages |-> p]
      BY <1>1, <1>2, <2>2, <3>1, FlRemoveIs, Zenon
    <3>3. coalesce_forward(h, b) = [x EXCEPT !.hdr = Merged(@, b, c)]
      BY <1>1, <1>4, <1>6, <3>1, Zenon DEF coalesce_forward
    <3>4. x.hdr = f
      BY <3>2
    <3>5. coalesce_forward(h, b) = [x EXCEPT !.hdr = g]
      BY <1>1, <2>2, <3>3, <3>4, Zenon
    <3> QED
      BY <3>2, <3>5
  <2>8. PICK q : q = coalesce_forward(h, b)
    OBVIOUS
  <2>9. q = [pmm |-> m, hdr |-> g, list |-> k, pages |-> p]
    BY <2>7, <2>8, Zenon
  <2>10. Half(q, b) /\ q.pmm = m /\ q.hdr = g /\ q.pages = p
    BY <1>2, <2>3, <2>5, <2>6, <2>9, HalfFields
  <2> QED
    BY <1>1, <2>5, <2>8, <2>10, Zenon
<1> QED
  BY <1>5, <1>6

LEMMA BackwardSound ==
    ASSUME NEW h, NEW b, Half(h, b)
    PROVE  /\ Sound(coalesce_backward(h, b))
           /\ Undisturbed(h.hdr, coalesce_backward(h, b).hdr)
           /\ coalesce_backward(h, b).pmm = h.pmm /\ coalesce_backward(h, b).pages = h.pages
<1>1. PICK m, f, l, p : m = h.pmm /\ f = h.hdr /\ l = h.list /\ p = h.pages
  OBVIOUS
<1>2. /\ IsHeap(h) /\ IsPmm(m) /\ p \subseteq KernelRegion /\ p \subseteq m.used
      /\ Tiles(f, p) /\ Lists(l, FreeBlocks(f) \ {b}) /\ b \in FreeBlocks(f)
  BY <1>1, Zenon DEF Half, Structure
<1>3. h = [pmm |-> m, hdr |-> f, list |-> l, pages |-> p]
  BY <1>1, <1>2, Zenon DEF IsHeap
<1>4. Headers(f) /\ b \in DOMAIN f /\ f[b].free /\ b \in Nat
  BY <1>2 DEF FreeBlocks, Tiles, Headers
<1>5. PICK c : c = {q \in Before(h, b) : h.hdr[q].free}
  OBVIOUS
<1>6. CASE b = PageStart(b) \/ c = {}
  <2>1. coalesce_backward(h, b) = fl_insert(h, b)
    BY <1>5, <1>6, Zenon DEF coalesce_backward
  <2>2. PICK t, g, k : t = TRUE /\ g = SetFlag(f, b, t) /\ k = <<b>> \o l
    OBVIOUS
  <2>3. Headers(g) /\ Changes(f, g, b) /\ g[b].size = f[b].size /\ g[b].free = t
    <3>1. t \in BOOLEAN
      BY <2>2
    <3>2. g = SetFlag(f, b, t)
      BY <2>2, Zenon
    <3> QED
      BY <1>4, <3>1, <3>2, Flagged
  <2>4. g[b].free
    BY <2>2, <2>3, Zenon
  <2>5. Tiles(g, p)
    BY <1>2, <2>3, TilesSameSizes DEF Changes
  <2>6. FreeBlocks(g) = FreeBlocks(f) /\ Undisturbed(f, g)
    BY <1>4, <2>3, <2>4 DEF FreeBlocks, Undisturbed, Used, Changes
  <2>7. Lists(k, FreeBlocks(g))
    <3>1. PICK S : S = FreeBlocks(f) \ {b}
      OBVIOUS
    <3>2. b \notin S /\ S \cup {b} = FreeBlocks(g)
      BY <1>2, <2>6, <3>1
    <3>3. Lists(k, S \cup {b})
      BY <1>2, <1>4, <2>2, <3>1, <3>2, Inserted, Zenon
    <3> QED
      BY <3>2, <3>3, Zenon
  <2>8. PICK q : q = coalesce_backward(h, b)
    OBVIOUS
  <2>9. q = [pmm |-> m, hdr |-> g, list |-> k, pages |-> p]
    BY <1>1, <1>2, <2>1, <2>2, <2>8, FlInsertIs, Zenon
  <2>10. Sound(q) /\ q.pmm = m /\ q.hdr = g /\ q.pages = p
    BY <1>2, <2>5, <2>7, <2>9, SoundFields
  <2> QED
    BY <1>1, <2>6, <2>8, <2>10, Zenon
<1>7. CASE ~(b = PageStart(b) \/ c = {})
  <2>1. PICK prev : prev = CHOOSE q \in c : TRUE
    OBVIOUS
  <2>2. prev \in DOMAIN f /\ f[prev].free /\ b = prev + f[prev].size
    <3>1. prev \in c
      BY <1>7, <2>1
    <3> QED
      BY <1>1, <1>5, <3>1 DEF Before
  <2>3. PICK g : g = Merged(f, prev, b)
    OBVIOUS
  <2>4. Tiles(g, p) /\ Merges(f, g, prev, b) /\ g[prev].free = f[prev].free
    BY <1>2, <1>4, <2>2, <2>3, TilesMerge, Zenon
  <2>5. g[prev].free
    BY <2>2, <2>4
  <2>6. FreeBlocks(g) = FreeBlocks(f) \ {b} /\ Undisturbed(f, g)
    BY <1>4, <2>2, <2>4, <2>5 DEF FreeBlocks, Merges, Undisturbed, Used
  <2>7. coalesce_backward(h, b) = [pmm |-> m, hdr |-> g, list |-> l, pages |-> p]
    <3>1. coalesce_backward(h, b) = [h EXCEPT !.hdr = Merged(@, prev, b)]
      BY <1>5, <1>7, <2>1, Zenon DEF coalesce_backward
    <3>2. coalesce_backward(h, b) = [h EXCEPT !.hdr = g]
      BY <1>1, <2>3, <3>1, Zenon
    <3> QED
      BY <1>3, <3>2
  <2>8. PICK q : q = coalesce_backward(h, b)
    OBVIOUS
  <2>9. q = [pmm |-> m, hdr |-> g, list |-> l, pages |-> p] /\ Lists(l, FreeBlocks(g))
    BY <1>2, <2>6, <2>7, <2>8, Zenon
  <2>10. Sound(q) /\ q.pmm = m /\ q.hdr = g /\ q.pages = p
    BY <1>2, <2>4, <2>9, SoundFields
  <2> QED
    BY <1>1, <2>6, <2>8, <2>10, Zenon
<1> QED
  BY <1>6, <1>7

-----------------------------------------------------------------------------
(* The calls keep the structure, and each other's blocks.                  *)

HeldStays == \A b \in DOMAIN held \cap DOMAIN held' : b \in DOMAIN hdr' /\ hdr'[b] = hdr[b]

(* A sound heap next to the blocks it says are held.                       *)
LEMMA SoundNow ==
    ASSUME NEW h, Sound(h), pmm' = h.pmm, hdr' = h.hdr, free_list' = h.list,
           heap_pages' = h.pages, DOMAIN held' = Used(h.hdr), wild' \in BOOLEAN
    PROVE  IInv'
<1>1. Heap' = h
  <2>1. h = [pmm |-> h.pmm, hdr |-> h.hdr, list |-> h.list, pages |-> h.pages]
    BY Zenon DEF Sound, Structure, IsHeap
  <2>2. Heap' = [pmm |-> h.pmm, hdr |-> h.hdr, list |-> h.list, pages |-> h.pages]
    BY Zenon DEF Heap
  <2> QED
    BY <2>1, <2>2, Zenon
<1>2. Headers(h.hdr)
  BY DEF Sound, Structure, Tiles
<1>3. Sound(Heap')
  BY <1>1
<1>4. DOMAIN held' = {b \in DOMAIN hdr' : ~hdr'[b].free}
  BY DEF Used
<1> QED
  BY <1>2, <1>3, <1>4 DEF IInv

LEMMA HeldSound ==
    ASSUME IInv, ~wild
    PROVE  /\ Sound(Heap) /\ DOMAIN held = Used(hdr)
           /\ Heap.pmm = pmm /\ Heap.hdr = hdr /\ Heap.list = free_list /\ Heap.pages = heap_pages
<1>1. Heap.pmm = pmm /\ Heap.hdr = hdr /\ Heap.list = free_list /\ Heap.pages = heap_pages
  BY DEF Heap
<1> QED
  BY <1>1, Zenon DEF IInv, Used

LEMMA NeededType ==
    ASSUME NEW size \in Sizes
    PROVE  Needed(size) \in Nat /\ Needed(size) >= MinBlock
<1>1. PICK a \in Nat \ {0} : a = AddrSpace
  BY PmmAssumption
<1>2. PICK k : k = (size % a) + HeaderSize
  OBVIOUS
<1>3. size \in Int /\ size % a \in 0..(a - 1) /\ k \in Int
  BY <1>2, HeapAssumption, DivMod DEF HeaderSize
<1>4. k % a \in Nat
  BY <1>3, DivMod
<1> QED
  BY <1>1, <1>2, <1>4 DEF Needed, PageMax, MinBlock

\* b is given out for a request, with the units it needs.
Grants(b, size) ==
    /\ b \notin DOMAIN held /\ held' = With(held, b, size)
    /\ b \in DOMAIN hdr' /\ hdr'[b].size >= Needed(size)

\* A request is refused: no free block would do, and the heap cannot grow.
Refused(size) ==
    /\ held' = held
    /\ \A b \in DOMAIN hdr' : hdr'[b].free => hdr'[b].size < Needed(size)
    /\ \/ Cardinality(heap_pages') + ExpandPages > MaxHeapPages
       \/ pmm_alloc_contiguous_pages(pmm', ExpandPages).ret = NoPage

LEMMA MallocStep ==
    ASSUME IInv, NEW size \in Sizes, kmalloc(size)
    PROVE  IInv' /\ HeldStays /\ (Refused(size) \/ \E b : Grants(b, size))
<1>1. Sound(Heap) /\ DOMAIN held = Used(hdr) /\ Heap.hdr = hdr /\ ~wild
  BY HeldSound DEF kmalloc
<1> DEFINE n     == Needed(size)
           h     == Grown(Heap, n)
           fits  == Fits(h, n)
           b     == h.list[CHOOSE i \in fits : \A j \in fits : i <= j]
           after == IF fits = {} THEN h ELSE Take(h, b, n)
<1>2. n = Needed(size) /\ h = Grown(Heap, n)
  OBVIOUS
<1>6. /\ fits = Fits(h, n)
      /\ b = h.list[CHOOSE i \in fits : \A j \in fits : i <= j]
      /\ after = IF fits = {} THEN h ELSE Take(h, b, n)
  OBVIOUS
<1>7. /\ pmm' = after.pmm /\ hdr' = after.hdr /\ free_list' = after.list
      /\ heap_pages' = after.pages
      /\ held' = IF fits = {} THEN held ELSE With(held, b, size)
      /\ wild' = wild
  BY Zenon DEF kmalloc
<1> HIDE DEF n, h, fits, b, after
<1>3. n \in Nat /\ n >= MinBlock
  BY <1>2, NeededType
<1>5. Sound(h) /\ Undisturbed(hdr, h.hdr)
  BY <1>1, <1>2, GrownGood, Zenon
<1>8. wild' \in BOOLEAN
  BY <1>7 DEF IInv
<1>9. CASE fits = {}
  <2>1. Sound(after) /\ DOMAIN held' = Used(after.hdr)
    BY <1>1, <1>5, <1>6, <1>7, <1>9, Zenon DEF Undisturbed
  <2>2. IInv'
    BY <1>7, <1>8, <2>1, SoundNow
  <2>3. HeldStays
    <3>1. hdr' = h.hdr
      BY <1>6, <1>7, <1>9
    <3> QED
      BY <1>1, <1>5, <3>1 DEF HeldStays, Undisturbed, Used
  <2>4. Refused(size)
    <3>1. /\ hdr' = h.hdr /\ heap_pages' = h.pages /\ pmm' = h.pmm /\ held' = held
      BY <1>6, <1>7, <1>9
    <3>2. NoMore(h)
      BY <1>1, <1>2, <1>6, <1>9, GrownEnds, Zenon
    <3>3. ASSUME NEW x \in DOMAIN h.hdr, h.hdr[x].free PROVE h.hdr[x].size < n
      <4>1. Lists(h.list, FreeBlocks(h.hdr)) /\ Headers(h.hdr)
        BY <1>5 DEF Sound, Structure, Tiles
      <4>2. PICK k \in 1..Len(h.list) : h.list[k] = x
        BY <3>3, <4>1 DEF Lists, FreeBlocks
      <4>3. ~(h.hdr[x].size >= n)
        BY <1>6, <1>9, <4>2 DEF Fits
      <4>4. h.hdr[x].size \in Nat
        BY <4>1 DEF Headers
      <4> QED
        BY <1>3, <4>3, <4>4
    <3> QED
      BY <1>2, <3>1, <3>2, <3>3 DEF Refused, NoMore
  <2> QED
    BY <2>2, <2>3, <2>4
<1>10. CASE fits # {}
  <2>1. b \in FreeBlocks(h.hdr) /\ h.hdr[b].size >= n
    <3>1. fits \subseteq Nat
      BY <1>6 DEF Fits
    <3>2. \E i \in fits : \A j \in fits : i <= j
      BY <1>10, <3>1, LeastNat
    <3>3. PICK i \in fits : b = h.list[i]
      BY <1>6, <3>2, Zenon
    <3>4. i \in 1..Len(h.list) /\ h.hdr[b].size >= n
      BY <1>6, <3>3 DEF Fits
    <3>5. Lists(h.list, FreeBlocks(h.hdr))
      BY <1>5 DEF Sound, Structure
    <3> QED
      BY <3>3, <3>4, <3>5 DEF Lists
  <2>2. /\ Sound(Take(h, b, n)) /\ Taken(h.hdr, Take(h, b, n).hdr, b)
        /\ Take(h, b, n).hdr[b].size >= n
    BY <1>3, <1>5, <2>1, TakeSound
  <2>3. Sound(after) /\ Taken(h.hdr, after.hdr, b) /\ after.hdr[b].size >= n
    BY <1>6, <1>10, <2>2, Zenon
  <2>4. DOMAIN held' = Used(after.hdr)
    BY <1>1, <1>5, <1>7, <1>10, <2>3 DEF Taken, Undisturbed, With
  <2>5. IInv'
    BY <1>7, <1>8, <2>3, <2>4, SoundNow
  <2>6. HeldStays
    <3>1. \A x \in Used(hdr) : x \in Used(after.hdr) /\ after.hdr[x] = hdr[x]
      BY <1>5, <2>3 DEF Taken, Undisturbed
    <3> QED
      BY <1>1, <1>7, <3>1 DEF HeldStays, Used
  <2>7. Grants(b, size)
    <3>1. b \notin DOMAIN held
      BY <1>1, <1>5, <2>1 DEF Undisturbed, Used, FreeBlocks
    <3>2. b \in DOMAIN after.hdr
      BY <2>3 DEF Taken, Used
    <3> QED
      BY <1>2, <1>7, <1>10, <2>3, <3>1, <3>2 DEF Grants
  <2> QED
    BY <2>5, <2>6, <2>7
<1> QED
  BY <1>9, <1>10

LEMMA FreeStep ==
    ASSUME IInv, NEW b \in DOMAIN held, kfree(b)
    PROVE  IInv' /\ HeldStays /\ held' = Without(held, b)
<1>1. /\ Sound(Heap) /\ DOMAIN held = Used(hdr) /\ ~wild
      /\ Heap.pmm = pmm /\ Heap.hdr = hdr /\ Heap.list = free_list /\ Heap.pages = heap_pages
  BY HeldSound DEF kfree
<1>2. PICK g : g = [Heap EXCEPT !.hdr[b].free = TRUE]
  OBVIOUS
<1>3. PICK h : h = coalesce_forward(g, b)
  OBVIOUS
<1>4. Half(g, b) /\ Released(Heap, g, b)
  BY <1>1, <1>2, FreeFlag, Zenon
<1>5. Half(h, b) /\ Undisturbed(g.hdr, h.hdr) /\ h.pmm = g.pmm /\ h.pages = g.pages
  BY <1>3, <1>4, ForwardHalf, Zenon
<1>6. held' = Without(held, b) /\ pmm' = pmm /\ heap_pages' = heap_pages
  BY DEF kfree
<1>7. DOMAIN held' = DOMAIN held \ {b}
  BY <1>6 DEF Without
<1>8. CASE WalkIsWild(h, b)
  <2>1. wild' = TRUE /\ hdr' = hdr /\ free_list' = free_list
    BY <1>2, <1>3, <1>8, Zenon DEF kfree, heapVars
  <2>2. IInv'
    BY <2>1 DEF IInv
  <2>3. HeldStays
    BY <1>1, <1>7, <2>1 DEF HeldStays, Used
  <2> QED
    BY <1>6, <2>2, <2>3
<1>9. CASE ~WalkIsWild(h, b)
  <2>1. PICK q : q = coalesce_backward(h, b)
    OBVIOUS
  <2>2. hdr' = q.hdr /\ free_list' = q.list /\ wild' = wild
    BY <1>2, <1>3, <1>9, <2>1, Zenon DEF kfree
  <2>3. Sound(q) /\ Undisturbed(h.hdr, q.hdr) /\ q.pmm = h.pmm /\ q.pages = h.pages
    BY <1>5, <2>1, BackwardSound, Zenon
  <2>4. pmm' = q.pmm /\ heap_pages' = q.pages
    BY <1>1, <1>4, <1>5, <1>6, <2>3, Zenon DEF Released
  <2>5. Used(q.hdr) = Used(hdr) \ {b} /\ \A x \in Used(q.hdr) : q.hdr[x] = hdr[x]
    BY <1>1, <1>4, <1>5, <2>3 DEF Released, Undisturbed
  <2>6. wild' \in BOOLEAN /\ DOMAIN held' = Used(q.hdr)
    BY <1>1, <1>6, <2>2, <2>5 DEF IInv, Without
  <2>7. IInv'
    BY <2>2, <2>3, <2>4, <2>6, SoundNow
  <2>8. HeldStays
    <3>1. \A x \in DOMAIN held' : x \in DOMAIN hdr' /\ hdr'[x] = hdr[x]
      BY <2>2, <2>5, <2>6 DEF Used
    <3> QED
      BY <3>1 DEF HeldStays
  <2> QED
    BY <1>6, <2>7, <2>8
<1> QED
  BY <1>6, <1>8, <1>9

LEMMA OtherPageStep ==
    ASSUME IInv, OtherPage
    PROVE  IInv' /\ HeldStays
<1>1. /\ Sound(Heap) /\ DOMAIN held = Used(hdr) /\ ~wild
      /\ Heap.pmm = pmm /\ Heap.hdr = hdr /\ Heap.list = free_list /\ Heap.pages = heap_pages
  BY HeldSound DEF OtherPage
<1>2. PICK r : r = pmm_alloc_page(pmm)
  OBVIOUS
<1>3. /\ pmm' = r.pmm /\ hdr' = hdr /\ free_list' = free_list /\ heap_pages' = heap_pages
      /\ held' = held /\ wild' = wild
  BY <1>2 DEF OtherPage
<1>4. /\ IsPmm(pmm) /\ heap_pages \subseteq KernelRegion /\ heap_pages \subseteq pmm.used
      /\ Tiles(hdr, heap_pages) /\ Lists(free_list, FreeBlocks(hdr))
  BY <1>1, Zenon DEF Sound, Structure
<1>5. IsPmm(r.pmm) /\ heap_pages \subseteq r.pmm.used
  <2>1. Outcome(pmm, r, 0, KernelLimit(pmm), 1)
    BY <1>2, <1>4, KernelPageOutcome
  <2> QED
    BY <1>4, <2>1 DEF Outcome
<1>6. PICK h, m : m = r.pmm
                  /\ h = [pmm |-> m, hdr |-> hdr, list |-> free_list, pages |-> heap_pages]
  OBVIOUS
<1>7. Sound(h) /\ h.pmm = m /\ h.hdr = hdr /\ h.list = free_list /\ h.pages = heap_pages
  BY <1>4, <1>5, <1>6, SoundFields
<1>8. IInv'
  <2>1. wild' \in BOOLEAN
    BY <1>3 DEF IInv
  <2> QED
    BY <1>1, <1>3, <1>6, <1>7, <2>1, SoundNow
<1>9. HeldStays
  BY <1>1, <1>3 DEF HeldStays, Used
<1> QED
  BY <1>8, <1>9

LEMMA InitSound == Init => IInv
<1> SUFFICES ASSUME Init PROVE IInv
  OBVIOUS
<1> DEFINE map   == <<[base |-> ManagedBase, length |-> MemTop - ManagedBase]>>
           empty == [pmm |-> pmm_init(map, MemTop), hdr |-> <<>>, list |-> <<>>, pages |-> {}]
           h     == AddRun(empty, HeapInitPages).heap
<1>1. /\ pmm = h.pmm /\ hdr = h.hdr /\ free_list = h.list /\ heap_pages = h.pages
      /\ held = <<>> /\ wild = FALSE
  BY Zenon DEF Init
<1>2. IsPmm(pmm_init(map, MemTop))
  BY InitIsPmm, HeapAssumption
<1>3. PICK m, f, l, p, e : /\ m = pmm_init(map, MemTop) /\ f = <<>> /\ l = <<>> /\ p = {}
                           /\ e = empty
  OBVIOUS
<1>4. h = AddRun(e, HeapInitPages).heap /\ e = [pmm |-> m, hdr |-> f, list |-> l, pages |-> p]
  BY <1>3, Zenon
<1> HIDE DEF map, empty, h
<1>5. DOMAIN f = {} /\ f = [x \in {} |-> f[x]]
  BY <1>3
<1>6. Tiles(f, p) /\ FreeBlocks(f) = {} /\ Used(f) = {}
  BY <1>3, <1>5 DEF Tiles, Headers, FreeBlocks, Used
<1>7. Lists(l, FreeBlocks(f))
  BY <1>3, <1>6 DEF Lists
<1>8. Sound(e) /\ e.hdr = f
  <2>1. IsPmm(m) /\ p \subseteq KernelRegion /\ p \subseteq m.used
    BY <1>2, <1>3
  <2> QED
    BY <1>4, <1>6, <1>7, <2>1, SoundFields
<1>9. Sound(h) /\ Undisturbed(f, h.hdr)
  <2>1. HeapInitPages \in Nat \ {0}
    BY HeapAssumption
  <2> QED
    BY <1>4, <1>8, <2>1, AddRunSound
<1>10. Heap = h
  <2>1. h = [pmm |-> h.pmm, hdr |-> h.hdr, list |-> h.list, pages |-> h.pages]
    BY <1>9, Zenon DEF Sound, Structure, IsHeap
  <2> QED
    BY <1>1, <2>1, Zenon DEF Heap
<1>11. Headers(hdr) /\ DOMAIN held = {b \in DOMAIN hdr : ~hdr[b].free}
  <2>1. Headers(h.hdr)
    BY <1>9 DEF Sound, Structure, Tiles
  <2>2. Used(h.hdr) = {}
    BY <1>6, <1>9 DEF Undisturbed
  <2> QED
    BY <1>1, <2>1, <2>2 DEF Used
<1> QED
  BY <1>1, <1>9, <1>10, <1>11 DEF IInv

LEMMA StepSound == IInv /\ [Next]_vars => IInv' /\ (HeldStays \/ UNCHANGED vars)
<1> SUFFICES ASSUME IInv, [Next]_vars PROVE IInv' /\ (HeldStays \/ UNCHANGED vars)
  OBVIOUS
<1>1. ASSUME NEW size \in Sizes, kmalloc(size) PROVE IInv' /\ HeldStays
  BY <1>1, MallocStep
<1>2. ASSUME NEW b \in DOMAIN held, kfree(b) PROVE IInv' /\ HeldStays
  BY <1>2, FreeStep
<1>3. CASE OtherPage
  BY <1>3, OtherPageStep
<1>4. CASE UNCHANGED vars
  BY <1>4 DEF vars, IInv, Heap
<1> QED
  BY <1>1, <1>2, <1>3, <1>4 DEF Next

-----------------------------------------------------------------------------
(* However allocations, frees and growth interleave, the heap keeps its    *)
(* structure, until a walk leaves the headers (kheap.c's coalesce_backward *)
(* from the start of a page inside a block).                               *)
THEOREM HeapSound == Spec => []IInv
<1>1. Init => IInv
  BY InitSound
<1>2. IInv /\ [Next]_vars => IInv'
  BY StepSound
<1> QED
  BY <1>1, <1>2, PTL DEF Spec

LEMMA TilesSpans == IInv => BlocksTile
<1> SUFFICES ASSUME IInv, ~wild PROVE BlocksTile
  BY DEF BlocksTile
<1>1. Tiles(hdr, heap_pages) /\ heap_pages \subseteq Nat
  BY HeldSound, InRegion DEF Sound, Structure
<1>2. \A b \in DOMAIN hdr : b \in Nat /\ hdr[b].size \in Nat
  BY <1>1 DEF Tiles, Headers
<1>3. \A x : x \in UNION {Span(b) : b \in Blocks} <=> x \in Units
  <2> TAKE x
  <2>1. x \in Units <=> x \in Int /\ x >= ManagedBase /\ PageOf(x) \in heap_pages
    BY <1>1, UnitsOfPages, Zenon DEF Units
  <2>2. x \in UNION {Span(b) : b \in Blocks}
          <=> \E b \in DOMAIN hdr : x \in b..(b + hdr[b].size - 1)
    BY DEF Blocks, Span
  <2>3. \A b \in DOMAIN hdr : x \in b..(b + hdr[b].size - 1)
                                <=> x \in Int /\ b <= x /\ x < b + hdr[b].size
    BY <1>2
  <2>4. x \in Int => ((\E b \in DOMAIN hdr : b <= x /\ x < b + hdr[b].size)
                         <=> x >= ManagedBase /\ PageOf(x) \in heap_pages)
    BY <1>1 DEF Tiles
  <2> QED
    BY <2>1, <2>2, <2>3, <2>4
<1>4. ASSUME NEW a \in Blocks, NEW b \in Blocks, a # b PROVE Span(a) \cap Span(b) = {}
  <2>1. PICK m, n \in Nat : m = hdr[a].size /\ n = hdr[b].size
    BY <1>2 DEF Blocks
  <2>2. a \in Nat /\ b \in Nat /\ (a + m <= b \/ b + n <= a)
    BY <1>1, <1>2, <1>4, <2>1 DEF Tiles, Blocks
  <2> QED
    BY <2>1, <2>2 DEF Span
<1> QED
  BY <1>3, <1>4, Zenon DEF BlocksTile

(* The blocks of the heap fill its pages: none overlaps another, none is   *)
(* lost, whatever kmalloc splits and kfree merges.                         *)
THEOREM BlocksTileAlways == Spec => []BlocksTile
BY HeapSound, TilesSpans, PTL

LEMMA ListIsExact == IInv => FreeListExact
<1> SUFFICES ASSUME IInv, ~wild PROVE FreeListExact
  BY DEF FreeListExact
<1>1. Lists(free_list, FreeBlocks(hdr)) /\ DOMAIN held = Used(hdr)
  BY HeldSound DEF Sound, Structure
<1>2. Len(free_list) = Cardinality(FreeBlocks(hdr))
  BY <1>1, ListLength
<1>3. {free_list[i] : i \in 1..Len(free_list)} = FreeBlocks(hdr)
  BY <1>1 DEF Lists
<1> QED
  BY <1>1, <1>2, <1>3, Zenon DEF FreeListExact, FreeBlocks, Used, Blocks

(* The free list is exact: kmalloc never hands out a block somebody holds, *)
(* and no free block is forgotten.                                         *)
THEOREM FreeListAlwaysExact == Spec => []FreeListExact
BY HeapSound, ListIsExact, PTL

(* Every block has room for the header and the two list pointers fl_insert *)
(* writes into it.                                                         *)
THEOREM PointersAlwaysFit == Spec => []PointersFit
<1>1. IInv => PointersFit
  BY DEF IInv, Headers, PointersFit, Blocks
<1> QED
  BY <1>1, HeapSound, PTL

(* No call moves, resizes or frees a block that stays held.                *)
THEOREM HeldAlwaysUntouched == Spec => [][HeldStays]_vars
<1>1. IInv /\ [Next]_vars => [HeldStays]_vars
  BY StepSound
<1> QED
  BY <1>1, HeapSound, PTL DEF Spec

(* kmalloc hands out a block as large as it needs, or returns NULL because *)
(* no free block is large enough and the heap cannot grow any further      *)
(* (kheap.c:110-131, 173-206): its retries never give up sooner.           *)
THEOREM RefusedOnlyWhenFull ==
    Spec => [][\A size \in Sizes : kmalloc(size) => Refused(size) \/ \E b : Grants(b, size)]_vars
<1>1. IInv => [\A size \in Sizes : kmalloc(size) => Refused(size) \/ \E b : Grants(b, size)]_vars
  BY MallocStep
<1> QED
  BY <1>1, HeapSound, PTL DEF Spec

-----------------------------------------------------------------------------
(* The heap implements Allocator.                                          *)

ChunkOf(f, k, b) == [first |-> b, last |-> b + f[b].size - 1, asked |-> k[b]]

\* A block lies where the kernel's pages are.
LEMMA BlockInRegion ==
    ASSUME NEW f, NEW pages, Tiles(f, pages), pages \subseteq KernelRegion,
           NEW b \in DOMAIN f
    PROVE  /\ b \in Nat /\ f[b].size \in Nat /\ f[b].size >= 2
           /\ ManagedBase <= b /\ b + f[b].size <= UserStart
<1>1. b \in Nat /\ f[b].size \in Nat /\ f[b].size >= 2
  BY DEF Tiles, Headers, MinBlock
<1>2. PICK x : x = b + f[b].size - 1
  OBVIOUS
<1>3. /\ b >= ManagedBase
      /\ x \in Int /\ PageOf(x) \in pages
  <2>1. b \in Int /\ b <= b /\ b < b + f[b].size
    BY <1>1
  <2>2. x \in Int /\ b <= x /\ x < b + f[b].size
    BY <1>1, <1>2
  <2> QED
    BY <2>1, <2>2 DEF Tiles
<1>4. x < UserStart
  <2>1. PICK d \in Nat \ {0}, u \in Nat, m \in Nat :
          d = PageSize /\ u = UserStart /\ m = ManagedBase
    BY PmmAssumption
  <2>2. PageOf(x) < KernelEnd /\ KernelEnd \in Nat
    <3>1. PICK y : y = PageOf(x)
      OBVIOUS
    <3>2. y \in KernelRegion
      BY <1>3, <3>1
    <3> QED
      BY <3>1, <3>2, KernelEndNat DEF KernelRegion
  <2>3. PICK k \in Nat : k = (u - m) \div d /\ k = KernelEnd
    BY <2>1, <2>2 DEF KernelEnd
  <2>4. x - m < k * d
    <3>1. (x - m) \div d < k
      BY <2>1, <2>2, <2>3 DEF PageOf
    <3> QED
      BY <1>3, <2>1, <2>3, <3>1, DivAtLeast
  <2>5. u - m >= k * d
    <3>1. (u - m) \div d >= k
      BY <2>3
    <3> QED
      BY <2>1, <2>3, <3>1, DivAtLeast
  <2>6. PICK w \in Int : w = k * d
    BY <2>1, <2>3
  <2> QED
    BY <1>3, <2>1, <2>4, <2>5, <2>6
<1> QED
  BY <1>1, <1>2, <1>3, <1>4, PmmAssumption

\* Up to MaxRequest kmalloc's sum does not wrap.
LEMMA NeededCovers ==
    ASSUME NEW size \in Sizes, size <= MaxRequest
    PROVE  Needed(size) >= size + 1
<1>1. PICK a \in Nat \ {0} : a = AddrSpace
  BY PmmAssumption
<1>2. size \in Nat /\ size + 1 < a
  BY <1>1, HeapAssumption DEF MaxRequest, HeaderSize
<1>3. size % a = size /\ (size + 1) % a = size + 1
  BY <1>2
<1> QED
  BY <1>1, <1>2, <1>3 DEF Needed, PageMax, HeaderSize, MinBlock

\* A chunk that stays held is the same afterwards.
LEMMA ChunkStays ==
    ASSUME HeldStays, NEW b \in DOMAIN held \cap DOMAIN held', held'[b] = held[b]
    PROVE  ChunkOf(hdr', held', b) = ChunkOf(hdr, held, b)
BY DEF HeldStays, ChunkOf

LEMMA ChunksAre ==
    /\ Chunks = {ChunkOf(hdr, held, b) : b \in DOMAIN held}
    /\ Chunks' = {ChunkOf(hdr', held', b) : b \in DOMAIN held'}
BY Zenon DEF Chunks, ChunkOf

\* Nothing handed out, nothing given back.
LEMMA StutterRefines ==
    ASSUME HeldStays, held' = held PROVE UNCHANGED Chunks
BY ChunksAre, ChunkStays, Zenon

\* A grant is an allocation.
LEMMA GrantRefines ==
    ASSUME HeldStays, NEW size \in Sizes, NEW b, Grants(b, size),
           Tiles(hdr', heap_pages'), heap_pages' \subseteq KernelRegion,
           DOMAIN held' \subseteq DOMAIN hdr'
    PROVE  Callers!Next
<1>1. PICK c : c = ChunkOf(hdr', held', b)
  OBVIOUS
<1>2. /\ b \notin DOMAIN held /\ held' = With(held, b, size)
      /\ b \in DOMAIN hdr' /\ hdr'[b].size >= Needed(size)
  BY DEF Grants
<1>3. /\ DOMAIN held' = DOMAIN held \cup {b} /\ held'[b] = size
      /\ \A x \in DOMAIN held : held'[x] = held[x]
  BY <1>2 DEF With
<1>4. PICK n : n = hdr'[b].size
  OBVIOUS
<1>5. c = [first |-> b, last |-> b + n - 1, asked |-> size]
  BY <1>1, <1>3, <1>4, Zenon DEF ChunkOf
<1>6. /\ b \in Nat /\ n \in Nat /\ n >= 2 /\ ManagedBase <= b /\ b + n <= UserStart
  BY <1>2, <1>4, BlockInRegion
<1>7. c.first = b /\ c.last = b + n - 1 /\ c.asked = size
  BY <1>5
<1>8. c \in Callers!Chunk
  <2>1. b \in ManagedBase..(UserStart - 1) /\ b + n - 1 \in ManagedBase..(UserStart - 1)
    BY <1>6, PmmAssumption
  <2>2. c \in [first : ManagedBase..(UserStart - 1), last : ManagedBase..(UserStart - 1),
                asked : Sizes]
    BY <1>5, <2>1
  <2> QED
    BY <1>6, <1>7, <2>2 DEF Callers!Chunk
<1>9. Callers!LargeEnough(c)
  <2>1. SUFFICES ASSUME size <= MaxRequest PROVE c.last - c.first >= size
    BY <1>7 DEF Callers!LargeEnough
  <2>2. n >= Needed(size) /\ Needed(size) >= size + 1 /\ Needed(size) \in Nat /\ size \in Nat
    BY <1>2, <1>4, <2>1, NeededCovers, NeededType, HeapAssumption
  <2> QED
    BY <1>6, <1>7, <2>2
<1>10. \A x \in DOMAIN held : ChunkOf(hdr', held', x) = ChunkOf(hdr, held, x)
  BY <1>3, ChunkStays
<1>11. ASSUME NEW d \in Chunks PROVE Callers!Apart(c, d) /\ d # c
  <2>1. PICK x \in DOMAIN held : d = ChunkOf(hdr', held', x)
    BY <1>10, ChunksAre
  <2>2. PICK k : k = hdr'[x].size
    OBVIOUS
  <2>3. d.first = x /\ d.last = x + k - 1
    BY <2>1, <2>2 DEF ChunkOf
  <2>4. x # b /\ x \in DOMAIN hdr'
    BY <1>2, <1>3
  <2>5. x \in Nat /\ k \in Nat
    BY <2>2, <2>4, BlockInRegion
  <2>6. x + k <= b \/ b + n <= x
    BY <1>2, <1>4, <2>2, <2>4 DEF Tiles
  <2> QED
    BY <1>6, <1>7, <2>3, <2>4, <2>5, <2>6 DEF Callers!Apart
<1>12. Chunks' = Chunks \cup {c}
  BY <1>1, <1>3, <1>10, ChunksAre, Zenon
<1>13. Callers!Allocate(c)
  BY <1>8, <1>9, <1>11, <1>12 DEF Callers!Allocate
<1>14. c \in Chunks' \ Chunks
  BY <1>11, <1>12
<1> QED
  BY <1>13, <1>14 DEF Callers!Next

\* kfree is a release, also when its walk goes wild.
LEMMA FreeRefines ==
    ASSUME HeldStays, NEW b \in DOMAIN held, held' = Without(held, b) PROVE Callers!Next
<1>1. PICK c : c = ChunkOf(hdr, held, b)
  OBVIOUS
<1>2. DOMAIN held' = DOMAIN held \ {b} /\ \A x \in DOMAIN held' : held'[x] = held[x]
  BY DEF Without
<1>3. \A x \in DOMAIN held' : ChunkOf(hdr', held', x) = ChunkOf(hdr, held, x)
  BY <1>2, ChunkStays
<1>4. \A x, y : ChunkOf(hdr, held, x) = ChunkOf(hdr, held, y) => x = y
  BY DEF ChunkOf
<1>5. Chunks' = Chunks \ {c}
  BY <1>1, <1>2, <1>3, <1>4, ChunksAre
<1>6. c \in Chunks \ Chunks'
  BY <1>1, <1>5, ChunksAre
<1> QED
  BY <1>5, <1>6 DEF Callers!Next, Callers!Release

LEMMA NextRefines == IInv /\ [Next]_vars => [Callers!Next]_Chunks
<1> SUFFICES ASSUME IInv, [Next]_vars PROVE Callers!Next \/ UNCHANGED Chunks
  OBVIOUS
<1>1. ASSUME NEW size \in Sizes, kmalloc(size) PROVE Callers!Next \/ UNCHANGED Chunks
  <2>1. IInv' /\ HeldStays /\ (held' = held \/ \E b : Grants(b, size))
    BY <1>1, MallocStep DEF Refused
  <2>2. ~wild'
    BY <1>1 DEF kmalloc
  <2>3. /\ Tiles(hdr', heap_pages') /\ heap_pages' \subseteq KernelRegion
        /\ DOMAIN held' \subseteq DOMAIN hdr'
    BY <2>1, <2>2 DEF IInv, Sound, Structure, Heap
  <2> QED
    BY <2>1, <2>3, GrantRefines, StutterRefines
<1>2. ASSUME NEW b \in DOMAIN held, kfree(b) PROVE Callers!Next
  BY <1>2, FreeStep, FreeRefines
<1>3. CASE OtherPage
  <2>1. HeldStays /\ held' = held
    BY <1>3, OtherPageStep DEF OtherPage
  <2> QED
    BY <2>1, StutterRefines
<1>4. CASE UNCHANGED vars
  BY <1>4 DEF vars, Chunks
<1> QED
  BY <1>1, <1>2, <1>3, <1>4 DEF Next

LEMMA InitRefines == Init => Callers!Init
<1> SUFFICES ASSUME Init PROVE Chunks = {}
  BY DEF Callers!Init
<1>1. DOMAIN held = {}
  BY DEF Init
<1> QED
  BY <1>1, ChunksAre, Zenon

(* kmalloc and kfree implement Allocator: no two callers share memory,     *)
(* each has what it asked for, up to MaxRequest, and keeps it until it is  *)
(* freed (kheap.c:168-231).                                                *)
THEOREM ImplementsAllocatorHolds == Spec => ImplementsAllocator
<1>1. IInv /\ [Next]_vars => [Callers!Next]_Chunks
  BY NextRefines
<1> QED
  BY <1>1, InitRefines, HeapSound, PTL DEF Spec, ImplementsAllocator, Callers!Spec
=============================================================================
