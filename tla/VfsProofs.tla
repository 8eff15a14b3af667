------------------------------- MODULE VfsProofs -------------------------------
(***************************************************************************)
(* The file system calls give each name one file, keep every offset inside *)
(* its file and implement FileStore, for all sets of tasks and paths and   *)
(* all bounds.                                                             *)
(***************************************************************************)
EXTENDS Vfs, SequenceTheorems, WellFoundedInduction, TLAPS

\* Files are numbered as they are created, and each goes first.
NewestFirst == \A i \in 1 .. Len(children) : children[i] = Len(children) + 1 - i

IInv == TypeOK /\ NewestFirst /\ OffsetInFile /\ OneFilePerName

-----------------------------------------------------------------------------
(* A function on 1 .. m is a sequence of length m.                         *)
LEMMA LenOfFunction ==
    ASSUME NEW m \in Nat, NEW w \in [1 .. m -> Nat] PROVE w \in Seq(Nat) /\ Len(w) = m
OBVIOUS

(* A set of naturals has a least element.                                  *)
LEMMA Least ==
    ASSUME NEW S, S \subseteq Nat, S # {}
    PROVE  \E s \in S : \A r \in S : s <= r
<1>1. PICK s \in S : \A r \in S : ~(<<r, s>> \in OpToRel(<, Nat))
  BY NatLessThanWellFounded, WFMin
<1>2. \A r \in S : ~(r < s)
  BY <1>1 DEF OpToRel
<1> QED
  BY <1>2

(* What creating a file does to the list of children: its number is new.   *)
LEMMA CreateEffect ==
    ASSUME TypeOK, NewestFirst, NEW path, Len(children) < MaxFiles, ramfs_create(path)
    PROVE  /\ Len(children) + 1 \in Files \ Created
           /\ children' \in Seq(Files)
           /\ Len(children') = Len(children) + 1
           /\ NewestFirst'
           /\ Created' = Created \cup {Len(children) + 1}
           /\ name' = [name EXCEPT ![Len(children) + 1] = path.parts[1]]
           /\ data' = [data EXCEPT ![Len(children) + 1] = <<>>]
<1> DEFINE f == Len(children) + 1
<1>1. children \in Seq(Files) /\ MaxFiles \in Nat
  BY MaxAssumption DEF TypeOK
<1>2. PICK n \in Nat : n = Len(children)
  BY <1>1, LenProperties
<1>3. f \in Files
  BY <1>1, <1>2 DEF Files
<1>4. <<f>> \in Seq(Files) /\ Len(<<f>>) = 1 /\ <<f>>[1] = f
  BY <1>3
<1>5. children' = <<f>> \o children
  BY DEF ramfs_create
<1> HIDE DEF f
<1>6. /\ children' \in Seq(Files)
      /\ Len(children') = 1 + n
      /\ \A i \in 1 .. 1 + n : children'[i] = IF i <= 1 THEN <<f>>[i] ELSE children[i - 1]
  BY <1>1, <1>2, <1>4, <1>5, ConcatProperties
<1>7. f = n + 1
  BY <1>2 DEF f
<1>8. \A i \in 1 .. n : children[i] = n + 1 - i
  BY <1>2 DEF NewestFirst
<1>9. \A i \in 1 .. n + 1 : children'[i] = n + 2 - i
  <2> SUFFICES ASSUME NEW i \in 1 .. n + 1 PROVE children'[i] = n + 2 - i
    OBVIOUS
  <2>1. CASE i = 1
    BY <2>1, <1>2, <1>4, <1>6, <1>7
  <2>2. CASE i # 1
    <3>1. i - 1 \in 1 .. n /\ ~(i <= 1)
      BY <2>2, <1>2
    <3>2. children'[i] = children[i - 1]
      BY <3>1, <1>6
    <3> QED
      BY <3>1, <3>2, <1>2, <1>8
  <2> QED
    BY <2>1, <2>2
<1>10. NewestFirst'
  BY <1>2, <1>6, <1>9 DEF NewestFirst
<1>11. DOMAIN children = 1 .. n /\ DOMAIN children' = 1 .. n + 1
  BY <1>1, <1>2, <1>6, LenProperties
<1>12. Created = 1 .. n
  <2>1. \A i \in 1 .. n : children[i] \in 1 .. n
    BY <1>2, <1>8
  <2>2. \A k \in 1 .. n : n + 1 - k \in 1 .. n /\ children[n + 1 - k] = k
    BY <1>2, <1>8
  <2> QED
    BY <2>1, <2>2, <1>11, Zenon DEF Created
<1>13. Created' = 1 .. n + 1
  <2>1. \A i \in 1 .. n + 1 : children'[i] \in 1 .. n + 1
    BY <1>2, <1>9
  <2>2. \A k \in 1 .. n + 1 : n + 2 - k \in 1 .. n + 1 /\ children'[n + 2 - k] = k
    BY <1>2, <1>9
  <2> QED
    BY <2>1, <2>2, <1>11, Zenon DEF Created
<1>14. 1 .. n + 1 = (1 .. n) \cup {n + 1} /\ n + 1 \notin 1 .. n
  BY <1>2
<1>15. /\ name' = [name EXCEPT ![f] = path.parts[1]]
       /\ data' = [data EXCEPT ![f] = <<>>]
  BY DEF ramfs_create, f
<1> QED
  BY <1>2, <1>3, <1>6, <1>7, <1>10, <1>12, <1>13, <1>14, <1>15 DEF f

(* A lookup answers with a file of that name, or there is none.            *)
LEMMA LookupFinds ==
    ASSUME TypeOK, NEW n
    PROVE  \/ /\ ramfs_lookup(n) = None
              /\ \A f \in Created : name[f] # n
           \/ /\ ramfs_lookup(n) \in Created
              /\ name[ramfs_lookup(n)] = n
<1>1. children \in Seq(Files)
  BY DEF TypeOK
<1>2. Named(n) \subseteq Nat
  BY <1>1, LenProperties DEF Named
<1>3. CASE Named(n) = {}
  BY <1>3 DEF ramfs_lookup, Named, Created
<1>4. CASE Named(n) # {}
  <2>1. \E i \in Named(n) : \A j \in Named(n) : i <= j
    BY <1>2, <1>4, Least
  <2>2. PICK i \in Named(n) : ramfs_lookup(n) = children[i]
    BY <1>4, <2>1, Zenon DEF ramfs_lookup
  <2> QED
    BY <2>2 DEF Named, Created
<1> QED
  BY <1>3, <1>4

(* The children are files.                                                 *)
LEMMA CreatedAreFiles == ASSUME TypeOK PROVE Created \subseteq Files /\ None \notin Created
<1>1. children \in Seq(Files)
  BY DEF TypeOK
<1>2. \A i \in DOMAIN children : children[i] \in Files
  BY <1>1, ElementOfSeq, LenProperties
<1> QED
  BY <1>2, PathsAssumption DEF Created

(* What a path is found to be can be opened.                               *)
LEMMA PathFinds ==
    ASSUME TypeOK, NEW path \in Paths, vfs_lookup(path) # None
    PROVE  \/ vfs_lookup(path) = Root
           \/ /\ vfs_lookup(path) \in Created
              /\ \E n \in Names : vfs_lookup(path) = ramfs_lookup(n)
<1>1. CASE path.parts = <<>>
  BY <1>1 DEF vfs_lookup
<1>2. CASE path.parts # <<>>
  <2>1. Len(path.parts) = 1 /\ vfs_lookup(path) = ramfs_lookup(path.parts[1])
    BY <1>2 DEF vfs_lookup
  <2>2. path.parts[1] \in Names
    BY <2>1 DEF Names
  <2> QED
    BY <2>1, <2>2, LookupFinds
<1> QED
  BY <1>1, <1>2

(* The slot an open takes is free.                                         *)
LEMMA FreeFdIsFree ==
    ASSUME NEW t, FreeFds(t) # {}
    PROVE  FreeFd(t) \in Fds /\ fd_table[t][FreeFd(t)] = None
<1>1. FreeFds(t) \subseteq Nat
  BY MaxAssumption DEF FreeFds, Fds
<1>2. \E fd \in FreeFds(t) : \A other \in FreeFds(t) : fd <= other
  BY <1>1, Least
<1>3. FreeFd(t) \in FreeFds(t)
  BY <1>2, Zenon DEF FreeFd
<1> QED
  BY <1>3 DEF FreeFds

(* An open puts a handle at the start of its file in a slot that was free. *)
LEMMA OpenAsEffect ==
    ASSUME TypeOK, NEW t \in Tasks, FreeFds(t) # {}, NEW node \in Files \cup {Root},
           OpenAs(t, node)
    PROVE  /\ fd_table' \in [Tasks -> [Fds -> OpenFile \cup {None}]]
           /\ \E fd \in Fds :
                 /\ fd_table[t][fd] = None
                 /\ fd_table' = [fd_table EXCEPT ![t][fd] = [node |-> node, offset |-> 0]]
           /\ \A u \in Tasks, fd \in Fds :
                 \/ fd_table'[u][fd] = fd_table[u][fd]
                 \/ fd_table'[u][fd] = [node |-> node, offset |-> 0]
<1>1. PICK fd \in Fds : fd = FreeFd(t) /\ fd_table[t][fd] = None
  BY FreeFdIsFree
<1>2. fd_table' = [fd_table EXCEPT ![t][fd] = [node |-> node, offset |-> 0]]
  BY <1>1 DEF OpenAs
<1>3. [node |-> node, offset |-> 0] \in OpenFile
  BY MaxAssumption DEF OpenFile
<1>4. fd_table \in [Tasks -> [Fds -> OpenFile \cup {None}]]
  BY DEF TypeOK
<1> QED
  BY <1>1, <1>2, <1>3, <1>4

(* A read returns what is left of the file, or the size asked for.         *)
LEMMA ReadBounds ==
    ASSUME TypeOK, NEW f \in Files, NEW offset \in 0 .. MaxSize, offset <= Len(data[f]),
           NEW size \in ReadSizes
    PROVE  /\ ramfs_read(f, offset, size) \in Nat
           /\ offset + ramfs_read(f, offset, size) <= Len(data[f])
           /\ offset + ramfs_read(f, offset, size) \in 0 .. MaxSize
<1>1. data[f] \in Seq(Nat) /\ Len(data[f]) <= MaxSize
  BY DEF TypeOK
<1>2. PICK n \in Nat : n = Len(data[f])
  BY <1>1, LenProperties
<1>3. size \in Nat /\ MaxSize \in Nat
  BY ChunksAssumption, MaxAssumption
<1>4. n <= MaxSize
  BY <1>1, <1>2
<1>5. ramfs_read(f, offset, size) =
         IF offset >= n THEN 0 ELSE IF offset + size > n THEN n - offset ELSE size
  BY <1>2 DEF ramfs_read
<1> QED
  BY <1>2, <1>3, <1>4, <1>5

(* What a write makes of a file, when it starts inside.                    *)
LEMMA WriteEffect ==
    ASSUME TypeOK, NEW f \in Files, NEW offset \in 0 .. MaxSize, offset <= Len(data[f]),
           NEW chunk \in Chunks, NEW w, w = ramfs_write(f, offset, chunk)
    PROVE  /\ w \in Seq(Nat) /\ Len(w) \in Nat
           /\ Len(w) = IF offset + Len(chunk) > Len(data[f])
                       THEN offset + Len(chunk) ELSE Len(data[f])
           /\ \A i \in 1 .. Len(w) :
                 w[i] = IF offset < i /\ i <= offset + Len(chunk) THEN chunk[i - offset]
                        ELSE data[f][i]
<1>1. data[f] \in Seq(Nat) /\ chunk \in Seq(Nat)
  BY ChunksAssumption DEF TypeOK
<1>2. PICK n \in Nat : n = Len(data[f])
  BY <1>1, LenProperties
<1>3. PICK k \in Nat : k = Len(chunk)
  BY <1>1, LenProperties
<1>4. \A i \in 1 .. n : data[f][i] \in Nat
  BY <1>1, <1>2, ElementOfSeq
<1>5. \A i \in 1 .. k : chunk[i] \in Nat
  BY <1>1, <1>3, ElementOfSeq
<1> DEFINE m == IF offset + k > n THEN offset + k ELSE n
           e(i) == IF offset < i /\ i <= offset + k THEN chunk[i - offset]
                   ELSE IF i <= n THEN data[f][i] ELSE 0
<1>6. w = [i \in 1 .. m |-> e(i)]
  BY <1>2, <1>3 DEF ramfs_write
<1>7. m \in Nat /\ offset \in Nat /\ offset <= n
  BY <1>2, <1>3, MaxAssumption
<1>8. \A i \in 1 .. m : e(i) \in Nat
  <2> SUFFICES ASSUME NEW i \in 1 .. m PROVE e(i) \in Nat
    OBVIOUS
  <2>1. CASE offset < i /\ i <= offset + k
    <3>1. i - offset \in 1 .. k
      BY <2>1, <1>2, <1>3, <1>7
    <3> QED
      BY <2>1, <3>1, <1>5
  <2>2. CASE ~(offset < i /\ i <= offset + k)
    <3>1. i \in 1 .. n \/ ~(i <= n)
      BY <1>2, <1>7
    <3> QED
      BY <2>2, <3>1, <1>4
  <2> QED
    BY <2>1, <2>2
<1>9. \A i \in 1 .. m : e(i) = IF offset < i /\ i <= offset + k THEN chunk[i - offset]
                               ELSE data[f][i]
  BY <1>2, <1>3, <1>7
<1> HIDE DEF m, e
<1>10. w \in [1 .. m -> Nat]
  BY <1>6, <1>8
<1>11. w \in Seq(Nat) /\ Len(w) = m
  BY <1>7, <1>10, LenOfFunction
<1>12. \A i \in 1 .. m : w[i] = e(i)
  BY <1>6
<1> QED
  BY <1>2, <1>3, <1>7, <1>9, <1>11, <1>12 DEF m

-----------------------------------------------------------------------------
(* The invariant.                                                          *)

(* An open creates a file only under a name that no file has, or that no   *)
(* path searches for.                                                      *)
LEMMA CreatesNewName ==
    ASSUME IInv, NEW path \in Paths, MayCreate(path)
    PROVE  \A g \in Created : name[g] = path.parts[1] => path.parts[1] \notin Names
<1>1. CASE Len(path.parts) = 1
  <2>1. path.parts # <<>>
    BY <1>1
  <2>2. ramfs_lookup(path.parts[1]) = None
    BY <1>1, <2>1 DEF vfs_lookup, MayCreate
  <2>3. \A g \in Created : name[g] # path.parts[1]
    BY <2>2, LookupFinds, CreatedAreFiles DEF IInv
  <2> QED
    BY <2>3
<1>2. CASE Len(path.parts) # 1
  <2>1. path.parts \in Seq(STRING) /\ path.parts # <<>>
    BY PathsAssumption DEF MayCreate
  <2>2. Len(path.parts) > 1
    <3>1. PICK n \in Nat : n = Len(path.parts)
      BY <2>1, LenProperties
    <3>2. Len(path.parts) \in Nat \ {0}
      BY <2>1, EmptySeq, Zenon
    <3>3. n # 0 /\ n # 1
      BY <1>2, <3>1, <3>2, Zenon
    <3>4. n > 1
      BY <3>3
    <3> QED
      BY <3>1, <3>4, Zenon
  <2> QED
    BY <2>2, PathsAssumption DEF MayCreate
<1> QED
  BY <1>1, <1>2

(* Creating a file keeps the types, the order and the uniqueness of names. *)
LEMMA CreateKeeps ==
    ASSUME IInv, NEW path \in Paths, MayCreate(path), ramfs_create(path)
    PROVE  /\ children' \in Seq(Files) /\ Len(children') <= MaxFiles
           /\ name' \in [Files -> {p.parts[1] : p \in {q \in Paths : q.creates}} \cup {None}]
           /\ data' \in [Files -> Seq(Nat)] /\ \A f \in Files : Len(data'[f]) <= MaxSize
           /\ NewestFirst'
           /\ OneFilePerName'
<1> DEFINE f == Len(children) + 1
           CreatedNames == {p.parts[1] : p \in {q \in Paths : q.creates}}
<1>1. TypeOK /\ NewestFirst /\ OneFilePerName
  BY DEF IInv
<1>2. path.creates /\ Len(children) < MaxFiles /\ vfs_lookup(path) = None
  BY DEF MayCreate
<1>3. /\ f \in Files \ Created
      /\ children' \in Seq(Files)
      /\ Len(children') = f
      /\ NewestFirst'
      /\ Created' = Created \cup {f}
      /\ name' = [name EXCEPT ![f] = path.parts[1]]
      /\ data' = [data EXCEPT ![f] = <<>>]
  BY <1>1, <1>2, CreateEffect
<1>4. name \in [Files -> CreatedNames \cup {None}]
      /\ data \in [Files -> Seq(Nat)] /\ \A g \in Files : Len(data[g]) <= MaxSize
  BY <1>1 DEF TypeOK
<1>5. path.parts[1] \in CreatedNames
  BY <1>2
<1> HIDE DEF f, CreatedNames
<1>6. Len(children') <= MaxFiles
  BY <1>3, MaxAssumption DEF Files
<1>7. name' \in [Files -> CreatedNames \cup {None}]
  BY <1>3, <1>4, <1>5
<1>8. Len(<<>>) <= MaxSize /\ <<>> \in Seq(Nat)
  BY MaxAssumption
<1>9. data' \in [Files -> Seq(Nat)]
  BY <1>3, <1>4, <1>8
<1>10. \A g \in Files : Len(data'[g]) <= MaxSize
  BY <1>3, <1>4, <1>8
<1>11. \A g \in Created : name[g] = path.parts[1] => path.parts[1] \notin Names
  BY CreatesNewName
<1>12. OneFilePerName'
  <2> SUFFICES ASSUME NEW g \in Created', NEW h \in Created', name'[g] = name'[h],
                      name'[g] \in Names, g # h
               PROVE  FALSE
    BY Zenon DEF OneFilePerName, Names
  <2>1. \A k \in Created : k \in Files /\ k # f /\ name'[k] = name[k]
    BY <1>1, <1>3, <1>4, CreatedAreFiles
  <2>2. name'[f] = path.parts[1]
    BY <1>3, <1>4
  <2>3. CASE g \in Created /\ h \in Created
    BY <2>1, <2>3, <1>1 DEF OneFilePerName
  <2>4. CASE g = f \/ h = f
    <3>1. \E k \in Created : name[k] = path.parts[1] /\ path.parts[1] \in Names
      BY <2>1, <2>2, <2>4, <1>3
    <3> QED
      BY <3>1, <1>11
  <2> QED
    BY <2>3, <2>4, <1>3
<1> QED
  BY <1>3, <1>6, <1>7, <1>9, <1>10, <1>12 DEF CreatedNames

LEMMA InitIInv == Init => IInv
<1> SUFFICES ASSUME Init PROVE IInv
  OBVIOUS
<1>1. children = <<>> /\ Len(<<>>) = 0 /\ <<>> \in Seq(Files) /\ DOMAIN <<>> = {}
  BY DEF Init
<1>2. Created = {}
  BY <1>1 DEF Created
<1>3. TypeOK
  <2>1. name \in [Files -> {path.parts[1] : path \in {p \in Paths : p.creates}} \cup {None}]
    BY DEF Init
  <2>2. data \in [Files -> Seq(Nat)] /\ \A f \in Files : Len(data[f]) <= MaxSize
    BY <1>1, MaxAssumption DEF Init
  <2>3. fd_table \in [Tasks -> [Fds -> OpenFile \cup {None}]]
    BY DEF Init
  <2>4. listing = None
    BY DEF Init
  <2>5. Len(children) <= MaxFiles
    BY <1>1, MaxAssumption
  <2> QED
    BY <1>1, <2>1, <2>2, <2>3, <2>4, <2>5 DEF TypeOK
<1>4. NewestFirst
  BY <1>1 DEF NewestFirst
<1>5. OffsetInFile
  BY DEF Init, OffsetInFile
<1>6. OneFilePerName
  BY <1>2 DEF OneFilePerName
<1> QED
  BY <1>3, <1>4, <1>5, <1>6 DEF IInv

(* Handles that stay as they were, or start at the beginning of a file,    *)
(* stay inside their files as long as no file shrinks.                     *)
LEMMA OffsetsStay ==
    ASSUME IInv, NEW node \in Created' \cup {Root},
           Created \subseteq Created',
           \A f \in Created : Len(data'[f]) >= Len(data[f]),
           \A f \in Files : data'[f] \in Seq(Nat),
           \A u \in Tasks, fd \in Fds :
              \/ fd_table'[u][fd] = fd_table[u][fd]
              \/ fd_table'[u][fd] = [node |-> node, offset |-> 0],
           Created' \subseteq Files
    PROVE  OffsetInFile'
<1> SUFFICES ASSUME NEW u \in Tasks, NEW fd \in Fds,
                    fd_table'[u][fd] # None, fd_table'[u][fd].node # Root
             PROVE  /\ fd_table'[u][fd].node \in Created'
                    /\ fd_table'[u][fd].offset <= Len(data'[fd_table'[u][fd].node])
  BY Zenon DEF OffsetInFile
<1>1. CASE fd_table'[u][fd] = fd_table[u][fd]
  <2> DEFINE file == fd_table[u][fd]
  <2>1. file.node \in Created /\ file.offset <= Len(data[file.node])
    BY <1>1 DEF IInv, OffsetInFile
  <2>2. file \in OpenFile
    BY <1>1 DEF IInv, TypeOK
  <2>3. file.offset \in Int
    BY <2>2, MaxAssumption DEF OpenFile
  <2>4. data[file.node] \in Seq(Nat) /\ data'[file.node] \in Seq(Nat)
    BY <2>1 DEF IInv, TypeOK
  <2>5. PICK m \in Nat : m = Len(data[file.node])
    BY <2>4, LenProperties
  <2>6. PICK n \in Nat : n = Len(data'[file.node])
    BY <2>4, LenProperties
  <2>7. m <= n
    BY <2>1, <2>5, <2>6
  <2>8. file.offset <= n
    BY <2>1, <2>3, <2>5, <2>7
  <2> QED
    BY <1>1, <2>1, <2>6, <2>8
<1>2. CASE fd_table'[u][fd] = [node |-> node, offset |-> 0]
  <2>1. node \in Created' /\ data'[node] \in Seq(Nat)
    BY <1>2
  <2>2. Len(data'[node]) \in Nat
    BY <2>1, LenProperties
  <2> QED
    BY <1>2, <2>1, <2>2
<1> QED
  BY <1>1, <1>2

(* vfs_open, whatever becomes of it.                                       *)
LEMMA OpenKeeps ==
    ASSUME IInv, NEW t \in Tasks, NEW path \in Paths,
           OpenFound(t, path) \/ OpenCreated(t, path) \/ OpenCreatedOnly(t, path)
    PROVE  IInv'
<1>1. TypeOK /\ NewestFirst /\ OffsetInFile /\ OneFilePerName
  BY DEF IInv
<1>2. CASE OpenFound(t, path)
  <2>1. FreeFds(t) # {} /\ vfs_lookup(path) # None /\ OpenAs(t, vfs_lookup(path))
    BY <1>2 DEF OpenFound
  <2>2. UNCHANGED <<children, name, data, listing>>
    BY <1>2 DEF OpenFound
  <2>3. vfs_lookup(path) \in Created \cup {Root}
    BY <1>1, <2>1, PathFinds
  <2>4. Created \subseteq Files
    BY <1>1, CreatedAreFiles
  <2>5. /\ fd_table' \in [Tasks -> [Fds -> OpenFile \cup {None}]]
        /\ \A u \in Tasks, fd \in Fds :
              \/ fd_table'[u][fd] = fd_table[u][fd]
              \/ fd_table'[u][fd] = [node |-> vfs_lookup(path), offset |-> 0]
    BY <1>1, <2>1, <2>3, <2>4, OpenAsEffect
  <2>6. Created' = Created
    BY <2>2 DEF Created
  <2>7. data \in [Files -> Seq(Nat)]
    BY <1>1 DEF TypeOK
  <2>8. \A f \in Created : Len(data'[f]) >= Len(data[f])
    BY <2>2, <2>4, <2>7, LenProperties
  <2>9. OffsetInFile'
    <3>1. \A f \in Files : data'[f] \in Seq(Nat)
      BY <2>2, <2>7
    <3> QED
      BY <3>1, <2>3, <2>4, <2>5, <2>6, <2>8, OffsetsStay
  <2>10. TypeOK'
    BY <1>1, <2>2, <2>5 DEF TypeOK
  <2>11. NewestFirst' /\ OneFilePerName'
    BY <1>1, <2>2, <2>6, Zenon DEF NewestFirst, OneFilePerName, Names
  <2> QED
    BY <2>9, <2>10, <2>11 DEF IInv
<1>3. CASE OpenCreated(t, path) \/ OpenCreatedOnly(t, path)
  <2> DEFINE f == Len(children) + 1
  <2>1. MayCreate(path) /\ ramfs_create(path) /\ UNCHANGED listing /\ Len(children) < MaxFiles
    BY <1>3 DEF OpenCreated, OpenCreatedOnly, MayCreate
  <2>2. /\ children' \in Seq(Files) /\ Len(children') <= MaxFiles
        /\ name' \in [Files -> {p.parts[1] : p \in {q \in Paths : q.creates}} \cup {None}]
        /\ data' \in [Files -> Seq(Nat)] /\ \A g \in Files : Len(data'[g]) <= MaxSize
        /\ NewestFirst' /\ OneFilePerName'
    BY <2>1, CreateKeeps
  <2>3. /\ f \in Files \ Created
        /\ Created' = Created \cup {f}
        /\ data' = [data EXCEPT ![f] = <<>>]
    BY <1>1, <2>1, CreateEffect
  <2> HIDE DEF f
  <2>4. Created \subseteq Files /\ Created' \subseteq Files
    BY <1>1, <2>3, CreatedAreFiles
  <2>5. /\ fd_table' \in [Tasks -> [Fds -> OpenFile \cup {None}]]
        /\ \A u \in Tasks, fd \in Fds :
              \/ fd_table'[u][fd] = fd_table[u][fd]
              \/ fd_table'[u][fd] = [node |-> f, offset |-> 0]
    <3>1. CASE OpenCreated(t, path)
      <4>1. FreeFds(t) # {} /\ OpenAs(t, f)
        BY <3>1 DEF OpenCreated, f
      <4> QED
        BY <1>1, <2>3, <4>1, OpenAsEffect
    <3>2. CASE OpenCreatedOnly(t, path)
      BY <3>2, <1>1 DEF OpenCreatedOnly, TypeOK
    <3> QED
      BY <1>3, <3>1, <3>2
  <2>6. \A g \in Created : data'[g] = data[g]
    BY <1>1, <2>3, <2>4 DEF TypeOK
  <2>7. \A g \in Created : Len(data'[g]) >= Len(data[g])
    <3>1. \A g \in Created : Len(data[g]) \in Nat
      BY <1>1, <2>4, LenProperties DEF TypeOK
    <3> QED
      BY <3>1, <2>6
  <2>8. OffsetInFile'
    BY <2>2, <2>3, <2>4, <2>5, <2>7, OffsetsStay
  <2>9. TypeOK'
    BY <1>1, <2>1, <2>2, <2>5 DEF TypeOK
  <2> QED
    BY <2>2, <2>8, <2>9 DEF IInv
<1> QED
  BY <1>2, <1>3

(* What a usable descriptor of a file stands for.                          *)
LEMMA UsableFile ==
    ASSUME IInv, NEW t \in Tasks, NEW fd, Usable(t, fd), fd_table[t][fd].node # Root
    PROVE  /\ fd \in Fds
           /\ fd_table[t][fd] \in OpenFile
           /\ fd_table[t][fd].node \in Created /\ fd_table[t][fd].node \in Files
           /\ fd_table[t][fd].offset \in 0 .. MaxSize
           /\ fd_table[t][fd].offset <= Len(data[fd_table[t][fd].node])
<1>1. fd \in Fds /\ fd_table[t][fd] # None
  BY DEF Usable
<1>2. fd_table[t][fd] \in OpenFile
  BY <1>1 DEF IInv, TypeOK
<1>3. /\ fd_table[t][fd].node \in Created
      /\ fd_table[t][fd].offset <= Len(data[fd_table[t][fd].node])
  BY <1>1 DEF IInv, OffsetInFile
<1>4. fd_table[t][fd].node \in Files
  BY <1>3, CreatedAreFiles DEF IInv
<1> QED
  BY <1>1, <1>2, <1>3, <1>4 DEF OpenFile

(* SYSCALL_READ.                                                           *)
LEMMA ReadKeeps ==
    ASSUME IInv, NEW t \in Tasks, NEW fd, NEW size \in ReadSizes, Read(t, fd, size)
    PROVE  IInv'
<1> DEFINE file == fd_table[t][fd]
           n == ramfs_read(file.node, file.offset, size)
<1>1. Usable(t, fd) /\ file.node # Root /\ UNCHANGED <<children, name, data, listing>>
  BY DEF Read
<1>2. fd_table' = [fd_table EXCEPT ![t][fd].offset = @ + n]
  BY DEF Read
<1>3. /\ fd \in Fds /\ file \in OpenFile /\ file.node \in Files
      /\ file.offset \in 0 .. MaxSize /\ file.offset <= Len(data[file.node])
      /\ file.node \in Created
  BY <1>1, UsableFile
<1>4. n \in Nat /\ file.offset + n <= Len(data[file.node]) /\ file.offset + n \in 0 .. MaxSize
  BY <1>3, ReadBounds DEF IInv
<1> HIDE DEF n
<1> DEFINE moved == [file EXCEPT !.offset = @ + n]
<1>5. /\ moved \in OpenFile /\ moved.node = file.node /\ moved.offset = file.offset + n
  BY <1>3, <1>4 DEF OpenFile
<1>6. fd_table \in [Tasks -> [Fds -> OpenFile \cup {None}]]
  BY DEF IInv, TypeOK
<1>7. fd_table' = [fd_table EXCEPT ![t][fd] = moved]
  BY <1>2, <1>3, <1>6
<1> HIDE DEF moved
<1>8. /\ fd_table' \in [Tasks -> [Fds -> OpenFile \cup {None}]]
      /\ \A u \in Tasks, g \in Fds : fd_table'[u][g] = fd_table[u][g] \/ fd_table'[u][g] = moved
  BY <1>3, <1>5, <1>6, <1>7
<1>9. Created' = Created
  BY <1>1 DEF Created
<1>10. OffsetInFile'
  BY <1>1, <1>3, <1>4, <1>5, <1>8, <1>9 DEF IInv, OffsetInFile
<1>11. TypeOK'
  BY <1>1, <1>8 DEF IInv, TypeOK
<1>12. NewestFirst' /\ OneFilePerName'
  BY <1>1, <1>9, Zenon DEF IInv, NewestFirst, OneFilePerName, Names
<1> QED
  BY <1>10, <1>11, <1>12 DEF IInv

(* SYSCALL_WRITE: the file does not shrink and the offset ends inside it.  *)
LEMMA WriteKeeps ==
    ASSUME IInv, NEW t \in Tasks, NEW fd, NEW chunk \in Chunks, Write(t, fd, chunk)
    PROVE  IInv'
<1> DEFINE file == fd_table[t][fd]
           w == ramfs_write(file.node, file.offset, chunk)
<1>1. /\ Usable(t, fd) /\ file.node # Root /\ UNCHANGED <<children, name, listing>>
      /\ file.offset + Len(chunk) <= MaxSize
      /\ data' = [data EXCEPT ![file.node] = w]
      /\ fd_table' = [fd_table EXCEPT ![t][fd].offset = @ + Len(chunk)]
  BY DEF Write
<1>2. /\ fd \in Fds /\ file \in OpenFile /\ file.node \in Files
      /\ file.offset \in 0 .. MaxSize /\ file.offset <= Len(data[file.node])
      /\ file.node \in Created
  BY <1>1, UsableFile
<1>3. /\ w \in Seq(Nat)
      /\ Len(w) = IF file.offset + Len(chunk) > Len(data[file.node])
                  THEN file.offset + Len(chunk) ELSE Len(data[file.node])
  BY <1>2, WriteEffect DEF IInv
<1> HIDE DEF w
<1>4. PICK k \in Nat : k = Len(chunk)
  BY ChunksAssumption, LenProperties
<1>5. /\ data \in [Files -> Seq(Nat)] /\ \A f \in Files : Len(data[f]) <= MaxSize
      /\ fd_table \in [Tasks -> [Fds -> OpenFile \cup {None}]]
  BY DEF IInv, TypeOK
<1>6. \A f \in Files : Len(data[f]) \in Nat
  BY <1>5, LenProperties
<1>7. /\ data' \in [Files -> Seq(Nat)]
      /\ data'[file.node] = w /\ \A f \in Files : f # file.node => data'[f] = data[f]
  BY <1>1, <1>2, <1>3, <1>5
<1>8. PICK m \in Nat : m = Len(data[file.node])
  BY <1>2, <1>6
<1>9. PICK o \in 0 .. MaxSize : o = file.offset
  BY <1>2
<1>10. m <= MaxSize /\ o + k <= MaxSize /\ o <= m /\ MaxSize \in Nat
  BY <1>1, <1>2, <1>4, <1>5, <1>8, <1>9, MaxAssumption
<1>11. Len(w) = IF o + k > m THEN o + k ELSE m
  BY <1>3, <1>4, <1>8, <1>9
<1>12. Len(w) <= MaxSize /\ m <= Len(w) /\ o + k <= Len(w) /\ Len(w) \in Nat
  BY <1>10, <1>11
<1>13. \A f \in Files : Len(data'[f]) <= MaxSize /\ Len(data'[f]) >= Len(data[f])
  <2> SUFFICES ASSUME NEW f \in Files
               PROVE  Len(data'[f]) <= MaxSize /\ Len(data'[f]) >= Len(data[f])
    OBVIOUS
  <2>1. CASE f = file.node
    <3>1. data'[f] = w /\ Len(data[f]) = m
      BY <2>1, <1>7, <1>8
    <3>2. Len(w) <= MaxSize /\ Len(w) >= m
      BY <1>12
    <3> QED
      BY <3>1, <3>2, Zenon
  <2>2. CASE f # file.node
    <3>1. data'[f] = data[f]
      BY <2>2, <1>7
    <3>2. PICK l \in Nat : l = Len(data[f])
      BY <1>6
    <3>3. l <= MaxSize /\ l >= l
      BY <3>2, <1>5
    <3> QED
      BY <3>1, <3>2, <3>3, Zenon
  <2> QED
    BY <2>1, <2>2
<1> DEFINE moved == [file EXCEPT !.offset = @ + k]
<1>14. /\ moved \in OpenFile /\ moved.node = file.node /\ moved.offset = o + k
  BY <1>2, <1>9, <1>10 DEF OpenFile
<1>15. fd_table' = [fd_table EXCEPT ![t][fd] = moved]
  BY <1>1, <1>2, <1>4, <1>5
<1> HIDE DEF moved
<1>16. /\ fd_table' \in [Tasks -> [Fds -> OpenFile \cup {None}]]
       /\ \A u \in Tasks, g \in Fds : fd_table'[u][g] = fd_table[u][g] \/ fd_table'[u][g] = moved
  BY <1>2, <1>5, <1>14, <1>15
<1>17. Created' = Created
  BY <1>1 DEF Created
<1>18. OffsetInFile'
  <2> SUFFICES ASSUME NEW u \in Tasks, NEW g \in Fds,
                      fd_table'[u][g] # None, fd_table'[u][g].node # Root
               PROVE  /\ fd_table'[u][g].node \in Created
                      /\ fd_table'[u][g].offset <= Len(data'[fd_table'[u][g].node])
    BY <1>17, Zenon DEF OffsetInFile
  <2>1. CASE fd_table'[u][g] = fd_table[u][g]
    <3> DEFINE other == fd_table[u][g]
    <3>1. other \in OpenFile /\ other.node \in Created /\ other.offset <= Len(data[other.node])
      BY <2>1, <1>5 DEF IInv, OffsetInFile
    <3>2. other.node \in Files
      BY <3>1, CreatedAreFiles DEF IInv
    <3>3. PICK p \in Int : p = other.offset
      BY <3>1, MaxAssumption DEF OpenFile
    <3>4. PICK l \in Nat : l = Len(data[other.node])
      BY <3>2, <1>6
    <3>5. data'[other.node] \in Seq(Nat)
      BY <3>2, <1>7
    <3>6. PICK l2 \in Nat : l2 = Len(data'[other.node])
      BY <3>5, LenProperties
    <3>7. p <= l /\ l <= l2
      BY <3>1, <3>2, <3>3, <3>4, <3>6, <1>13
    <3>8. p <= l2
      BY <3>7
    <3> QED
      BY <2>1, <3>1, <3>3, <3>6, <3>8
  <2>2. CASE fd_table'[u][g] = moved
    BY <2>2, <1>2, <1>7, <1>12, <1>14
  <2> QED
    BY <2>1, <2>2, <1>16
<1>19. TypeOK'
  BY <1>1, <1>7, <1>13, <1>16 DEF IInv, TypeOK
<1>20. NewestFirst' /\ OneFilePerName'
  BY <1>1, <1>17, Zenon DEF IInv, NewestFirst, OneFilePerName, Names
<1> QED
  BY <1>18, <1>19, <1>20 DEF IInv

(* SYSCALL_CLOSE.                                                          *)
LEMMA CloseKeeps ==
    ASSUME IInv, NEW t \in Tasks, NEW fd, Close(t, fd)
    PROVE  IInv'
<1>1. /\ fd \in Fds /\ UNCHANGED <<children, name, data, listing>>
      /\ fd_table' = [fd_table EXCEPT ![t][fd] = None]
  BY DEF Close, Usable
<1>2. fd_table \in [Tasks -> [Fds -> OpenFile \cup {None}]]
  BY DEF IInv, TypeOK
<1>3. /\ fd_table' \in [Tasks -> [Fds -> OpenFile \cup {None}]]
      /\ \A u \in Tasks, g \in Fds : fd_table'[u][g] = fd_table[u][g] \/ fd_table'[u][g] = None
  BY <1>1, <1>2
<1>4. Created' = Created
  BY <1>1 DEF Created
<1>5. OffsetInFile'
  BY <1>1, <1>3, <1>4 DEF IInv, OffsetInFile
<1>6. TypeOK'
  BY <1>1, <1>3 DEF IInv, TypeOK
<1>7. NewestFirst' /\ OneFilePerName'
  BY <1>1, <1>4, Zenon DEF IInv, NewestFirst, OneFilePerName, Names
<1> QED
  BY <1>5, <1>6, <1>7 DEF IInv

(* A listing under way stays one.                                          *)
LEMMA ListEntryTyped ==
    ASSUME IInv, ListEntry PROVE listing \in Listing /\ listing' \in Listing
<1>1. /\ listing \in Listing
      /\ listing' = [listing EXCEPT !.index = @ + 1,
                                    !.shown = @ \cup {ramfs_readdir(listing.index)}]
  BY DEF ListEntry, IInv, TypeOK
<1>2. ramfs_readdir(listing.index) \in Files
  <2>1. listing.index < Len(children) /\ ramfs_readdir(listing.index) = children[listing.index + 1]
    BY DEF ListEntry, ramfs_readdir
  <2>2. children \in Seq(Files) /\ listing.index \in Nat
    BY <1>1 DEF IInv, TypeOK, Listing
  <2>3. PICK n \in Nat : n = Len(children)
    BY <2>2, LenProperties
  <2>4. listing.index + 1 \in 1 .. n
    BY <2>1, <2>2, <2>3
  <2> QED
    BY <2>1, <2>2, <2>3, <2>4, ElementOfSeq
<1>3. PICK x \in Files : x = ramfs_readdir(listing.index)
  BY <1>2
<1>4. listing' = [index |-> listing.index + 1, shown |-> listing.shown \cup {x},
                  present |-> listing.present]
  BY <1>1, <1>3 DEF Listing
<1>5. listing.index + 1 \in Nat /\ listing.shown \cup {x} \in SUBSET Files
      /\ listing.present \in SUBSET Files
  BY <1>1 DEF Listing
<1> QED
  BY <1>1, <1>4, <1>5 DEF Listing

(* The listing looks and changes no file.                                  *)
LEMMA ListingKeeps ==
    ASSUME IInv, ListStart \/ ListEntry \/ ListEnd PROVE IInv'
<1>1. UNCHANGED <<children, name, data, fd_table>>
  BY DEF ListStart, ListEntry, ListEnd
<1>2. Created' = Created
  BY <1>1 DEF Created
<1>3. listing' \in Listing \cup {None}
  <2>1. TypeOK /\ Created \subseteq Files
    BY CreatedAreFiles DEF IInv
  <2>2. CASE ListStart
    BY <2>1, <2>2 DEF ListStart, Listing
  <2>3. CASE ListEntry
    BY <2>3, ListEntryTyped
  <2>4. CASE ListEnd
    BY <2>4 DEF ListEnd
  <2> QED
    BY <2>2, <2>3, <2>4
<1>4. TypeOK'
  BY <1>1, <1>3 DEF IInv, TypeOK
<1>5. OffsetInFile'
  BY <1>1, <1>2 DEF IInv, OffsetInFile
<1>6. NewestFirst' /\ OneFilePerName'
  BY <1>1, <1>2, Zenon DEF IInv, NewestFirst, OneFilePerName, Names
<1> QED
  BY <1>4, <1>5, <1>6 DEF IInv

LEMMA NextIInv == IInv /\ [Next]_vars => IInv'
<1> SUFFICES ASSUME IInv, [Next]_vars PROVE IInv'
  OBVIOUS
<1>1. CASE UNCHANGED vars
  <2>1. Created' = Created
    BY <1>1 DEF vars, Created
  <2>2. TypeOK'
    BY <1>1 DEF vars, IInv, TypeOK
  <2>3. OffsetInFile' /\ NewestFirst' /\ OneFilePerName'
    BY <1>1, <2>1, Zenon DEF vars, IInv, OffsetInFile, NewestFirst, OneFilePerName, Names
  <2> QED
    BY <2>2, <2>3 DEF IInv
<1>2. ASSUME NEW t \in Tasks, Task(t) PROVE IInv'
  BY <1>2, OpenKeeps, ReadKeeps, WriteKeeps, CloseKeeps DEF Task
<1> QED
  BY <1>1, <1>2, ListingKeeps DEF Next

LEMMA SpecIInv == Spec => []IInv
  BY InitIInv, NextIInv, PTL DEF Spec

-----------------------------------------------------------------------------
(* The types hold (vfs.c, ramfs.c).                                        *)
THEOREM TypeCorrect == Spec => []TypeOK
<1>1. IInv => TypeOK
  BY DEF IInv
<1> QED
  BY <1>1, SpecIInv, PTL

(* No offset ever points past the end of its file, for any number of       *)
(* tasks, files and open files (vfs.c:139-166, ramfs.c:84-135).            *)
THEOREM OffsetInFileHolds == Spec => []OffsetInFile
<1>1. IInv => OffsetInFile
  BY DEF IInv
<1> QED
  BY <1>1, SpecIInv, PTL

(* A name that a path searches for never has two files (vfs.c:68-136).     *)
THEOREM OneFilePerNameHolds == Spec => []OneFilePerName
<1>1. IInv => OneFilePerName
  BY DEF IInv
<1> QED
  BY <1>1, SpecIInv, PTL

-----------------------------------------------------------------------------
(* Action properties.                                                      *)

\* Nothing is in a file before it is created.
Blank == \A f \in Files \ Created : data[f] = <<>>

\* The steps of Next, by what they do to the directory and the contents.
ChangesNoFile == UNCHANGED <<children, name, data>>
CreatesFile(path) == path \in Paths /\ MayCreate(path) /\ ramfs_create(path)

LEMMA StepKinds ==
    ASSUME [Next]_vars
    PROVE  \/ ChangesNoFile
           \/ \E path \in Paths : CreatesFile(path) /\ UNCHANGED listing
           \/ \E t \in Tasks, fd \in Fds, chunk \in Chunks : Write(t, fd, chunk)
<1>1. CASE UNCHANGED vars \/ ListStart \/ ListEntry \/ ListEnd
  BY <1>1 DEF vars, ListStart, ListEntry, ListEnd, ChangesNoFile
<1>2. ASSUME NEW t \in Tasks, Task(t)
      PROVE  \/ ChangesNoFile
             \/ \E path \in Paths : CreatesFile(path) /\ UNCHANGED listing
             \/ \E u \in Tasks, fd \in Fds, chunk \in Chunks : Write(u, fd, chunk)
  <2>1. ASSUME NEW path \in Paths, OpenFound(t, path) PROVE ChangesNoFile
    BY <2>1 DEF OpenFound, ChangesNoFile
  <2>2. ASSUME NEW path \in Paths, OpenCreated(t, path) \/ OpenCreatedOnly(t, path)
        PROVE  CreatesFile(path) /\ UNCHANGED listing
    BY <2>2 DEF OpenCreated, OpenCreatedOnly, CreatesFile
  <2>3. ASSUME NEW fd, NEW size, Read(t, fd, size) PROVE ChangesNoFile
    BY <2>3 DEF Read, ChangesNoFile
  <2>4. ASSUME NEW fd, NEW chunk, Write(t, fd, chunk) PROVE fd \in Fds
    BY <2>4 DEF Write, Usable
  <2>5. ASSUME NEW fd, Close(t, fd) PROVE ChangesNoFile
    BY <2>5 DEF Close, ChangesNoFile
  <2> QED
    BY <1>2, <2>1, <2>2, <2>3, <2>4, <2>5, Zenon DEF Task
<1> QED
  BY <1>1, <1>2, Zenon DEF Next

LEMMA CreatesFileEffect ==
    ASSUME IInv, NEW path, CreatesFile(path)
    PROVE  /\ Len(children) + 1 \in Files \ Created
           /\ Len(children') = Len(children) + 1
           /\ Created' = Created \cup {Len(children) + 1}
           /\ name' = [name EXCEPT ![Len(children) + 1] = path.parts[1]]
           /\ data' = [data EXCEPT ![Len(children) + 1] = <<>>]
<1>1. TypeOK /\ NewestFirst /\ Len(children) < MaxFiles /\ ramfs_create(path)
  BY DEF IInv, CreatesFile, MayCreate
<1> QED
  BY <1>1, CreateEffect

\* What a write does to the contents.
LEMMA WriteTouches ==
    ASSUME IInv, NEW t \in Tasks, NEW fd \in Fds, NEW chunk \in Chunks, Write(t, fd, chunk)
    PROVE  LET file == fd_table[t][fd]
           IN  /\ file # None /\ file \in OpenFile
               /\ file.node \in Created /\ file.node \in Files
               /\ file.offset \in 0 .. MaxSize /\ file.offset <= Len(data[file.node])
               /\ data'[file.node] = ramfs_write(file.node, file.offset, chunk)
               /\ \A f \in Files : f # file.node => data'[f] = data[f]
               /\ Created' = Created
<1> DEFINE file == fd_table[t][fd]
<1>1. /\ Usable(t, fd) /\ file.node # Root /\ children' = children
      /\ data' = [data EXCEPT ![file.node] = ramfs_write(file.node, file.offset, chunk)]
  BY DEF Write
<1>2. /\ file \in OpenFile /\ file.node \in Created /\ file.node \in Files
      /\ file.offset \in 0 .. MaxSize /\ file.offset <= Len(data[file.node])
  BY <1>1, UsableFile
<1>3. data \in [Files -> Seq(Nat)]
  BY DEF IInv, TypeOK
<1>4. file # None
  BY <1>1 DEF Usable
<1>5. Created' = Created
  BY <1>1 DEF Created
<1> QED
  BY <1>1, <1>2, <1>3, <1>4, <1>5

LEMMA SpecBlank == Spec => []Blank
<1>1. Init => Blank
  BY DEF Init, Blank
<1>2. IInv /\ Blank /\ [Next]_vars => Blank'
  <2> SUFFICES ASSUME IInv, Blank, [Next]_vars PROVE Blank'
    OBVIOUS
  <2>1. CASE ChangesNoFile
    BY <2>1 DEF ChangesNoFile, Blank, Created
  <2>2. ASSUME NEW path \in Paths, CreatesFile(path) PROVE Blank'
    <3>1. data \in [Files -> Seq(Nat)]
      BY DEF IInv, TypeOK
    <3> QED
      BY <2>2, <3>1, CreatesFileEffect DEF Blank
  <2>3. ASSUME NEW t \in Tasks, NEW fd \in Fds, NEW chunk \in Chunks, Write(t, fd, chunk)
        PROVE  Blank'
    BY <2>3, WriteTouches DEF Blank
  <2> QED
    BY <2>1, <2>2, <2>3, StepKinds
<1> QED
  BY <1>1, <1>2, SpecIInv, PTL DEF Spec

(* What precedes the offset of an open file survives a step of that file,  *)
(* for any tasks, files and writes (ramfs.c:102-135).                      *)
THEOREM PrefixKeptHolds == Spec => PrefixKept
<1> DEFINE Kept(f) ==
      \E t \in Tasks, fd \in Fds :
         LET file == fd_table[t][fd]
         IN  /\ file # None /\ file.node = f
             /\ Len(data'[f]) >= Len(data[f])
             /\ SubSeq(data'[f], 1, file.offset) = SubSeq(data[f], 1, file.offset)
<1>1. ASSUME IInv, Blank, [Next]_vars
      PROVE  \A f \in Files : data'[f] # data[f] => Kept(f)
  <2> SUFFICES ASSUME NEW f \in Files, data'[f] # data[f] PROVE Kept(f)
    OBVIOUS
  <2>1. ~ ChangesNoFile
    BY DEF ChangesNoFile
  <2>2. ASSUME NEW path \in Paths, CreatesFile(path) PROVE FALSE
    <3>1. data \in [Files -> Seq(Nat)]
      BY <1>1 DEF IInv, TypeOK
    <3> QED
      BY <1>1, <2>2, <3>1, CreatesFileEffect DEF Blank
  <2>3. PICK t \in Tasks, fd \in Fds, chunk \in Chunks : Write(t, fd, chunk)
    BY <1>1, <2>1, <2>2, StepKinds
  <2> DEFINE file == fd_table[t][fd]
             o == file.offset
             w == data'[f]
  <2>4. /\ file # None /\ file.node = f
        /\ o \in 0 .. MaxSize /\ o <= Len(data[f])
        /\ w = ramfs_write(f, o, chunk)
    BY <1>1, <2>3, WriteTouches
  <2>5. TypeOK /\ data[f] \in Seq(Nat)
    BY <1>1 DEF IInv, TypeOK
  <2> HIDE DEF o, w
  <2>6. /\ w \in Seq(Nat) /\ Len(w) \in Nat
        /\ Len(w) = IF o + Len(chunk) > Len(data[f]) THEN o + Len(chunk) ELSE Len(data[f])
        /\ \A i \in 1 .. Len(w) :
              w[i] = IF o < i /\ i <= o + Len(chunk) THEN chunk[i - o] ELSE data[f][i]
    BY <2>4, <2>5, WriteEffect
  <2>7. PICK n \in Nat : n = Len(data[f])
    BY <2>5, LenProperties
  <2>8. PICK k \in Nat : k = Len(chunk)
    BY ChunksAssumption, LenProperties
  <2>9. PICK m \in Nat : m = Len(w)
    BY <2>6
  <2>10. m = (IF o + k > n THEN o + k ELSE n) /\ o \in Nat /\ o <= n /\ o <= m /\ n <= m
    BY <2>4, <2>6, <2>7, <2>8, <2>9, MaxAssumption
  <2>11. \A i \in 1 .. o : w[i] = data[f][i]
    <3> SUFFICES ASSUME NEW i \in 1 .. o PROVE w[i] = data[f][i]
      OBVIOUS
    <3>1. i \in 1 .. m /\ ~(o < i)
      BY <2>10
    <3> QED
      BY <2>6, <2>9, <3>1
  <2>12. \A i \in 1 .. o : w[i] \in Nat /\ data[f][i] \in Nat
    <3>1. \A i \in 1 .. o : i \in 1 .. n
      BY <2>10
    <3> QED
      BY <2>5, <2>7, <2>11, <3>1, ElementOfSeq
  <2>13. /\ SubSeq(w, 1, o) \in Seq(Nat) /\ SubSeq(data[f], 1, o) \in Seq(Nat)
         /\ Len(SubSeq(w, 1, o)) = o /\ Len(SubSeq(data[f], 1, o)) = o
         /\ \A i \in 1 .. o : SubSeq(w, 1, o)[i] = w[i]
         /\ \A i \in 1 .. o : SubSeq(data[f], 1, o)[i] = data[f][i]
    <3>1. /\ SubSeq(w, 1, o) \in Seq(Nat)
          /\ Len(SubSeq(w, 1, o)) = IF 1 <= o THEN o - 1 + 1 ELSE 0
          /\ \A i \in 1 .. o - 1 + 1 : SubSeq(w, 1, o)[i] = w[1 + i - 1]
      BY <2>10, <2>12, SubSeqProperties
    <3>2. /\ SubSeq(data[f], 1, o) \in Seq(Nat)
          /\ Len(SubSeq(data[f], 1, o)) = IF 1 <= o THEN o - 1 + 1 ELSE 0
          /\ \A i \in 1 .. o - 1 + 1 : SubSeq(data[f], 1, o)[i] = data[f][1 + i - 1]
      BY <2>10, <2>12, SubSeqProperties
    <3>3. (IF 1 <= o THEN o - 1 + 1 ELSE 0) = o /\ o - 1 + 1 = o
          /\ \A i \in 1 .. o : 1 + i - 1 = i
      BY <2>10
    <3> QED
      BY <3>1, <3>2, <3>3
  <2>14. SubSeq(w, 1, o) = SubSeq(data[f], 1, o)
    BY <2>11, <2>13, SeqEqual
  <2>15. Len(w) >= Len(data[f])
    BY <2>7, <2>9, <2>10
  <2> QED
    BY <2>4, <2>14, <2>15 DEF o, w
<1>2. IInv /\ Blank /\ [Next]_vars
        => [\A f \in Files : data'[f] # data[f] => Kept(f)]_vars
  BY <1>1
<1> QED
  BY <1>2, SpecIInv, SpecBlank, PTL DEF Spec, PrefixKept

\* What the listing still has to show lies at the indices to come.
StillToCome ==
    listing # None =>
       \A f \in listing.present \ listing.shown : f <= Len(children) - listing.index

LEMMA InitStillToCome == Init => StillToCome
BY DEF Init, StillToCome

\* A listing that has answered "no more" has nothing left to show.
LEMMA EndShowsAll ==
    ASSUME IInv, StillToCome, listing # None, ramfs_readdir(listing.index) = None
    PROVE  listing.present \subseteq listing.shown
<1>1. /\ listing \in Listing
      /\ children \in Seq(Files)
  BY DEF IInv, TypeOK
<1>2. PICK n \in Nat : n = Len(children)
  BY <1>1, LenProperties
<1>3. PICK x \in Nat : x = listing.index
  BY <1>1 DEF Listing
<1>4. ~(x < n)
  <2> SUFFICES ASSUME x < n PROVE FALSE
    OBVIOUS
  <2>1. x + 1 \in 1 .. n /\ ramfs_readdir(x) = children[x + 1]
    BY <1>2, <1>3 DEF ramfs_readdir
  <2>2. children[x + 1] \in Files
    BY <1>1, <1>2, <2>1, ElementOfSeq
  <2> QED
    BY <1>3, <2>1, <2>2, PathsAssumption
<1> SUFFICES ASSUME NEW f \in listing.present \ listing.shown PROVE FALSE
  OBVIOUS
<1>5. f \in Files /\ f <= n - x
  BY <1>1, <1>2, <1>3 DEF StillToCome, Listing
<1> QED
  BY <1>2, <1>3, <1>4, <1>5, MaxAssumption DEF Files

LEMMA NextStillToCome ==
    ASSUME IInv, StillToCome, [Next]_vars PROVE StillToCome'
<1>1. CASE ListStart
  <2>1. children \in Seq(Files) /\ TypeOK
    BY DEF IInv, TypeOK
  <2>2. PICK n \in Nat : n = Len(children)
    BY <2>1, LenProperties
  <2>3. \A f \in Created : f <= n
    <3>1. \A i \in 1 .. n : children[i] <= n
      BY <2>2 DEF IInv, NewestFirst
    <3> QED
      BY <2>1, <2>2, <3>1, LenProperties DEF Created
  <2>4. /\ listing' = [index |-> 0, shown |-> {}, present |-> Created]
        /\ children' = children
    BY <1>1 DEF ListStart
  <2>5. \A f \in Created : f <= n - 0
    BY <2>2, <2>3
  <2>6. listing'.present \ listing'.shown = Created /\ listing'.index = 0
    BY <2>4
  <2> QED
    BY <2>2, <2>4, <2>5, <2>6 DEF StillToCome
<1>2. CASE ListEntry
  <2>1. /\ listing \in Listing
        /\ children \in Seq(Files) /\ Created \subseteq Files
    BY <1>2, CreatedAreFiles DEF ListEntry, IInv, TypeOK
  <2>2. PICK n \in Nat : n = Len(children)
    BY <2>1, LenProperties
  <2>3. PICK x \in Nat : x = listing.index
    BY <2>1 DEF Listing
  <2>4. x < n /\ ramfs_readdir(x) = children[x + 1]
    BY <1>2, <2>2, <2>3 DEF ListEntry, ramfs_readdir
  <2>5. ramfs_readdir(x) = n - x
    <3>1. x + 1 \in 1 .. n
      BY <2>4
    <3>2. children[x + 1] = n + 1 - (x + 1)
      BY <3>1, <2>2 DEF IInv, NewestFirst
    <3> QED
      BY <3>2, <2>4
  <2>6. /\ listing'.index = x + 1 /\ listing'.shown = listing.shown \cup {n - x}
        /\ listing'.present = listing.present /\ children' = children
    BY <1>2, <2>1, <2>3, <2>5 DEF ListEntry, Listing
  <2>7. \A f \in listing.present \ (listing.shown \cup {n - x}) : f <= n - (x + 1)
    <3> SUFFICES ASSUME NEW f \in listing.present \ (listing.shown \cup {n - x})
                 PROVE  f <= n - (x + 1)
      OBVIOUS
    <3>1. f \in listing.present \ listing.shown /\ f # n - x
      OBVIOUS
    <3>2. f <= n - x
      BY <1>2, <3>1, <2>2, <2>3 DEF StillToCome, ListEntry
    <3>3. f \in Nat
      BY <2>1, MaxAssumption DEF Files, Listing
    <3> QED
      BY <3>1, <3>2, <3>3
  <2> QED
    BY <2>2, <2>6, <2>7 DEF StillToCome
<1>3. CASE ListEnd
  BY <1>3 DEF ListEnd, StillToCome
<1>4. CASE UNCHANGED <<children, listing>>
  BY <1>4 DEF StillToCome
<1>5. ASSUME NEW path \in Paths, CreatesFile(path), UNCHANGED listing PROVE StillToCome'
  <2> SUFFICES ASSUME listing # None, NEW f \in listing.present \ listing.shown
               PROVE  f <= Len(children') - listing.index
    BY <1>5 DEF StillToCome
  <2>1. /\ listing \in Listing
        /\ children \in Seq(Files)
    BY DEF IInv, TypeOK
  <2>2. PICK n \in Nat : n = Len(children)
    BY <2>1, LenProperties
  <2>3. PICK m \in Nat : m = Len(children') /\ m = n + 1
    BY <1>5, <2>2, CreatesFileEffect
  <2>4. f <= n - listing.index
    BY <2>2 DEF StillToCome
  <2>5. f \in Int /\ listing.index \in Int
    BY <2>1, MaxAssumption DEF Files, Listing
  <2>6. f <= m - listing.index
    BY <2>3, <2>4, <2>5
  <2> QED
    BY <2>3, <2>6
<1>6. ASSUME NEW t \in Tasks, Task(t)
      PROVE  \/ UNCHANGED <<children, listing>>
             \/ \E path \in Paths : CreatesFile(path) /\ UNCHANGED listing
  <2>1. ASSUME NEW path \in Paths, OpenFound(t, path) PROVE UNCHANGED <<children, listing>>
    BY <2>1 DEF OpenFound
  <2>2. ASSUME NEW path \in Paths, OpenCreated(t, path) \/ OpenCreatedOnly(t, path)
        PROVE  CreatesFile(path) /\ UNCHANGED listing
    BY <2>2 DEF OpenCreated, OpenCreatedOnly, CreatesFile
  <2>3. ASSUME NEW fd, NEW size, Read(t, fd, size) PROVE UNCHANGED <<children, listing>>
    BY <2>3 DEF Read
  <2>4. ASSUME NEW fd, NEW chunk, Write(t, fd, chunk) PROVE UNCHANGED <<children, listing>>
    BY <2>4 DEF Write
  <2>5. ASSUME NEW fd, Close(t, fd) PROVE UNCHANGED <<children, listing>>
    BY <2>5 DEF Close
  <2> QED
    BY <1>6, <2>1, <2>2, <2>3, <2>4, <2>5, Zenon DEF Task
<1> QED
  BY <1>1, <1>2, <1>3, <1>4, <1>5, <1>6 DEF Next, vars

(* A listing never misses a file that was there when it began, however     *)
(* many are created meanwhile (ramfs.c:213-215, :242-264).                 *)
THEOREM ListingCompleteHolds == Spec => ListingComplete
<1>1. IInv /\ StillToCome /\ [Next]_vars => StillToCome'
  BY NextStillToCome
<1>2. IInv /\ StillToCome /\ [Next]_vars
        => [listing # None /\ listing' = None => listing.present \subseteq listing.shown]_vars
  <2> SUFFICES ASSUME IInv, StillToCome, Next, listing # None, listing' = None
               PROVE  listing.present \subseteq listing.shown
    BY DEF vars
  <2>1. CASE ListEnd
    BY <2>1, EndShowsAll DEF ListEnd
  <2>2. CASE ListStart \/ ListEntry
    <3>1. CASE ListStart
      BY <3>1 DEF ListStart
    <3>2. CASE ListEntry
      BY <3>2, ListEntryTyped, PathsAssumption
    <3> QED
      BY <2>2, <3>1, <3>2
  <2>3. ASSUME NEW t \in Tasks, Task(t) PROVE listing' = listing
    BY <2>3 DEF Task, OpenFound, OpenCreated, OpenCreatedOnly, Read, Write, Close
  <2> QED
    BY <2>1, <2>2, <2>3 DEF Next
<1> QED
  BY <1>1, <1>2, InitStillToCome, SpecIInv, PTL DEF Spec, ListingComplete

-----------------------------------------------------------------------------
(* The refinement.                                                         *)

\* A lookup finds exactly the file of a name.
LookupExact ==
    \A n \in Names :
       /\ \A f \in Created : name[f] = n => ramfs_lookup(n) = f
       /\ (\A f \in Created : name[f] # n) => ramfs_lookup(n) = None

LEMMA LookupExactHolds == IInv => LookupExact
<1> SUFFICES ASSUME IInv, NEW n \in Names
             PROVE  /\ \A f \in Created : name[f] = n => ramfs_lookup(n) = f
                    /\ (\A f \in Created : name[f] # n) => ramfs_lookup(n) = None
  BY Zenon DEF LookupExact
<1>1. \/ ramfs_lookup(n) = None /\ \A f \in Created : name[f] # n
      \/ ramfs_lookup(n) \in Created /\ name[ramfs_lookup(n)] = n
  BY LookupFinds DEF IInv
<1>2. \A f, g \in Created : name[f] = name[g] /\ name[f] \in Names => f = g
  BY DEF IInv, OneFilePerName
<1> QED
  BY <1>1, <1>2

LEMMA InitRefines == Init => Store!Init
<1> SUFFICES ASSUME Init PROVE Store!Init
  OBVIOUS
<1>1. Created = {} /\ \A n : Named(n) = {}
  BY DEF Init, Created, Named
<1>2. DirOf = [n \in Names |-> None]
  BY <1>1 DEF DirOf, ramfs_lookup
<1>3. ContentOf = [f \in Files |-> None]
  BY <1>1 DEF ContentOf
<1>4. fd_table = [t \in Tasks |-> [s \in Fds |-> None]]
  BY DEF Init
<1> QED
  BY <1>2, <1>3, <1>4 DEF Store!Init

LEMMA ChangesNoFileRefines ==
    ASSUME ChangesNoFile PROVE UNCHANGED <<DirOf, ContentOf>>
BY DEF ChangesNoFile, DirOf, ContentOf, ramfs_lookup, Named, Created

\* A created file is a fresh one, under a name that had none or is not searched.
LEMMA CreatesFileRefines ==
    ASSUME IInv, IInv', NEW path \in Paths, CreatesFile(path),
           NEW f, f = Len(children) + 1
    PROVE  /\ f \in Files /\ ContentOf[f] = None
           /\ ContentOf' = [ContentOf EXCEPT ![f] = <<>>]
           /\ \/ UNCHANGED DirOf
              \/ \E n \in Names : DirOf[n] = None /\ DirOf' = [DirOf EXCEPT ![n] = f]
<1>1. /\ f \in Files \ Created
      /\ Created' = Created \cup {f}
      /\ name' = [name EXCEPT ![f] = path.parts[1]]
      /\ data' = [data EXCEPT ![f] = <<>>]
  BY CreatesFileEffect
<1>2. DOMAIN name = Files /\ DOMAIN data = Files /\ Created \subseteq Files
  BY CreatedAreFiles DEF IInv, TypeOK
<1>3. ContentOf' = [ContentOf EXCEPT ![f] = <<>>] /\ ContentOf[f] = None
  <2>1. \A g \in Files : ContentOf'[g] = IF g = f THEN <<>> ELSE ContentOf[g]
    BY <1>1, <1>2 DEF ContentOf
  <2>2. ContentOf = [g \in Files |-> ContentOf[g]] /\ ContentOf' = [g \in Files |-> ContentOf'[g]]
    BY DEF ContentOf
  <2>3. ContentOf' = [ContentOf EXCEPT ![f] = <<>>]
    BY <2>1, <2>2
  <2>4. ContentOf[f] = None
    BY <1>1 DEF ContentOf
  <2> QED
    BY <2>3, <2>4
<1>4. LookupExact /\ LookupExact'
  BY LookupExactHolds, PTL
<1>5. /\ name'[f] = path.parts[1]
      /\ \A g \in Created : g # f /\ name'[g] = name[g]
  BY <1>1, <1>2
<1>6. \A m \in Names : m # path.parts[1] => ramfs_lookup(m)' = ramfs_lookup(m)
  <2> SUFFICES ASSUME NEW m \in Names, m # path.parts[1]
               PROVE  ramfs_lookup(m)' = ramfs_lookup(m)
    OBVIOUS
  <2>1. CASE \E g \in Created : name[g] = m
    <3>1. PICK g \in Created : name[g] = m
      BY <2>1
    <3>2. g \in Created' /\ name'[g] = m
      BY <3>1, <1>1, <1>5
    <3>3. ramfs_lookup(m) = g
      BY <3>1, <1>4 DEF LookupExact
    <3>4. ramfs_lookup(m)' = g
      BY <3>2, <1>4 DEF LookupExact, Names
    <3> QED
      BY <3>3, <3>4
  <2>2. CASE \A g \in Created : name[g] # m
    <3>1. \A g \in Created' : name'[g] # m
      BY <2>2, <1>1, <1>5
    <3>2. ramfs_lookup(m) = None
      BY <2>2, <1>4 DEF LookupExact
    <3>3. ramfs_lookup(m)' = None
      BY <3>1, <1>4 DEF LookupExact, Names
    <3> QED
      BY <3>2, <3>3
  <2> QED
    BY <2>1, <2>2
<1>7. CASE path.parts[1] \notin Names
  <2>1. \A m \in Names : ramfs_lookup(m)' = ramfs_lookup(m)
    BY <1>6, <1>7
  <2>2. DirOf' = DirOf
    BY <2>1 DEF DirOf, Names
  <2> QED
    BY <1>1, <1>3, <2>2
<1>8. CASE path.parts[1] \in Names
  <2> DEFINE n == path.parts[1]
  <2>1. \A g \in Created : name[g] # n
    BY <1>8, CreatesNewName DEF CreatesFile
  <2>2. ramfs_lookup(n) = None
    BY <1>4, <1>8, <2>1 DEF LookupExact
  <2>3. ramfs_lookup(n)' = f
    BY <1>1, <1>4, <1>5, <1>8 DEF LookupExact, Names
  <2>4. \A m \in Names : ramfs_lookup(m)' = IF m = n THEN f ELSE ramfs_lookup(m)
    BY <1>6, <2>3
  <2>5. DirOf' = [m \in Names |-> ramfs_lookup(m)']
    BY DEF DirOf, Names
  <2>6. DirOf[n] = None /\ DirOf' = [DirOf EXCEPT ![n] = f]
    BY <1>8, <2>2, <2>4, <2>5 DEF DirOf
  <2> QED
    BY <1>1, <1>3, <1>8, <2>6
<1> QED
  BY <1>7, <1>8

\* A write that starts inside the file overwrites.
LEMMA WriteOverwrites ==
    ASSUME TypeOK, NEW f \in Files, NEW o \in 0 .. MaxSize, o <= Len(data[f]),
           NEW chunk \in Chunks
    PROVE  ramfs_write(f, o, chunk) = Store!Overwrite(data[f], o, chunk)
<1> DEFINE c == data[f]
           w == ramfs_write(f, o, chunk)
<1>1. /\ w \in Seq(Nat) /\ Len(w) \in Nat
      /\ Len(w) = IF o + Len(chunk) > Len(c) THEN o + Len(chunk) ELSE Len(c)
      /\ \A i \in 1 .. Len(w) :
            w[i] = IF o < i /\ i <= o + Len(chunk) THEN chunk[i - o] ELSE c[i]
  BY WriteEffect
<1>2. c \in Seq(Nat) /\ chunk \in Seq(Nat)
  BY ChunksAssumption DEF TypeOK
<1> HIDE DEF c, w
<1>3. PICK n \in Nat : n = Len(c)
  BY <1>2, LenProperties
<1>4. PICK k \in Nat : k = Len(chunk)
  BY <1>2, LenProperties
<1>5. PICK m \in Nat : m = Len(w)
  BY <1>1
<1>6. o \in Nat /\ o <= n /\ m = IF o + k > n THEN o + k ELSE n
  BY <1>1, <1>3, <1>4, <1>5, MaxAssumption DEF c
<1>7. \A i \in 1 .. n : c[i] \in Nat
  BY <1>2, <1>3, ElementOfSeq
<1> DEFINE a == SubSeq(c, 1, o)
           b == SubSeq(c, o + k + 1, n)
           r == IF o + k + 1 <= n THEN n - (o + k + 1) + 1 ELSE 0
<1>8. /\ a \in Seq(Nat) /\ Len(a) = o /\ \A i \in 1 .. o : a[i] = c[i]
  <2>1. \A i \in 1 .. o : c[i] \in Nat
    <3>1. \A i \in 1 .. o : i \in 1 .. n
      BY <1>6
    <3> QED
      BY <1>7, <3>1
  <2>2. /\ a \in Seq(Nat) /\ Len(a) = IF 1 <= o THEN o - 1 + 1 ELSE 0
        /\ \A i \in 1 .. o - 1 + 1 : a[i] = c[1 + i - 1]
    BY <1>6, <2>1, SubSeqProperties
  <2>3. (IF 1 <= o THEN o - 1 + 1 ELSE 0) = o /\ o - 1 + 1 = o /\ \A i \in 1 .. o : 1 + i - 1 = i
    BY <1>6
  <2> QED
    BY <2>2, <2>3
<1>9. /\ b \in Seq(Nat) /\ Len(b) = r
      /\ \A i \in 1 .. r : b[i] = c[o + k + i]
  <2>1. \A i \in o + k + 1 .. n : c[i] \in Nat
    <3>1. \A i \in o + k + 1 .. n : i \in 1 .. n
      BY <1>6
    <3> QED
      BY <1>7, <3>1
  <2>2. o + k + 1 \in Int /\ n \in Int
    BY <1>6
  <2>3. /\ b \in Seq(Nat) /\ Len(b) = r
        /\ \A i \in 1 .. n - (o + k + 1) + 1 : b[i] = c[o + k + 1 + i - 1]
    BY <2>1, <2>2, SubSeqProperties
  <2>4. \A i \in 1 .. r : i \in 1 .. n - (o + k + 1) + 1 /\ o + k + 1 + i - 1 = o + k + i
    BY <1>6
  <2> QED
    BY <2>3, <2>4
<1> HIDE DEF a, b
<1>10. /\ a \o chunk \in Seq(Nat) /\ Len(a \o chunk) = o + k
       /\ \A i \in 1 .. o + k : (a \o chunk)[i] = IF i <= o THEN a[i] ELSE chunk[i - o]
  BY <1>2, <1>4, <1>8, ConcatProperties
<1> DEFINE d == a \o chunk
<1> HIDE DEF d
<1>11. o + k + r = m /\ r \in Nat
  BY <1>6
<1> HIDE DEF r
<1>12. /\ d \o b \in Seq(Nat) /\ Len(d \o b) = o + k + r
       /\ \A i \in 1 .. o + k + r : (d \o b)[i] = IF i <= o + k THEN d[i] ELSE b[i - (o + k)]
  <2>1. d \in Seq(Nat) /\ Len(d) = o + k
    BY <1>10 DEF d
  <2> QED
    <3>1. /\ d \o b \in Seq(Nat) /\ Len(d \o b) = Len(d) + Len(b)
          /\ \A i \in 1 .. Len(d) + Len(b) :
                (d \o b)[i] = IF i <= Len(d) THEN d[i] ELSE b[i - Len(d)]
      BY <2>1, <1>9, ConcatProperties
    <3>2. Len(d) = o + k /\ Len(b) = r
      BY <2>1, <1>9
    <3> QED
      BY <3>1, <3>2, Zenon
<1>13. \A i \in 1 .. m : (d \o b)[i] = w[i]
  <2> SUFFICES ASSUME NEW i \in 1 .. m PROVE (d \o b)[i] = w[i]
    OBVIOUS
  <2>1. w[i] = IF o < i /\ i <= o + k THEN chunk[i - o] ELSE c[i]
    BY <1>1, <1>4, <1>5
  <2>2. CASE i <= o
    <3>1. i \in 1 .. o /\ i \in 1 .. o + k /\ i <= o + k /\ ~(o < i) /\ i \in 1 .. o + k + r
      BY <2>2, <1>6, <1>11
    <3>2. (d \o b)[i] = d[i]
      BY <3>1, <1>12
    <3>3. d[i] = a[i]
      BY <3>1, <1>10 DEF d
    <3> QED
      BY <2>1, <3>1, <3>2, <3>3, <1>8
  <2>3. CASE o < i /\ i <= o + k
    <3>1. i \in 1 .. o + k /\ ~(i <= o) /\ i \in 1 .. o + k + r
      BY <2>3, <1>6, <1>11
    <3>2. (d \o b)[i] = d[i]
      BY <2>3, <3>1, <1>12
    <3>3. d[i] = chunk[i - o]
      BY <3>1, <1>10 DEF d
    <3> QED
      BY <2>1, <2>3, <3>2, <3>3
  <2>4. CASE o + k < i
    <3>1. i - (o + k) \in 1 .. r /\ ~(i <= o + k) /\ o + k + (i - (o + k)) = i
          /\ i \in 1 .. o + k + r
      BY <2>4, <1>6, <1>11
    <3>2. (d \o b)[i] = b[i - (o + k)]
      BY <3>1, <1>12
    <3>3. b[i - (o + k)] = c[i]
      BY <3>1, <1>9
    <3> QED
      BY <2>1, <3>1, <3>2, <3>3
  <2>5. i <= o \/ (o < i /\ i <= o + k) \/ o + k < i
    BY <1>6
  <2> QED
    BY <2>2, <2>3, <2>4, <2>5
<1>14. d \o b = w
  <2>1. d \o b \in Seq(Nat) /\ w \in Seq(Nat) /\ Len(d \o b) = Len(w)
    BY <1>1, <1>5, <1>12, <1>11
  <2>2. \A i \in 1 .. Len(d \o b) : (d \o b)[i] = w[i]
    BY <1>12, <1>11, <1>13
  <2> QED
    BY <2>1, <2>2, SeqEqual
<1>15. Store!Overwrite(c, o, chunk) = d \o b
  BY <1>3, <1>4 DEF Store!Overwrite, a, b, d
<1> QED
  BY <1>14, <1>15 DEF c, w

\* A read passes over the bytes there are.
LEMMA ReadPasses ==
    ASSUME TypeOK, NEW f \in Files, NEW o \in 0 .. MaxSize, o <= Len(data[f]),
           NEW size \in ReadSizes
    PROVE  ramfs_read(f, o, size) = Len(Store!From(data[f], o, size))
<1> DEFINE c == data[f]
<1>1. c \in Seq(Nat)
  BY DEF TypeOK
<1>2. PICK n \in Nat : n = Len(c)
  BY <1>1, LenProperties
<1>3. o \in Nat /\ o <= n /\ size \in Nat
  BY <1>2, ChunksAssumption, MaxAssumption
<1>4. \A i \in 1 .. n : c[i] \in Nat
  BY <1>1, <1>2, ElementOfSeq
<1> DEFINE e == IF o + size < n THEN o + size ELSE n
<1>5. Store!From(c, o, size) = SubSeq(c, o + 1, e)
  BY <1>2 DEF Store!From
<1>6. \A i \in o + 1 .. e : i \in 1 .. n
  BY <1>3
<1>7. o + 1 \in Int /\ e \in Int /\ \A i \in o + 1 .. e : c[i] \in Nat
  BY <1>3, <1>4, <1>6
<1> HIDE DEF c
<1>8. Len(SubSeq(c, o + 1, e)) = IF o + 1 <= e THEN e - (o + 1) + 1 ELSE 0
  BY <1>7, SubSeqProperties
<1>9. ramfs_read(f, o, size) =
         IF o >= n THEN 0 ELSE IF o + size > n THEN n - o ELSE size
  BY <1>2 DEF ramfs_read, c
<1>10. (IF o >= n THEN 0 ELSE IF o + size > n THEN n - o ELSE size)
          = IF o + 1 <= e THEN e - (o + 1) + 1 ELSE 0
  BY <1>3
<1> QED
  BY <1>5, <1>8, <1>9, <1>10, Zenon DEF c

\* Every call of a task is a step of the store.
LEMMA TaskRefines ==
    ASSUME IInv, IInv', NEW t \in Tasks, Task(t) PROVE Store!Next
<1> USE DEF IInv
<1>1. ASSUME NEW path \in Paths, OpenFound(t, path) PROVE Store!Open(t)
  <2>1. /\ FreeFds(t) # {} /\ vfs_lookup(path) # None /\ OpenAs(t, vfs_lookup(path))
        /\ UNCHANGED <<DirOf, ContentOf>>
    BY <1>1, ChangesNoFileRefines DEF OpenFound, ChangesNoFile
  <2>2. \/ vfs_lookup(path) = Root
        \/ vfs_lookup(path) \in Created /\ \E n \in Names : vfs_lookup(path) = DirOf[n]
    BY <2>1, PathFinds DEF DirOf
  <2>3. vfs_lookup(path) \in Files \cup {Root}
    BY <2>2, CreatedAreFiles
  <2>4. Store!Hold(t, vfs_lookup(path))
    BY <2>1, <2>3, OpenAsEffect DEF Store!Hold
  <2>5. vfs_lookup(path) \in {Root} \cup {DirOf[n] : n \in Names}
    BY <2>2
  <2> QED
    BY <2>1, <2>4, <2>5 DEF Store!Open
<1>2. ASSUME NEW path \in Paths, OpenCreated(t, path) \/ OpenCreatedOnly(t, path)
      PROVE  Store!Create(t)
  <2> DEFINE f == Len(children) + 1
  <2>1. CreatesFile(path)
    BY <1>2 DEF OpenCreated, OpenCreatedOnly, CreatesFile
  <2>2. f = Len(children) + 1
    OBVIOUS
  <2>3. OpenCreated(t, path) => FreeFds(t) # {} /\ OpenAs(t, f)
    BY DEF OpenCreated
  <2>4. OpenCreatedOnly(t, path) => UNCHANGED fd_table
    BY DEF OpenCreatedOnly
  <2> HIDE DEF f
  <2>5. /\ f \in Files /\ ContentOf[f] = None
        /\ ContentOf' = [ContentOf EXCEPT ![f] = <<>>]
        /\ \/ UNCHANGED DirOf
           \/ \E n \in Names : DirOf[n] = None /\ DirOf' = [DirOf EXCEPT ![n] = f]
    BY <2>1, <2>2, CreatesFileRefines
  <2>6. Store!Hold(t, f) \/ UNCHANGED fd_table
    BY <1>2, <2>3, <2>4, <2>5, OpenAsEffect DEF Store!Hold
  <2> QED
    BY <2>5, <2>6 DEF Store!Create
<1>3. ASSUME NEW fd, NEW size \in ReadSizes, Read(t, fd, size)
      PROVE  fd \in Fds /\ Store!Read(t, fd, size)
  <2> DEFINE file == fd_table[t][fd]
  <2>1. /\ Usable(t, fd) /\ file.node # Root /\ UNCHANGED <<DirOf, ContentOf>>
        /\ fd_table' = [fd_table EXCEPT ![t][fd].offset =
                          @ + ramfs_read(file.node, file.offset, size)]
    BY <1>3, ChangesNoFileRefines DEF Read, ChangesNoFile
  <2>2. /\ fd \in Fds /\ file.node \in Created /\ file.node \in Files
        /\ file.offset \in 0 .. MaxSize /\ file.offset <= Len(data[file.node])
    BY <2>1, UsableFile
  <2>3. ContentOf[file.node] = data[file.node]
    BY <2>2 DEF ContentOf
  <2>4. ramfs_read(file.node, file.offset, size)
          = Len(Store!From(ContentOf[file.node], file.offset, size))
    BY <2>2, <2>3, ReadPasses
  <2> QED
    BY <2>1, <2>2, <2>4 DEF Store!Read, Store!Holds, Usable
<1>4. ASSUME NEW fd, NEW chunk \in Chunks, Write(t, fd, chunk)
      PROVE  fd \in Fds /\ Store!Write(t, fd, chunk)
  <2> DEFINE file == fd_table[t][fd]
  <2>1. /\ Usable(t, fd) /\ file.node # Root /\ UNCHANGED <<children, name>>
        /\ data' = [data EXCEPT ![file.node] = ramfs_write(file.node, file.offset, chunk)]
        /\ fd_table' = [fd_table EXCEPT ![t][fd].offset = @ + Len(chunk)]
    BY <1>4 DEF Write
  <2>2. /\ fd \in Fds /\ file.node \in Created /\ file.node \in Files
        /\ file.offset \in 0 .. MaxSize /\ file.offset <= Len(data[file.node])
    BY <2>1, UsableFile
  <2>3. UNCHANGED DirOf /\ Created' = Created
    BY <2>1 DEF DirOf, ramfs_lookup, Named, Created
  <2>4. ContentOf[file.node] = data[file.node]
    BY <2>2 DEF ContentOf
  <2>5. data' = [data EXCEPT ![file.node] =
                   Store!Overwrite(ContentOf[file.node], file.offset, chunk)]
    BY <2>1, <2>2, <2>4, WriteOverwrites
  <2>6. data \in [Files -> Seq(Nat)]
    BY DEF TypeOK
  <2>7. ContentOf' = [ContentOf EXCEPT ![file.node] =
                        Store!Overwrite(@, file.offset, chunk)]
    <3> DEFINE c == Store!Overwrite(ContentOf[file.node], file.offset, chunk)
    <3>1. data' = [data EXCEPT ![file.node] = c]
      BY <2>5
    <3> HIDE DEF c
    <3>2. ContentOf' = [ContentOf EXCEPT ![file.node] = c]
      BY <3>1, <2>2, <2>3, <2>6 DEF ContentOf
    <3> QED
      BY <3>2 DEF c
  <2> QED
    BY <2>1, <2>2, <2>3, <2>7 DEF Store!Write, Store!Holds, Usable
<1>5. ASSUME NEW fd, Close(t, fd) PROVE fd \in Fds /\ Store!Drop(t, fd)
  BY <1>5, ChangesNoFileRefines DEF Close, Usable, Store!Drop, ChangesNoFile
<1> QED
  BY <1>1, <1>2, <1>3, <1>4, <1>5, Zenon DEF Task, Store!Next

LEMMA NextRefines ==
    ASSUME IInv, IInv', [Next]_vars PROVE [Store!Next]_(Store!vars)
<1>1. CASE UNCHANGED vars \/ ListStart \/ ListEntry \/ ListEnd
  BY <1>1, ChangesNoFileRefines
     DEF vars, ListStart, ListEntry, ListEnd, ChangesNoFile, Store!vars
<1>2. CASE \E t \in Tasks : Task(t)
  BY <1>2, TaskRefines
<1> QED
  BY <1>1, <1>2 DEF Next

(* The calls implement FileStore: for all tasks, paths and bounds, names   *)
(* lead to one file for good, and reads and writes act on the bytes at     *)
(* their offset alone (vfs.c, ramfs.c, syscall_dispatch.c:28-66).          *)
THEOREM ImplementsFileStoreHolds == Spec => ImplementsFileStore
<1>1. IInv /\ IInv' /\ [Next]_vars => [Store!Next]_(Store!vars)
  BY NextRefines
<1> QED
  BY <1>1, InitRefines, SpecIInv, PTL DEF Spec, ImplementsFileStore, Store!Spec

=============================================================================
