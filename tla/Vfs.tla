---------------------------------- MODULE Vfs ----------------------------------
(***************************************************************************)
(* The file system calls of arch/x86/syscall_dispatch.c over fs/vfs.c and  *)
(* fs/ramfs.c: one directory of files in memory and a table of open files  *)
(* per task; and the listing of the directory by user/shell.asm.           *)
(*                                                                         *)
(* A path is what path_next cuts it into, pieces of at most 63 characters, *)
(* so that a longer name counts as nested names; creates says that it is a *)
(* slash followed by a name without one.  Lengths stay far below 2^32.     *)
(* kmalloc may fail at each call.  A lookup that fails so makes vfs_open   *)
(* go on to create the file; that fails as well, for the node it needs is  *)
(* larger than what the lookup asked for, and the open changes nothing.    *)
(***************************************************************************)
EXTENDS Integers, Sequences, FiniteSets

CONSTANTS
    Tasks,
    MaxFd,      \* MAX_FD_PER_TASK
    Paths,      \* paths considered: [parts, creates]
    Root, None,
    Chunks,     \* the data of a write
    ReadSizes,  \* sizes of a read
    MaxFiles,   \* bound on the files created
    MaxOpen,    \* bound on the files open at a time
    MaxSize     \* bound on the size of a file

ASSUME MaxAssumption == {MaxFd, MaxFiles, MaxOpen, MaxSize} \subseteq Nat

Files == 1 .. MaxFiles
Fds   == 0 .. MaxFd - 1
OpenFile == [node : Files \cup {Root}, offset : 0 .. MaxSize]
Listing  == [index : Nat, shown : SUBSET Files, present : SUBSET Files]

\* The names some path searches for.
Names == {path.parts[1] : path \in {p \in Paths : Len(p.parts) = 1}}

(* A path that creates a file has a name.  What a longer name is cut to is *)
(* the name of no other path.                                              *)
ASSUME PathsAssumption ==
    /\ None \notin Files \cup {Root} \cup OpenFile \cup Listing \cup Names
    /\ Root \notin Files
    /\ \A path \in Paths :
          /\ path.parts \in Seq(STRING) /\ path.creates \in BOOLEAN
          /\ path.creates => path.parts # <<>>
          /\ path.creates /\ Len(path.parts) > 1 => path.parts[1] \notin Names

ASSUME ChunksAssumption == Chunks \subseteq Seq(Nat) /\ ReadSizes \subseteq Nat

VARIABLES
    children,  \* the root's children, newest first
    name,      \* the name of each file, at most 63 characters
    data,      \* its content: data and size
    fd_table,  \* each task's open files, None where free
    listing    \* the shell's listing under way: the next index, the files
               \* shown and those there were at its start

vars == <<children, name, data, fd_table, listing>>

Created == {children[i] : i \in DOMAIN children}

\* Number of files open.
OpenCount == Cardinality({h \in Tasks \X Fds : fd_table[h[1]][h[2]] # None})

-----------------------------------------------------------------------------
(* Lookup.                                                                 *)

Named(n) == {i \in DOMAIN children : name[children[i]] = n}

\* The first child of that name.
ramfs_lookup(n) ==
    IF Named(n) = {} THEN None
    ELSE children[CHOOSE i \in Named(n) : \A j \in Named(n) : i <= j]

(* vfs_lookup: every piece but the last must name a directory, and only    *)
(* the root is one.                                                        *)
vfs_lookup(path) ==
    IF path.parts = <<>> THEN Root
    ELSE IF Len(path.parts) = 1 THEN ramfs_lookup(path.parts[1])
    ELSE None

FreeFds(t) == {fd \in Fds : fd_table[t][fd] = None}

\* The slot with the lowest number.
FreeFd(t) == CHOOSE fd \in FreeFds(t) : \A other \in FreeFds(t) : fd <= other

OpenAs(t, node) ==
    fd_table' = [fd_table EXCEPT ![t][FreeFd(t)] = [node |-> node, offset |-> 0]]

-----------------------------------------------------------------------------
(* vfs_open, of a path that is found.                                      *)
OpenFound(t, path) ==
    /\ FreeFds(t) # {} /\ OpenCount < MaxOpen
    /\ vfs_lookup(path) # None
    /\ OpenAs(t, vfs_lookup(path))
    /\ UNCHANGED <<children, name, data, listing>>

\* Variant: the file is created without looking for it.
MayCreate_Blindly(path) == path.creates /\ Len(children) < MaxFiles

MayCreate(path) == /\ vfs_lookup(path) = None /\ path.creates
                   /\ Len(children) < MaxFiles

(* ramfs_create under the first piece of the name; rolled back when its    *)
(* second allocation fails.                                                *)
ramfs_create(path) ==
    LET f == Len(children) + 1
    IN  /\ children' = <<f>> \o children
        /\ name' = [name EXCEPT ![f] = path.parts[1]]
        /\ data' = [data EXCEPT ![f] = <<>>]

(* vfs_open, of a path that is not found.                                  *)
OpenCreated(t, path) ==
    /\ FreeFds(t) # {} /\ OpenCount < MaxOpen
    /\ MayCreate(path)
    /\ ramfs_create(path)
    /\ OpenAs(t, Len(children) + 1)
    /\ UNCHANGED listing

(* The open file itself cannot be allocated: the call fails and the file   *)
(* it created stays.                                                       *)
OpenCreatedOnly(t, path) ==
    /\ FreeFds(t) # {} /\ MayCreate(path)
    /\ ramfs_create(path)
    /\ UNCHANGED <<fd_table, listing>>

-----------------------------------------------------------------------------
Usable(t, fd) == fd \in Fds /\ fd_table[t][fd] # None

\* Variant: a read past the end moves the offset by the size asked for.
ramfs_read_Unclipped(f, offset, size) == IF offset >= Len(data[f]) THEN 0 ELSE size

(* ramfs_read: how much is read.                                           *)
ramfs_read(f, offset, size) ==
    IF offset >= Len(data[f]) THEN 0
    ELSE IF offset + size > Len(data[f]) THEN Len(data[f]) - offset ELSE size

(* SYSCALL_READ: the offset moves before the data is copied to the task,   *)
(* and stays there when the copy is refused.                               *)
Read(t, fd, size) ==
    /\ Usable(t, fd) /\ fd_table[t][fd].node # Root
    /\ LET n == ramfs_read(fd_table[t][fd].node, fd_table[t][fd].offset, size)
       IN  /\ n <= MaxSize
           /\ fd_table' = [fd_table EXCEPT ![t][fd].offset = @ + n]
    /\ UNCHANGED <<children, name, data, listing>>

\* Variant: the grown buffer does not take over the old content.
ramfs_write_NoCopy(f, offset, chunk) ==
    LET needed == offset + Len(chunk)
    IN  [i \in 1 .. (IF needed > Len(data[f]) THEN needed ELSE Len(data[f])) |->
           IF offset < i /\ i <= needed THEN chunk[i - offset]
           ELSE IF needed <= Len(data[f]) THEN data[f][i] ELSE 0]

\* Variant: the size becomes that of the write.
ramfs_write_SetsSize(f, offset, chunk) == SubSeq(data[f], 1, 0) \o chunk

(* ramfs_write: the content afterwards.  A write past the end grows the    *)
(* file and fills the gap with zeros.                                      *)
ramfs_write(f, offset, chunk) ==
    LET needed == offset + Len(chunk)
    IN  [i \in 1 .. (IF needed > Len(data[f]) THEN needed ELSE Len(data[f])) |->
           IF offset < i /\ i <= needed THEN chunk[i - offset]
           ELSE IF i <= Len(data[f]) THEN data[f][i] ELSE 0]

(* SYSCALL_WRITE, when the chunk can be copied in and the file grown; it   *)
(* changes nothing otherwise.                                              *)
Write(t, fd, chunk) ==
    /\ Usable(t, fd) /\ fd_table[t][fd].node # Root
    /\ LET file == fd_table[t][fd]
       IN  /\ file.offset + Len(chunk) <= MaxSize
           /\ data' = [data EXCEPT ![file.node] = ramfs_write(file.node, file.offset, chunk)]
           /\ fd_table' = [fd_table EXCEPT ![t][fd].offset = @ + Len(chunk)]
    /\ UNCHANGED <<children, name, listing>>

Close(t, fd) ==
    /\ Usable(t, fd)
    /\ fd_table' = [fd_table EXCEPT ![t][fd] = None]
    /\ UNCHANGED <<children, name, data, listing>>

-----------------------------------------------------------------------------
(* The shell's ls asks for the entry at 0, 1, 2, ... until there is none.  *)

\* Variant: the last child ends the walk before its index is looked at.
ramfs_readdir_StopsEarly(index) ==
    IF index + 1 < Len(children) THEN children[index + 1] ELSE None

\* The child at that index.
ramfs_readdir(index) ==
    IF index < Len(children) THEN children[index + 1] ELSE None

ListStart ==
    /\ listing = None
    /\ listing' = [index |-> 0, shown |-> {}, present |-> Created]
    /\ UNCHANGED <<children, name, data, fd_table>>

ListEntry ==
    /\ listing # None
    /\ ramfs_readdir(listing.index) # None
    /\ listing' = [listing EXCEPT !.index = @ + 1,
                                  !.shown = @ \cup {ramfs_readdir(listing.index)}]
    /\ UNCHANGED <<children, name, data, fd_table>>

ListEnd ==
    /\ listing # None
    /\ ramfs_readdir(listing.index) = None
    /\ listing' = None
    /\ UNCHANGED <<children, name, data, fd_table>>

-----------------------------------------------------------------------------
Init ==
    /\ children = <<>>
    /\ name = [f \in Files |-> None] /\ data = [f \in Files |-> <<>>]
    /\ fd_table = [t \in Tasks |-> [fd \in Fds |-> None]]
    /\ listing = None

Task(t) ==
    \/ \E path \in Paths : OpenFound(t, path)
    \/ \E path \in Paths : OpenCreated(t, path)
    \/ \E path \in Paths : OpenCreatedOnly(t, path)
    \/ \E fd \in -1 .. MaxFd, size \in ReadSizes : Read(t, fd, size)
    \/ \E fd \in -1 .. MaxFd, chunk \in Chunks : Write(t, fd, chunk)
    \/ \E fd \in -1 .. MaxFd : Close(t, fd)

Next == (\E t \in Tasks : Task(t)) \/ ListStart \/ ListEntry \/ ListEnd

Spec == Init /\ [][Next]_vars

-----------------------------------------------------------------------------
TypeOK ==
    /\ children \in Seq(Files) /\ Len(children) <= MaxFiles
    /\ name \in [Files -> {path.parts[1] : path \in {p \in Paths : p.creates}} \cup {None}]
    /\ data \in [Files -> Seq(Nat)] /\ \A f \in Files : Len(data[f]) <= MaxSize
    /\ fd_table \in [Tasks -> [Fds -> OpenFile \cup {None}]]
    /\ listing \in Listing \cup {None}

(* No open file points past the end of its file, or at a file that does    *)
(* not exist, whoever else reads, writes and opens the same file: a file   *)
(* never shrinks, so the gap that ramfs_write would fill with zeros never  *)
(* arises (vfs.c:139-166, ramfs.c:84-135).                                 *)
OffsetInFile ==
    \A t \in Tasks, fd \in Fds :
       LET file == fd_table[t][fd]
       IN  file # None /\ file.node # Root =>
             /\ file.node \in Created
             /\ file.offset <= Len(data[file.node])

(* Two opens of one name, by any tasks and with any allocation failing on  *)
(* the way, lead to one file (vfs.c:68-136, ramfs.c:191-240).  Names cut   *)
(* at 63 characters are left out: a path with such a name is not found     *)
(* again, and each open of it makes another file.                          *)
OneFilePerName ==
    \A f, g \in Created : name[f] = name[g] /\ name[f] \in Names => f = g

(* A step changes a file only from the offset of one of its open files on, *)
(* and never shortens it: what a task wrote before its offset survives     *)
(* what that open file does next (ramfs.c:102-135).                        *)
PrefixKept ==
    [][\A f \in Files : data'[f] # data[f] =>
          \E t \in Tasks, fd \in Fds :
             LET file == fd_table[t][fd]
             IN  /\ file # None /\ file.node = f
                 /\ Len(data'[f]) >= Len(data[f])
                 /\ SubSeq(data'[f], 1, file.offset) = SubSeq(data[f], 1, file.offset)
      ]_vars

(* A listing shows every file there was at its start, however many files   *)
(* other tasks create meanwhile: they shift the indices, but forwards only *)
(* (ramfs.c:213-215, :242-264, shell.asm:246-279).  A file may be shown    *)
(* twice, and a file created meanwhile is not shown unless it comes first. *)
ListingComplete ==
    [][listing # None /\ listing' = None => listing.present \subseteq listing.shown]_vars

\* The directory and the contents FileStore speaks of.
DirOf     == [n \in Names |-> ramfs_lookup(n)]
ContentOf == [f \in Files |-> IF f \in Created THEN data[f] ELSE None]

Store == INSTANCE FileStore WITH
    Slots <- Fds, dir <- DirOf, content <- ContentOf, handle <- fd_table

(* The calls implement a store of files under names (FileStore): each name *)
(* leads to one file for good, a write changes its own bytes of one file   *)
(* and a read passes over what is there, whatever is open elsewhere and    *)
(* whichever allocation fails.                                             *)
ImplementsFileStore == Store!Spec
=============================================================================
