------------------------------ MODULE FileStore ------------------------------
(***************************************************************************)
(* What the file system calls promise, without paths, lists, buffers or    *)
(* allocations: a directory that gives each name one file for good, files  *)
(* that are strings of bytes, and handles that each read and overwrite     *)
(* their file from a position of their own.  Nothing is ever deleted.      *)
(***************************************************************************)
EXTENDS Integers, Sequences

CONSTANTS Names, Files, Tasks, Slots, Root, None, Chunks, ReadSizes

VARIABLES
    dir,      \* the file of each name, None before it has one
    content,  \* the bytes of each file, None before it is created
    handle    \* what each task holds: a file, or the root, and a position

vars == <<dir, content, handle>>

Init ==
    /\ dir = [n \in Names |-> None]
    /\ content = [f \in Files |-> None]
    /\ handle = [t \in Tasks |-> [s \in Slots |-> None]]

(* A task gets a handle at the start of a file, in any slot it has free.   *)
Hold(t, f) ==
    \E s \in Slots :
       /\ handle[t][s] = None
       /\ handle' = [handle EXCEPT ![t][s] = [node |-> f, offset |-> 0]]

Open(t) ==
    /\ \E f \in {Root} \cup {dir[n] : n \in Names} : f # None /\ Hold(t, f)
    /\ UNCHANGED <<dir, content>>

(* A new empty file.  It gets a name that had none, or one that no search  *)
(* asks for; the task may end up without a handle on it.                   *)
Create(t) ==
    \E f \in Files :
       /\ content[f] = None
       /\ content' = [content EXCEPT ![f] = <<>>]
       /\ \/ UNCHANGED dir
          \/ \E n \in Names : dir[n] = None /\ dir' = [dir EXCEPT ![n] = f]
       /\ Hold(t, f) \/ UNCHANGED handle

Holds(t, s) == handle[t][s] # None /\ handle[t][s].node # Root

(* The bytes from a position on, at most so many.                          *)
From(c, pos, size) == SubSeq(c, pos + 1, IF pos + size < Len(c) THEN pos + size ELSE Len(c))

Read(t, s, size) ==
    /\ Holds(t, s)
    /\ LET got == From(content[handle[t][s].node], handle[t][s].offset, size)
       IN  handle' = [handle EXCEPT ![t][s].offset = @ + Len(got)]
    /\ UNCHANGED <<dir, content>>

(* A string with the bytes from a position on overwritten.                 *)
Overwrite(c, pos, chunk) ==
    SubSeq(c, 1, pos) \o chunk \o SubSeq(c, pos + Len(chunk) + 1, Len(c))

Write(t, s, chunk) ==
    /\ Holds(t, s)
    /\ content' = [content EXCEPT ![handle[t][s].node] =
                                    Overwrite(@, handle[t][s].offset, chunk)]
    /\ handle' = [handle EXCEPT ![t][s].offset = @ + Len(chunk)]
    /\ UNCHANGED dir

Drop(t, s) ==
    /\ handle[t][s] # None
    /\ handle' = [handle EXCEPT ![t][s] = None]
    /\ UNCHANGED <<dir, content>>

Next ==
    \E t \in Tasks :
       \/ Open(t)
       \/ Create(t)
       \/ \E s \in Slots : \/ \E size \in ReadSizes : Read(t, s, size)
                           \/ \E chunk \in Chunks : Write(t, s, chunk)
                           \/ Drop(t, s)

Spec == Init /\ [][Next]_vars
=============================================================================
