--------------------------------- MODULE Allocator ---------------------------------
(***************************************************************************)
(* What a memory allocator promises its callers: chunks of memory that no  *)
(* two of them share, as large as was asked for, and left alone until they *)
(* are given back.                                                         *)
(***************************************************************************)
EXTENDS Integers

CONSTANTS Memory,      \* addresses a chunk may lie at
          Sizes,       \* sizes asked for
          MaxRequest   \* the largest size the promise is for

VARIABLE chunks        \* those given out: first and last unit, and what was asked

Chunk == {c \in [first : Memory, last : Memory, asked : Sizes] : c.first <= c.last}

\* The first unit of a chunk is the allocator's own.
LargeEnough(c) == c.asked <= MaxRequest => c.last - c.first >= c.asked

Apart(c, d) == c.last < d.first \/ d.last < c.first

Init == chunks = {}

(* Any place will do, and a request may always be refused.                 *)
Allocate(c) ==
    /\ c \in Chunk /\ LargeEnough(c)
    /\ \A d \in chunks : Apart(c, d)
    /\ chunks' = chunks \cup {c}

Release(c) == chunks' = chunks \ {c}

Next ==
    \/ \E c \in chunks' \ chunks : Allocate(c)
    \/ \E c \in chunks \ chunks' : Release(c)

Spec == Init /\ [][Next]_chunks
=============================================================================
