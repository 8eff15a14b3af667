------------------------------- MODULE InputProofs -------------------------------
(***************************************************************************)
(* What comes of the bytes of the mouse and of the keys of the calculator. *)
(*                                                                         *)
(* The packet assembly of drivers/mouse.c, for every number of bytes the   *)
(* drain reads and the wire loses: no stray byte is acted on, one slow     *)
(* packet brings it back in step, and in step it stays.                    *)
(*                                                                         *)
(* The calculator of app/calc.c, for every width and every sequence of     *)
(* keys: it shows what they mean, and one division alone halts it.         *)
(***************************************************************************)
EXTENDS Mouse, Calc, WellFoundedInduction, TLAPS

ByteOrEmpty == Byte \cup {Empty}

(* A sequence of bytes as the theorems see it: its length and its places.  *)
LEMMA AppendByte ==
    ASSUME NEW s \in Seq(Byte), NEW b \in Byte
    PROVE  /\ Append(s, b) \in Seq(Byte)
           /\ Len(s) \in Nat /\ Len(Append(s, b)) = Len(s) + 1
           /\ DOMAIN Append(s, b) = 1 .. Len(s) + 1
           /\ \A i \in DOMAIN s : i \in 1 .. Len(s) /\ Append(s, b)[i] = s[i]
           /\ \A i \in DOMAIN Append(s, b) : i \in DOMAIN s \/ i = Len(s) + 1
           /\ Append(s, b)[Len(s) + 1] = b
<1>1. Append(s, b) \in Seq(Byte) /\ Len(Append(s, b)) = Len(s) + 1 /\ Len(s) \in Nat
  OBVIOUS
<1>2. DOMAIN Append(s, b) = 1 .. Len(s) + 1 /\ DOMAIN s = 1 .. Len(s)
  BY <1>1
<1>3. \A i \in 1 .. Len(s) : Append(s, b)[i] = s[i]
  BY <1>1
<1>4. Append(s, b)[Len(s) + 1] = b
  BY <1>1
<1> QED
  BY <1>1, <1>2, <1>3, <1>4

(* What an interrupt does, one disjunct per outcome: the byte is not taken *)
(* for the first of a packet, it completes one, or it is kept.             *)
Ignored(data)  == mouse_bytes' = mouse_bytes /\ handled' = <<>>
                  /\ mouse_cycle = 0 /\ ~data.bit3
Completed(data) == mouse_bytes' = <<>> /\ Len(mouse_bytes) = 2
                   /\ handled' \in {<<>>, Append(mouse_bytes, data)}
Kept(data)     == mouse_bytes' = Append(mouse_bytes, data) /\ handled' = <<>>
                  /\ Len(mouse_bytes) # 2 /\ (mouse_cycle = 0 => data.bit3)

LEMMA Outcomes ==
    ASSUME TypeOK, mouse_handle_interrupt
    PROVE  \E data \in Byte :
             /\ data = IF out = Empty THEN port ELSE out
             /\ on /\ request /\ ~request'
             /\ port' = data /\ out' = Empty
             /\ UNCHANGED <<on, drained, next, lost>>
             /\ slow' = IF out = Empty \/ data.at = 0 THEN 0
                        ELSE IF data.at = 1 THEN 1
                        ELSE IF slow = data.at - 1 /\ ~data.bit3 THEN slow + 1
                        ELSE 0
             /\ \/ Ignored(data) /\ UNCHANGED first_packet
                \/ Completed(data) /\ ~first_packet' /\ (first_packet => handled' = <<>>)
                \/ Kept(data) /\ UNCHANGED first_packet
<1> DEFINE data  == IF out = Empty THEN port ELSE out
           bytes == Append(mouse_bytes, data)
<1>1. data \in Byte
  <2>1. CASE out = Empty
    BY <2>1 DEF TypeOK
  <2>2. CASE out # Empty
    BY <2>2 DEF TypeOK
  <2> QED
    BY <2>1, <2>2
<1>2. mouse_bytes \in Seq(Byte) /\ Len(mouse_bytes) \in 0 .. 2
  BY DEF TypeOK, mouse_cycle
<1>3. /\ on /\ request /\ ~request'
      /\ port' = data /\ out' = Empty
      /\ UNCHANGED <<on, drained, next, lost>>
      /\ slow' = IF out = Empty \/ data.at = 0 THEN 0
                 ELSE IF data.at = 1 THEN 1
                 ELSE IF slow = data.at - 1 /\ ~data.bit3 THEN slow + 1
                 ELSE 0
  BY DEF mouse_handle_interrupt
<1>4. /\ ~Accepted(data) => /\ handled' = <<>>
                            /\ UNCHANGED <<mouse_bytes, first_packet>>
      /\ Accepted(data) /\ Complete(bytes) =>
            mouse_bytes' = <<>> /\ mouse_process_packet(bytes)
      /\ Accepted(data) /\ ~Complete(bytes) =>
            mouse_bytes' = bytes /\ handled' = <<>> /\ UNCHANGED first_packet
  BY Zenon DEF mouse_handle_interrupt
<1> HIDE DEF data
<1>5. PICK n \in 0 .. 2 : n = Len(mouse_bytes) /\ Len(bytes) = n + 1
  BY <1>1, <1>2, AppendByte
<1> HIDE DEF bytes
<1>6. CASE ~Accepted(data)
  <2>1. Ignored(data)
    BY <1>4, <1>6 DEF Ignored, Accepted
  <2> QED
    BY <1>1, <1>3, <1>4, <1>6, <2>1 DEF data
<1>7. CASE Accepted(data) /\ Complete(bytes)
  <2>1. n = 2
    BY <1>5, <1>7 DEF Complete
  <2>2. ~first_packet' /\ (first_packet => handled' = <<>>) /\ handled' \in {<<>>, bytes}
    BY <1>4, <1>7 DEF mouse_process_packet
  <2>3. Completed(data)
    BY <1>4, <1>5, <1>7, <2>1, <2>2 DEF Completed, bytes
  <2> QED
    BY <1>1, <1>3, <2>2, <2>3 DEF data
<1>8. CASE Accepted(data) /\ ~Complete(bytes)
  <2>a. Len(bytes) # 3
    BY <1>8 DEF Complete
  <2>1. n # 2
    BY <1>5, <2>a
  <2>2. Kept(data)
    BY <1>4, <1>5, <1>8, <2>1 DEF Kept, bytes, Accepted
  <2> QED
    BY <1>1, <1>3, <1>4, <1>8, <2>2 DEF data
<1> QED
  BY <1>6, <1>7, <1>8

LEMMA InitType == Init => TypeOK
<1> SUFFICES ASSUME Init PROVE TypeOK
  OBVIOUS
<1>1. on \in BOOLEAN /\ request \in BOOLEAN /\ first_packet \in BOOLEAN
  BY DEF Init
<1>2. /\ drained \in 0 .. DrainMax /\ lost \in 0 .. MaxLost
      /\ next \in 1 .. 3 /\ slow \in 0 .. 3
  BY DrainAssumption DEF Init
<1>3. out \in Byte \cup {Empty} /\ port \in Byte
  <2>1. Ack \in Byte
    BY DEF Byte, Ack
  <2> QED
    BY <2>1 DEF Init
<1>4. mouse_bytes \in Seq(Byte) /\ mouse_cycle \in 0 .. 2 /\ handled \in Seq(Byte)
  <2>1. mouse_bytes = <<>> /\ handled = <<>>
    BY DEF Init
  <2> QED
    BY <2>1 DEF mouse_cycle
<1> QED
  BY <1>1, <1>2, <1>3, <1>4 DEF TypeOK

(* What an interrupt reads is a byte, and what is gathered stays short of  *)
(* a packet (mouse.c:190-206).                                             *)
LEMMA InterruptType == TypeOK /\ mouse_handle_interrupt => TypeOK'
<1> SUFFICES ASSUME TypeOK, mouse_handle_interrupt PROVE TypeOK'
  OBVIOUS
<1>1. PICK data \in Byte :
        /\ on /\ request /\ ~request'
        /\ port' = data /\ out' = Empty
        /\ UNCHANGED <<on, drained, next, lost>>
        /\ slow' = IF out = Empty \/ data.at = 0 THEN 0
                   ELSE IF data.at = 1 THEN 1
                   ELSE IF slow = data.at - 1 /\ ~data.bit3 THEN slow + 1
                   ELSE 0
        /\ \/ Ignored(data) /\ UNCHANGED first_packet
           \/ Completed(data) /\ ~first_packet' /\ (first_packet => handled' = <<>>)
           \/ Kept(data) /\ UNCHANGED first_packet
  BY Outcomes
<1>2. mouse_bytes \in Seq(Byte) /\ Len(mouse_bytes) \in 0 .. 2
  BY DEF TypeOK, mouse_cycle
<1>3. PICK n \in 0 .. 2 : /\ n = Len(mouse_bytes)
                          /\ Append(mouse_bytes, data) \in Seq(Byte)
                          /\ Len(Append(mouse_bytes, data)) = n + 1
  BY <1>2, AppendByte
<1>4. slow' \in 0 .. 3
  <2>1. data.at \in 0 .. 3 /\ slow \in 0 .. 3
    BY DEF TypeOK, Byte
  <2> QED
    BY <1>1, <2>1
<1>5. /\ mouse_bytes' \in Seq(Byte) /\ Len(mouse_bytes') \in 0 .. 2
      /\ handled' \in Seq(Byte)
  <2>1. Ignored(data) \/ Completed(data) \/ Kept(data)
    BY <1>1
  <2>2. CASE Ignored(data)
    BY <1>2, <2>2 DEF Ignored
  <2>3. CASE Completed(data)
    <3>1. mouse_bytes' = <<>> /\ handled' \in {<<>>, Append(mouse_bytes, data)}
      BY <2>3 DEF Completed
    <3>2. <<>> \in Seq(Byte) /\ Len(<<>>) = 0
      OBVIOUS
    <3>3. Append(mouse_bytes, data) \in Seq(Byte)
      BY <1>3
    <3>4. Len(mouse_bytes') \in 0 .. 2
      BY <3>1, <3>2
    <3> QED
      BY <3>1, <3>2, <3>3, <3>4
  <2>4. CASE Kept(data)
    <3>a. n \in 0 .. 2 /\ n # 2
      BY <1>3, <2>4 DEF Kept
    <3>1. n + 1 \in 0 .. 2
      BY <3>a
    <3>2. mouse_bytes' = Append(mouse_bytes, data) /\ handled' = <<>>
      BY <2>4 DEF Kept
    <3> QED
      BY <1>3, <3>1, <3>2
  <2> QED
    BY <2>1, <2>2, <2>3, <2>4
<1>6. on' \in BOOLEAN /\ request' \in BOOLEAN /\ first_packet' \in BOOLEAN
  BY <1>1, Zenon DEF TypeOK, mouse_handle_interrupt, mouse_process_packet
<1>7. drained' \in 0 .. DrainMax /\ lost' \in 0 .. MaxLost /\ next' \in 1 .. 3
  BY <1>1 DEF TypeOK
<1> QED
  BY <1>1, <1>4, <1>5, <1>6, <1>7 DEF TypeOK, mouse_cycle

LEMMA NextType == TypeOK /\ [Next]_vars => TypeOK'
<1> SUFFICES ASSUME TypeOK, [Next]_vars PROVE TypeOK'
  OBVIOUS
<1>1. ASSUME NEW bit3 \in BOOLEAN, MouseSends(bit3) PROVE TypeOK'
  BY <1>1 DEF TypeOK, MouseSends, Following, Byte, Empty, mouse_cycle
<1>2. ASSUME NEW bit3 \in BOOLEAN, KeySends(bit3) PROVE TypeOK'
  BY <1>2 DEF TypeOK, KeySends, Byte, Empty, mouse_cycle
<1>3. CASE MouseLoses
  BY <1>3, DrainAssumption DEF TypeOK, MouseLoses, Following, mouse_cycle
<1>4. CASE DrainByte
  <2>1. request' \in BOOLEAN
    BY <1>4, Zenon DEF TypeOK, DrainByte
  <2>2. drained' \in 0 .. DrainMax
    BY <1>4, DrainAssumption DEF TypeOK, DrainByte
  <2>3. out' \in Byte \cup {Empty} /\ port' \in Byte
    BY <1>4 DEF TypeOK, DrainByte
  <2> QED
    BY <1>4, <2>1, <2>2, <2>3 DEF TypeOK, DrainByte, mouse_cycle
<1>5. CASE DrainEnds
  BY <1>5 DEF TypeOK, DrainEnds, mouse_cycle
<1>6. CASE mouse_handle_interrupt
  BY <1>6, InterruptType
<1>7. CASE UNCHANGED vars
  BY <1>7 DEF TypeOK, vars, mouse_cycle
<1> QED
  BY <1>1, <1>2, <1>3, <1>4, <1>5, <1>6, <1>7 DEF Next

-----------------------------------------------------------------------------
(* Why a stray byte is never acted on.  Only the very first interrupt can  *)
(* read one: every later request came with a byte of the mouse, which      *)
(* nothing can replace while it waits.  The first packet is thrown away.   *)
NoStray(s) == \A i \in DOMAIN s : s[i].at # 0

RequestIsMouse == request => out # Empty /\ out.at # 0

StrayInv ==
    /\ TypeOK
    /\ ~on => mouse_bytes = <<>> /\ first_packet
    /\ RequestIsMouse \/ (mouse_bytes = <<>> /\ first_packet)
    /\ first_packet \/ NoStray(mouse_bytes)
    /\ NoStray(handled)

LEMMA StrayInit == Init => StrayInv
<1> SUFFICES ASSUME Init PROVE StrayInv
  OBVIOUS
<1>1. TypeOK
  BY InitType
<1> QED
  BY <1>1 DEF Init, StrayInv, NoStray

(* An interrupt leaves no request behind, and what it acts on was gathered *)
(* after the first packet.                                                 *)
LEMMA StrayInterrupt == StrayInv /\ mouse_handle_interrupt => StrayInv'
<1> SUFFICES ASSUME StrayInv, mouse_handle_interrupt PROVE StrayInv'
  OBVIOUS
<1>1. TypeOK /\ TypeOK' /\ mouse_bytes \in Seq(Byte)
  BY InterruptType DEF StrayInv, TypeOK
<1>2. PICK data \in Byte :
        /\ data = IF out = Empty THEN port ELSE out
        /\ on /\ request /\ ~request' /\ UNCHANGED on
        /\ \/ Ignored(data) /\ UNCHANGED first_packet
           \/ Completed(data) /\ ~first_packet' /\ (first_packet => handled' = <<>>)
           \/ Kept(data) /\ UNCHANGED first_packet
  BY <1>1, Outcomes
<1>3. RequestIsMouse' /\ on'
  BY <1>2 DEF RequestIsMouse
<1>4. NoStray(<<>>)
  BY DEF NoStray
<1>5. ~first_packet => NoStray(mouse_bytes) /\ NoStray(Append(mouse_bytes, data))
  <2>1. SUFFICES ASSUME ~first_packet
                 PROVE  NoStray(mouse_bytes) /\ NoStray(Append(mouse_bytes, data))
    OBVIOUS
  <2>2. NoStray(mouse_bytes) /\ RequestIsMouse
    BY <2>1 DEF StrayInv
  <2>3. data.at # 0
    BY <1>2, <2>2 DEF RequestIsMouse
  <2> QED
    BY <1>1, <2>2, <2>3, AppendByte DEF NoStray
<1>6. NoStray(handled')
  BY <1>2, <1>4, <1>5 DEF Ignored, Completed, Kept
<1>7. first_packet' \/ NoStray(mouse_bytes')
  <2>1. CASE Completed(data)
    BY <1>4, <2>1 DEF Completed
  <2>2. CASE (Ignored(data) \/ Kept(data)) /\ UNCHANGED first_packet
    BY <1>5, <2>2 DEF Ignored, Kept
  <2> QED
    BY <1>2, <2>1, <2>2
<1>8. NoStray(handled)' /\ (first_packet' \/ NoStray(mouse_bytes)')
  BY <1>6, <1>7 DEF NoStray
<1> QED
  BY <1>1, <1>3, <1>8 DEF StrayInv

LEMMA StrayNext == StrayInv /\ [Next]_vars => StrayInv'
<1> SUFFICES ASSUME StrayInv, [Next]_vars PROVE StrayInv'
  OBVIOUS
<1>0. TypeOK'
  BY NextType DEF StrayInv
<1>1. ASSUME NEW bit3 \in BOOLEAN, MouseSends(bit3) PROVE StrayInv'
  BY <1>0, <1>1 DEF StrayInv, MouseSends, RequestIsMouse, NoStray, TypeOK, Empty
<1>2. ASSUME NEW bit3 \in BOOLEAN, KeySends(bit3) PROVE StrayInv'
  BY <1>0, <1>2 DEF StrayInv, KeySends, RequestIsMouse, NoStray, TypeOK, Empty
<1>3. CASE MouseLoses
  BY <1>0, <1>3 DEF StrayInv, MouseLoses, RequestIsMouse, NoStray
<1>4. CASE DrainByte
  BY <1>0, <1>4 DEF StrayInv, DrainByte, RequestIsMouse, NoStray
<1>5. CASE DrainEnds
  BY <1>0, <1>5 DEF StrayInv, DrainEnds, RequestIsMouse, NoStray
<1>6. CASE mouse_handle_interrupt
  BY <1>6, StrayInterrupt
<1>7. CASE UNCHANGED vars
  BY <1>0, <1>7 DEF StrayInv, vars, RequestIsMouse, NoStray
<1> QED
  BY <1>1, <1>2, <1>3, <1>4, <1>5, <1>6, <1>7 DEF Next
-----------------------------------------------------------------------------
(* Why one slow packet suffices.  After its first byte the assembly may be *)
(* at any place.  Its second byte cannot be taken for a first one, so that *)
(* then a packet has just ended or waits for its third byte; and its third *)
(* byte ends that one, or is ignored.                                      *)
SlowInv ==
    /\ TypeOK
    /\ slow > 0 => on /\ (request => out # Empty)
    /\ slow > 0 /\ out # Empty /\ out.at # 0 => next = Following(out.at)
    /\ slow > 1 /\ (out = Empty \/ out.at = 0) => next = Following(slow)
    /\ slow > 1 /\ out # Empty /\ out.at # 0 => out.at = Following(slow)
    /\ slow = 2 => Len(mouse_bytes) \in {0, 2}
    /\ slow = 3 => mouse_bytes = <<>>

LEMMA SlowInit == Init => SlowInv
<1> SUFFICES ASSUME Init PROVE SlowInv
  OBVIOUS
<1>1. TypeOK
  BY InitType
<1>2. slow = 0
  BY DEF Init
<1> QED
  BY <1>1, <1>2 DEF SlowInv

LEMMA SlowInterrupt == SlowInv /\ mouse_handle_interrupt => SlowInv'
<1> SUFFICES ASSUME SlowInv, mouse_handle_interrupt PROVE SlowInv'
  OBVIOUS
<1>1. TypeOK /\ TypeOK' /\ mouse_bytes \in Seq(Byte)
  BY InterruptType DEF SlowInv, TypeOK
<1>2. PICK data \in Byte :
        /\ data = IF out = Empty THEN port ELSE out
        /\ on /\ on' /\ ~request' /\ out' = Empty /\ next' = next
        /\ slow' = IF out = Empty \/ data.at = 0 THEN 0
                   ELSE IF data.at = 1 THEN 1
                   ELSE IF slow = data.at - 1 /\ ~data.bit3 THEN slow + 1
                   ELSE 0
        /\ Ignored(data) \/ Completed(data) \/ Kept(data)
  BY <1>1, Outcomes
<1>3. data.at \in 0 .. 3 /\ slow \in 0 .. 3 /\ slow' \in 0 .. 3
  BY <1>1 DEF TypeOK, Byte
<1>4. slow' > 1 => /\ out # Empty /\ data = out /\ ~data.bit3
                   /\ slow' = data.at /\ slow = data.at - 1
  BY <1>2, <1>3
<1>5. slow' > 1 => next' = Following(slow')
  <2>1. SUFFICES ASSUME slow' > 1 PROVE next' = Following(slow')
    OBVIOUS
  <2>2. slow > 0 /\ out # Empty /\ out.at # 0 /\ slow' = out.at
    BY <1>3, <1>4, <2>1
  <2> QED
    BY <1>2, <2>2 DEF SlowInv
<1>6. slow' = 2 => Len(mouse_bytes') \in {0, 2}
  <2>1. SUFFICES ASSUME slow' = 2 PROVE Len(mouse_bytes') \in {0, 2}
    OBVIOUS
  <2>2. ~data.bit3
    BY <1>4, <2>1
  <2>3. PICK n \in 0 .. 2 : /\ n = Len(mouse_bytes)
                           /\ Len(Append(mouse_bytes, data)) = n + 1
    BY <1>1, AppendByte DEF TypeOK, mouse_cycle
  <2>4. CASE Ignored(data)
    BY <2>4 DEF Ignored, mouse_cycle
  <2>5. CASE Completed(data)
    <3>1. mouse_bytes' = <<>> /\ Len(<<>>) = 0
      BY <2>5 DEF Completed
    <3> QED
      BY <3>1
  <2>6. CASE Kept(data)
    <3>1. n # 2 /\ n # 0 /\ mouse_bytes' = Append(mouse_bytes, data)
      BY <2>2, <2>3, <2>6 DEF Kept, mouse_cycle
    <3>2. n \in 0 .. 2
      OBVIOUS
    <3>3. n + 1 = 2
      BY <3>1, <3>2
    <3> QED
      BY <2>3, <3>1, <3>3
  <2> QED
    BY <1>2, <2>4, <2>5, <2>6
<1>7. slow' = 3 => mouse_bytes' = <<>>
  <2>1. SUFFICES ASSUME slow' = 3 PROVE mouse_bytes' = <<>>
    OBVIOUS
  <2>2. ~data.bit3 /\ slow = 2
    BY <1>4, <2>1
  <2>3. Len(mouse_bytes) \in {0, 2}
    BY <2>2 DEF SlowInv
  <2>4. ~Kept(data)
    BY <2>2, <2>3 DEF Kept, mouse_cycle
  <2>5. CASE Ignored(data)
    <3>1. Len(mouse_bytes) = 0 /\ mouse_bytes' = mouse_bytes
      BY <2>5 DEF Ignored, mouse_cycle
    <3> QED
      BY <1>1, <3>1
  <2>6. CASE Completed(data)
    BY <2>6 DEF Completed
  <2> QED
    BY <1>2, <2>4, <2>5, <2>6
<1> QED
  BY <1>1, <1>2, <1>5, <1>6, <1>7 DEF SlowInv

LEMMA SlowNext == SlowInv /\ [Next]_vars => SlowInv'
<1> SUFFICES ASSUME SlowInv, [Next]_vars PROVE SlowInv'
  OBVIOUS
<1>0. TypeOK' /\ slow \in 0 .. 3 /\ next \in 1 .. 3
  BY NextType DEF SlowInv, TypeOK
<1>1. ASSUME NEW bit3 \in BOOLEAN, MouseSends(bit3) PROVE SlowInv'
  BY <1>0, <1>1 DEF SlowInv, MouseSends, Following, Empty
<1>2. ASSUME NEW bit3 \in BOOLEAN, KeySends(bit3) PROVE SlowInv'
  BY <1>0, <1>2 DEF SlowInv, KeySends, Following, Empty
<1>3. CASE MouseLoses
  BY <1>0, <1>3 DEF SlowInv, MouseLoses
<1>4. CASE DrainByte
  BY <1>0, <1>4 DEF SlowInv, DrainByte
<1>5. CASE DrainEnds
  BY <1>0, <1>5 DEF SlowInv, DrainEnds, Following
<1>6. CASE mouse_handle_interrupt
  BY <1>6, SlowInterrupt
<1>7. CASE UNCHANGED vars
  BY <1>0, <1>7 DEF SlowInv, vars, Following
<1> QED
  BY <1>1, <1>2, <1>3, <1>4, <1>5, <1>6, <1>7 DEF Next

-----------------------------------------------------------------------------
(* The first byte of a packet has bit 3, so that an assembly in step never *)
(* ignores it.                                                             *)
FirstMarked == TypeOK /\ (out.at = 1 => out.bit3)

LEMMA FirstMarkedInit == Init => FirstMarked
  BY InitType DEF Init, FirstMarked, Empty, Ack

LEMMA FirstMarkedNext == FirstMarked /\ [Next]_vars => FirstMarked'
<1> SUFFICES ASSUME FirstMarked, [Next]_vars PROVE FirstMarked'
  OBVIOUS
<1>1. TypeOK'
  BY NextType DEF FirstMarked
<1>2. out'.at = 1 => out'.bit3
  <2>1. ASSUME NEW bit3 \in BOOLEAN, MouseSends(bit3) PROVE out'.at = 1 => out'.bit3
    BY <2>1 DEF MouseSends
  <2>2. ASSUME NEW bit3 \in BOOLEAN, KeySends(bit3) PROVE out'.at = 1 => out'.bit3
    BY <2>2 DEF KeySends
  <2>3. CASE DrainByte \/ mouse_handle_interrupt
    <3>1. out' = Empty
      BY <2>3, Zenon DEF DrainByte, mouse_handle_interrupt
    <3> QED
      BY <3>1 DEF Empty
  <2>4. CASE UNCHANGED out
    BY <2>4 DEF FirstMarked
  <2> QED
    BY <2>1, <2>2, <2>3, <2>4 DEF Next, MouseLoses, DrainEnds, vars
<1> QED
  BY <1>1, <1>2 DEF FirstMarked

(* An interrupt in step takes the byte for what it is.                     *)
LEMMA InterruptInStep ==
    ASSUME FirstMarked, InSync, mouse_handle_interrupt
    PROVE  InSync'
<1>1. TypeOK /\ mouse_bytes \in Seq(Byte)
  BY DEF FirstMarked, TypeOK
<1>2. PICK data \in Byte :
        /\ data = IF out = Empty THEN port ELSE out
        /\ request /\ ~request' /\ out' = Empty /\ next' = next
        /\ Ignored(data) \/ Completed(data) \/ Kept(data)
  BY <1>1, Outcomes
<1>3. PICK n \in 0 .. 2 :
        /\ n = Len(mouse_bytes)
        /\ Len(Append(mouse_bytes, data)) = n + 1
        /\ \A i \in DOMAIN mouse_bytes : Append(mouse_bytes, data)[i] = mouse_bytes[i]
        /\ \A i \in DOMAIN Append(mouse_bytes, data) : i \in DOMAIN mouse_bytes \/ i = n + 1
        /\ Append(mouse_bytes, data)[n + 1] = data
  BY <1>1, AppendByte DEF TypeOK, mouse_cycle
<1>4. data = out /\ data.at = n + 1 /\ next = Following(n + 1) /\ out # Empty
  BY <1>2, <1>3 DEF InSync, Arriving, mouse_cycle
<1>5. CASE Ignored(data)
  <2>1. n = 0 /\ ~data.bit3
    BY <1>3, <1>5 DEF Ignored, mouse_cycle
  <2>2. out.at = 1
    BY <1>4, <2>1
  <2> QED
    BY <1>4, <2>1, <2>2 DEF FirstMarked
<1>6. CASE Completed(data)
  <2>1. mouse_bytes' = <<>> /\ n = 2
    BY <1>3, <1>6 DEF Completed
  <2>2. next' = 1
    BY <1>2, <1>4, <2>1 DEF Following
  <2>3. DOMAIN <<>> = {} /\ Len(<<>>) = 0
    OBVIOUS
  <2> QED
    BY <1>2, <2>1, <2>2, <2>3 DEF InSync, Arriving, mouse_cycle
<1>7. CASE Kept(data)
  <2>1. mouse_bytes' = Append(mouse_bytes, data) /\ n # 2
    BY <1>3, <1>7 DEF Kept
  <2>2. n \in 0 .. 2
    OBVIOUS
  <2>3. next' = n + 2
    BY <1>2, <1>4, <2>1, <2>2 DEF Following
  <2>4. Len(mouse_bytes') = n + 1
    BY <1>3, <2>1
  <2>5. \A i \in DOMAIN mouse_bytes' : mouse_bytes'[i].at = i
    BY <1>3, <1>4, <2>1 DEF InSync
  <2>6. Arriving' = mouse_cycle' + 1
    BY <1>2, <2>2, <2>3, <2>4 DEF Arriving, mouse_cycle
  <2> QED
    BY <1>2, <2>5, <2>6 DEF InSync
<1> QED
  BY <1>2, <1>5, <1>6, <1>7

LEMMA StepInSync ==
    FirstMarked /\ [Next]_vars =>
       (on /\ InSync /\ lost' = lost => InSync' \/ out'.at = 0)
<1> SUFFICES ASSUME FirstMarked, [Next]_vars, on, InSync, lost' = lost
             PROVE  InSync' \/ out'.at = 0
  OBVIOUS
<1>0. next \in 1 .. 3 /\ lost \in Int
  BY DEF FirstMarked, TypeOK
<1>1. ASSUME NEW bit3 \in BOOLEAN, MouseSends(bit3) PROVE InSync'
  BY <1>0, <1>1 DEF MouseSends, InSync, Arriving, mouse_cycle, Empty
<1>2. ASSUME NEW bit3 \in BOOLEAN, KeySends(bit3) PROVE out'.at = 0
  BY <1>2 DEF KeySends
<1>3. CASE MouseLoses
  BY <1>0, <1>3 DEF MouseLoses
<1>4. CASE DrainByte \/ DrainEnds
  BY <1>4 DEF DrainByte, DrainEnds
<1>5. CASE mouse_handle_interrupt
  BY <1>5, InterruptInStep
<1>6. CASE UNCHANGED vars
  BY <1>6 DEF vars, InSync, Arriving, mouse_cycle
<1> QED
  BY <1>1, <1>2, <1>3, <1>4, <1>5, <1>6 DEF Next

-----------------------------------------------------------------------------
(* No byte of the handshake and no key's is ever acted on as movement.     *)
THEOREM StrayDiscardedHolds == Spec => []StrayDiscarded
<1>1. StrayInv => StrayDiscarded
  BY DEF StrayInv, StrayDiscarded, NoStray
<1> QED
  BY <1>1, StrayInit, StrayNext, PTL DEF Spec

(* However the packet boundary was lost, one slow packet restores it.      *)
THEOREM OneSlowPacketHolds == Spec => []OneSlowPacketSuffices
<1>1. SlowInv => OneSlowPacketSuffices
  <2> SUFFICES ASSUME SlowInv, slow = 3, out \notin [at : {0}, bit3 : BOOLEAN]
               PROVE  InSync
    BY DEF OneSlowPacketSuffices
  <2>1. mouse_bytes = <<>> /\ DOMAIN <<>> = {} /\ Len(<<>>) = 0
    BY DEF SlowInv
  <2>2. out = Empty \/ out.at # 0
    BY DEF SlowInv, TypeOK, Byte
  <2>3. Following(slow) = 1
    BY DEF Following
  <2>4. Arriving = 1 /\ (out # Empty => next = Following(out.at))
    BY <2>2, <2>3 DEF SlowInv, Arriving
  <2>5. request => out # Empty
    BY DEF SlowInv
  <2> QED
    BY <2>1, <2>4, <2>5 DEF InSync, mouse_cycle
<1> QED
  BY <1>1, SlowInit, SlowNext, PTL DEF Spec

(* In step, the assembly stays in step until a byte is lost or a key comes *)
(* in between.                                                             *)
THEOREM SyncKeptHolds == Spec => SyncKept
<1>1. FirstMarked /\ [Next]_vars =>
        [on /\ InSync /\ lost' = lost => InSync' \/ out'.at = 0]_vars
  BY StepInSync
<1> QED
  BY <1>1, FirstMarkedInit, FirstMarkedNext, PTL DEF Spec, SyncKept

-----------------------------------------------------------------------------
(* Reading a sequence of keys.                                             *)

\* A nonempty set of naturals has a least element.
LEMMA LeastNat ==
    ASSUME NEW S, S \subseteq Nat, S # {}
    PROVE  \E s \in S : \A r \in S : s <= r
<1>1. PICK s \in S : \A r \in S : ~(<<r, s>> \in OpToRel(<, Nat))
  BY NatLessThanWellFounded, WFMin
<1>2. \A r \in S : ~(r < s)
  BY <1>1 DEF OpToRel
<1> QED
  BY <1>2

\* One of numbers up to a bound is the greatest.
LEMMA Greatest ==
    ASSUME NEW n \in Nat, NEW S, S \subseteq 1 .. n, S # {}
    PROVE  \E i \in S : \A j \in S : j <= i
<1> DEFINE Gap == {n - i : i \in S}
<1>1. Gap \subseteq Nat
  OBVIOUS
<1>2. Gap # {}
  <2>1. PICK i \in S : TRUE
    OBVIOUS
  <2>2. n - i \in Gap
    BY <2>1
  <2> QED
    BY <2>2
<1>3. PICK g \in Gap : \A r \in Gap : g <= r
  BY <1>1, <1>2, LeastNat
<1>4. PICK i \in S : g = n - i
  OBVIOUS
<1>5. ASSUME NEW j \in S PROVE j <= i
  <2>1. g <= n - j /\ i \in Int /\ j \in Int
    BY <1>3
  <2> QED
    BY <1>4, <2>1
<1> QED
  BY <1>5

\* i is the place of the last sign among the first n keys, or 0.
IsLastSign(ks, n, i) ==
    /\ i \in 0 .. n
    /\ i # 0 => ks[i].key \in Signs
    /\ \A j \in 1 .. n : j > i => ks[j].key \notin Signs

LEMMA LastSignIs ==
    ASSUME NEW ks, NEW n \in Nat
    PROVE  IsLastSign(ks, n, LastSign(ks, n))
<1> DEFINE at == {i \in 1 .. n : ks[i].key \in Signs}
<1>1. CASE at = {}
  BY <1>1 DEF LastSign, IsLastSign
<1>2. CASE at # {}
  <2>1. \E i \in at : \A j \in at : j <= i
    BY <1>2, Greatest
  <2>2. LastSign(ks, n) = CHOOSE i \in at : \A j \in at : j <= i
    BY <1>2 DEF LastSign
  <2>3. PICK i : i = LastSign(ks, n)
    OBVIOUS
  <2>4. i \in at /\ \A j \in at : j <= i
    BY <2>1, <2>2, <2>3
  <2>5. \A j \in 1 .. n : j > i => j \notin at
    BY <2>4
  <2> QED
    BY <2>3, <2>4, <2>5 DEF IsLastSign
<1> QED
  BY <1>1, <1>2

LEMMA LastSignUnique ==
    ASSUME NEW ks, NEW n \in Nat, NEW i, IsLastSign(ks, n, i)
    PROVE  LastSign(ks, n) = i
<1>1. PICK k : k = LastSign(ks, n)
  OBVIOUS
<1>2. IsLastSign(ks, n, k)
  BY <1>1, LastSignIs
<1>3. ~(k < i) /\ ~(i < k) /\ k \in Nat /\ i \in Nat
  BY <1>2 DEF IsLastSign
<1> QED
  BY <1>1, <1>3

\* Two sequences with the same first n keys have their last sign at one place.
LEMMA LastSignLocal ==
    ASSUME NEW ks, NEW ls, NEW n \in Nat, \A j \in 1 .. n : ks[j] = ls[j]
    PROVE  LastSign(ks, n) = LastSign(ls, n)
<1>1. PICK i : i = LastSign(ls, n)
  OBVIOUS
<1>2. IsLastSign(ls, n, i)
  BY <1>1, LastSignIs
<1>3. IsLastSign(ks, n, i)
  BY <1>2 DEF IsLastSign
<1> QED
  BY <1>1, <1>3, LastSignUnique

\* Number and value of the first n keys, r being those of fewer.
NumberAt(ks, r, n) ==
    IF n = LastSign(ks, n) THEN 0
    ELSE Wrap(r[n - 1].number * 10 + ks[n].digit)

ValueAt(ks, r, n) ==
    LET i == LastSign(ks, n)
    IN  IF i = 0 \/ (ks[i].key = "=" /\ n # i) THEN NumberAt(ks, r, n)
        ELSE IF ks[i].key = "=" THEN r[i - 1].value
        ELSE Result(ks[i].key, r[i - 1].value, NumberAt(ks, r, n))

ReadAt(ks, r, n) == [number |-> NumberAt(ks, r, n), value |-> ValueAt(ks, r, n)]

IsReading(ks, r, last) == r = [n \in 0 .. last |-> ReadAt(ks, r, n)]

\* What is read at n depends on what comes before n only.
LEMMA ReadLocal ==
    ASSUME NEW ks, NEW ls, NEW r, NEW q, NEW n \in Nat,
           \A j \in 1 .. n : ks[j] = ls[j], \A j \in 0 .. n - 1 : r[j] = q[j]
    PROVE  ReadAt(ks, r, n) = ReadAt(ls, q, n)
<1>1. PICK i : i = LastSign(ks, n) /\ i = LastSign(ls, n)
  BY LastSignLocal, Zenon
<1>2. i \in 0 .. n
  BY <1>1, LastSignIs DEF IsLastSign
<1>3. NumberAt(ks, r, n) = NumberAt(ls, q, n)
  <2>1. CASE n = i
    BY <1>1, <2>1 DEF NumberAt
  <2>2. CASE n # i
    <3>1. r[n - 1] = q[n - 1] /\ ks[n] = ls[n]
      BY <1>2, <2>2
    <3> QED
      BY <1>1, <3>1, Zenon DEF NumberAt
  <2> QED
    BY <2>1, <2>2
<1>4. ValueAt(ks, r, n) = ValueAt(ls, q, n)
  <2>1. CASE i = 0
    BY <1>1, <1>3, <2>1, Zenon DEF ValueAt
  <2>2. CASE i # 0
    <3>1. r[i - 1] = q[i - 1] /\ ks[i] = ls[i]
      BY <1>2, <2>2
    <3> QED
      BY <1>1, <1>3, <3>1, Zenon DEF ValueAt
  <2> QED
    BY <2>1, <2>2
<1> QED
  BY <1>3, <1>4, Zenon DEF ReadAt

LEMMA ReadingDefined ==
    ASSUME NEW ks, NEW last \in Nat
    PROVE  \E r : IsReading(ks, r, last)
<1> DEFINE Bad == {n \in Nat : ~ \E r : IsReading(ks, r, n)}
<1>1. SUFFICES ASSUME Bad # {} PROVE FALSE
  OBVIOUS
<1>2. PICK n \in Bad : \A k \in Bad : n <= k
  <2>1. Bad \subseteq Nat
    OBVIOUS
  <2> QED
    BY <1>1, <2>1, LeastNat
<1>3. PICK f : \A k \in 0 .. n - 1 : f[k] = ReadAt(ks, f, k)
  <2>1. CASE n = 0
    BY <2>1
  <2>2. CASE n # 0
    <3>1. n - 1 \in Nat /\ n - 1 \notin Bad
      BY <1>2, <2>2
    <3>2. PICK f : IsReading(ks, f, n - 1)
      BY <3>1
    <3> QED
      BY <3>2 DEF IsReading
  <2> QED
    BY <2>1, <2>2
<1>4. PICK g : g = [k \in 0 .. n |-> IF k = n THEN ReadAt(ks, f, n) ELSE f[k]]
  OBVIOUS
<1>5. ASSUME NEW k \in 0 .. n PROVE g[k] = ReadAt(ks, g, k)
  <2>1. g[k] = ReadAt(ks, f, k)
    <3>1. CASE k = n
      BY <1>4, <3>1
    <3>2. CASE k # n
      <4>1. k \in 0 .. n - 1 /\ g[k] = f[k]
        BY <1>4, <3>2
      <4> QED
        BY <1>3, <4>1
    <3> QED
      BY <3>1, <3>2
  <2>2. \A j \in 0 .. k - 1 : f[j] = g[j]
    BY <1>4
  <2>3. ReadAt(ks, f, k) = ReadAt(ks, g, k)
    BY <2>2, ReadLocal
  <2> QED
    BY <2>1, <2>3
<1>6. IsReading(ks, g, n)
  <2>1. g = [k \in 0 .. n |-> g[k]]
    BY <1>4
  <2> QED
    BY <1>5, <2>1 DEF IsReading
<1> QED
  BY <1>6

LEMMA ReadingIs ==
    ASSUME NEW ks, Len(ks) \in Nat, NEW n \in 0 .. Len(ks)
    PROVE  Reading(ks)[n] = ReadAt(ks, Reading(ks), n)
<1>1. Reading(ks) = CHOOSE r : IsReading(ks, r, Len(ks))
  BY Zenon DEF Reading, IsReading, ReadAt, NumberAt, ValueAt
<1>2. \E r : IsReading(ks, r, Len(ks))
  BY ReadingDefined
<1>3. PICK r : r = Reading(ks) /\ IsReading(ks, r, Len(ks))
  BY <1>1, <1>2, Zenon
<1>4. r[n] = ReadAt(ks, r, n)
  BY <1>3 DEF IsReading
<1> QED
  BY <1>3, <1>4

\* Later keys change nothing in the reading of the first ones.
LEMMA ReadingPrefix ==
    ASSUME NEW ks, NEW ls, Len(ks) \in Nat, Len(ls) \in Nat, Len(ks) <= Len(ls),
           \A j \in 1 .. Len(ks) : ls[j] = ks[j]
    PROVE  \A n \in 0 .. Len(ks) : Reading(ls)[n] = Reading(ks)[n]
<1>1. PICK r, q : r = Reading(ks) /\ q = Reading(ls)
  OBVIOUS
<1> DEFINE Bad == {n \in 0 .. Len(ks) : q[n] # r[n]}
<1>2. SUFFICES ASSUME Bad # {} PROVE FALSE
  BY <1>1
<1>3. PICK n \in Bad : \A k \in Bad : n <= k
  <2>1. Bad \subseteq Nat
    OBVIOUS
  <2> QED
    BY <1>2, <2>1, LeastNat
<1>4. \A j \in 0 .. n - 1 : q[j] = r[j]
  BY <1>3
<1>5. ReadAt(ls, q, n) = ReadAt(ks, r, n)
  BY <1>4, ReadLocal
<1>6. n \in 0 .. Len(ks) /\ n \in 0 .. Len(ls)
  OBVIOUS
<1>7. q[n] = r[n]
  BY <1>1, <1>5, <1>6, ReadingIs
<1> QED
  BY <1>7

-----------------------------------------------------------------------------
(* One more key.                                                           *)

Key == [key : {"digit"}, digit : Digits] \cup [key : Signs, digit : {0}]

\* ls is ks and one key more.
Longer(ls, ks, key) ==
    /\ ls \in Seq(Key) /\ Len(ks) \in Nat /\ Len(ls) = Len(ks) + 1
    /\ \A j \in 1 .. Len(ks) : ls[j] = ks[j]
    /\ ls[Len(ks) + 1] = key

LEMMA AppendKey ==
    ASSUME NEW ks \in Seq(Key), NEW key \in Key
    PROVE  Longer(Append(ks, key), ks, key)
BY DEF Longer

\* Number and value of all n keys of ks, the last sign being at i.
ReadsAll(ks, r, n, i) ==
    /\ r[n].number = IF n = i THEN 0 ELSE Wrap(r[n - 1].number * 10 + ks[n].digit)
    /\ r[n].value = IF i = 0 \/ (ks[i].key = "=" /\ n # i) THEN r[n].number
                    ELSE IF ks[i].key = "=" THEN r[i - 1].value
                    ELSE Result(ks[i].key, r[i - 1].value, r[n].number)

LEMMA ReadingAll ==
    ASSUME NEW ks, Len(ks) \in Nat
    PROVE  ReadsAll(ks, Reading(ks), Len(ks), LastSign(ks, Len(ks)))
<1>1. PICK n, r : n = Len(ks) /\ r = Reading(ks)
  OBVIOUS
<1>2. PICK x, y : x = NumberAt(ks, r, n) /\ y = ValueAt(ks, r, n)
  OBVIOUS
<1>3. r[n] = ReadAt(ks, r, n)
  BY <1>1, ReadingIs
<1>4. r[n] = [number |-> x, value |-> y]
  BY <1>2, <1>3, Zenon DEF ReadAt
<1>5. r[n].number = x /\ r[n].value = y
  BY <1>4
<1> QED
  BY <1>1, <1>2, <1>5, Zenon DEF NumberAt, ValueAt, ReadsAll

LEMMA ReadDigit ==
    ASSUME NEW d \in Digits,
           NEW ks, NEW ls, Longer(ls, ks, Digit(d)),
           NEW n, n = Len(ks), NEW i, i = LastSign(ks, n),
           NEW r, r = Reading(ks), NEW q, q = Reading(ls)
    PROVE  /\ LastSign(ls, n + 1) = i
           /\ q[n + 1].number = IF n = i THEN d ELSE Wrap(r[n].number * 10 + d)
           /\ i # 0 => ls[i] = ks[i] /\ q[i - 1] = r[i - 1]
           /\ i = 0 \/ ks[i].key = "=" => q[n + 1].value = q[n + 1].number
<1>1. /\ n \in Nat /\ Len(ls) = n + 1 /\ \A j \in 1 .. n : ls[j] = ks[j]
      /\ ls[n + 1].key = "digit" /\ ls[n + 1].digit = d
  BY DEF Longer, Digit
<1>2. IsLastSign(ks, n, i)
  BY <1>1, LastSignIs
<1>3. LastSign(ls, n + 1) = i
  <2>1. \A j \in 1 .. n + 1 : j \in 1 .. n \/ j = n + 1
    BY <1>1
  <2>2. "digit" \notin Signs
    BY DEF Signs, Ops
  <2>3. IsLastSign(ls, n + 1, i)
    BY <1>1, <1>2, <2>1, <2>2 DEF IsLastSign
  <2> QED
    BY <1>1, <2>3, LastSignUnique
<1>4. \A j \in 0 .. n : q[j] = r[j]
  BY <1>1, ReadingPrefix
<1>5. i \in 0 .. n /\ n + 1 # i /\ (i # 0 => ls[i] = ks[i] /\ q[i - 1] = r[i - 1])
  BY <1>1, <1>2, <1>4 DEF IsLastSign
<1>6. /\ q[n + 1].number = Wrap(q[n].number * 10 + d)
      /\ i = 0 \/ ls[i].key = "=" => q[n + 1].value = q[n + 1].number
  <2>1. PICK m : m = n + 1
    OBVIOUS
  <2>2. /\ m = Len(ls) /\ Len(ls) \in Nat /\ i = LastSign(ls, m) /\ m # i
        /\ m - 1 = n /\ ls[m].digit = d
    BY <1>1, <1>3, <1>5, <2>1
  <2>3. ReadsAll(ls, q, m, i)
    BY <2>2, ReadingAll, Zenon
  <2> QED
    BY <2>1, <2>2, <2>3 DEF ReadsAll
<1>7. q[n] = r[n]
  BY <1>1, <1>4
<1>8. CASE n = i
  <2>1. r[n].number = 0
    <3>1. ReadsAll(ks, r, n, i)
      BY <1>1, ReadingAll, Zenon
    <3> QED
      BY <1>8, <3>1 DEF ReadsAll
  <2>2. 0 * 10 + d = d /\ Wrap(d) = d
    BY DigitsFit, WidthAssumption
  <2> QED
    BY <1>3, <1>5, <1>6, <1>7, <1>8, <2>1, <2>2
<1>9. CASE n # i
  BY <1>3, <1>5, <1>6, <1>7, <1>9
<1> QED
  BY <1>8, <1>9

LEMMA ReadSign ==
    ASSUME NEW key \in Signs, NEW ks, NEW ls, Longer(ls, ks, Sign(key)),
           NEW n, n = Len(ks), NEW r, r = Reading(ks), NEW q, q = Reading(ls)
    PROVE  /\ LastSign(ls, n + 1) = n + 1 /\ ls[n + 1].key = key
           /\ q[n + 1].number = 0
           /\ \A j \in 0 .. n : q[j] = r[j]
           /\ key = "=" => q[n + 1].value = r[n].value
<1>1. /\ n \in Nat /\ Len(ls) = n + 1 /\ \A j \in 1 .. n : ls[j] = ks[j]
      /\ ls[n + 1].key = key
  BY DEF Longer, Sign
<1>2. PICK m : m = n + 1
  OBVIOUS
<1>3. m = LastSign(ls, m)
  <2>1. IsLastSign(ls, m, m)
    BY <1>1, <1>2 DEF IsLastSign
  <2> QED
    BY <1>1, <1>2, <2>1, LastSignUnique
<1>4. \A j \in 0 .. n : q[j] = r[j]
  BY <1>1, ReadingPrefix
<1>5. m = Len(ls) /\ Len(ls) \in Nat /\ m # 0 /\ m - 1 = n /\ ls[m].key = key
  BY <1>1, <1>2
<1>6. q[m].number = 0 /\ (key = "=" => q[m].value = q[m - 1].value)
  <2>1. ReadsAll(ls, q, m, m)
    BY <1>3, <1>5, ReadingAll, Zenon
  <2> QED
    BY <1>5, <2>1 DEF ReadsAll
<1>7. q[n] = r[n]
  BY <1>1, <1>4
<1> QED
  BY <1>1, <1>2, <1>3, <1>4, <1>5, <1>6, <1>7

-----------------------------------------------------------------------------
(* What the registers hold.                                                *)

\* n keys were pressed, the last sign at i, and r is their reading.
Follows(n, i, r) ==
    /\ entering <=> n # i
    /\ pending = "none" => /\ i = 0 \/ keys[i].key = "="
                           /\ cur = r[n].value
                           /\ ~entering => acc = cur
    /\ pending # "none" => /\ i # 0 /\ keys[i].key = pending /\ pending \in Ops
                           /\ acc = r[i - 1].value
                           /\ cur = r[n].number
    /\ display = itoa(IF entering THEN cur ELSE acc)

Followed == Follows(Len(keys), LastSign(keys, Len(keys)), Reading(keys))

CalcInv ==
    /\ keys \in Seq(Key) /\ entering \in BOOLEAN /\ halted \in BOOLEAN
    /\ ~halted => Followed
    /\ HaltsOnlyOnOverflow

LEMMA CalcInitial == calc_init => CalcInv
<1> SUFFICES ASSUME calc_init PROVE CalcInv
  OBVIOUS
<1>1. /\ cur = 0 /\ acc = 0 /\ pending = "none" /\ entering = FALSE
      /\ display = itoa(0) /\ halted = FALSE /\ keys = <<>>
  BY DEF calc_init
<1>2. PICK r : r = Reading(keys)
  OBVIOUS
<1>3. Len(keys) = 0 /\ keys \in Seq(Key)
  BY <1>1
<1>4. LastSign(keys, 0) = 0
  BY <1>3, LastSignIs DEF IsLastSign
<1>5. ReadsAll(keys, r, 0, 0)
  BY <1>2, <1>3, <1>4, ReadingAll
<1>6. r[0].value = 0
  BY <1>5 DEF ReadsAll
<1>7. Follows(0, 0, r)
  BY <1>1, <1>6 DEF Follows
<1> QED
  BY <1>1, <1>2, <1>3, <1>4, <1>7 DEF CalcInv, Followed, HaltsOnlyOnOverflow

\* The keys before the one pressed, as the steps below see them.
LEMMA FollowsNow ==
    ASSUME CalcInv, ~halted, NEW n, n = Len(keys), NEW i, i = LastSign(keys, n),
           NEW r, r = Reading(keys)
    PROVE  /\ keys \in Seq(Key) /\ n \in Nat /\ IsLastSign(keys, n, i)
           /\ Follows(n, i, r) /\ ReadsAll(keys, r, n, i)
<1>1. keys \in Seq(Key) /\ n \in Nat /\ Follows(n, i, r)
  BY DEF CalcInv, Followed
<1> QED
  BY <1>1, LastSignIs, ReadingAll

\* The number under entry is in cur, and an operation due yields the value.
LEMMA RegistersRead ==
    ASSUME CalcInv, ~halted, NEW n, n = Len(keys), NEW i, i = LastSign(keys, n),
           NEW r, r = Reading(keys)
    PROVE  /\ n # i => cur = r[n].number
           /\ r[n].value = IF pending # "none" THEN Result(pending, acc, cur) ELSE cur
<1>1. Follows(n, i, r) /\ ReadsAll(keys, r, n, i)
  BY FollowsNow
<1>2. CASE pending = "none"
  BY <1>1, <1>2 DEF Follows, ReadsAll
<1>3. CASE pending # "none"
  <2>1. /\ i # 0 /\ keys[i].key = pending /\ pending \in Ops
        /\ acc = r[i - 1].value /\ cur = r[n].number
    BY <1>1, <1>3 DEF Follows
  <2>2. pending # "="
    BY <2>1 DEF Ops
  <2>3. r[n].value = Result(pending, acc, cur)
    BY <1>1, <2>1, <2>2, Zenon DEF ReadsAll
  <2> QED
    BY <1>3, <2>1, <2>3
<1> QED
  BY <1>2, <1>3

LEMMA DigitStep ==
    ASSUME CalcInv, NEW d \in Digits, calc_input_digit(d)
    PROVE  CalcInv'
<1>1. PICK n, i, r, ls, q :
        /\ n = Len(keys) /\ i = LastSign(keys, n) /\ r = Reading(keys)
        /\ ls = keys' /\ q = Reading(ls)
  OBVIOUS
<1>2. /\ ~halted /\ ls = Append(keys, Digit(d))
      /\ cur' = IF entering THEN Wrap(cur * 10 + d) ELSE d
      /\ entering' = TRUE /\ acc' = acc /\ pending' = pending /\ halted' = halted
      /\ display' = itoa(IF entering' THEN cur' ELSE acc')
  BY <1>1, Zenon DEF calc_input_digit, Press, calc_refresh_display
<1>3. keys \in Seq(Key) /\ n \in Nat /\ IsLastSign(keys, n, i) /\ Follows(n, i, r)
  BY <1>1, <1>2, FollowsNow
<1>4. Longer(ls, keys, Digit(d))
  <2>1. Digit(d) \in Key
    BY DEF Digit, Key
  <2> QED
    BY <1>2, <1>3, <2>1, AppendKey
<1>5. /\ LastSign(ls, n + 1) = i
      /\ q[n + 1].number = IF n = i THEN d ELSE Wrap(r[n].number * 10 + d)
      /\ i # 0 => ls[i] = keys[i] /\ q[i - 1] = r[i - 1]
      /\ i = 0 \/ keys[i].key = "=" => q[n + 1].value = q[n + 1].number
  BY <1>1, <1>4, ReadDigit
<1>6. cur' = q[n + 1].number
  <2>1. CASE n = i
    BY <1>2, <1>3, <1>5, <2>1 DEF Follows
  <2>2. CASE n # i
    BY <1>1, <1>2, <1>3, <1>5, <2>2, RegistersRead DEF Follows
  <2> QED
    BY <2>1, <2>2
<1>7. ls \in Seq(Key) /\ Len(ls) = n + 1 /\ n + 1 # i
  BY <1>1, <1>3, <1>4 DEF Longer, IsLastSign
<1>8. Follows(n + 1, i, q)'
  <2>1. pending' = "none" => (i = 0 \/ keys'[i].key = "=") /\ cur' = q[n + 1].value
    BY <1>1, <1>2, <1>3, <1>5, <1>6 DEF Follows
  <2>2. pending' # "none" => /\ i # 0 /\ keys'[i].key = pending' /\ pending' \in Ops
                             /\ acc' = q[i - 1].value
    BY <1>1, <1>2, <1>3, <1>5 DEF Follows
  <2> QED
    BY <1>2, <1>6, <1>7, <2>1, <2>2 DEF Follows
<1>9. Followed'
  BY <1>1, <1>5, <1>7, <1>8 DEF Followed
<1> QED
  BY <1>1, <1>2, <1>7, <1>9 DEF CalcInv, HaltsOnlyOnOverflow

LEMMA OpStep ==
    ASSUME CalcInv, NEW op \in Ops, calc_input_op(op)
    PROVE  CalcInv'
<1>1. PICK n, i, r, ls, q :
        /\ n = Len(keys) /\ i = LastSign(keys, n) /\ r = Reading(keys)
        /\ ls = keys' /\ q = Reading(ls)
  OBVIOUS
<1>2. /\ ~halted /\ ls = Append(keys, Sign(op))
      /\ acc' = IF pending # "none" THEN Result(pending, acc, cur) ELSE cur
      /\ pending' = op /\ cur' = 0 /\ entering' = FALSE /\ halted' = halted
      /\ display' = itoa(IF entering' THEN cur' ELSE acc')
  BY <1>1, Zenon DEF calc_input_op, Press, calc_refresh_display
<1>3. keys \in Seq(Key) /\ n \in Nat
  BY <1>1, <1>2, FollowsNow
<1>4. op \in Signs /\ op # "=" /\ op # "none"
  BY DEF Signs, Ops
<1>5. Longer(ls, keys, Sign(op))
  <2>1. Sign(op) \in Key
    BY <1>4 DEF Sign, Key
  <2> QED
    BY <1>2, <1>3, <2>1, AppendKey
<1>6. /\ LastSign(ls, n + 1) = n + 1 /\ ls[n + 1].key = op
      /\ q[n + 1].number = 0 /\ q[n] = r[n]
  <2>1. n \in 0 .. n
    BY <1>3
  <2> QED
    BY <1>1, <1>4, <1>5, <2>1, ReadSign
<1>7. acc' = q[n].value
  BY <1>1, <1>2, <1>6, RegistersRead
<1>8. ls \in Seq(Key) /\ Len(ls) = n + 1 /\ n + 1 # 0 /\ (n + 1) - 1 = n
  BY <1>1, <1>3, <1>5 DEF Longer
<1>9. Follows(n + 1, n + 1, q)'
  BY <1>1, <1>2, <1>4, <1>6, <1>7, <1>8 DEF Follows
<1>10. Followed'
  BY <1>1, <1>6, <1>8, <1>9 DEF Followed
<1> QED
  BY <1>1, <1>2, <1>8, <1>10 DEF CalcInv, HaltsOnlyOnOverflow

LEMMA EqualsStep ==
    ASSUME CalcInv, calc_do_equals
    PROVE  CalcInv'
<1>1. PICK n, i, r, ls, q :
        /\ n = Len(keys) /\ i = LastSign(keys, n) /\ r = Reading(keys)
        /\ ls = keys' /\ q = Reading(ls)
  OBVIOUS
<1>2. /\ ~halted /\ ls = Append(keys, Sign("="))
      /\ cur' = IF pending # "none" THEN Result(pending, acc, cur) ELSE cur
      /\ acc' = cur' /\ pending' = "none" /\ entering' = FALSE /\ halted' = halted
      /\ display' = itoa(IF entering' THEN cur' ELSE acc')
  BY <1>1, Zenon DEF calc_do_equals, Press, calc_refresh_display
<1>3. keys \in Seq(Key) /\ n \in Nat
  BY <1>1, <1>2, FollowsNow
<1>4. "=" \in Signs
  BY DEF Signs
<1>5. Longer(ls, keys, Sign("="))
  <2>1. Sign("=") \in Key
    BY <1>4 DEF Sign, Key
  <2> QED
    BY <1>2, <1>3, <2>1, AppendKey
<1>6. /\ LastSign(ls, n + 1) = n + 1 /\ ls[n + 1].key = "="
      /\ q[n + 1].value = r[n].value
  BY <1>1, <1>4, <1>5, ReadSign
<1>7. cur' = q[n + 1].value
  BY <1>1, <1>2, <1>6, RegistersRead
<1>8. ls \in Seq(Key) /\ Len(ls) = n + 1
  BY <1>1, <1>3, <1>5 DEF Longer
<1>9. Follows(n + 1, n + 1, q)'
  BY <1>1, <1>2, <1>6, <1>7 DEF Follows
<1>10. Followed'
  BY <1>1, <1>6, <1>8, <1>9 DEF Followed
<1> QED
  BY <1>1, <1>2, <1>8, <1>10 DEF CalcInv, HaltsOnlyOnOverflow

\* The operation due is the last sign, and the registers hold its operands.
LEMMA TrapStep ==
    ASSUME CalcInv, NEW key \in Signs, Trap(key)
    PROVE  CalcInv'
<1>1. PICK n, i, r, ls, q :
        /\ n = Len(keys) /\ i = LastSign(keys, n) /\ r = Reading(keys)
        /\ ls = keys' /\ q = Reading(ls)
  OBVIOUS
<1>2. /\ ~halted /\ ls = Append(keys, Sign(key))
      /\ pending = "/" /\ acc = IntMin /\ cur = -1
      /\ halted' = TRUE /\ entering' = entering
  BY <1>1, Zenon DEF Trap, Press, StopsAt, Traps
<1>3. keys \in Seq(Key) /\ n \in Nat /\ IsLastSign(keys, n, i) /\ Follows(n, i, r)
  BY <1>1, <1>2, FollowsNow
<1>4. Longer(ls, keys, Sign(key))
  <2>1. Sign(key) \in Key
    BY DEF Sign, Key
  <2> QED
    BY <1>2, <1>3, <2>1, AppendKey
<1>5. \A j \in 0 .. n : q[j] = r[j]
  BY <1>1, <1>4, ReadSign
<1>6. /\ i # 0 /\ keys[i].key = "/" /\ r[i - 1].value = IntMin /\ r[n].number = -1
  BY <1>2, <1>3 DEF Follows
<1>7. /\ ls \in Seq(Key) /\ Len(ls) - 1 = n /\ i \in 1 .. n
      /\ \A j \in 1 .. n : ls[j] = keys[j]
  BY <1>1, <1>3, <1>4, <1>6 DEF Longer, IsLastSign
<1>8. LastSign(ls, n) = i
  BY <1>1, <1>3, <1>7, LastSignLocal
<1>9. /\ i > 0 /\ ls[i].key = "/" /\ q[i - 1].value = IntMin /\ q[n].number = -1
  BY <1>3, <1>5, <1>6, <1>7
<1>10. HaltsOnlyOnOverflow'
  BY <1>1, <1>7, <1>8, <1>9 DEF HaltsOnlyOnOverflow, IntMin
<1> QED
  BY <1>1, <1>2, <1>7, <1>10 DEF CalcInv

LEMMA ClearStep ==
    ASSUME CalcInv, calc_do_clear
    PROVE  CalcInv'
<1>1. /\ cur' = 0 /\ acc' = 0 /\ pending' = "none" /\ entering' = FALSE
      /\ halted' = halted /\ ~halted /\ keys' = <<>>
      /\ display' = itoa(IF entering' THEN cur' ELSE acc')
  BY DEF calc_do_clear, calc_refresh_display
<1>2. calc_init'
  BY <1>1 DEF calc_init, CalcInv
<1> QED
  BY <1>2, CalcInitial, PTL

LEMMA CalcStep == CalcInv /\ [Callback]_calcVars => CalcInv'
<1> SUFFICES ASSUME CalcInv, [Callback]_calcVars PROVE CalcInv'
  OBVIOUS
<1>1. ASSUME NEW d \in Digits, calc_input_digit(d) PROVE CalcInv'
  BY <1>1, DigitStep
<1>2. ASSUME NEW op \in Ops, calc_input_op(op) PROVE CalcInv'
  BY <1>2, OpStep
<1>3. ASSUME NEW key \in Signs, Trap(key) PROVE CalcInv'
  BY <1>3, TrapStep
<1>4. CASE calc_do_equals
  BY <1>4, EqualsStep
<1>5. CASE calc_do_clear
  BY <1>5, ClearStep
<1>6. CASE UNCHANGED calcVars
  <2>1. /\ cur' = cur /\ acc' = acc /\ pending' = pending /\ entering' = entering
        /\ display' = display /\ halted' = halted /\ keys' = keys
    BY <1>6 DEF calcVars
  <2> QED
    BY <2>1 DEF CalcInv, Followed, Follows, HaltsOnlyOnOverflow
<1> QED
  BY <1>1, <1>2, <1>3, <1>4, <1>5, <1>6 DEF Callback, Signs

LEMMA FollowedShows == CalcInv => ShowsValue
<1> SUFFICES ASSUME CalcInv, ~halted PROVE display = itoa(Expected(keys))
  BY DEF ShowsValue
<1>1. PICK n, i, r : n = Len(keys) /\ i = LastSign(keys, n) /\ r = Reading(keys)
  OBVIOUS
<1>2. n \in Nat /\ i \in 0 .. n /\ Follows(n, i, r)
  BY <1>1, FollowsNow DEF IsLastSign
<1>3. Expected(keys) = IF i < n THEN r[n].number
                            ELSE IF i = 0 \/ keys[i].key = "=" THEN r[n].value
                            ELSE r[i - 1].value
  BY <1>1 DEF Expected
<1>4. (IF entering THEN cur ELSE acc) = Expected(keys)
  <2>1. CASE i < n
    BY <1>1, <1>2, <1>3, <2>1, RegistersRead DEF Follows
  <2>2. CASE i = n
    BY <1>2, <1>3, <2>2 DEF Follows, Ops
  <2> QED
    BY <1>2, <2>1, <2>2
<1> QED
  BY <1>2, <1>4 DEF Follows

(* For every width that holds the digits, and every sequence of keys, the  *)
(* calculator shows what the keys mean read from left to right.            *)
THEOREM ShowsValueHolds == CalcSpec => []ShowsValue
<1>1. CalcInv /\ [Callback]_calcVars => CalcInv'
  BY CalcStep
<1> QED
  BY <1>1, CalcInitial, FollowedShows, PTL DEF CalcSpec

(* It halts the machine only to divide the least integer by minus one.     *)
THEOREM HaltsOnlyOnOverflowHolds == CalcSpec => []HaltsOnlyOnOverflow
<1>1. CalcInv /\ [Callback]_calcVars => CalcInv'
  BY CalcStep
<1>2. CalcInv => HaltsOnlyOnOverflow
  BY DEF CalcInv
<1> QED
  BY <1>1, <1>2, CalcInitial, PTL DEF CalcSpec
=============================================================================
