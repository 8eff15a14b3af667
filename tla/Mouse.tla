---------------------------------- MODULE Mouse ----------------------------------
(***************************************************************************)
(* How drivers/mouse.c puts the bytes of the PS/2 port together to packets *)
(* of three, from the handshake of mouse_init on.                          *)
(*                                                                         *)
(* The controller holds one byte for the processor and the mouse waits     *)
(* while it is there.  IRQ 12 is edge triggered: the PIC keeps a request   *)
(* until it is served, even when the byte that raised it was read by       *)
(* polling.  A byte is told by its place in its packet and by its bit 3,   *)
(* which the first byte of a packet always has and the others may have.    *)
(***************************************************************************)
EXTENDS Integers, Sequences

CONSTANTS DrainMax,   \* reads of mouse_drain_buf at most
          MaxLost     \* bound on the bytes lost on the wire

ASSUME DrainAssumption == DrainMax \in Nat /\ MaxLost \in Nat

\* Place 0: a byte that is no mouse data, an answer of the handshake (0xFA)
\* or a key's scan code.
Byte  == [at : 0 .. 3, bit3 : BOOLEAN]
Empty == [at |-> 4, bit3 |-> FALSE]
Ack   == [at |-> 0, bit3 |-> TRUE]

VARIABLES
    on,          \* interrupts are enabled
    drained,     \* reads of mouse_drain_buf so far
    next,        \* place of the byte the mouse sends next
    out,         \* the controller's output buffer
    port,        \* what a read of the port yields when the buffer is empty
    request,     \* IRQ 12 is latched in the PIC
    mouse_bytes, \* the first mouse_cycle elements of mouse_bytes
    first_packet,
    handled,     \* the packet the last interrupt acted on, if it did
    lost,        \* bytes lost so far
    slow         \* history: bytes read in a row of a packet that has bit 3
                 \* in its first byte only

vars == <<on, drained, next, out, port, request, mouse_bytes, first_packet,
          handled, lost, slow>>

mouse_cycle == Len(mouse_bytes)

Following(place) == (place % 3) + 1

Init ==
    /\ on = FALSE /\ drained = 0 /\ next = 1
    /\ out \in {Empty, Ack} /\ port = Ack /\ request \in BOOLEAN
    /\ mouse_bytes = <<>> /\ first_packet = TRUE
    /\ handled = <<>> /\ lost = 0 /\ slow = 0

-----------------------------------------------------------------------------
(* The devices.                                                            *)

MouseSends(bit3) ==
    /\ out = Empty
    /\ next = 1 => bit3
    /\ out' = [at |-> next, bit3 |-> bit3] /\ request' = TRUE
    /\ next' = Following(next)
    /\ UNCHANGED <<on, drained, port, mouse_bytes, first_packet, handled, lost, slow>>

MouseLoses ==
    /\ lost < MaxLost /\ lost' = lost + 1
    /\ next' = Following(next) /\ slow' = 0
    /\ UNCHANGED <<on, drained, out, port, request, mouse_bytes, first_packet, handled>>

(* IRQ 1 is masked: a key's byte raises nothing, and stays.                *)
KeySends(bit3) ==
    /\ out = Empty
    /\ out' = [at |-> 0, bit3 |-> bit3]
    /\ UNCHANGED <<on, drained, next, port, request, mouse_bytes, first_packet,
                   handled, lost, slow>>

-----------------------------------------------------------------------------
(* mouse_drain_buf, just before sti.  The PIC may or may not forget the    *)
(* request of a byte read by polling.                                      *)
DrainByte ==
    /\ ~on /\ out # Empty /\ drained < DrainMax
    /\ drained' = drained + 1
    /\ port' = out /\ out' = Empty /\ request' \in {request, FALSE}
    /\ UNCHANGED <<on, next, mouse_bytes, first_packet, handled, lost, slow>>

DrainEnds ==
    /\ ~on /\ (out = Empty \/ drained = DrainMax)
    /\ on' = TRUE
    /\ UNCHANGED <<drained, next, out, port, request, mouse_bytes, first_packet,
                   handled, lost, slow>>

\* Variant: the first packet is acted on as well.
mouse_process_packet_AtOnce(packet) ==
    handled' = packet /\ UNCHANGED first_packet

mouse_process_packet(packet) ==
    /\ first_packet' = FALSE
    /\ handled' = IF first_packet THEN <<>> ELSE packet

\* Variant: any byte may be the first one.
Accepted_Any(data) == TRUE

(* A byte without bit 3 is not taken for the first of a packet.            *)
Accepted(data) == mouse_cycle = 0 => data.bit3

\* Variant: a packet is over after its second byte.
Complete_Short(bytes) == Len(bytes) = 2

Complete(bytes) == Len(bytes) = 3

(* mouse_handle_interrupt reads the port without a look at its status.     *)
mouse_handle_interrupt ==
    LET data  == IF out = Empty THEN port ELSE out
        bytes == Append(mouse_bytes, data)
    IN  /\ on /\ request
        /\ request' = FALSE /\ port' = data /\ out' = Empty
        /\ IF ~Accepted(data)
             THEN handled' = <<>> /\ UNCHANGED <<mouse_bytes, first_packet>>
           ELSE IF Complete(bytes)
             THEN mouse_bytes' = <<>> /\ mouse_process_packet(bytes)
             ELSE mouse_bytes' = bytes /\ handled' = <<>> /\ UNCHANGED first_packet
        /\ slow' = IF out = Empty \/ data.at = 0 THEN 0
                   ELSE IF data.at = 1 THEN 1
                   ELSE IF slow = data.at - 1 /\ ~data.bit3 THEN slow + 1
                   ELSE 0
        /\ UNCHANGED <<on, drained, next, lost>>

Next ==
    \/ \E bit3 \in BOOLEAN : MouseSends(bit3) \/ KeySends(bit3)
    \/ MouseLoses
    \/ DrainByte
    \/ DrainEnds
    \/ mouse_handle_interrupt

Spec == Init /\ [][Next]_vars

-----------------------------------------------------------------------------
TypeOK ==
    /\ on \in BOOLEAN /\ request \in BOOLEAN /\ first_packet \in BOOLEAN
    /\ drained \in 0 .. DrainMax /\ lost \in 0 .. MaxLost
    /\ next \in 1 .. 3 /\ slow \in 0 .. 3
    /\ out \in Byte \cup {Empty} /\ port \in Byte
    /\ mouse_bytes \in Seq(Byte) /\ mouse_cycle \in 0 .. 2
    /\ handled \in Seq(Byte)

(* The place of the byte the next interrupt reads.                         *)
Arriving == IF out = Empty THEN next ELSE out.at

(* What is put together so far is the beginning of a packet, the byte to   *)
(* come goes on with it, and none is lost behind that byte.                *)
InSync ==
    /\ \A i \in DOMAIN mouse_bytes : mouse_bytes[i].at = i
    /\ Arriving = mouse_cycle + 1
    /\ out # Empty => next = Following(out.at)
    /\ request => out # Empty

(* The packet thrown away after the handshake is the only one a stray byte *)
(* can get into (mouse.c:121-124), whether it was left in the buffer, read *)
(* a second time for a request the drain left behind, or is a key's.       *)
StrayDiscarded == \A i \in DOMAIN handled : handled[i].at # 0

(* However the boundary was lost, by a drain that cut a packet, a stray or *)
(* a lost byte, one packet of a slow movement or of a button alone, with   *)
(* bit 3 in its first byte only, brings the assembly back in step: the     *)
(* shift is permanent (docs/PROGRESS.md:559-563) only while the mouse      *)
(* moves fast.                                                             *)
OneSlowPacketSuffices == slow = 3 /\ out \notin [at : {0}, bit3 : BOOLEAN] => InSync

(* Once in step and with interrupts on, nothing but a lost byte or a key   *)
(* throws the assembly out of step, so that it acts on whole packets only  *)
(* (mouse.c:188-207).                                                      *)
SyncKept == [][on /\ InSync /\ lost' = lost => InSync' \/ out'.at = 0]_vars
=============================================================================
