----------------------------- MODULE PacketStream ----------------------------
(***************************************************************************)
(* What a serializer or deserializer of packets promises, whatever pieces  *)
(* the bytes come in: packets are handled one after the other, no byte of  *)
(* a packet is skipped or handled twice, none of the next packet is        *)
(* touched, and the serializer is idle exactly when the packet is whole.   *)
(***************************************************************************)
EXTENDS Naturals

CONSTANT Sizes     \* the packet lengths that occur

VARIABLES
    size,   \* the length of the current packet
    done,   \* how many of its bytes have been handled
    idle    \* the serializer's own view: no packet is under way

vars == <<size, done, idle>>

Init == size \in Sizes /\ done = 0 /\ idle = TRUE

Begin ==
    /\ done = size
    /\ size' \in Sizes
    /\ done' = 0
    /\ UNCHANGED idle

(* Some more bytes of the packet. *)
Advance ==
    /\ done < size
    /\ done' \in done + 1 .. size
    /\ idle' = (done' = size)
    /\ UNCHANGED size

Next == Begin \/ Advance

Spec == Init /\ [][Next]_vars
=============================================================================
