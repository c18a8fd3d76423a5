------------------------------- MODULE MCShadow ------------------------------
(* Instances of Shadow for TLC.                                            *)
EXTENDS Shadow

(* Steps on both sides of a byte's range along each axis, a player that is *)
(* in the middle of the level, and both ends of the 16 bits.               *)
EdgePlaces ==
    {At(0, 0, 0), At(127, -127, 0), At(128, 0, 0), At(0, -128, 0),
     At(0, 128, 127), At(0, 0, -128), At(520, 492, 512),
     At(32767, -32768, 32767), At(-32768, 32767, -32700)}

(* Turns by yaw, by phi, and by the same bits in both. *)
TurnHeads == [yaw : {{}, {0, 7}}, phi : {{}, {0, 7}}]
=============================================================================
