---------------------------- MODULE MCServerReader ---------------------------
(* Instances of ServerReader for TLC, with the real length of a string.    *)
EXTENDS ServerReader

(* Every packet the server knows, and one number it does not. *)
MCPacketNos == {0, 5, 8, 13, 1}

(* Both sides of every version test (3, 6, MCPVMAX), version 0 said        *)
(* explicitly, and the name of a version 0 client in its place.            *)
MCVersionBytes == {0, 2, 3, 5, 6, 7, 65}
=============================================================================
