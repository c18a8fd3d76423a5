---------------------------- MODULE MCServerWriter ---------------------------
(* Instances of ServerWriter for TLC, with the real lengths.               *)
EXTENDS ServerWriter

(* Both sides of every version test (0, 3, 6).                             *)
MCVersions == {0, 1, 2, 3, 5, 6, 7}

(* The title and message of the greeting (53 and 13), the shortest name,   *)
(* strings that fill the buffer or their field, or nearly.                 *)
MCLens == {1, 13, 15, 53, 63, 64}

(* Level chunks, the last one of a level too.                              *)
MCChunkLens == {1, 13, 14, 29, 1023, 1024}
=============================================================================
