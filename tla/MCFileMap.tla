------------------------------ MODULE MCFileMap ------------------------------
(* Instances of FileMap for TLC. *)
EXTENDS FileMap, TLC

Symmetric == Permutations(Files) \cup Permutations(Threads)
               \cup Permutations(Addresses)
=============================================================================
