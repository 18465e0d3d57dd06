------------------------------ MODULE MCMemory -------------------------------
(* Two processes of three pages that share three frames: the memory fills up  *)
(* and a process can lose a page below the ones it still has.                 *)
EXTENDS Memory
CONSTANTS p1, p2
=============================================================================
