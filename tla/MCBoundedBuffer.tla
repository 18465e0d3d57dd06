--------------------------- MODULE MCBoundedBuffer ---------------------------
(* Three processes that both produce and consume, two kinds of item and a     *)
(* ring of three slots, enough for a full ring and for indices that wrap.     *)
EXTENDS BoundedBuffer
CONSTANTS p1, p2, p3, a, b

=============================================================================
