---------------------------- MODULE MCReadyQueue -----------------------------
(* Four threads for three slots: the ring fills up, refuses and wraps.        *)
EXTENDS ReadyQueue
CONSTANTS t1, t2, t3, t4
=============================================================================
