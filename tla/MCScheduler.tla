----------------------------- MODULE MCScheduler -----------------------------
(* A small instance of Scheduler: three threads, one for each entry level.   *)
EXTENDS Scheduler
CONSTANTS t1, t2, t3

MCPriority == (t1 :> "CRITICAL") @@ (t2 :> "NORMAL") @@ (t3 :> "LOW")
MCQuantum == (0 :> 1) @@ (1 :> 2) @@ (2 :> 3)
=============================================================================
