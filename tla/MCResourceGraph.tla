--------------------------- MODULE MCResourceGraph ---------------------------
(* The processes and the requests of the shipped workload (drone.c,           *)
(* kernel.c:580-589): Flight and Battery take the landing pad and the charge  *)
(* station in opposite orders, the others the communication channel.          *)
EXTENDS ResourceGraph

LandingPad == 0
ChargeStation == 1
CommChannel == 2

MCRank == [p \in Pids |-> IF p = 0 THEN 1 ELSE IF p = 1 THEN 0 ELSE p]
MCWants == [p \in Pids |->
              CASE p = 0 -> (0 :> LandingPad) @@ (1 :> ChargeStation)
                [] p = 1 -> (0 :> ChargeStation) @@ (1 :> LandingPad)
                [] p > 1 -> (0 :> CommChannel) @@ (1 :> CommChannel)]
=============================================================================
