---------------------------- MODULE MCMinerCache ----------------------------
(* Three miners, a cache for two, three windows of two seconds.  With        *)
(* start_time 4 the windows end at 4, 6 and 8, with 2 at 2, 4 and 6.         *)
EXTENDS MinerCache

MCPower == [m \in Miner |-> [t \in Time |->
    CASE m = "m1" -> 3
      [] m = "m2" -> IF t <= 5 THEN 4 ELSE 1
      [] m = "m3" -> IF t <= 3 THEN 5 ELSE 2]]
=============================================================================
