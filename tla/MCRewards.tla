----------------------------- MODULE MCRewards -----------------------------
(***************************************************************************)
(* Two miners and four heights with a null round between them.             *)
(***************************************************************************)
EXTENDS Rewards

MCMined == {[height |-> 0, miner |-> "m"], [height |-> 1, miner |-> "m"],
            [height |-> 2, miner |-> "m"], [height |-> 2, miner |-> "n"],
            [height |-> 4, miner |-> "n"]}

MCWorkerOf == [m \in {"m", "n"} |-> "w"]

MCAsks == {[op |-> "cumulative",  start |-> 0, diff |-> 2, repeate |-> 4],
           [op |-> "outstanding", start |-> 0, diff |-> 3, repeate |-> 3],
           [op |-> "outstanding", start |-> 1, diff |-> 3, repeate |-> 2],
           [op |-> "balance",     start |-> 2, diff |-> 4, repeate |-> 1]}
=============================================================================
