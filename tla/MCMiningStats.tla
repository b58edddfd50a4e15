--------------------------- MODULE MCMiningStats ---------------------------
(***************************************************************************)
(* Two miners, three heights; a request of each kind, two of some.         *)
(***************************************************************************)
EXTENDS MiningStats

MCMined == {[height |-> 1, miner |-> "m"], [height |-> 2, miner |-> "m"],
            [height |-> 2, miner |-> "n"], [height |-> 3, miner |-> "n"]}

MCStates == {[height |-> 1, miner |-> "m", power |-> 1], [height |-> 2, miner |-> "n", power |-> 3],
             [height |-> 3, miner |-> "m", power |-> 4], [height |-> 3, miner |-> "n", power |-> 2]}

List2(op, offset) == [NoRequest EXCEPT !.op = op, !.from = 6, !.to = 9, !.offset = offset]
Range3(op, to, diff) == [NoRequest EXCEPT !.op = op, !.to = to, !.diff = diff, !.repeate = 3,
                                          !.miners = {"m", "n"}]

MCRequests ==
    {[List2("power", 0) EXCEPT !.limit = 2], List2("power", 1), List2("block", 0),
     [List2("block", 0) EXCEPT !.from = 9, !.to = 7, !.up = TRUE],
     [List2("search", 0) EXCEPT !.miners = {"m"}],
     [List2("topPower", 0) EXCEPT !.to = 7, !.limit = 2], [List2("topBlock", 0) EXCEPT !.limit = 2],
     [List2("topOld", 0) EXCEPT !.from = 0, !.limit = 2],
     Range3("active", 9, 2), Range3("active", 8, 2), Range3("active", 9, 12),
     [Range3("active", 0, 3) EXCEPT !.repeate = 4],
     Range3("oldPower", 9, 5), [Range3("oldPower", 9, 1) EXCEPT !.miners = {}], Range3("totalPower", 8, 1),
     Range3("totalPower", 8, 12),
     Range3("homePower", 9, 1), Range3("homePower", 8, 1)}
=============================================================================
