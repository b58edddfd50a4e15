----------------------------- MODULE MCApiReads -----------------------------
(***************************************************************************)
(* A chain with null rounds (no heights 1 and 3) and a fork at a2; the     *)
(* digit is the height.                                                    *)
(*                                                                         *)
(*    g - a2 - a4 - a5 - a6 - a7                                           *)
(*          \                                                              *)
(*           b4 - b6                                                       *)
(*                                                                         *)
(* Tipsets a2 and a4 have two blocks, which share a message; b4 has one of *)
(* the blocks of a4.  The filter leaves out m2 and m5.                     *)
(***************************************************************************)
EXTENDS ApiQueries

MCTipset == {"g", "a2", "a4", "a5", "a6", "a7", "b4", "b6"}

MCParent == [t \in MCTipset |->
    CASE t = "g"  -> "none" [] t = "a2" -> "g"  [] t = "a4" -> "a2"
      [] t = "a5" -> "a4"   [] t = "a6" -> "a5" [] t = "a7" -> "a6"
      [] t = "b4" -> "a2"   [] t = "b6" -> "b4"]

MCHeight == [t \in MCTipset |->
    CASE t = "g"  -> 0 [] t = "a2" -> 2 [] t = "a4" -> 4 [] t = "a5" -> 5
      [] t = "a6" -> 6 [] t = "a7" -> 7 [] t = "b4" -> 4 [] t = "b6" -> 6]

MCBlocks == [t \in MCTipset |->
    CASE t = "g"  -> <<"g">>        [] t = "a2" -> <<"x2", "y2">>
      [] t = "a4" -> <<"x4", "y4">> [] t = "b4" -> <<"y4">>
      [] OTHER    -> <<t>>]

MCBlock == UNION {ToSet(MCBlocks[t]) : t \in MCTipset}

(* The messages of each block *)
MCBlkMsgs == [b \in MCBlock |->
    CASE b = "x2" -> <<"m1", "m2">> [] b = "y2" -> <<"m1">>
      [] b = "x4" -> <<"m3">>       [] b = "y4" -> <<"m4", "m3">>
      [] b = "a6" -> <<"m5">>       [] b = "b6" -> <<"m5">>
      [] OTHER    -> <<>>]

MCMessage == UNION {ToSet(MCBlkMsgs[b]) : b \in MCBlock}

MCMessages == [t \in MCTipset |->
    FlattenSeq([k \in DOMAIN MCBlocks[t] |->
        LET b == MCBlocks[t][k]
        IN  [i \in DOMAIN MCBlkMsgs[b] |-> [cid |-> MCBlkMsgs[b][i], block_cid |-> b]]])]

MCBlockHeight == [b \in MCBlock |->
    MCHeight[CHOOSE t \in MCTipset : b \in ToSet(MCBlocks[t])]]

(* A block is mined 2 seconds after the height before; y2 a second later.  *)
MCBlockTime == [b \in MCBlock |->
    2 * MCBlockHeight[b] + (IF b = "y2" THEN 3 ELSE 2)]

MCMatch == {"m1", "m3", "m4"}
MCMined == {"x2", "y2", "y4", "a6"}

(* From a full hour, and from none with the last point behind the end. *)
MCWindows == {<<4, 16>>, <<1, 12>>}
=============================================================================
