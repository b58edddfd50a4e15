---------------------------- MODULE MCChainSync ----------------------------
(***************************************************************************)
(* A chain of nine tipsets with a null round (no height 3) and a fork      *)
(* that leaves it at a5; the digit is the height:                          *)
(*                                                                         *)
(*    g - a1 - a2 - a4 - a5 - a6 - a7 - a8 - a9                            *)
(*                        \                                                *)
(*                         b6 ------ b8                                    *)
(***************************************************************************)
EXTENDS ChainSync

MCTipset == {"g", "a1", "a2", "a4", "a5", "a6", "a7", "a8", "a9", "b6", "b8"}

MCParent == [t \in MCTipset |->
    CASE t = "g"  -> "none" [] t = "a1" -> "g"  [] t = "a2" -> "a1"
      [] t = "a4" -> "a2"   [] t = "a5" -> "a4" [] t = "a6" -> "a5"
      [] t = "a7" -> "a6"   [] t = "a8" -> "a7" [] t = "a9" -> "a8"
      [] t = "b6" -> "a5"   [] t = "b8" -> "b6"]

MCHeight == [t \in MCTipset |->
    CASE t = "g"  -> 0 [] t = "a1" -> 1 [] t = "a2" -> 2
      [] t = "a4" -> 4 [] t = "a5" -> 5 [] t = "a6" -> 6
      [] t = "a7" -> 7 [] t = "a8" -> 8 [] t = "a9" -> 9
      [] t = "b6" -> 6 [] t = "b8" -> 8]
=============================================================================
