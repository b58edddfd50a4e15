--------------------------- MODULE MCLegacyQueue ---------------------------
(* Two branches that part above height 1, one of which skips height 2; the *)
(* tipset at height 2 has two blocks, and the messages.                    *)
EXTENDS LegacyQueue

TipsetDef == {"a1", "a2", "c3"}
HeightDef == [t \in TipsetDef |-> CASE t = "a1" -> 1 [] t = "a2" -> 2 [] OTHER -> 3]
ParentHeightDef == [t \in TipsetDef |-> CASE t = "a1" -> 0 [] OTHER -> 1]
BlocksDef == [t \in TipsetDef |-> CASE t = "a1" -> <<"x">> [] t = "a2" -> <<"y", "z">> [] t = "c3" -> <<"w">>]
MsgDef == {"m", "k"}
MsgsDef == [b \in {"x", "y", "z", "w"} |-> IF b = "y" THEN <<"m", "k">> ELSE <<>>]
MinerDef == [b \in {"x", "y", "z", "w"} |-> IF b = "z" THEN "f2" ELSE "f1"]
FromDef == [m \in MsgDef |-> "alice"]
ToDef == [m \in MsgDef |-> IF m = "m" THEN "bob" ELSE "alice"]
MethodDef == [m \in MsgDef |-> IF m = "m" THEN "send" ELSE "mine"]
=============================================================================
