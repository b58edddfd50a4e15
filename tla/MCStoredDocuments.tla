------------------------- MODULE MCStoredDocuments -------------------------
(* Four tipsets and a null round; message m is in both blocks of a2, k is  *)
(* a signed transfer, c is for an actor with a fixed address, and x for    *)
(* one that is taken for a miner.                                          *)
EXTENDS StoredDocuments

MCActors == [code \in {"account", "power", "miner"} |->
    CASE code = "account" -> [name |-> "AccountActor", methods |-> <<>>, exports |-> [n \in {} |-> <<>>]]
      [] code = "power" ->
            [name |-> "StoragePowerActor",
             methods |-> <<[name |-> "Constructor", num |-> 1], [name |-> "CreateStorageMiner", num |-> 2]>>,
             exports |-> [n \in 1..2 |-> <<"Actor", "VMContext", IF n = 1 THEN "struct{}" ELSE "CreateParams">>]]
      [] code = "miner" ->
            [name |-> "StorageMinerActor",
             methods |-> <<[name |-> "Constructor", num |-> 1], [name |-> "SubmitPoSt", num |-> 2],
                           [name |-> "ProveCommit", num |-> 3]>>,
             exports |-> [n \in 1..2 |-> <<"Actor", "VMContext", "PoStParams">>]]]

MCAddressToCode == [a \in {"t02"} |-> "power"]

MCMsg == {"m", "k", "c", "x", "p"}
MCTo == [m \in MCMsg |-> CASE m = "m" -> "t01" [] m = "k" -> "t01" [] m = "c" -> "t02" [] m = "x" -> "t09" [] m = "p" -> "t01"]
MCNumber == [m \in MCMsg |-> CASE m = "m" -> 2 [] m = "k" -> 0 [] m = "c" -> 2 [] m = "x" -> 3 [] m = "p" -> 3]
MCById == [m \in MCMsg |-> TRUE]
MCDecodes == [m \in MCMsg |-> m # "x"]

MCTipset == {"a1", "a2", "a3", "a4"}
MCHeight == [t \in MCTipset |-> CASE t = "a1" -> 1 [] t = "a2" -> 2 [] t = "a3" -> 3 [] t = "a4" -> 5]
MCBlocks == [t \in MCTipset |-> CASE t = "a1" -> <<"b1">> [] t = "a2" -> <<"b2", "b2'">>
                                  [] t = "a3" -> <<"b3">> [] t = "a4" -> <<"b4">>]
MCMsgs == [b \in {"b1", "b2", "b2'", "b3", "b4"} |->
    CASE b = "b1" -> <<"c">> [] b = "b2" -> <<"m", "k">> [] b = "b2'" -> <<"m", "x">>
      [] b = "b3" -> <<>> [] b = "b4" -> <<"p">>]
MCParentMessages == [t \in MCTipset |->
    CASE t = "a1" -> <<"c">> [] t = "a2" -> <<"m", "k", "x">> [] t = "a3" -> <<>> [] t = "a4" -> <<"p">>]
MCLists == [w \in {"run_syncer", "sync_to_genesis"} |->
    IF w = "run_syncer" THEN << <<"a3">>, <<"a4">> >> ELSE << <<"a2", "a1">> >>]

MCWork == [w \in DOMAIN MCLists |->
    [i \in DOMAIN MCLists[w] |-> UNION {fs_miners(t) : t \in ToSet(MCLists[w][i])}]
        \o (IF w = "sync_to_genesis" THEN <<NilBatch>> ELSE <<>>)]
MCGenesisStates == {<<"g", "t01">>}
MCState == MCGenesisStates \cup {<<"a2", "t01">>, <<"a2", "t09">>, <<"a4", "t01">>}

MCRaw == {"b2", "c", "k", "meta", "junk"}
MCUnmarshals == [r \in MCRaw |-> CASE r = "b2" -> {"BlockHeader"} [] r = "c" -> {"Message"}
    [] r = "k" -> {"SignedMessage"} [] r = "meta" -> {"MsgMeta"} [] r = "junk" -> {}]
MCCalls == {<<"b2">>, <<"c", "k">>, <<"c", "meta", "junk">>}
Field(of, via) == [of |-> of, via |-> via, exported |-> TRUE, tag |-> ""]
MCFields == [type \in {"BlockHeader", "Message", "SignedMessage", "MsgMeta", "Signature", "Candidate",
                       "fBlockHeader", "fMessage", "fSignedMessage", "fMsgMeta", "CallInfo",
                       "Cid", "PoStParams", "CreateParams"} |->
    CASE type = "BlockHeader"    -> <<Field("Cid", "slice"), Field("Candidate", "slice"), Field("Signature", "pointer"),
                                      [of |-> "bool", via |-> "value", exported |-> FALSE, tag |-> ""]>>
      [] type = "SignedMessage"  -> <<Field("Message", "struct"), Field("Signature", "struct")>>
      [] type = "MsgMeta"        -> <<Field("Cid", "struct")>>
      [] type = "fBlockHeader"   -> <<Field("Cid", "struct"), Field("BlockHeader", "struct")>>
      [] type = "fMessage"       -> <<Field("Cid", "struct"), Field("Message", "struct"), Field("CallInfo", "struct")>>
      [] type = "fSignedMessage" -> <<Field("Cid", "struct"), Field("SignedMessage", "struct")>>
      [] type = "fMsgMeta"       -> <<Field("Cid", "struct"), Field("MsgMeta", "struct")>>
      [] OTHER                   -> <<>>]
MCStruct == DOMAIN MCFields \cup {"struct{}"}
=============================================================================
