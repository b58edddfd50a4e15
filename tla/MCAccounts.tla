----------------------------- MODULE MCAccounts -----------------------------
(* A wallet that sends a message and owns a miner.                          *)
EXTENDS AccountReads

MCSource == {<<"message.From", "t3w">>, <<"wallet_addr", "t3w">>, <<"miner_addr", "t0m">>}
=============================================================================
