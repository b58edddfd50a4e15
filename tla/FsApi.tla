------------------------------- MODULE FsApi -------------------------------
(***************************************************************************)
(* What the requests of fs_api_mining.go and fs_api_token.go have in       *)
(* common: they put an answer together from several queries over the       *)
(* collections the syncing goroutines fill meanwhile, and any of these     *)
(* calls may fail.  One request is looked at.                              *)
(***************************************************************************)
EXTENDS StoredBlocks

CONSTANTS
    GenesisTime,    \* chain_genesis_time, the timestamp of height 0
    Word,           \* 2^64: the range of uint64
    MaxFails        \* bound: calls that fail

ASSUME FsApiAssumption == {GenesisTime, MaxFails} \subseteq Nat /\ Word \in Nat \ {0}

VARIABLES
    req,        \* what the client asks for
    points,     \* the points of the answer
    seen,       \* history: what was stored when the request came
    clean,      \* history: none of its calls has failed
    fails

Time(height) == GenesisTime + height

(* A call of mgo or lotus that the request makes. *)
CallFails == fails < MaxFails /\ fails' = fails + 1 /\ clean' = FALSE
CallWorks == UNCHANGED <<fails, clean>>
=============================================================================
