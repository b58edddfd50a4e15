---------------------------- MODULE AccountReads ----------------------------
(***************************************************************************)
(* controllers/filscan_account_controller.go beside the goroutine of       *)
(* Accounts: what ActorById answers of an account, put together from the   *)
(* collection account and, by the role it finds there, from the collection *)
(* miner.  Requests change nothing; one of them is looked at.              *)
(***************************************************************************)
EXTENDS Accounts

VARIABLE request    \* where a request is and what it has read

readVars == <<vars, request>>

NoRequest == [pc |-> "answered", of |-> "none"]

(* A document of the collection miner names its miner and its owner.       *)
InMiners(field, a) == \E d \in docs : d.source = <<field, a>>

(* Mutant: the list is of the miners of that address.                      *)
MinersOfMiner(a) == InMiners("miner_addr", a)

(* Whether the list of miners with that wallet, all ever seen, has any.    *)
MinerListByWalletAddr(a) == InMiners("wallet_addr", a)

(* Whether there is a newest state of the miner.                           *)
MinerByAddress(a) == InMiners("miner_addr", a)

GetActorByAddress(a) == {account[a]} \ {NoAccount}

(* AccountResult2ProtoAccount, with what ActorById adds.                   *)
Shown(step, a, res) ==
    [pc |-> step, of |-> a, role |-> res.role, work |-> FALSE, miner |-> FALSE]

(* An account that is unknown or has no code, since it was inserted        *)
(* without actor, is answered without data.                                *)
ActorById(a) ==
    /\ request.pc = "answered"
    /\ \E res \in GetActorByAddress(a) :
        /\ res.actor # 0
        /\ request' = Shown(IF res.role \in {"owner", "miner"} THEN res.role ELSE "answered",
                            a, res)

WorkOfOwner ==
    /\ request.pc = "owner"
    /\ request' = [request EXCEPT !.pc = "answered", !.work = MinerListByWalletAddr(request.of)]

InfoOfMiner ==
    /\ request.pc = "miner"
    /\ request' = [request EXCEPT !.pc = "answered", !.miner = MinerByAddress(request.of)]

(* A query of the request fails: an error and no data. *)
RequestFails ==
    /\ request.pc # "answered"
    /\ request' = NoRequest

Read ==
    /\ WorkOfOwner \/ InfoOfMiner \/ RequestFails \/ \E a \in Address : ActorById(a)
    /\ UNCHANGED vars

ReadsInit == Init /\ request = NoRequest

ReadsNext == (Next /\ UNCHANGED request) \/ Read

ReadsSpec ==
    /\ ReadsInit /\ [][ReadsNext]_readVars
    /\ WF_readVars(UpdateAccountInfo /\ UNCHANGED request)
    /\ WF_readVars(Second /\ UNCHANGED request)

-----------------------------------------------------------------------------
(* Properties. *)

(* Who is shown as an owner is shown with the miners owned, though the     *)
(* role and the miners are read from two collections, the role was written *)
(* by a pass that read the second long before, and later passes may find   *)
(* another role for the address.  (ActorById, UpdateAccountInfo)           *)
OwnersShowTheirWork ==
    request # NoRequest /\ request.pc = "answered" /\ request.role = "owner" => request.work
=============================================================================
