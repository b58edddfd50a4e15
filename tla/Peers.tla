-------------------------------- MODULE Peers --------------------------------
(***************************************************************************)
(* The collection "peer" (models/peer.go) and the pass that fills it:      *)
(* SavePeers of controllers/lotus_controller.go, which UpdatePeers starts  *)
(* every half hour, one pass after the other.  peer_id is a unique index.  *)
(***************************************************************************)
EXTENDS Naturals, Sequences, SequencesExt

CONSTANTS
    Peer,       \* peer ids
    Ip,         \* their addresses, none of them empty
    Day,        \* the 24 hours of GetPeerGroup
    Week        \* the 7 days of SavePeers

ASSUME PeersAssumption == Peer \cap Ip = {} /\ Day \in Nat /\ Week \in Nat

VARIABLES
    peers,      \* the documents, by peer_id
    located,    \* what SavePeers is about to insert
    saving      \* a pass is under way

peerVars == <<peers, located, saving>>

Connected == [id : Peer, ip : Ip]

PeersInit ==
    /\ \E known \in SUBSET Peer, ip \in Ip :
        peers = [p \in known |-> [ip |-> ip, gmt_modified |-> 0]]
    /\ located = <<>> /\ saving = FALSE

(* GetNetPeers: each connected peer once, in any order. *)
Lists == UNION {{[i \in DOMAIN order |-> [id |-> order[i], ip |-> ip[order[i]]]] :
                    order \in SetToSeqs(ids), ip \in [ids -> Ip]} : ids \in SUBSET Peer}

(* GetPeerByPeerId(value.Ip): the documents whose peer_id is the address.  *)
Have(value) == DOMAIN peers \cap {value.ip}

Recently(value, now) == \E p \in Have(value) : now < peers[p].gmt_modified + Week

(* The loop of SavePeers: a peer that is found and was modified within a   *)
(* week is renewed; of the others those are kept whose query and whose     *)
(* GetIpDetails do not fail.                                               *)
SavePeers(now) ==
    /\ ~saving /\ saving' = TRUE
    /\ \E list \in Lists :
        /\ peers' = [p \in DOMAIN peers |->
                        IF \E i \in DOMAIN list : p \in Have(list[i]) /\ Recently(list[i], now)
                        THEN [peers[p] EXCEPT !.gmt_modified = now] ELSE peers[p]]
        /\ \E failed \in SUBSET Peer :
            located' = SelectSeq(list, LAMBDA v : v.id \notin failed /\ ~Recently(v, now))

(* An ordered insert ends at the first document whose key is taken. *)
Inserted == {i \in DOMAIN located :
                \A j \in 1..i : located[j].id \notin DOMAIN peers}

Document(value, now) == [ip |-> value.ip, gmt_modified |-> now]

InsertPeerMulti(now) ==
    /\ saving
    /\ peers' = [p \in DOMAIN peers \cup {located[i].id : i \in Inserted} |->
                    IF p \in DOMAIN peers THEN peers[p]
                    ELSE Document(located[CHOOSE i \in Inserted : located[i].id = p], now)]
    /\ located' = <<>> /\ saving' = FALSE

(* Mutant: all peers, whenever they were modified. *)
WholeGroup(now) == DOMAIN peers

(* The peers PeerMap groups by their place. *)
GetPeerGroup(now) == {p \in DOMAIN peers : now <= peers[p].gmt_modified + Day}

UpdatePeers(now) == SavePeers(now) \/ InsertPeerMulti(now)
=============================================================================
