-------------------------- MODULE StoredDocuments --------------------------
(***************************************************************************)
(* The documents that are made of the blocks and messages of lotus:        *)
(* TipsetData beside the MinerPipeline it sends its miners to, and the     *)
(* mirror of BlockStore.  The syncer and the daemon share the table of     *)
(* actors and nothing else, so one of them is looked at in a behaviour.    *)
(***************************************************************************)
EXTENDS MinerPipeline, TipsetData, BlockStore

ASSUME WorkAssumption ==
    /\ Sender = Writer /\ \A t \in Tipset : fs_miners(t) \subseteq State
    /\ \A w \in Writer :
         Work[w] = [i \in DOMAIN Lists[w] |-> UNION {fs_miners(t) : t \in ToSet(Lists[w][i])}]
                   \o (IF w = "sync_to_genesis" THEN <<NilBatch>> ELSE <<>>)

VARIABLE looked     \* "syncer" or "daemon"

docVars == <<vars, dataVars, storeVars, looked>>

(* As in MinerPipeline, but that sync_to_genesis has not been started, and *)
(* beside a daemon there is no syncer.                                     *)
DocInit ==
    /\ looked \in {"syncer", "daemon"}
    /\ todo = [w \in Sender |->
            IF looked = "syncer" /\ w = "run_syncer" THEN Work[w] ELSE <<>>]
    /\ hpc = "select" /\ hand = {} /\ isNil = FALSE /\ miner = NoState
    /\ buffer = <<>> /\ stored = {} /\ chan = <<>> /\ cached = {} /\ asked = {}
    /\ fails = 0 /\ ticks = 0
    /\ DataInit /\ StoreInit

(* What the writer leaves of what there is to send: all of it when         *)
(* sync_to_genesis starts, nothing when it ends, and no list whose miners  *)
(* are not sent.                                                           *)
Remaining(w, u) ==
    IF writer[u].pc = "off" /\ writer'[u].pc = "build" THEN Work[u]
    ELSE IF writer'[u].pc = "ended" THEN <<>>
    ELSE IF u = w /\ writer[u].pc = "build" /\ writer'[u].pc \in {"build", "messages"}
    THEN Tail(todo[u]) ELSE todo[u]

(* A send and the receive of the handler it waits for are one step. *)
Send(w) == Receive(w) /\ Sent(w) /\ UNCHANGED <<storeVars, looked>>

Store(w) ==
    /\ Write(w) /\ todo' = [u \in Sender |-> Remaining(w, u)]
    /\ UNCHANGED <<hpc, hand, isNil, miner, buffer, stored, chan, cached, asked, fails, ticks,
                   storeVars, looked>>

Handling ==
    /\ ListGenesis \/ (\E s \in State : Handle(s)) \/ SendState \/ EndOfBatch
    /\ UNCHANGED <<dataVars, storeVars, looked>>

Refreshing == Refresh /\ UNCHANGED <<dataVars, storeVars, looked>>

Ticking == Tick /\ UNCHANGED <<dataVars, storeVars, looked>>

Syncer ==
    /\ looked = "syncer"
    /\ Handling \/ Refreshing \/ Ticking \/ \E w \in Writer : Send(w) \/ Store(w)

Daemon == looked = "daemon" /\ StoreNext /\ UNCHANGED <<vars, dataVars, looked>>

DocNext == Syncer \/ Daemon

(* As in MinerPipeline; the writers run on as well. *)
DocSpec ==
    /\ DocInit /\ [][DocNext]_docVars
    /\ WF_docVars(looked = "syncer" /\ (Handling \/ \E w \in Writer : Send(w)))
    /\ WF_docVars(looked = "syncer" /\ Refreshing)
    /\ \A w \in Writer : WF_docVars(looked = "syncer" /\ Store(w))

-----------------------------------------------------------------------------
(* Properties. *)

(* A tipset is stored with its blocks and its messages, whichever call     *)
(* fails and however the writers meet; every message has the receipt with  *)
(* which the tipset of the block it names has executed it; and but for one *)
(* tipset, the first safe one, the miners its messages were sent to have   *)
(* been handed to the handler before.  (build_persistence_data,            *)
(* models_bulk_upsert_block_message_tipset, handle_secod_safe_tipset)      *)
TipsetsAreWhole ==
    \E first \in Tipset : \A h \in DOMAIN tipsets :
        LET t == tipsets[h]
        IN  /\ Height[t] = h
            /\ ToSet(Blocks[t]) \subseteq blocks
            /\ \A b \in ToSet(Blocks[t]) : ToSet(Msgs[b]) \subseteq DOMAIN messages
            /\ \A b \in ToSet(Blocks[t]) : \A m \in ToSet(Msgs[b]) :
                  \E u \in Tipset :
                      /\ messages[m].block \in ToSet(Blocks[u])
                      /\ messages[m].receipt =
                            IF m \in ToSet(ParentMessages[u]) THEN <<u, m>> ELSE <<>>
            /\ t # first => fs_miners(t) \subseteq asked \cup hand

(* Every document of a block that was put is in the mirror or on its way,  *)
(* but for those whose own insert failed and those that were on their way  *)
(* when the daemon ended: a failure, or a document that is there already,  *)
(* costs no other document.  FirstSeen is not before the first Put, and a  *)
(* message has the actor and the method the syncer gives it, a transfer    *)
(* none.  (MgoStore.put, parseMessageCall, ParseActorMessage)              *)
MirrorIsTrue ==
    /\ DOMAIN due \subseteq DOMAIN mirror \cup excused \cup UNION {Left(g) : g \in Slot}
    /\ \A d \in DOMAIN mirror :
        LET call == mirror[d].call
        IN  /\ due[d] <= mirror[d].seen
            /\ call.method # "" => ParseActorMessage(d.raw) = [actor  |-> call.actor,
                                                               method |-> call.method]
=============================================================================
