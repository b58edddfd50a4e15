--------------------------- MODULE MinerPipeline ---------------------------
(***************************************************************************)
(* The way of a miner's state from a tipset into the collection "miner"    *)
(* and into the miner caches (fs_loops.go, fs_models.go,                   *)
(* fs_storage_miner_message_handler.go):                                   *)
(*                                                                         *)
(*   run_syncer, sync_to_genesis                                           *)
(*     -- tipset_miner_messages_notifer, unbuffered -->                    *)
(*   loop_handle_messages -- to_upsert_miners --> "miner"                  *)
(*     -- miner_state_chan, of ChanSize -->                                *)
(*   loop_handle_refresh_miner_state --> miner_cache24h, miner_cache1day   *)
(*                                                                         *)
(* A state is what lotus says of one miner at one tipset.  A sender gives  *)
(* batches of (tipset, miner) pairs, one state each; sync_to_genesis sends *)
(* a nil last, for which the handler asks for the miners of genesis.       *)
(***************************************************************************)
EXTENDS Naturals, Sequences, FiniteSets

CONSTANTS
    State,          \* (tipset, miner) pairs and what is known of them
    GenesisStates,  \* those list_genesis_miners yields
    Sender,         \* run_syncer and sync_to_genesis
    Work,           \* Work[s]: the batches a sender sends, in order
    NoState,        \* Go's nil *MinerStateAtTipset
    BufferSize,     \* to_update_miner_size
    ChanSize,       \* capacity of miner_state_chan
    MaxFails,       \* bound: calls of lotus or of the database that fail
    MaxTicks        \* bound: ticks of the 90 second ticker

(* Go's nil []*Tipset_miner_messages; a list without miners is not nil. *)
NilBatch == {NoState}

Batch == (SUBSET State) \cup {NilBatch}

ASSUME PipelineAssumption ==
    /\ IsFiniteSet(State) /\ NoState \notin State
    /\ GenesisStates \subseteq State
    /\ Work \in [Sender -> Seq(Batch)]
    /\ BufferSize \in Nat \ {0} /\ ChanSize \in Nat \ {0}
    /\ MaxFails \in Nat /\ MaxTicks \in Nat

VARIABLES
    todo,       \* todo[s]: what the sender has left; it blocks on the first
    hpc,        \* where loop_handle_messages is
    hand,       \* what it has left of miner_messages_list
    isNil,      \* its local isNil
    miner,      \* the state it is about to send to miner_state_chan
    buffer,     \* to_upsert_miners up to to_update_miner_index
    stored,     \* the collection "miner"
    chan,       \* miner_state_chan, oldest first
    cached,     \* what reached the miner caches
    asked,      \* every pair the handler asked lotus for
    fails,      \* counts the failures that MaxFails bounds
    ticks       \* counts the ticks that MaxTicks bounds

vars == <<todo, hpc, hand, isNil, miner, buffer, stored, chan, cached, asked,
          fails, ticks>>

TypeOK ==
    /\ todo \in [Sender -> Seq(Batch)]
    /\ hpc \in {"select", "genesis", "range", "send"}
    /\ hand \subseteq State
    /\ isNil \in BOOLEAN
    /\ miner \in State \cup {NoState}
    /\ buffer \in Seq(State)
    /\ stored \subseteq State
    /\ chan \in Seq(State)
    /\ cached \subseteq State /\ asked \subseteq State
    /\ fails \in Nat /\ ticks \in Nat

Init ==
    /\ todo = Work
    /\ hpc = "select" /\ hand = {} /\ isNil = FALSE /\ miner = NoState
    /\ buffer = <<>> /\ stored = {}
    /\ chan = <<>> /\ cached = {}
    /\ asked = {}
    /\ fails = 0 /\ ticks = 0

Fail == fails < MaxFails /\ fails' = fails + 1

Elements(seq) == {seq[i] : i \in 1..Len(seq)}

-----------------------------------------------------------------------------
(* do_upsert_miners.  Its offset is twice the index when the buffer is     *)
(* full and 0 when it is not: it writes a full buffer, and otherwise a     *)
(* bulk of no documents, which the server (mongo 4.2 and later, as the     *)
(* README asks for) refuses.  An error leaves the index as it is.          *)
IsFull == Len(buffer) >= BufferSize

WriteFull ==
    /\ IsFull
    /\ stored' = stored \cup Elements(buffer)
    /\ UNCHANGED fails

UpsertError ==
    /\ buffer # <<>>
    /\ \/ ~IsFull /\ UNCHANGED fails
       \/ Fail
    /\ UNCHANGED stored

(* Mutant: the index is reset before the error is looked at. *)
UpsertForgets ==
    \/ buffer = <<>> /\ UNCHANGED <<buffer, stored, fails>>
    \/ (WriteFull \/ UpsertError) /\ buffer' = <<>>

do_upsert_miners ==
    \/ buffer = <<>> /\ UNCHANGED <<buffer, stored, fails>>
    \/ WriteFull /\ buffer' = <<>>
    \/ UpsertError /\ UNCHANGED buffer

(* models_update_miner: a full buffer is written first, and when that      *)
(* fails m is not put into it.                                             *)
models_update_miner(m) ==
    \/ ~IsFull /\ buffer' = Append(buffer, m) /\ UNCHANGED <<stored, fails>>
    \/ WriteFull /\ buffer' = <<m>>
    \/ IsFull /\ UpsertError /\ UNCHANGED buffer

-----------------------------------------------------------------------------
(* loop_handle_messages *)

Receive(s) ==
    /\ hpc = "select" /\ todo[s] # <<>>
    /\ todo' = [todo EXCEPT ![s] = Tail(@)]
    /\ IF Head(todo[s]) = NilBatch
       THEN hpc' = "genesis" /\ isNil' = TRUE /\ UNCHANGED hand
       ELSE hpc' = "range" /\ hand' = Head(todo[s]) /\ UNCHANGED isNil
    /\ UNCHANGED <<miner, buffer, stored, chan, cached, asked, fails, ticks>>

(* list_genesis_miners; when it fails there is nothing to range over *)
ListGenesis ==
    /\ hpc = "genesis"
    /\ \/ hand' = GenesisStates /\ UNCHANGED fails
       \/ hand' = {} /\ Fail
    /\ hpc' = "range"
    /\ UNCHANGED <<todo, isNil, miner, buffer, stored, chan, cached, asked, ticks>>

(* handle_storage_miner_message up to the channel; the maps are ranged     *)
(* over in any order, and an error of models_update_miner is ignored       *)
Handle(m) ==
    /\ hpc = "range" /\ m \in hand
    /\ hand' = hand \ {m}
    /\ asked' = asked \cup {m}
    /\ \/ /\ models_update_miner(m)
          /\ miner' = m /\ hpc' = "send"
       \/ /\ Fail                           \* api_miner_state_at_tipset
          /\ UNCHANGED <<buffer, stored, miner, hpc>>
    /\ UNCHANGED <<todo, isNil, chan, cached, ticks>>

(* Mutant: a send that gives up when the channel is full. *)
SendIfRoom ==
    /\ hpc = "send"
    /\ chan' = IF Len(chan) < ChanSize THEN Append(chan, miner) ELSE chan
    /\ miner' = NoState /\ hpc' = "range"
    /\ UNCHANGED <<todo, hand, isNil, buffer, stored, cached, asked, fails, ticks>>

(* fs.miner_state_chan <- miner_state *)
SendState ==
    /\ hpc = "send" /\ Len(chan) < ChanSize
    /\ chan' = Append(chan, miner)
    /\ miner' = NoState /\ hpc' = "range"
    /\ UNCHANGED <<todo, hand, isNil, buffer, stored, cached, asked, fails, ticks>>

EndOfBatch ==
    /\ hpc = "range" /\ hand = {}
    /\ IF isNil THEN do_upsert_miners ELSE UNCHANGED <<buffer, stored, fails>>
    /\ isNil' = FALSE /\ hpc' = "select"
    /\ UNCHANGED <<todo, hand, miner, chan, cached, asked, ticks>>

(* <-ticker.C *)
Tick ==
    /\ hpc = "select" /\ ticks < MaxTicks
    /\ ticks' = ticks + 1
    /\ do_upsert_miners
    /\ UNCHANGED <<todo, hpc, hand, isNil, miner, chan, cached, asked>>

(* Mutant: the loop that empties the channel ends after one state. *)
RefreshOnce ==
    /\ chan # <<>> /\ cached = {}
    /\ chan' = Tail(chan)
    /\ cached' = {Head(chan)}
    /\ UNCHANGED <<todo, hpc, hand, isNil, miner, buffer, stored, asked, fails, ticks>>

(* loop_handle_refresh_miner_state, handle_miner_state *)
Refresh ==
    /\ chan # <<>>
    /\ chan' = Tail(chan)
    /\ cached' = cached \cup {Head(chan)}
    /\ UNCHANGED <<todo, hpc, hand, isNil, miner, buffer, stored, asked, fails, ticks>>

Handler == \/ \E s \in Sender : Receive(s)
           \/ ListGenesis
           \/ \E m \in State : Handle(m)
           \/ SendState
           \/ EndOfBatch

Next == Handler \/ Tick \/ Refresh

Spec == Init /\ [][Next]_vars

(* The goroutines run; a select with a waiting sender does not wait for    *)
(* the ticker.                                                             *)
FairSpec == Spec /\ WF_vars(Handler) /\ WF_vars(Refresh)

-----------------------------------------------------------------------------
(* Properties. *)

(* A failed call costs at most the one state it was made for: a state the  *)
(* handler asked for is in the buffer or in the collection, but for one    *)
(* per failure.  The reset of the index loses no state that was not        *)
(* written, and a full buffer whose upsert fails stays for the next try.   *)
(* (models_update_miner, do_upsert_miners)                                 *)
EachFailureLosesOne ==
    Cardinality(asked \ (stored \cup Elements(buffer))) <= fails

(* to_upsert_miners[offset] is in range: when the upsert of a full buffer  *)
(* fails, nothing is put behind its end.  (models_update_miner)            *)
BufferInRange == Len(buffer) <= BufferSize

(* Whatever is in the collection is, or is about to be, in the caches: the *)
(* buffer is filled before the channel, and the channel loses nothing.     *)
(* (handle_storage_miner_message)                                          *)
StoredIsCached ==
    stored \cup Elements(buffer) \subseteq cached \cup Elements(chan) \cup {miner}

(* A goroutine that syncs tipsets is never stuck in its send, although the *)
(* handler waits for the caches inside the batch.                          *)
SendersReturn == \A s \in Sender : todo[s] # <<>> ~> todo[s] = <<>>
=============================================================================
