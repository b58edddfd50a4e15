----------------------------- MODULE TipsetData -----------------------------
(***************************************************************************)
(* filscaner/fs_block_message.go and the goroutines of fs_syncer.go that   *)
(* use it: what becomes of a tipset's blocks, messages and receipts.       *)
(* run_syncer stores the safe tipsets, one at a time; the first it stores  *)
(* starts sync_to_genesis, which stores lists of them.  Each list is built *)
(* from calls of lotus, its miners are sent to loop_handle_messages, and   *)
(* then messages, blocks and tipsets are upserted, in bulks, one           *)
(* collection after the other.  (Which tipsets these are: ChainSync.)      *)
(***************************************************************************)
EXTENDS ActorTable, FiniteSets

CONSTANTS
    Tipset, Height, \* Height[t]
    Blocks, Msgs,   \* Blocks[t], Msgs[b]: sequences; in a block bls messages come first
    ParentMessages, \* lotus: [t -> the messages it executes, each once]
    Writer,         \* run_syncer and sync_to_genesis
    Lists,          \* Lists[w]: sequences of tipsets, stored in this order
    MaxSize,        \* max_size, 256 messages in a bulk
    MaxErrors       \* bound: calls of lotus or mgo that fail

ASSUME DataAssumption ==
    /\ Tipset # {} /\ Height \in [Tipset -> Nat]
    /\ Msgs \in [DOMAIN Msgs -> Seq(Msg)] /\ Blocks \in [Tipset -> Seq(DOMAIN Msgs)]
    /\ ParentMessages \in [Tipset -> Seq(Msg)]
    /\ Writer = {"run_syncer", "sync_to_genesis"}
    /\ Lists \in [Writer -> Seq(Seq(Tipset))]
    /\ \A i \in DOMAIN Lists["run_syncer"] : Len(Lists["run_syncer"][i]) = 1
    /\ MaxSize \in Nat \ {0} /\ MaxErrors \in Nat

VARIABLES
    messages,   \* the documents of "msg", by cid
    blocks,     \* the cids in "block"
    tipsets,    \* the documents of "tipset", by height
    writer,     \* [w -> [pc, i: the list it is at, left: messages to upsert]]
    errors

dataVars == <<messages, blocks, tipsets, writer, errors>>

(* ChainGetParentReceipts of a child: a receipt per message, in order. *)
ParentReceipts(t) == [i \in DOMAIN ParentMessages[t] |-> <<t, ParentMessages[t][i]>>]

(* Mutant: receipts are taken in the order of the blocks' messages. *)
ReceiptsInBlockOrder(t) ==
    LET given == FlattenSeq([i \in DOMAIN Blocks[t] |-> Msgs[Blocks[t][i]]])
    IN  [m \in ToSet(given) |->
            LET i == SelectInSeq(given, LAMBDA g : g = m)
            IN  IF i <= Len(ParentReceipts(t)) THEN ParentReceipts(t)[i] ELSE <<>>]

receipts_ref(t) ==
    [m \in ToSet(ParentMessages[t]) |->
        ParentReceipts(t)[SelectLastInSeq(ParentMessages[t], LAMBDA g : g = m)]]

MessageName(m) ==
    IF Number[m] = 0 THEN [actor |-> "", method |-> "Transfer"] ELSE ParseActorMessage(m)

(* fs_messages, with the receipt build_models_data looks up by the cid. *)
fs_messages(t, b) ==
    [i \in DOMAIN Msgs[b] |->
        LET m == Msgs[b][i]
        IN  [cid |-> m, block |-> b, height |-> Height[t], name |-> MessageName(m),
             receipt |-> IF m \in ToSet(ParentMessages[t]) THEN receipts_ref(t)[m] ELSE <<>>]]

(* build_models_data: the messages of the blocks, a message once for every *)
(* block that has it, and the miners to ask lotus about.                   *)
fs_msgs(t) == FlattenSeq([i \in DOMAIN Blocks[t] |-> fs_messages(t, Blocks[t][i])])

fs_miners(t) ==
    {<<t, To[m]>> : m \in {n \in UNION {ToSet(Msgs[b]) : b \in ToSet(Blocks[t])} :
                               MessageName(n).actor = "StorageMinerActor"}}

(* api_tipset_blockmessages_and_receipts builds it once (is_cached). *)
Built == [w \in Writer |-> [i \in DOMAIN Lists[w] |->
            FlattenSeq([k \in DOMAIN Lists[w][i] |-> fs_msgs(Lists[w][i][k])])]]

DataInit ==
    /\ messages = [m \in {} |-> 0] /\ blocks = {} /\ tipsets = [h \in {} |-> 0]
    /\ writer = [w \in Writer |->
        [pc |-> IF w = "run_syncer" THEN "build" ELSE "off", i |-> 1, left |-> <<>>]]
    /\ errors = 0

Error == errors < MaxErrors /\ errors' = errors + 1

List(w) == Lists[w][writer[w].i]

ListBlocks(w) == FlattenSeq([i \in DOMAIN List(w) |-> Blocks[List(w)[i]]])

(* handle_safe_tipset is still handle_first_safe_tipset. *)
First(w) == w = "run_syncer" /\ writer["sync_to_genesis"].pc = "off"

GoTo(w, pc) == writer' = [writer EXCEPT ![w].pc = pc]

(* The list is done with, or dropped after an error: run_syncer goes on    *)
(* with the next; sync_to_genesis does so, or after an error ends.         *)
Done(w, ok) ==
    [writer EXCEPT ![w] = [pc |-> IF w = "sync_to_genesis" /\ ~ok THEN "ended" ELSE "build",
                           i |-> @.i + 1, left |-> <<>>]]

(* ChainGetBlockMessages, ChainGetParentMessages and -Receipts. The first  *)
(* safe tipset is stored without its miners being sent.                    *)
Build(w) ==
    /\ writer[w].pc = "build" /\ writer[w].i <= Len(Lists[w])
    /\ writer' = [writer EXCEPT ![w].pc = IF First(w) THEN "messages" ELSE "send",
                                ![w].left = Built[w][writer[w].i]]
    /\ UNCHANGED <<messages, blocks, tipsets, errors>>

BuildFails(w) ==
    /\ writer[w].pc = "build" /\ writer[w].i <= Len(Lists[w])
    /\ Error /\ writer' = Done(w, FALSE)
    /\ UNCHANGED <<messages, blocks, tipsets>>

(* The nil with which sync_to_genesis ends *)
SendNil(w) ==
    /\ writer[w].pc = "build" /\ writer[w].i > Len(Lists[w])
    /\ w = "sync_to_genesis" /\ GoTo(w, "nil")
    /\ UNCHANGED <<messages, blocks, tipsets, errors>>

(* tipset_miner_messages_notifer takes what w sends. *)
Sent(w) ==
    /\ \/ writer[w].pc = "send" /\ GoTo(w, "messages")
       \/ writer[w].pc = "nil" /\ GoTo(w, "ended")
    /\ UNCHANGED <<messages, blocks, tipsets, errors>>

(* What an ordered upsert leaves of a collection: of several documents     *)
(* with one key the last.                                                  *)
Upserted(collection, docs, key) ==
    [k \in DOMAIN collection \cup {key[docs[i]] : i \in DOMAIN docs} |->
        LET last == SelectLastInSeq(docs, LAMBDA d : key[d] = k)
        IN  IF last = 0 THEN collection[k] ELSE docs[last]]

(* models_bulk_upsert_message: a bulk of an ordered upsert by cid, which   *)
(* after an error leaves its first documents written.                      *)
UpsertMessages(w) ==
    LET left == writer[w].left
        bulk == IF Len(left) > MaxSize THEN MaxSize ELSE Len(left)
        After(n) == Upserted(messages, SubSeq(left, 1, n), [d \in ToSet(left) |-> d.cid])
    IN  /\ writer[w].pc = "messages"
        /\ \/ messages' = After(bulk) /\ UNCHANGED errors
              /\ writer' = [writer EXCEPT ![w].left = SubSeq(left, bulk + 1, Len(left)),
                                          ![w].pc = IF bulk = Len(left) THEN "blocks" ELSE @]
           \/ Error /\ writer' = Done(w, FALSE)
              /\ \E n \in 0..(bulk - 1) : messages' = After(n)
        /\ UNCHANGED <<blocks, tipsets>>

UpsertBlocks(w) ==
    /\ writer[w].pc = "blocks"
    /\ \/ blocks' = blocks \cup ToSet(ListBlocks(w))
          /\ GoTo(w, "tipsets") /\ UNCHANGED errors
       \/ Error /\ writer' = Done(w, FALSE)
          /\ \E n \in 0..(Len(ListBlocks(w)) - 1) :
                blocks' = blocks \cup ToSet(SubSeq(ListBlocks(w), 1, n))
    /\ UNCHANGED <<messages, tipsets>>

(* By height; the first tipset that is stored starts sync_to_genesis. *)
UpsertTipsets(w) ==
    LET After(n) == Upserted(tipsets, SubSeq(List(w), 1, n), Height)
    IN  /\ writer[w].pc = "tipsets"
        /\ \/ tipsets' = After(Len(List(w))) /\ UNCHANGED errors
              /\ writer' = IF First(w)
                           THEN [Done(w, TRUE) EXCEPT !["sync_to_genesis"].pc = "build"]
                           ELSE Done(w, TRUE)
           \/ Error /\ writer' = Done(w, FALSE)
              /\ \E n \in 0..(Len(List(w)) - 1) : tipsets' = After(n)
        /\ UNCHANGED <<messages, blocks>>

(* What a writer does on its own, but for Sent. *)
Write(w) ==
    Build(w) \/ BuildFails(w) \/ SendNil(w)
    \/ UpsertMessages(w) \/ UpsertBlocks(w) \/ UpsertTipsets(w)
=============================================================================
