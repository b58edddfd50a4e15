---------------------------- MODULE LegacyQueue ----------------------------
(***************************************************************************)
(* controllers/tipset_queue.go: SliceEntry, the queue of tipsets the       *)
(* explorer kept before the tipset cache, and models.UpdateMsgReceipts,    *)
(* which writes receipts to the messages that have left it.  Its callers   *)
(* in controllers/lotus_controller.go are commented out; they are taken as *)
(* any goroutines that call it.                                            *)
(*                                                                         *)
(* Every method locks the queue, but the Unlock of a method called inside  *)
(* another one lets go of the lock (module HappiLock): the outer method    *)
(* goes on without it.  So a method is one step up to the return of its    *)
(* first inner call and another step from there, and a removal of          *)
(* UpdatePush is a step each.                                              *)
(***************************************************************************)
EXTENDS Integers, Sequences, SequencesExt

CONSTANTS
    Tipset, Height, ParentHeight,   \* what is pushed, and its heights
    Blocks,         \* [Tipset -> Seq(block)]
    Msg, Msgs,      \* Msgs[b]: the messages of a block
    Miner, From, To, Method,    \* of a block, and of a message
    Pusher, Taker,  \* goroutines that push, and that take or list
    MaxPush,        \* bound: elements pushed
    MaxTake         \* bound: the num of GetHeaderList

NoMethod == "any"   \* methodName = "", and blockCid = ""

ASSUME QueueAssumption ==
    /\ Height \in [Tipset -> Nat] /\ MaxTake \in Nat \ {0}
    /\ Blocks \in [Tipset -> Seq(DOMAIN Miner)] /\ NoMethod \notin DOMAIN Miner
    /\ Msgs \in [DOMAIN Miner -> Seq(Msg)]

Goroutine == Pusher \cup Taker

VARIABLES
    element,    \* entry.element: ids of elements, the lowest first
    object,     \* the elements: [tipset, filled: messages with their receipt]
    local,      \* [Goroutine -> the call it is in]
    receipts,   \* [Tipset -> where the receipts of its messages are]
    handed,     \* elements given to the goroutines that save them
    stored,     \* [Msg -> {"no", "bare", "odd", "full"}]: the collection
    dead        \* a method has panicked, and the process with it

queueVars == <<element, object, local, receipts, handed, stored, dead>>

Idle == [call |-> "none"]

QueueInit ==
    /\ element = <<>> /\ object = <<>>
    /\ local = [g \in Goroutine |-> Idle]
    /\ receipts = [t \in Tipset |-> [at |-> "none"]]
    /\ handed = {} /\ stored = [m \in Msg |-> "no"]
    /\ dead = FALSE

H(o) == Height[object[o].tipset]

BlocksOf(o) == Blocks[object[o].tipset]

MsgsOf(o) == FlattenSeq([i \in DOMAIN BlocksOf(o) |-> Msgs[BlocksOf(o)[i]]])

-----------------------------------------------------------------------------
(* Pushing *)

(* The index in the slice, from 0; -1 when no element has the height. *)
Have(h) ==
    LET at == {i \in DOMAIN element : H(element[i]) = h}
    IN  IF at = {} THEN -1 ELSE (CHOOSE i \in at : \A j \in at : i <= j) - 1

(* Every block of one is every block of the other: two elements of two     *)
(* blocks each are never the same.                                         *)
Same(o, t) ==
    /\ Len(BlocksOf(o)) = Len(Blocks[t])
    /\ \A b \in ToSet(Blocks[t]), c \in ToSet(BlocksOf(o)) : b = c

Push(g, t) ==
    /\ local[g] = Idle /\ Len(object) < MaxPush
    /\ object' = Append(object, [tipset |-> t, filled |-> {}])
    /\ local' = [local EXCEPT ![g] =
         [call |-> "push", new |-> Len(object) + 1, index |-> Have(Height[t])]]
    /\ UNCHANGED <<element, receipts, handed, stored, dead>>

(* An element whose height Have did not find, or found at index 0.         *)
(* sort.Slice leaves the order of equal heights open.                      *)
Append1(g) ==
    /\ local[g].call = "push" /\ local[g].index <= 0
    /\ LET all == Append(element, local[g].new)
       IN  \E p \in Bijection(DOMAIN all, DOMAIN all) :
            /\ \A i, j \in DOMAIN all : i < j => H(all[p[i]]) <= H(all[p[j]])
            /\ element' = [i \in DOMAIN all |-> all[p[i]]]
    /\ local' = [local EXCEPT ![g] =
         [call |-> "fork", new |-> local[g].new, at |-> H(local[g].new) - 1]]
    /\ UNCHANGED <<object, receipts, handed, stored, dead>>

(* The element at the index Have gave, whatever is there by now. *)
Replace(g) ==
    /\ local[g].call = "push" /\ local[g].index > 0
    /\ LET i == local[g].index + 1 new == local[g].new
       IN  IF i > Len(element)
           THEN dead' = TRUE /\ UNCHANGED element
           ELSE /\ element' = IF Same(element[i], object[new].tipset) THEN element
                              ELSE [element EXCEPT ![i] = new]
                /\ UNCHANGED dead
    /\ local' = [local EXCEPT ![g] = Idle]
    /\ UNCHANGED <<object, receipts, handed, stored>>

(* The loop runs over the slice as it was, while what follows a removed    *)
(* element moves down inside it; a match behind the new end panics.        *)
Visited(acc, i, h) ==
    IF H(acc.all[i]) # h \/ acc.panic THEN acc
    ELSE IF i > acc.len THEN [acc EXCEPT !.panic = TRUE]
    ELSE [all |-> [j \in DOMAIN element |->
                     IF j \in i..(acc.len - 1) THEN acc.all[j + 1] ELSE acc.all[j]],
          len |-> acc.len - 1, panic |-> FALSE]

Removed(h) ==
    LET visit[i \in 0..Len(element)] ==
            IF i = 0 THEN [all |-> element, len |-> Len(element), panic |-> FALSE]
            ELSE Visited(visit[i - 1], i, h)
    IN  visit[Len(element)]

Outside(h) == element = <<>> \/ H(element[1]) > h \/ H(Last(element)) < h

DelTipsetByHeight(h) ==
    IF Outside(h) THEN UNCHANGED <<element, dead>>
    ELSE LET r == Removed(h)
         IN  element' = SubSeq(r.all, 1, r.len) /\ dead' = r.panic

(* Fork: the heights the branch of the new element skips are emptied. *)
Fork(g) ==
    /\ local[g].call = "fork"
    /\ LET h == local[g].at
       IN  IF h > ParentHeight[object[local[g].new].tipset]
           THEN DelTipsetByHeight(h) /\ local' = [local EXCEPT ![g].at = h - 1]
           ELSE local' = [local EXCEPT ![g] = Idle] /\ UNCHANGED <<element, dead>>
    /\ UNCHANGED <<object, receipts, handed, stored>>

-----------------------------------------------------------------------------
(* Taking *)

(* A call that asks for Size (Clear: IsEmpty) before it does its work. *)
Size(g) ==
    /\ local[g] = Idle
    /\ \/ \E num \in 1..MaxTake :
            local' = [local EXCEPT ![g] = [call |-> "take", num |-> num, size |-> Len(element)]]
       \/ local' = [local EXCEPT ![g] = [call |-> "clear", size |-> Len(element)]]
       \/ local' = [local EXCEPT ![g] = [call |-> "list", size |-> Len(element)]]
    /\ UNCHANGED <<element, object, receipts, handed, stored, dead>>

(* Fewer than num are returned but stay; otherwise num + 1 are taken.      *)
GetHeaderList(g) ==
    /\ local[g].call = "take"
    /\ LET n == local[g].num + 1
       IN  IF local[g].size < local[g].num
           THEN handed' = handed \cup ToSet(element) /\ UNCHANGED <<element, dead>>
           ELSE IF n > Len(element)
           THEN dead' = TRUE /\ UNCHANGED <<element, handed>>
           ELSE /\ handed' = handed \cup ToSet(SubSeq(element, 1, n))
                /\ element' = SubSeq(element, n + 1, Len(element))
                /\ UNCHANGED dead
    /\ local' = [local EXCEPT ![g] = Idle]
    /\ UNCHANGED <<object, receipts, stored>>

(* The list is dropped.  The loop before that, which blanks the elements   *)
(* one by one and lets go of the lock at each of its calls of Size, is not *)
(* modelled: a reader in between would meet an element without a tipset.   *)
(* No code of the repository calls Clear.                                  *)
Clear(g) ==
    /\ local[g].call = "clear"
    /\ element' = IF local[g].size = 0 THEN element ELSE <<>>
    /\ local' = [local EXCEPT ![g] = Idle]
    /\ UNCHANGED <<object, receipts, handed, stored, dead>>

(* The caller: an element it got is saved, block by block (upserts).       *)
Save(o) ==
    /\ handed' = handed \ {o}
    /\ stored' = [m \in Msg |-> IF m \notin ToSet(MsgsOf(o)) THEN stored[m]
                                ELSE IF m \in object[o].filled THEN "full" ELSE "bare"]
    /\ UNCHANGED <<element, object, local, receipts, dead>>

-----------------------------------------------------------------------------
(* Reading.  n is what Size gave before the rest of the method ran.        *)

(* element[n-1-key] for every key of the slice: a slice that has changed   *)
(* its length since is indexed outside its bounds.                         *)
Listable(n) == element = <<>> \/ n = Len(element)

Newest(n) == [key \in 1..Len(element) |-> element[n + 1 - key]]

AllBlock(n) == FlattenSeq([k \in DOMAIN element |-> BlocksOf(Newest(n)[k])])

AllMsg(n) == FlattenSeq([k \in DOMAIN element |-> MsgsOf(Newest(n)[k])])

BlockSize ==
    LET size[i \in 0..Len(element)] ==
            IF i = 0 THEN 0 ELSE size[i - 1] + Len(BlocksOf(element[i]))
    IN  size[Len(element)]

(* What a loop appends of a list: the members at these places. *)
Picked(all, at) == FlattenSeq([i \in DOMAIN all |-> IF i \in at THEN <<all[i]>> ELSE <<>>])

(* Mutant: the element at start is on the page before, too. *)
SliceTo(all, start, count) == SubSeq(all, start + 1, start + count + 1)

Slice(all, start, count) == SubSeq(all, start + 1, start + count)

BlockByIndex(n, start, count) ==
    LET all == AllBlock(n)
    IN  IF start + count >= Len(all) THEN SubSeq(all, start + 1, Len(all))
        ELSE Slice(all, start, count)

MsgByIndex(n, start, count) ==
    LET all == AllMsg(n)
    IN  IF start + count >= Len(all) THEN SubSeq(all, start + 1, Len(all))
        ELSE Slice(all, start, count)

SortBlockByMinerArr(n, miners) ==
    LET all == FlattenSeq([i \in 1..n |-> BlocksOf(element[n + 1 - i])])
    IN  Picked(all, {i \in DOMAIN all : Miner[all[i]] \in miners})

MsgByAddressFromToMethodName(n, address, fromTo, method) ==
    LET all == AllMsg(n)
    IN  Picked(all, {i \in DOMAIN all :
            /\ \/ fromTo # "to" /\ From[all[i]] = address
               \/ fromTo # "from" /\ To[all[i]] = address
            /\ method \in {NoMethod, Method[all[i]]}})

(* From the end, but without the last; and from the start when the page    *)
(* would reach it.                                                         *)
TipSetElement(n, start, end) ==
    IF n < start THEN <<0, 0>>
    ELSE IF start + end >= n THEN <<start, n - 1>>
    ELSE <<n - 1 - start - end, n - 1 - start>>

BlockByCid(b) == \E i \in DOMAIN element : b \in ToSet(BlocksOf(element[i]))

MsgByCid(m) == \E i \in DOMAIN element : m \in ToSet(MsgsOf(element[i]))

(* The second break leaves the loop over the queue after its first element. *)
MsgByBlockCid(b) ==
    IF element # <<>> /\ b \in ToSet(BlocksOf(element[1])) THEN Msgs[b] ELSE <<>>

MsgByBlockCidMethodName(b, method) ==
    LET all  == FlattenSeq([i \in DOMAIN element |-> BlocksOf(element[i])])
        msgs == FlattenSeq([i \in DOMAIN all |->
                              IF b \in {NoMethod, all[i]} THEN Msgs[all[i]] ELSE <<>>])
    IN  Picked(msgs, {i \in DOMAIN msgs : method \in {NoMethod, Method[msgs[i]]}})

(* The object, or 0.  Heights outside those of the two ends are not looked for. *)
TipsetByOneHeight(h) ==
    IF Outside(h) \/ Have(h) = -1 THEN 0 ELSE element[Have(h) + 1]

(* Up to the first element above endHeight *)
TipsetByHeight(startHeight, endHeight) ==
    Picked(element, {i \in DOMAIN element :
        startHeight <= H(element[i]) /\ \A j \in 1..i : H(element[j]) <= endHeight})

(* A listing: what becomes of the slice expressions after Size.  Beyond    *)
(* the length a slice may still reach what is left in its array.           *)
List(g) ==
    /\ local[g].call = "list"
    /\ LET n == local[g].size
       IN  \/ dead' = ~Listable(n)
           \/ dead' = (n > Len(element))
           \/ \E start \in 0..MaxTake, end \in 1..MaxTake :
                LET s == TipSetElement(n, start, end)
                IN  IF s[1] > s[2] THEN dead' = TRUE
                    ELSE IF s[2] > Len(element) THEN dead' \in BOOLEAN
                    ELSE UNCHANGED dead
    /\ local' = [local EXCEPT ![g] = Idle]
    /\ UNCHANGED <<element, object, receipts, handed, stored>>

-----------------------------------------------------------------------------
(* Receipts: one goroutine for the messages of a parent tipset, which      *)
(* starts another one for each new try.                                    *)

Given(t) == FlattenSeq([i \in DOMAIN Blocks[t] |-> Msgs[Blocks[t][i]]])

(* GetTipSetPushQueue: the receipts of a parent's messages have come. (A   *)
(* parent without any changes nothing.)                                    *)
Give(t) ==
    /\ receipts[t].at = "none" /\ Given(t) # <<>>
    /\ receipts' = [receipts EXCEPT ![t] = [at |-> "call", loop |-> 0]]
    /\ UNCHANGED <<element, object, local, handed, stored, dead>>

(* A queue of one element drops the receipts, on any try. *)
MsgUpdateReceipt(t) ==
    /\ receipts[t].at = "call"
    /\ receipts' = [receipts EXCEPT ![t] =
         IF Len(element) = 1 THEN [at |-> "dropped"]
         ELSE [at |-> "look", loop |-> receipts[t].loop]]
    /\ UNCHANGED <<element, object, local, handed, stored, dead>>

(* Mutant: the number of tries is handed on as it is. *)
AgainForever(loop) == [at |-> "call", loop |-> loop]

(* After a sleep of 3 seconds *)
Again(loop) == [at |-> "call", loop |-> loop + 1]

(* The element of the height; after five tries the collection. *)
Look(t) ==
    /\ receipts[t].at = "look"
    /\ LET o == TipsetByOneHeight(Height[t]) loop == receipts[t].loop
       IN  receipts' = [receipts EXCEPT ![t] =
             IF loop > 4 THEN [at |-> "db"]
             ELSE IF o = 0 THEN Again(loop)
             ELSE [at |-> "fill", loop |-> loop, obj |-> o]]
    /\ UNCHANGED <<element, object, local, handed, stored, dead>>

(* The element, which may have left the queue by now; another branch's has *)
(* other messages.                                                         *)
Fill(t) ==
    /\ receipts[t].at = "fill"
    /\ LET o    == receipts[t].obj
           ours == ToSet(Given(t)) \cap ToSet(MsgsOf(o))
       IN  /\ object' = [object EXCEPT ![o].filled = @ \cup ours]
           /\ receipts' = [receipts EXCEPT ![t] =
                IF ours = {} THEN Again(receipts[t].loop) ELSE [at |-> "done"]]
    /\ UNCHANGED <<element, local, handed, stored, dead>>

(* UpdateMsgReceipts tries the first message, and again 5 seconds later    *)
(* with the same loop: only its being stored ends that.  The exit code is  *)
(* converted to a rune here.                                               *)
UpdateFirst(t) ==
    /\ receipts[t].at = "db" /\ stored[Given(t)[1]] # "no"
    /\ stored' = [stored EXCEPT ![Given(t)[1]] = "odd"]
    /\ receipts' = [receipts EXCEPT ![t] = [at |-> "bulk"]]
    /\ UNCHANGED <<element, object, local, handed, dead>>

(* BulkUpdate: the messages that are stored *)
BulkUpdate(t) ==
    /\ receipts[t].at = "bulk"
    /\ stored' = [m \in Msg |->
         IF m \in ToSet(Given(t)) /\ stored[m] # "no" THEN "full" ELSE stored[m]]
    /\ receipts' = [receipts EXCEPT ![t] = [at |-> "done"]]
    /\ UNCHANGED <<element, object, local, handed, dead>>

Receipt(t) == ~dead /\
    (MsgUpdateReceipt(t) \/ Look(t) \/ Fill(t) \/ UpdateFirst(t) \/ BulkUpdate(t))

-----------------------------------------------------------------------------
QueueNext ==
        /\ ~dead
        /\ \/ \E g \in Pusher :
                \/ \E t \in Tipset : Push(g, t)
                \/ Append1(g) \/ Replace(g) \/ Fork(g)
           \/ \E g \in Taker : Size(g) \/ GetHeaderList(g) \/ Clear(g) \/ List(g)
           \/ \E o \in handed : Save(o)
           \/ \E t \in Tipset :
                \/ Give(t) \/ MsgUpdateReceipt(t) \/ Look(t) \/ Fill(t)
                \/ UpdateFirst(t) \/ BulkUpdate(t)

QueueSpec == QueueInit /\ [][QueueNext]_queueVars

(* The goroutines of the receipts wake from their sleeps. *)
FairQueueSpec == QueueSpec /\ \A t \in Tipset : WF_queueVars(Receipt(t))

-----------------------------------------------------------------------------
(* Properties *)

(* Receipts come to rest - written, or dropped - once the first of their   *)
(* messages is in the collection, wherever the tipset was while they were  *)
(* tried, or the process has died: the five tries at the queue end in the  *)
(* collection.  (MsgUpdateReceipt "loop > 4", UpdateMsgReceipts)           *)
ReceiptsSettle ==
    \A t \in Tipset : Given(t) # <<>> /\ <>(stored[Given(t)[1]] # "no") =>
        (receipts[t].at = "call" ~> receipts[t].at \in {"done", "dropped"} \/ dead)

(* Whatever order concurrent calls leave the queue in, its readers see the *)
(* same of it: two pages make up the list, the list has every block once,  *)
(* what is looked up by its cid is what is listed, and a filter that lets  *)
(* everything through leaves the list as it is.  Only the one that takes   *)
(* the last element for the highest does not find what an index used too   *)
(* late has left in front of a lower one.  (BlockByIndex,                  *)
(* MsgByIndex, SortBlockByMinerArr, MsgByCid, BlockByCid, BlockSize,       *)
(* MsgByBlockCidMethodName, TipsetByHeight, MsgByAddressFromToMethodName)  *)
ListsAgree ==
    LET n      == Len(element)
        blocks == AllBlock(n)
        msgs   == AllMsg(n)
    IN  /\ Len(blocks) = BlockSize
        /\ \A k \in 0..Len(blocks) :
              BlockByIndex(n, 0, k) \o BlockByIndex(n, k, Len(blocks)) = blocks
        /\ \A k \in 0..Len(msgs) :
              MsgByIndex(n, 0, k) \o MsgByIndex(n, k, Len(msgs)) = msgs
        /\ SortBlockByMinerArr(n, {Miner[b] : b \in DOMAIN Miner}) = blocks
        /\ {b \in DOMAIN Miner : BlockByCid(b)} = ToSet(blocks)
        /\ {m \in Msg : MsgByCid(m)} = ToSet(msgs)
        /\ Len(MsgByBlockCidMethodName(NoMethod, NoMethod)) = Len(msgs)
        /\ \A b \in DOMAIN Miner : MsgByBlockCid(b) # <<>> =>
              ToSet(MsgByBlockCid(b)) = ToSet(MsgByBlockCidMethodName(b, NoMethod))
        /\ \A h \in {Height[t] : t \in Tipset} : TipsetByHeight(h, h) # <<>> =>
              TipsetByOneHeight(h) = IF H(Last(element)) < h THEN 0 ELSE TipsetByHeight(h, h)[1]
        /\ \A m \in ToSet(msgs) : \A side \in {"from", "both"} :
              m \in ToSet(MsgByAddressFromToMethodName(n, From[m], side, Method[m]))
=============================================================================
