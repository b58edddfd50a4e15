------------------------------ MODULE ApiReads ------------------------------
(***************************************************************************)
(* How the API answers from two places (controllers/tipsetqueue_DB.go,     *)
(* filscan_tipset_controller.go, filscan_message_controller.go): the       *)
(* newest tipsets are in the tipset cache, the older ones in the           *)
(* collections, and a request reads one and then the other while           *)
(* run_syncer moves a tipset from the cache into the collections.  Each    *)
(* read is atomic; between two of them anything may happen.                *)
(*                                                                         *)
(* A message may be in several blocks of a tipset.  The cache lists it once *)
(* for each of them; the collection, upserted by cid, keeps the last.  The  *)
(* writers are those of ChainSync, taken as far as readers can tell.        *)
(***************************************************************************)
EXTENDS TipsetCache, FiniteSets, SequencesExt

CONSTANTS
    Block, Message,     \* the cids of blocks and messages
    Blocks,      \* the blocks of each tipset
    Messages,    \* fs_msgs of each tipset: the messages of its blocks, one
                 \* block after the other, and what block each is from
    BlockHeight, BlockTime,     \* Height and Timestamp of a block's header
    Match,       \* the messages a client's filter selects
    Mined,       \* the blocks of the miners asked for
    FirstHead,   \* front of the cache when the first request comes
    TimeNow,     \* models.TimeNow; requests are short
    Week,        \* 60*60*24*7
    Word,        \* 2^64, the modulus of uint64
    Ends,        \* bound: end heights asked for
    Counts,      \* bound: counts asked for
    Begins       \* bound: start indexes asked for

ASSUME ApiAssumption ==
    /\ FirstHead \in Tipset
    /\ Blocks \in [Tipset -> Seq(Block)]
    /\ Messages \in [Tipset -> Seq([cid : Message, block_cid : Block])]
    /\ {BlockHeight, BlockTime} \subseteq [Block -> Nat]
    /\ Match \subseteq Message /\ Mined \subseteq Block
    /\ {TimeNow, Week} \subseteq Nat
    /\ Word \in Nat \ {0}
    /\ \A t \in Tipset : 2 * Height[t] < Word
    /\ Ends \subseteq Nat /\ Counts \subseteq Nat \ {0} /\ Begins \subseteq Nat

(* The chain's rules: a block is of one height, so of one tipset of a      *)
(* branch, and a message is executed once on a branch.                     *)
ASSUME BlockAssumption ==
    \A t \in Tipset :
        /\ Blocks[t] # <<>> /\ \A b \in ToSet(Blocks[t]) : BlockHeight[b] = Height[t]
        /\ \A m \in ToSet(Messages[t]) :
            /\ m.block_cid \in ToSet(Blocks[t])
            /\ \A s \in Ancestry[t] \ {t} : \A n \in ToSet(Messages[s]) : n.cid # m.cid

Writer == {"run_syncer", "sync_to_genesis"}

VARIABLES
    cache,      \* fs.tipsets_cache
    writing,    \* the tipset each goroutine is storing
    blocks,     \* tipsets whose blocks and messages are stored
    tipsets,    \* the collection "tipset"
    req,        \* the request
    step,       \* where its handler is
    read,       \* what it has read from the cache
    number,     \* what it has counted
    answer,     \* the tipsets or messages it answers with
    page,       \* the rows it answers with
    seen,       \* history: the tipsets that were cached or stored when it came,
                \*          or when a later reading began with the cache
    stayed,     \* history: those that are where they were ever since
    known       \* history: the tipsets in the explorer when it was answered

store == <<cache, writing, blocks, tipsets>>
vars == <<store, req, step, read, number, answer, page, seen, stayed, known>>

Visible == ToSet(cache) \cup tipsets
Known == (Visible \cup {writing[w] : w \in Writer}) \ {NoTipset}

(* The newest n tipsets from t down. *)
Newest(t, n) ==
    {s \in [1..n -> Ancestry[t]] :
        s[1] = t /\ \A i \in 1..(n - 1) : s[i] # Genesis /\ s[i + 1] = Parent[s[i]]}

(* A full cache with the chain below it stored down to where the walk is,  *)
(* or a cache that is not full yet and nothing stored.                     *)

Init ==
    /\ \E n \in 1..MaxSize :
        /\ cache \in Newest(FirstHead, n)
        /\ \/ /\ n = MaxSize /\ cache[n] # Genesis
              /\ \E tail \in Ancestry[Parent[cache[n]]] :
                    tipsets = {t \in Ancestry[Parent[cache[n]]] : Height[t] >= Height[tail]}
           \/ n < MaxSize /\ tipsets = {}
    /\ blocks = tipsets
    /\ writing = [w \in Writer |-> NoTipset]
    /\ req = [op |-> "none"] /\ step = "idle"
    /\ read = <<>> /\ number = 0 /\ answer = {} /\ page = <<>>
    /\ seen = {} /\ stayed = {} /\ known = {}

-----------------------------------------------------------------------------
(* The writers. *)

Asked == <<req, step, read, number, answer, page, seen, known>>
Unread == UNCHANGED <<Asked, stayed>>

(* handle_secod_appl_tipset, for reorganisations within the cache: in's    *)
(* parent is cached.  What falls off is on its way to the collections, so  *)
(* these hold tipsets of one branch, and no message of two tipsets.        *)
Advance ==
    /\ writing["run_syncer"] = NoTipset
    /\ \E in \in Tipset :
        /\ Parent[in] \in ToSet(cache) /\ ~IsFront(cache, in)
        /\ LET push == push_front(cache, in)
           IN  /\ cache' = push.cache
               /\ writing' = [writing EXCEPT !["run_syncer"] = push.evicted]
    /\ stayed' = stayed \cap (ToSet(cache') \cup blocks)
    /\ UNCHANGED <<blocks, tipsets, Asked>>

(* sync_to_genesis turns to the parent of the lowest stored tipset. *)
WalkDown ==
    /\ writing["sync_to_genesis"] = NoTipset
    /\ \E t \in tipsets \ {Genesis} :
        /\ \A s \in tipsets : Height[t] <= Height[s]
        /\ writing' = [writing EXCEPT !["sync_to_genesis"] = Parent[t]]
    /\ UNCHANGED <<cache, blocks, tipsets>>
    /\ Unread

(* models_bulk_upsert_block_message_tipset: messages and blocks, then the  *)
(* tipset, which replaces the one of its height.                           *)
StoreBlocks(w) ==
    /\ writing[w] \notin {NoTipset} \cup blocks
    /\ blocks' = blocks \cup {writing[w]}
    /\ UNCHANGED <<cache, writing, tipsets>>
    /\ Unread

StoreTipset(w) ==
    /\ writing[w] \in blocks
    /\ tipsets' = {t \in tipsets : Height[t] # Height[writing[w]]} \cup {writing[w]}
    /\ writing' = [writing EXCEPT ![w] = NoTipset]
    /\ UNCHANGED <<cache, blocks>>
    /\ Unread

(* An upsert fails: run_syncer goes on without the tipset. *)
StoreFails ==
    /\ writing["run_syncer"] # NoTipset
    /\ writing' = [writing EXCEPT !["run_syncer"] = NoTipset]
    /\ UNCHANGED <<cache, blocks, tipsets>>
    /\ Unread

-----------------------------------------------------------------------------
(* Requests.  They change nothing, so one of them is looked at. *)

Call(r) ==
    /\ step = "idle"
    /\ req' = r
    /\ seen' = Visible /\ stayed' = ToSet(cache) \cup blocks
    /\ UNCHANGED store

Answered == step' = "answered" /\ known' = Known

Silent == UNCHANGED <<number, answer, page>>

Fresh == number' = 0 /\ answer' = {} /\ page' = <<>> /\ known' = {}

AtLeast(S, h) == {t \in S : Height[t] >= h}

(* From the back on; the heights rise that way, so what is found is one    *)
(* piece of the list.                                                      *)
FindTipset_in_height(start, end) ==
    LET found == {i \in DOMAIN cache : start <= Height[cache[i]] /\ Height[cache[i]] <= end}
    IN  IF found = {} THEN <<>> ELSE Reverse(SubSeq(cache, Min(found), Max(found)))

(* TipSetTree: count heights that end with end, in uint64 *)
Start(r) == (r.end + Word + 1 - r.count) % Word

TipSetTree ==
    /\ \E end \in Ends, count \in Counts : Call([op |-> "tree", end |-> end, count |-> count])
    /\ read' = FindTipset_in_height(Start(req'), req'.end)
    /\ step' = "tree"
    /\ Fresh

(* Mutant: the database is asked for what lies strictly below. *)
TreeBelow ==
    LET queueStart == IF read # <<>> THEN Height[read[1]] ELSE req.end
    IN  {t \in tipsets : Start(req) <= Height[t] /\ Height[t] < queueStart}

(* GetTipSetByHeight, up to the lowest tipset read from the cache. *)
TreeOfCollection ==
    LET queueStart == IF read # <<>> THEN Height[read[1]] ELSE req.end
    IN  {t \in tipsets : Start(req) <= Height[t] /\ Height[t] <= queueStart}

(* Of several tipsets of a height the handler takes the first: the cached. *)
TreeAnswer ==
    /\ step = "tree"
    /\ answer' = ToSet(read) \cup
                 {t \in TreeOfCollection : \A c \in ToSet(read) : Height[c] # Height[t]}
    /\ Answered
    /\ UNCHANGED <<store, req, read, number, page, seen, stayed>>

(* BlockByCid, MessageDetails, BlockByHeight: the collection, then the     *)
(* cache.                                                                  *)
Holds(r, t) ==
    CASE r.kind = "height"  -> Height[t] = r.key
      [] r.kind = "block"   -> r.key \in ToSet(Blocks[t])
      [] r.kind = "message" -> \E m \in ToSet(Messages[t]) : m.cid = r.key

Wanted(r, S) == {t \in S : Holds(r, t)}

LookUp(kind, key) ==
    /\ Call([op |-> "look", kind |-> kind, key |-> key])
    /\ number' = 0 /\ page' = <<>> /\ read' = <<>>
    /\ answer' = Wanted(req', blocks)
    /\ IF answer' = {} THEN step' = "find" /\ known' = {} ELSE Answered

BlockByCid == \E b \in Block : LookUp("block", b)
BlockByHeight == \E h \in Ends : LookUp("height", h)
MessageDetails == \E m \in Message : LookUp("message", m)

LookInCache ==
    /\ step = "find" /\ req.op = "look"
    /\ answer' = Wanted(req, ToSet(cache))
    /\ Answered
    /\ UNCHANGED <<store, req, read, number, page, seen, stayed>>

(* BlockConfirmCount.  A stored block: the stored tipsets from its height  *)
(* on, then the size of the cache.                                         *)
BlockConfirmCount ==
    /\ \E b \in Block : Call([op |-> "confirm", block |-> b])
    /\ step' = IF \E t \in tipsets : req'.block \in ToSet(Blocks[t]) THEN "than" ELSE "find"
    /\ read' = <<>>
    /\ Fresh

ThanHeightCount ==
    /\ step = "than"
    /\ number' = Cardinality(AtLeast(tipsets, BlockHeight[req.block]))
    /\ step' = "size"
    /\ UNCHANGED <<store, req, read, answer, page, seen, stayed, known>>

(* Mutant: tipset_cache_size is taken for the size of the cache. *)
SizeOfFullCache ==
    /\ step = "size"
    /\ number' = number + MaxSize
    /\ Answered
    /\ UNCHANGED <<store, req, read, answer, page, seen, stayed>>

AddSize ==
    /\ step = "size"
    /\ number' = number + Len(cache)
    /\ Answered
    /\ UNCHANGED <<store, req, read, answer, page, seen, stayed>>

(* One that is only cached: the cached tipsets from its height to Front(). *)
FindConfirmed ==
    /\ step = "find" /\ req.op = "confirm"
    /\ IF \E t \in ToSet(cache) : req.block \in ToSet(Blocks[t])
       THEN step' = "front" /\ UNCHANGED known
       ELSE Answered                            \* "fail"
    /\ Silent
    /\ UNCHANGED <<store, req, read, seen, stayed>>

FrontHeight ==
    /\ step = "front"
    /\ number' = Height[cache[1]]
    /\ step' = "range"
    /\ UNCHANGED <<store, req, read, answer, page, seen, stayed, known>>

CountRange ==
    /\ step = "range"
    /\ number' = Len(FindTipset_in_height(BlockHeight[req.block], number))
    /\ Answered
    /\ UNCHANGED <<store, req, read, answer, page, seen, stayed>>

-----------------------------------------------------------------------------
(* Pages. *)

(* The members of S, the least key first, one after the other. *)
WithLeast(list, S, key) ==
    LET rest == S \ ToSet(list)
    IN  Append(list, CHOOSE x \in rest : \A y \in rest : key[x] <= key[y])

Rising(S, key) ==
    LET first[n \in 0..Cardinality(S)] ==
            IF n = 0 THEN <<>> ELSE WithLeast(first[n - 1], S, key)
    IN  first[Cardinality(S)]

(* The rows of a list of tipsets: what is chosen of each, in its order.     *)
RowsOf(list, chosen) ==
    FlattenSeq([k \in DOMAIN list |->
        LET is == Rising(chosen[list[k]], [i \in chosen[list[k]] |-> i])
        IN  [j \in DOMAIN is |-> <<list[k], is[j]>>]])

Both(chosen, other) == [t \in Tipset |-> chosen[t] \cap other[t]]

(* Blocks of a tipset, by their places in it *)
EveryBlock == [t \in Tipset |-> DOMAIN Blocks[t]]
ByMiner == [t \in Tipset |-> {i \in DOMAIN Blocks[t] : Blocks[t][i] \in Mined}]

(* and messages of its blocks: all, those of one block, those selected.    *)
Every == [t \in Tipset |-> DOMAIN Messages[t]]
OfBlock(b) == [t \in Tipset |-> {i \in DOMAIN Messages[t] : Messages[t][i].block_cid = b}]
Matching == [t \in Tipset |-> {i \in DOMAIN Messages[t] : Messages[t][i].cid \in Match}]

(* FindMesage_address leaves a tipset at the first message not selected.   *)
Leading == [t \in Tipset |-> {i \in Matching[t] : 1..i \subseteq Matching[t]}]

(* The documents of a tipset: of the messages with a cid, the last.        *)
Documents ==
    [t \in Tipset |-> {i \in DOMAIN Messages[t] :
        \A j \in DOMAIN Messages[t] : i < j => Messages[t][j].cid # Messages[t][i].cid}]

Since(time) ==
    [t \in Tipset |-> {i \in DOMAIN Messages[t] : time <= BlockTime[Messages[t][i].block_cid]}]

(* What a request asks of the cache, and of the collections.  Messages of  *)
(* a block are looked up by the cids its document lists; messages of no    *)
(* block must be younger than a week.                                      *)
Cached(r) ==
    CASE r.op = "latestblock" -> EveryBlock
      [] r.op = "latestmsg"   -> Every
      [] r.op = "messages"    -> Both(OfBlock(r.block), Matching)
      [] r.op = "method"      -> Matching
      [] r.op \in {"miner", "reward"}    -> ByMiner
      [] r.op \in {"address", "account"} -> Leading

Stored(r) ==
    CASE r.op = "latestmsg" -> Documents
      [] r.op = "method"    -> Both(Both(Documents, Matching), Since(TimeNow - Week + 1))
      [] r.op \in {"address", "account"} -> Both(Documents, Matching)
      [] OTHER              -> Cached(r)

Rows(r, list) == RowsOf(list, Cached(r))

(* The rows a query of the collection finds, newest first.  (The query for *)
(* messages of a block names no order; any fixed one does here.)           *)
NewestFirst(S) == Reverse(Rising(S, Height))

Found(r) == RowsOf(NewestFirst(blocks), Stored(r))

(* count rows of s from the offset on, or what there is of them *)
Slice(s, offset, count) == SubSeq(s, offset + 1, Min({offset + count, Len(s)}))

Distance(m, n) == IF m > n THEN m - n ELSE n - m

(* Mutant: the rows of the cache are not taken off the offset. *)
PageIgnoresCache(op, cached, stored, begin, count) ==
    LET cash == Slice(cached, begin, count)
    IN  cash \o Slice(stored, begin, count - Len(cash))

(* GetMsgByBlockMethodBeginxCount, GetBlockByMiner and                     *)
(* GetMsgByAddressFromToMethod: what is left of the page is asked of the   *)
(* collection at the absolute value of an offset.  GetBlockByMiner does    *)
(* not drop the cached rows when start lies behind them.                   *)
PageOf(op, cached, stored, begin, count) ==
    LET total == Len(cached)
        cash  == IF begin < total THEN Slice(cached, begin, count)
                 ELSE IF op = "miner" THEN cached ELSE <<>>
        diff  == IF begin < total THEN 0 ELSE total
        taken == IF op = "address" THEN total ELSE Len(cash)
    IN  cash \o Slice(stored, Distance(begin, taken + diff), count - Len(cash))

(* GetBlockByIndex and GetMsgByIndex from 0: FindBlock_ofst_count clamps   *)
(* the count by the number of tipsets, and stops one row late.             *)
LatestOf(cached, stored, size, count) ==
    LET head == Slice(cached, 0, Min({count, size}) + 1)
    IN  head \o Slice(stored, 0, count - Len(head))

ReadPage ==
    /\ read' = cache
    /\ step' = "page"
    /\ Fresh

(* BlockMessages, of a block or of none, BlockByMiner, MessageByAddress *)
Page ==
    /\ \E begin \in Begins, count \in Counts :
        \/ \E b \in Block :
            Call([op |-> "messages", block |-> b, begin |-> begin, count |-> count])
        \/ \E op \in {"method", "miner", "address"} :
            Call([op |-> op, begin |-> begin, count |-> count])
    /\ ReadPage

(* LatestBlock and LatestMsg *)
Latest ==
    /\ \E op \in {"latestblock", "latestmsg"}, count \in Counts :
            Call([op |-> op, begin |-> 0, count |-> count])
    /\ ReadPage

(* The page, and the total of rows it is a page of. *)
PageAnswer ==
    /\ step = "page"
    /\ LET cached == Rows(req, read)
           stored == Found(req)
       IN  IF req.op \in {"latestblock", "latestmsg"}
           THEN /\ page' = LatestOf(cached, stored, Len(read), req.count)
                /\ number' = 0
           ELSE /\ page' = PageOf(req.op, cached, stored, req.begin, req.count)
                /\ number' = Len(cached) + Len(stored)
    /\ Answered
    /\ UNCHANGED <<store, req, read, answer, seen, stayed>>

(* GetBlockByMiner drops the error of a query that fails, and answers with *)
(* what it has from the cache.                                             *)
Partly == step' = "partly" /\ known' = Known

PageOfCache ==
    /\ step = "page" /\ req.op = "miner"
    /\ page' = PageOf(req.op, Rows(req, read), <<>>, req.begin, req.count)
    /\ number' = Len(Rows(req, read))
    /\ Partly
    /\ UNCHANGED <<store, req, read, answer, seen, stayed>>

-----------------------------------------------------------------------------
(* The steps; ApiQueries adds the rest of the requests. *)

Writers ==
    \/ Advance \/ WalkDown \/ StoreFails
    \/ \E w \in Writer : StoreBlocks(w) \/ StoreTipset(w)

Reads ==
    \/ TipSetTree \/ BlockByCid \/ BlockByHeight \/ MessageDetails \/ BlockConfirmCount
    \/ Page \/ Latest
    \/ TreeAnswer \/ LookInCache
    \/ ThanHeightCount \/ AddSize \/ FindConfirmed \/ FrontHeight \/ CountRange
    \/ PageAnswer \/ PageOfCache
=============================================================================
