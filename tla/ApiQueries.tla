----------------------------- MODULE ApiQueries -----------------------------
(***************************************************************************)
(* The other requests that look into the cache and the collections:        *)
(* SearchIndex, BaseInformation and the charts of tipsets and blocks       *)
(* (controllers/filscan_controller.go), MessagesMethods, the messages of   *)
(* AccountList and the reward of BlockByMiner.  Each read is atomic, and   *)
(* the writers of ApiReads go on between them.                             *)
(***************************************************************************)
EXTENDS ApiReads, IntHour

CONSTANTS
    Day,        \* 60*60*24
    Windows,    \* bound: starts and ends of the charts asked for
    Filters     \* bound: filters SearchIndex is asked with

ASSUME QueryAssumption ==
    Day \in Nat /\ Windows \subseteq Nat \X Nat /\ Filters \subseteq Nat

(* The rows of a set of tipsets *)
Among(S, chosen) == UNION {{t} \X chosen[t] : t \in S}

MinTimestamp(t) == Min({BlockTime[b] : b \in ToSet(Blocks[t])})

InTime(S, start, end) == {t \in S : start <= MinTimestamp(t) /\ MinTimestamp(t) < end}

-----------------------------------------------------------------------------
(* SearchIndex tries its labels from the filter's on, one after the other, *)
(* until one finds the key.                                                *)
Labels == <<"actor", "message", "height", "block", "peer">>

(* No other label than that of its kind finds a key. *)
Tries(filter, kind) ==
    \E i \in DOMAIN Labels : Labels[i] = kind /\ (filter \in DOMAIN Labels => filter <= i)

SearchIndex ==
    /\ \E filter \in Filters :
        \/ \E m \in Message :
            Call([op |-> "search", filter |-> filter, kind |-> "message", key |-> m])
        \/ \E h \in Ends :
            Call([op |-> "search", filter |-> filter, kind |-> "height", key |-> h])
        \/ \E b \in Block :
            Call([op |-> "search", filter |-> filter, kind |-> "block", key |-> b])
    /\ IF Tries(req'.filter, req'.kind)
       THEN step' = (IF req'.kind = "height" THEN "max" ELSE "collection") /\ known' = {}
       ELSE Answered
    /\ read' = <<>> /\ number' = 0 /\ answer' = {} /\ page' = <<>>

(* GetMsgByMsgCid, GetBlockByCid *)
SearchCollection ==
    /\ step = "collection"
    /\ IF Wanted(req, blocks) # {}
       THEN number' = 1 /\ Answered
       ELSE step' = "find" /\ UNCHANGED <<number, known>>
    /\ UNCHANGED <<store, req, read, answer, page, seen, stayed>>

(* Mutant: only the newest stored tipset tells whether a height exists. *)
MaxAlone ==
    /\ step = "max"
    /\ number' = IF 0 < req.key /\ \E t \in tipsets : req.key < Height[t] THEN 1 ELSE 0
    /\ Answered
    /\ UNCHANGED <<store, req, read, answer, page, seen, stayed>>

(* GetMaxTipSet; without one its height is that of a nil pointer, and the  *)
(* server ends the request.                                                *)
SearchMax ==
    /\ step = "max"
    /\ \/ /\ tipsets = {} /\ 0 < req.key
          /\ step' = "idle" /\ UNCHANGED <<number, known>>
       \/ /\ 0 < req.key /\ \E t \in tipsets : req.key < Height[t]
          /\ number' = 1 /\ Answered
       \/ /\ \/ req.key = 0
             \/ tipsets # {} /\ \A t \in tipsets : Height[t] <= req.key
          /\ step' = "newest" /\ UNCHANGED <<number, known>>
    /\ UNCHANGED <<store, req, read, answer, page, seen, stayed>>

(* Front().Height(): every height below it counts as one that exists. *)
SearchFront ==
    /\ step = "newest"
    /\ IF req.key < Height[cache[1]]
       THEN number' = 1 /\ Answered
       ELSE step' = "find" /\ UNCHANGED <<number, known>>
    /\ UNCHANGED <<store, req, read, answer, page, seen, stayed>>

(* FindMesage_id, FindTipset_height, FindBlock_id *)
SearchCache ==
    /\ step = "find" /\ req.op = "search"
    /\ number' = IF Wanted(req, ToSet(cache)) # {} THEN 1 ELSE 0
    /\ Answered
    /\ UNCHANGED <<store, req, read, answer, page, seen, stayed>>

(* MessagesMethods of a block, told by the messages whose methods it names: *)
(* the documents with the block's cid, or if there are none the messages of *)
(* the cached block.                                                        *)
MethodsOf(r, S, chosen) ==
    {Messages[p[1]][p[2]].cid : p \in Among(S, Both(OfBlock(r.block), chosen))}

MessagesMethods ==
    /\ \E b \in Block : Call([op |-> "methods", block |-> b])
    /\ number' = 0 /\ page' = <<>> /\ read' = <<>>
    /\ answer' = MethodsOf(req', blocks, Documents)
    /\ IF answer' = {} THEN step' = "find" /\ known' = {} ELSE Answered

FindMesage_blocks ==
    /\ step = "find" /\ req.op = "methods"
    /\ answer' = MethodsOf(req, ToSet(cache), Every)
    /\ Answered
    /\ UNCHANGED <<store, req, read, number, page, seen, stayed>>

-----------------------------------------------------------------------------
(* The reward of a miner's blocks: what FindBlock_miners finds, and then   *)
(* the sum of the collection.                                              *)
BlockTotalFil ==
    /\ Call([op |-> "reward"])
    /\ number' = Len(Rows(req', cache))
    /\ step' = "reward"
    /\ read' = <<>> /\ answer' = {} /\ page' = <<>> /\ known' = {}

BlockTotalReward ==
    /\ step = "reward"
    /\ number' = number + Len(Found(req))
    /\ Answered
    /\ UNCHANGED <<store, req, read, answer, page, seen, stayed>>

(* GetBlockTotalFilByMiner drops the error of a query that fails, too.     *)
RewardOfCache ==
    /\ step = "reward"
    /\ Partly
    /\ UNCHANGED <<store, req, read, number, answer, page, seen, stayed>>

(* AccountList, an account of it: the stored messages from or to it are    *)
(* counted first, and FindMesage_address looks for the cached ones.        *)
AccountList ==
    /\ Call([op |-> "account"])
    /\ number' = Len(RowsOf(NewestFirst(blocks), Stored(req')))
    /\ step' = "account"
    /\ read' = <<>> /\ answer' = {} /\ page' = <<>> /\ known' = {}

AccountMessages ==
    /\ step = "account"
    /\ number' = number + Len(Rows(req, cache))
    /\ Answered
    /\ UNCHANGED <<store, req, read, answer, page, seen, stayed>>

(* BaseInformation: gas price, size and number of the messages of the last *)
(* day, and its tipsets, in this order; a message costs 1 and has size 1.  *)
BaseInformation ==
    /\ Call([op |-> "base"])
    /\ step' = "sums"
    /\ read' = <<>> /\ Fresh

SumsOfDay ==
    /\ step = "sums"
    /\ page' = Append(page,
            IF Len(page) < 3 THEN Cardinality(Among(blocks, Both(Documents, Since(TimeNow - Day))))
            ELSE Cardinality({t \in tipsets : TimeNow - Day <= MinTimestamp(t)}))
    /\ step' = IF Len(page') < 4 THEN "sums" ELSE "mesages"
    /\ UNCHANGED <<store, req, read, number, answer, seen, stayed, known>>

(* MesageAll, and after it the cache's size *)
BaseMesageAll ==
    /\ step = "mesages"
    /\ number' = Len(RowsOf(cache, Every))
    /\ step' = "tipsets"
    /\ seen' = Visible
    /\ UNCHANGED <<store, req, read, answer, page, stayed, known>>

BaseSize ==
    /\ step = "tipsets"
    /\ page' = [i \in DOMAIN page |-> page[i] + IF i < 4 THEN number ELSE Len(cache)]
    /\ Answered
    /\ UNCHANGED <<store, req, read, number, answer, seen, stayed>>

-----------------------------------------------------------------------------
(* The charts: BlocktimeGraphical counts the tipsets between one full hour *)
(* and the next, AvgBlockheaderSizeGraphical the blocks, and these up to   *)
(* now as well; window after window, first in the cache.                   *)
Hours == GetIntHour(req.start, req.end)
ChartLength == IF req.op = "blocktime" THEN Len(Hours) - 1 ELSE Len(Hours)
WindowEnd(k) == IF k = Len(Hours) THEN TimeNow ELSE Hours[k + 1]

Chart ==
    /\ \E op \in {"blocktime", "blocksize"}, w \in Windows :
        /\ Drawable(GetIntHour(w[1], w[2]))
        /\ Call([op |-> op, start |-> w[1], end |-> w[2]])
    /\ step' = "chart"
    /\ read' = <<>> /\ Fresh

MinedIn(start, end) ==
    [t \in Tipset |-> {i \in DOMAIN Blocks[t] :
        start <= BlockTime[Blocks[t][i]] /\ BlockTime[Blocks[t][i]] < end}]

(* What there is of S in the k-th window, for the cache and for the        *)
(* collections.  A cached block that is mined at the full hour itself is   *)
(* left out.                                                               *)
MinedAt(time) == [t \in Tipset |-> {i \in DOMAIN Blocks[t] : BlockTime[Blocks[t][i]] = time}]

StoredIn(S, k) ==
    IF req.op = "blocktime" THEN InTime(S, Hours[k], WindowEnd(k))
    ELSE Among(S, MinedIn(Hours[k], WindowEnd(k)))

CachedIn(S, k) ==
    IF req.op = "blocktime" THEN StoredIn(S, k)
    ELSE StoredIn(S, k) \ Among(S, MinedAt(Hours[k]))

ChartOfCache ==
    /\ step = "chart" /\ Len(page) < ChartLength
    /\ number' = Cardinality(CachedIn(ToSet(cache), Len(page) + 1))
    /\ step' = "stored"
    /\ seen' = Visible
    /\ UNCHANGED <<store, req, read, answer, page, stayed, known>>

(* GetTipsetCountByStartEndTime, GetBlockByTime *)
ChartOfCollection ==
    /\ step = "stored"
    /\ LET S == IF req.op = "blocktime" THEN tipsets ELSE blocks
       IN  page' = Append(page, number + Cardinality(StoredIn(S, Len(page) + 1)))
    /\ number' = 0
    /\ step' = "chart"
    /\ UNCHANGED <<store, req, read, answer, seen, stayed, known>>

ChartAnswer ==
    /\ step = "chart" /\ Len(page) = ChartLength
    /\ Answered
    /\ UNCHANGED <<store, req, read, number, answer, page, seen, stayed>>

-----------------------------------------------------------------------------
(* A query fails, or a call of lotus, and the handler says so.  (When its  *)
(* first query fails, it has read nothing yet.)                            *)
ReadFails ==
    /\ \/ step \in {"tree", "than", "collection", "max", "account", "sums", "mesages", "stored"}
       \/ step = "page" /\ req.op # "miner"
    /\ step' = "failed"
    /\ UNCHANGED <<store, req, read, number, answer, page, seen, stayed, known>>

Queries ==
    \/ SearchIndex \/ SearchCollection \/ SearchMax \/ SearchFront \/ SearchCache
    \/ MessagesMethods \/ FindMesage_blocks
    \/ BlockTotalFil \/ BlockTotalReward \/ RewardOfCache
    \/ AccountList \/ AccountMessages
    \/ BaseInformation \/ SumsOfDay \/ BaseMesageAll \/ BaseSize
    \/ Chart \/ ChartOfCache \/ ChartOfCollection \/ ChartAnswer
    \/ ReadFails

Next == Writers \/ Reads \/ Queries

Spec == Init /\ [][Next]_vars

-----------------------------------------------------------------------------
(* Properties. *)

HasAnswer(ops) == step = "answered" /\ req.op \in ops

(* A request that reads the cache first misses nothing that was cached or  *)
(* stored at that moment, although tipsets move from the cache to the      *)
(* collections between its reads: it reads the place they leave first.     *)
(* TipSetTree shows every tipset of the heights asked for (a count beyond  *)
(* end + 1 wraps the first height), the total of a page and a miner's      *)
(* reward count every block and every message, a window of a chart every   *)
(* tipset, or every block behind its full hour.  A success of BlockByMiner *)
(* after a failing query (PageOfCache, RewardOfCache: the error is dropped *)
(* at tipsetqueue_DB.go:244, 261) is left out: it misses what is stored.   *)
(* (GetfilscanprotoTipsetByHeight, GetMsgByBlockMethodBeginxCount,         *)
(* GetBlockByMiner, GetBlockTotalFilByMiner, GetTipsetNumByTime,           *)
(* GetBlockNumByTime)                                                      *)
CacheFirstMissesNothing ==
    /\ HasAnswer({"tree"}) /\ req.count <= req.end + 1 =>
        {t \in seen : Start(req) <= Height[t] /\ Height[t] <= req.end} \subseteq answer
    /\ HasAnswer({"messages", "method", "miner", "reward"}) =>
        Len(RowsOf(SetToSeq(seen), Stored(req))) <= number
    /\ step = "chart" /\ page # <<>> =>
        Cardinality(CachedIn(seen, Len(page))) <= page[Len(page)]

(* A request that reads a collection first finds what it is asked for      *)
(* unless that left the cache while it was under way: a block, a height or *)
(* a message that stayed where it was is found, and SearchIndex names its  *)
(* kind if the filter does not begin behind it.  MessagesMethods names the *)
(* methods of the block's messages and of no other; of a message that is   *)
(* in a later block of the tipset too it may not.  (BlockByCid,            *)
(* BlockByHeight, MessageDetails, SearchIndex, MessagesMethods)            *)
FoundUnlessMoved ==
    /\ HasAnswer({"look"}) =>
        (Wanted(req, stayed) # {} => answer # {} /\ answer = Wanted(req, answer))
    /\ HasAnswer({"search"}) /\ Tries(req.filter, req.kind) =>
        (Wanted(req, stayed) # {} => number = 1)
    /\ HasAnswer({"methods"}) =>
        /\ MethodsOf(req, stayed, Documents) \subseteq answer
        /\ answer \subseteq MethodsOf(req, Tipset, Every)

(* And it counts nothing twice, although a tipset may be stored at one of  *)
(* its reads, and the cache may lose tipsets to a reorganisation: a        *)
(* message is counted at most once for each block it is in.                *)
(* BlockConfirmCount never answers with more tipsets from the block's      *)
(* height on than the explorer has, AccountList and BaseInformation with   *)
(* no more messages in blocks and tipsets; and the averages of             *)
(* BaseInformation, whose sums and counts are read one after the other,    *)
(* never exceed the largest price and size of a message.                   *)
NeverOverstates ==
    /\ HasAnswer({"confirm"}) => number <= Cardinality(AtLeast(known, BlockHeight[req.block]))
    /\ HasAnswer({"account"}) =>
        number <= Len(RowsOf(SetToSeq(known \cup blocks), Matching))
    /\ HasAnswer({"base"}) =>
        /\ page[1] <= page[3] /\ page[2] <= page[3]
        /\ page[3] <= Cardinality(Among(seen \cup known \cup blocks, Every))
        /\ page[4] <= Cardinality(known)

(* What a page of a client is: count rows from begin on of the cached rows *)
(* followed by the stored ones.                                            *)
Wholly(r) == Slice(Rows(r, read) \o Found(r), r.begin, r.count)

AsksPage == step = "page" /\ req.op \notin {"latestblock", "latestmsg"}

(* A page that lies within the cached rows is that, and one of messages    *)
(* that lies behind them too: no row is skipped or repeated there.         *)
(* (GetBlockByMiner, GetMsgByAddressFromToMethod,                          *)
(* GetMsgByBlockMethodBeginxCount)                                         *)
PagesOffTheSeam ==
    AsksPage =>
        LET cached == Rows(req, read)
        IN  \/ req.begin + req.count <= Len(cached)
            \/ req.op \in {"messages", "method"} /\ Len(cached) <= req.begin
            => PageOf(req.op, cached, Found(req), req.begin, req.count) = Wholly(req)
=============================================================================
