---------------------------- MODULE MiningStats ----------------------------
(***************************************************************************)
(* filscaner/fs_api_mining.go: the lists, rankings and series of miners,   *)
(* and the chart of the network's power of the home page.  A request puts  *)
(* its answer together from several aggregations over the collections      *)
(* "miner" and "block", which the syncing goroutines and the miner handler *)
(* fill meanwhile.                                                         *)
(***************************************************************************)
EXTENDS FsApi, IntHour, SequencesExt

CONSTANTS
    States,         \* the states miners have: miner, height and power
    Now,            \* time.Now(); requests are short
    Requests,       \* bound: what clients ask for
    Day,            \* 24*60*60, what the chart of the home page covers
    MaxRepeate      \* 64

(* bson has no uint64: it encodes what an int64 can hold. *)
Storable(time) == 2 * time < Word

ASSUME StatsAssumption ==
    /\ IsFiniteSet(States) /\ \A s \in States : s.height \in Nat
    /\ Now \in Nat /\ Storable(Now) /\ MaxRepeate \in Nat
    /\ Day \in Nat \ {0} /\ Day % Hour = 0
    /\ \A r \in Requests : /\ {r.from, r.to, r.offset, r.repeate} \subseteq Nat
                           /\ {r.diff, r.limit} \subseteq Nat \ {0}
                           /\ r.op = "homePower" => Day <= r.to

VARIABLES
    states,     \* the documents of the collection "miner"
    pc,         \* the next query of the request
    filter,     \* the miners MinerSearch has found
    rows,       \* the rows of a list or ranking
    count,      \* TotalMinerCount
    total,      \* TotalBlockCount
    time_at,
    counted     \* history: the blocks there were when total was read

reqVars == <<req, pc, filter, rows, count, total, time_at, points, seen, counted, clean>>
statsVars == <<blockVars, states, reqVars, fails>>

List == {"power", "block", "search"}
Ranking == {"topPower", "topBlock", "topOld"}
Series == {"active", "oldPower", "totalPower", "homePower"}

NoRequest == [op |-> "none", from |-> 0, to |-> 0, offset |-> 0, limit |-> 1, diff |-> 1,
              repeate |-> 0, miners |-> {}, up |-> FALSE]

StatsInit ==
    /\ BlocksInit /\ states = {}
    /\ req = NoRequest /\ pc = "idle" /\ filter = {} /\ rows = <<>>
    /\ count = 0 /\ total = 0 /\ time_at = 0 /\ points = <<>>
    /\ seen = [blocks |-> {}, states |-> {}] /\ counted = {} /\ clean = TRUE /\ fails = 0

StoreMined == StoreBlock /\ UNCHANGED <<states, reqVars, fails>>

(* States reach the collection upwards and downwards too; some are lost.   *)
StoreState ==
    /\ \E s \in States \ states :
        /\ ~\E t, u \in states : t.height < s.height /\ s.height < u.height
        /\ states' = states \cup {s}
    /\ UNCHANGED <<blockVars, reqVars, fails>>

-----------------------------------------------------------------------------
(* The aggregations. *)

(* "$gte" and "$lt" *)
InWindow(docs, from, to) == {d \in docs : from <= Time(d.height) /\ Time(d.height) < to}

(* "$gt" and "$lte", of models_blockcount_time_range_with_miners alone. *)
AfterWindow(docs, from, to) == {d \in docs : from < Time(d.height) /\ Time(d.height) <= to}

MinersOf(docs) == {d.miner : d \in docs}

NewestOf(ss) == {s \in ss : \A t \in ss : t.miner = s.miner => t.height <= s.height}
StrongestOf(ss) == {s \in ss : \A t \in ss : t.miner = s.miner => t.power <= s.power}

(* What the miners' power has changed by from their first state to their   *)
(* last one, and what they have mined.                                     *)
Increases(ss) ==
    [m \in MinersOf(ss) |->
        LET own == {s \in ss : s.miner = m}
            old == CHOOSE s \in own : \A t \in own : s.height <= t.height
            new == CHOOSE s \in own : \A t \in own : t.height <= s.height
        IN  new.power - old.power]
Counts(bs) == [m \in MinersOf(bs) |-> Cardinality({b \in bs : b.miner = m})]

(* MinerList puts its window in order and within the chain. *)
From == IF req.op \in List
        THEN Min({Max({req.from, GenesisTime}), Min({req.to, Now})}) ELSE req.from
To == IF req.op \in List
      THEN Max({Max({req.from, GenesisTime}), Min({req.to, Now})}) ELSE req.to

(* The miners of figures in the order of a "$sort", or in any order. *)
Orders(figures, sorted) ==
    {o \in SetToSeqs(DOMAIN figures) :
        sorted => \A i \in 1..(Len(o) - 1) :
                    IF req.up THEN figures[o[i]] <= figures[o[i + 1]]
                    ELSE figures[o[i]] >= figures[o[i + 1]]}

(* MinerSearch asks for as many rows as it has found miners. *)
Limit == IF req.op = "search" THEN Cardinality(filter) ELSE req.limit

(* "$filter" by miners, unless the list is empty; those kept stay in order. *)
Kept(figures, miners) ==
    IF miners = {} THEN figures ELSE [m \in DOMAIN figures \cap miners |-> figures[m]]

(* "$slice" *)
Page(order, offset) == SubSeq(order, offset + 1, Min({offset + Limit, Len(order)}))

Row(m, n, p) == [miner |-> m, blocks |-> n, power |-> p]
MinedBy(page) == SumFunction([i \in DOMAIN page |-> page[i].blocks])
RowMiners == {rows[i].miner : i \in DOMAIN rows}

(* The times of the chart TotalPowerGraphical of the home page draws: the  *)
(* full hours of the day, and its end.                                     *)
HomeTimes(to) == Append(GetIntHour(to - Day, to), to)

(* The head of ActiveStorageMinerCountAtTime: no time is now, and neither  *)
(* the future nor a long series is answered.                               *)
TimeAt(r) == IF r.op = "active" /\ (r.to = 0 \/ r.to > Now) THEN Now ELSE r.to
Repeate(r) == IF r.op = "active" THEN Min({r.repeate, MaxRepeate}) ELSE r.repeate

Docs == UNCHANGED <<blockVars, states>>

-----------------------------------------------------------------------------
(* A client asks; requests change nothing, one of them is looked at.       *)
AskStats ==
    /\ pc \in {"idle", "answered"}
    /\ \E r \in Requests :
        /\ req' = r /\ time_at' = TimeAt(r)
        /\ pc' = CASE r.op = "homePower" ->
                         IF Drawable(GetIntHour(r.to - Day, r.to)) THEN "points" ELSE "idle"
                   [] r.op = "search"  -> "search"
                   [] r.op \in Ranking -> "count"
                   [] r.op \in Series  -> "points"
                   [] OTHER            -> "rows"
    /\ filter' = {} /\ rows' = <<>> /\ count' = 0 /\ total' = 0 /\ points' = <<>>
    /\ seen' = [blocks |-> blocks, states |-> states] /\ counted' = {} /\ clean' = TRUE
    /\ Docs /\ UNCHANGED fails

(* models_search_miner; of no miner the list of rows would be an error.    *)
Search ==
    /\ pc = "search" /\ CallWorks
    /\ filter' = MinersOf(states) \cap req.miners
    /\ pc' = IF filter' = {} THEN "idle" ELSE "rows"
    /\ Docs /\ UNCHANGED <<req, rows, count, total, time_at, points, seen, counted>>

(* The count of miners of a ranking; of none the handler panics, or        *)
(* answers an error.                                                       *)
Count ==
    /\ pc = "count" /\ CallWorks
    /\ count' = Cardinality(MinersOf(IF req.op = "topBlock" THEN InWindow(blocks, From, To)
                                     ELSE InWindow(states, From, To)))
    /\ pc' = IF count' = 0 THEN "idle" ELSE "rows"
    /\ Docs /\ UNCHANGED <<req, filter, rows, total, time_at, points, seen, counted>>

(* What a query ranks by: blocks mined, power increased, or the power of a *)
(* state of each miner.  That is its newest or its strongest one: the two  *)
(* keys of the "$sort" are a Go map, which has no order.                   *)
Powers(ss, chosen) == [m \in MinersOf(ss) |-> (CHOOSE s \in chosen : s.miner = m).power]

Figures ==
    LET ss == InWindow(states, From, To)
    IN  CASE req.op \in {"block", "topBlock"} -> {Counts(InWindow(blocks, From, To))}
          [] req.op = "topOld" -> {Powers(ss, NewestOf(ss)), Powers(ss, StrongestOf(ss))}
          [] OTHER -> {Increases(ss)}

Rank ==
    /\ pc = "rows" /\ CallWorks
    /\ \E figures \in Figures :
       IF req.op \in List /\ DOMAIN figures = {}
       THEN pc' = "idle" /\ UNCHANGED <<rows, count>>
       ELSE \E o \in Orders(Kept(figures, filter), TRUE) :
            /\ rows' = LET page == Page(o, req.offset)
                       IN  [i \in DOMAIN page |->
                                IF req.op \in {"block", "topBlock"}
                                THEN Row(page[i], figures[page[i]], 0)
                                ELSE Row(page[i], 0, figures[page[i]])]
            /\ count' = IF req.op \in List THEN Cardinality(DOMAIN figures) ELSE count
            /\ pc' = CASE req.op = "topPower" -> "total"
                       [] req.op = "topOld"   -> "answered"
                       [] OTHER               -> "more"
    /\ total' = CASE req.op = "block"    -> Cardinality(InWindow(blocks, From, To))
                  [] req.op = "topBlock" -> MinedBy(rows')
                  [] OTHER               -> total
    /\ counted' = IF req.op \in {"block", "topBlock"} THEN blocks ELSE counted
    /\ Docs /\ UNCHANGED <<req, filter, time_at, points, seen>>

(* Mutant: the total leaves out the end of the window, the rows its start. *)
TotalInWindow ==
    /\ pc = "total" /\ CallWorks
    /\ total' = Cardinality(InWindow(blocks, From, To)) /\ counted' = blocks
    /\ pc' = "more"
    /\ Docs /\ UNCHANGED <<req, filter, rows, count, time_at, points, seen>>

(* models_blockcount_time_range_with_miners, first half *)
TotalBlocks ==
    /\ pc = "total" /\ CallWorks
    /\ total' = Cardinality(AfterWindow(blocks, From, To)) /\ counted' = blocks
    /\ pc' = "more"
    /\ Docs /\ UNCHANGED <<req, filter, rows, count, time_at, points, seen>>

(* Its second half: what the miners of the rows have mined; of one who has *)
(* mined nothing there is no group, and its row shows 0.                   *)
MinedByRows ==
    LET mined == Counts({b \in AfterWindow(blocks, From, To) : b.miner \in RowMiners})
    IN  [m \in RowMiners |-> IF m \in DOMAIN mined THEN mined[m] ELSE 0]

RowsOfTop ==
    /\ pc = "more" /\ req.op = "topPower" /\ CallWorks
    /\ rows' = LET mined == MinedByRows
               IN  [i \in DOMAIN rows |-> [rows[i] EXCEPT !.blocks = mined[rows[i].miner]]]
    /\ pc' = "answered"
    /\ Docs /\ UNCHANGED <<req, filter, count, total, time_at, points, seen, counted>>

(* Mutant: the figures are taken over row by row. *)
BlockValueAt(i, page, mined) == IF i \in DOMAIN page THEN mined[page[i]] ELSE 0

(* The figure of the row's miner in a list of blocks. *)
BlockValue(i, page, mined) ==
    IF rows[i].miner \in ToSet(page) THEN mined[rows[i].miner] ELSE 0

(* SetBlockValues: MinerList's list of blocks is filtered by the miners of *)
(* the page, in any order, and the offset is taken off it once more; of an *)
(* empty list nothing is taken over, and of no block at all the answer is  *)
(* an error.                                                               *)
SetBlockValues ==
    /\ pc = "more" /\ req.op \in {"power", "search"} /\ CallWorks
    /\ LET mined == Counts(InWindow(blocks, From, To))
       IN  IF DOMAIN mined = {} THEN pc' = "idle" /\ UNCHANGED <<rows, total, counted>>
           ELSE \E o \in Orders(Kept(mined, RowMiners), FALSE) :
                LET page == Page(o, req.offset)
                IN  /\ rows' = [i \in DOMAIN rows |->
                                    [rows[i] EXCEPT !.blocks = BlockValue(i, page, mined)]]
                    /\ total' = IF page = <<>> THEN total
                                ELSE Cardinality(InWindow(blocks, From, To))
                    /\ counted' = blocks /\ pc' = "answered"
    /\ Docs /\ UNCHANGED <<req, filter, count, time_at, points, seen>>

(* SetPowerValues, and the second query of TopnBlockMiners, which finds no *)
(* error in a miner without states.                                        *)
SetPowerValues ==
    /\ pc = "more" /\ req.op \in {"block", "topBlock"} /\ CallWorks
    /\ LET grown == Increases(InWindow(states, From, To))
       IN  IF req.op = "block" /\ DOMAIN grown = {} THEN pc' = "idle" /\ UNCHANGED rows
           ELSE /\ rows' = [i \in DOMAIN rows |->
                                [rows[i] EXCEPT !.power =
                                    IF rows[i].miner \in DOMAIN grown
                                    THEN grown[rows[i].miner] ELSE 0]]
                /\ pc' = "answered"
    /\ Docs /\ UNCHANGED <<req, filter, count, total, time_at, points, seen, counted>>

-----------------------------------------------------------------------------
(* The series, a query for each point. *)

(* The states that count for a point at t. *)
Before(ss, t) ==
    CASE req.op = "active"     -> InWindow(ss, IF t > req.diff THEN t - req.diff ELSE 0, t)
      [] req.op = "oldPower"   -> {s \in InWindow(ss, 0, t) : s.miner \in req.miners}
      [] OTHER                 -> {s \in ss : Time(s.height) <= t}

(* Mutant: the first step is like the others. *)
StepPlain == (time_at + Word - req.diff) % Word

(* time_at of the next point, in uint64: the first step of the active      *)
(* miners is down to a multiple of diff, so that no later one wraps.       *)
NextAt ==
    IF req.op = "active" /\ points = <<>> THEN time_at - (time_at % req.diff)
    ELSE (time_at + Word - req.diff) % Word

(* The states a point shows: the newest of each miner, or one of all. *)
Shown(ss) ==
    IF req.op \in {"totalPower", "homePower"} /\ ss # {}
    THEN {{s} : s \in {t \in ss : \A u \in ss : u.height <= t.height}}
    ELSE {NewestOf(ss)}

(* There is another point to ask for; of no state at all MinerPowerAtTime  *)
(* asks no more.  It looks for those of anyone if it is given no miners.   *)
Wanted == pc = "points" /\ req.op # "homePower" /\ Len(points) < Repeate(req) /\ time_at > 0

NoState ==
    LET ss == InWindow(states, 0, time_at)
    IN  {s \in ss : req.miners = {} \/ s.miner \in req.miners} = {}

SeriesPoint ==
    /\ Wanted /\ Storable(time_at) /\ CallWorks
    /\ \E show \in Shown(Before(states, time_at)) :
        IF req.op = "oldPower" /\ NoState
        THEN pc' = "answered" /\ UNCHANGED <<points, time_at>>
        ELSE /\ points' = Append(points, [at |-> time_at, shown |-> show])
             /\ time_at' = NextAt
             /\ pc' = IF req.op = "active" /\ time_at' < GenesisTime THEN "answered" ELSE "points"
    /\ Docs /\ UNCHANGED <<req, filter, rows, count, total, seen, counted>>

PointsEnd ==
    /\ pc = "points" /\ req.op # "homePower"
    /\ Len(points) = Repeate(req) \/ time_at = 0
    /\ pc' = "answered"
    /\ Docs /\ UNCHANGED <<req, filter, rows, count, total, time_at, points, seen, counted, clean, fails>>

(* TotalPowerGraphical of the home page, oldest first: the last point, at  *)
(* the end asked for, is the capacity it shows too.                        *)
HomePoint ==
    /\ pc = "points" /\ req.op = "homePower" /\ CallWorks
    /\ \E show \in Shown(Before(states, HomeTimes(req.to)[Len(points) + 1])) :
        points' = Append(points, [at |-> HomeTimes(req.to)[Len(points) + 1], shown |-> show])
    /\ pc' = IF Len(points') = Len(HomeTimes(req.to)) THEN "answered" ELSE "points"
    /\ Docs /\ UNCHANGED <<req, filter, rows, count, total, time_at, seen, counted>>

(* bson refuses a time that has wrapped, without a call. *)
Refused == Wanted /\ ~Storable(time_at) /\ UNCHANGED <<clean, fails>>

(* A query that fails ends the request, but TopnPowerIncreaseMiners        *)
(* answers without blocks, TopnBlockMiners without rows, and the active    *)
(* miners as far as they have come.                                        *)
Fails ==
    /\ pc \notin {"idle", "answered"}
    /\ CallFails \/ Refused
    /\ pc' = CASE pc \in {"total", "more"} /\ req.op = "topPower" -> "answered"
               [] pc = "rows" /\ req.op = "topBlock"              -> "more"
               [] pc = "points" /\ req.op = "active"              -> "answered"
               [] OTHER                                           -> "idle"
    /\ count' = IF req.op = "topBlock" THEN 0 ELSE count
    /\ total' = IF req.op = "topPower" THEN 0 ELSE total
    /\ Docs /\ UNCHANGED <<req, filter, rows, time_at, points, seen, counted>>

StatsNext ==
    \/ StoreMined \/ StoreState
    \/ AskStats \/ Search \/ Count \/ Rank \/ TotalBlocks \/ RowsOfTop
    \/ SetBlockValues \/ SetPowerValues \/ SeriesPoint \/ HomePoint \/ PointsEnd \/ Fails

StatsSpec == StatsInit /\ [][StatsNext]_statsVars

-----------------------------------------------------------------------------
(* Properties. *)

Answered == pc = "answered" /\ clean

(* The blocks the rows of a request are counted from. *)
BlocksOf(bs) == IF req.op = "topPower" THEN AfterWindow(bs, From, To)
                ELSE InWindow(bs, From, To)

(* A list or ranking of the first page says of each of its miners at least *)
(* what it had mined in the window when the request came and no more than  *)
(* what it has mined by now, although names and figures come from          *)
(* different queries, one of them without an order; no miner comes twice,  *)
(* and the rows are not more than the miners counted before them and those *)
(* that have got a document since.  Behind the first page MinerList shows  *)
(* 0 of miners that its second offset skips.  (MinerList,                  *)
(* TopnPowerIncreaseMiners, TopnBlockMiners, TopnPowerMiners_old)          *)
RowsOfTheWindow ==
    Answered /\ req.op \in List \cup Ranking =>
        /\ \A i, j \in DOMAIN rows : rows[i].miner = rows[j].miner => i = j
        /\ LET fed == IF req.op \in {"block", "topBlock"} THEN blocks \ seen.blocks
                      ELSE states \ seen.states
           IN  Len(rows) <= count + Cardinality(MinersOf(fed))
        /\ req.op # "topOld" => \A i \in DOMAIN rows :
            LET own(bs) == Cardinality({b \in BlocksOf(bs) : b.miner = rows[i].miner})
            IN  /\ rows[i].blocks <= own(blocks)
                /\ req.offset = 0 => own(seen.blocks) <= rows[i].blocks

(* The shares of the rows add up to no more than the whole, but for the    *)
(* blocks stored between the two where they are counted one after the      *)
(* other; and the whole is at least what was stored when the request came, *)
(* or 0 when SetBlockValues was given no row.  (IntToPercent of            *)
(* BlockCount in TotalBlockCount)                                          *)
SharesAddUp ==
    Answered /\ req.op \in List \cup {"topPower"} =>
        LET within(bs) == Cardinality(BlocksOf(bs))
        IN  /\ MinedBy(rows) <= total + (within(blocks) - within(counted))
            /\ total = 0 \/ within(seen.blocks) <= total

(* A point of a series shows states that belong to its time, and of every  *)
(* miner none older than the newest that was stored when the request came; *)
(* the times of the active miners never go up, and they end nowhere but at *)
(* the start of the chain or when there are enough: only they are kept     *)
(* from wrapping, by the step down to a multiple of diff; and those of the *)
(* home page go up to the end, where the capacity is read, within the day. *)
(* (MinerPowerAtTime, TotalPowerGraphical, ActiveStorageMinerCountAtTime)  *)
PointsShowTheirTime ==
    Answered /\ req.op \in Series =>
        /\ \A i \in DOMAIN points :
            /\ points[i].shown \subseteq Before(states, points[i].at)
            /\ \A s \in Before(seen.states, points[i].at) :
                \E t \in points[i].shown :
                    /\ t.miner = s.miner \/ req.op \in {"totalPower", "homePower"}
                    /\ s.height <= t.height
        /\ req.op = "active" =>
            /\ \A i \in 1..(Len(points) - 1) : points[i + 1].at <= points[i].at
            /\ Len(points) = Repeate(req) \/ time_at = 0 \/ time_at < GenesisTime
        /\ req.op = "homePower" =>
            /\ \A i \in 1..(Len(points) - 1) : points[i].at < points[i + 1].at
            /\ points[1].at >= req.to - Day /\ points[Len(points)].at = req.to
=============================================================================
