---------------------------- MODULE BlockRewards ----------------------------
(***************************************************************************)
(* The collection "block_reward": filscaner/fs_loops.go fills it, once a   *)
(* process, with the rewards released up to every 25th height; the api of  *)
(* fs_api_token.go reads it for CumulativeBlockRewardsOverTime and         *)
(* FilOutStanding, in turn with the collection "block".                    *)
(* Every record of a batch points to the one big.Int that the loop goes on *)
(* adding to, so all are written with the value of the batch's end, and    *)
(* the last record of a batch is left out: what is written runs ahead.     *)
(***************************************************************************)
EXTENDS FsApi, Sequences, SequencesExt

CONSTANTS
    TotalRewards,   \* TOTAL_REWARDS
    Part,           \* a tipset is paid this part of what remains
    Every,          \* 25 heights from one record to the next
    BulkSize,       \* bulk_size, 20 records
    Heads,          \* bound: the heights of lotus's head at a start; none of the
                    \* blocks is above the highest
    MaxStarts,      \* bound: starts of the process
    Asks            \* bound: the start, diff and repeate clients send

ASSUME BlockRewardsAssumption ==
    /\ TotalRewards \in Nat /\ {Part, Every, BulkSize} \subseteq Nat \ {0}
    /\ IsFiniteSet(Heads) /\ Heads \subseteq Nat
    /\ \E h \in Heads : \A height \in HeightsOf(Mined) : height <= h
    /\ \A r \in Asks : /\ r.op \in {"cumulative", "outstanding", "balance"}
                       /\ {r.start, r.diff, r.repeate} \subseteq Nat

VARIABLES
    released,   \* the documents: height -> released_rewards
    lpc,        \* where loop_init_block_rewards is
    at,         \* i
    head,       \* head_height
    sum,        \* released_rewards
    starts,
    rpc,        \* where the request is
    k,          \* windows done
    start,      \* start
    high        \* max_height of the window at hand; height_start

loopVars == <<released, lpc, at, head, sum, starts>>
askVars == <<rpc, req, k, start, high, points, seen, clean>>
rewardVars == <<loopVars, askVars, fails>>

(* What is released after n more tipsets.  SelfTipsetRewards is a part of  *)
(* what remains, rounded once (the code rounds what a block is paid, and   *)
(* takes it five times: the difference is less than five attofil).         *)
SelfTipsetRewards(left) == left \div Part
After(base, n) ==
    LET after[i \in 0..n] ==
            IF i = 0 THEN base
            ELSE LET r == after[i - 1] IN r + SelfTipsetRewards(TotalRewards - r)
    IN  after[n]

(* The schedule: what the tipsets below a height have released. *)
Scheduled == [h \in 0..Max(Heads) |-> After(0, h)]

NoAsk == [op |-> "none", start |-> 0, diff |-> 1, repeate |-> 0]

BlockInit ==
    /\ released = [h \in {} |-> 0]
    /\ lpc = "off" /\ at = 0 /\ head = 0 /\ sum = 0 /\ starts = 0
    /\ rpc = "idle" /\ req = NoAsk /\ k = 0 /\ start = 0 /\ high = 0
    /\ points = <<>> /\ seen = {} /\ clean = TRUE /\ fails = 0

-----------------------------------------------------------------------------
(* loop_init_block_rewards *)

(* Mutant: the loop goes on from the highest record with nothing released. *)
StartFromNothing ==
    /\ lpc = "off" /\ starts < MaxStarts /\ starts' = starts + 1
    /\ lpc' = "batch"
    /\ \E h \in Heads : (\A b \in blocks : b.height <= h) /\ head' = h
    /\ at' = IF DOMAIN released = {} THEN 0 ELSE Max(DOMAIN released)
    /\ sum' = 0
    /\ UNCHANGED <<released, askVars, fails>>

(* The highest record, zero when there is none. *)
models_block_reward_head ==
    IF DOMAIN released = {} THEN [height |-> 0, reward |-> 0]
    ELSE [height |-> Max(DOMAIN released), reward |-> released[Max(DOMAIN released)]]

(* ChainHead, which is not below what is stored; the loop starts at the    *)
(* height of the highest record, which that record has counted already.    *)
StartLoop ==
    /\ lpc = "off" /\ starts < MaxStarts /\ starts' = starts + 1
    /\ lpc' = "batch"
    /\ \E h \in Heads : (\A b \in blocks : b.height <= h) /\ head' = h
    /\ at' = models_block_reward_head.height /\ sum' = models_block_reward_head.reward
    /\ UNCHANGED <<released, askVars, fails>>

(* The next heights that get a record, as many as a batch takes. *)
Due == {h \in at..(head - 1) : h % Every = 0}
Batch == {h \in Due : Cardinality({g \in Due : g <= h}) <= BulkSize}
IsFull == Cardinality(Batch) = BulkSize

(* The height after the batch. *)
BatchEnd == IF IsFull THEN Max(Batch) + 1 ELSE Max({at, head})

(* What an upsert leaves that wrote value for those of the batch below end. *)
Upserted(end, value) ==
    LET written == {h \in Batch : h < end}
    IN  [h \in DOMAIN released \cup written |-> IF h \in written THEN value ELSE released[h]]

(* Up to the next upsert, of offset - 1 records, which may fail after any  *)
(* of them: its error is dropped.                                          *)
UpsertBatch ==
    /\ lpc = "batch"
    /\ at' = BatchEnd /\ sum' = After(sum, BatchEnd - at)
    /\ \E end \in Batch \cup {0} : released' = Upserted(end, sum')
    /\ lpc' = IF IsFull THEN "batch" ELSE "done"
    /\ UNCHANGED <<head, starts, askVars, fails>>

(* The process ends, and every request with it. *)
CrashLoop ==
    /\ lpc # "off" /\ lpc' = "off" /\ starts < MaxStarts
    /\ at' = 0 /\ head' = 0 /\ sum' = 0
    /\ rpc' = "idle" /\ req' = NoAsk /\ k' = 0 /\ start' = 0 /\ high' = 0
    /\ points' = <<>> /\ seen' = {} /\ clean' = TRUE
    /\ UNCHANGED <<released, starts, fails>>

-----------------------------------------------------------------------------
(* The requests. *)

(* models_block_released_rewards_at_height: the record at or below height. *)
Record(height) ==
    LET below == {h \in DOMAIN released : h <= height}
    IN  IF below = {} THEN [height |-> 0, released |-> 0]
        ELSE [height |-> Max(below), released |-> released[Max(below)]]

(* released_reward_at_height: the heights since the record at its rate.    *)
released_reward_at_height(height) ==
    LET r == Record(height)
    IN  r.released + (height - r.height) * SelfTipsetRewards(TotalRewards - r.released)

(* When the query for the record fails, it is taken for one of nothing.    *)
reward_without_record(height) == height * SelfTipsetRewards(TotalRewards)

HeadTime == Time(Max(Heads))

(* The range of heights of models_blockcount_time_range is that of blocks. *)
InPeriod(hs, from, to) == {h \in hs : from <= Time(h) /\ Time(h) < to}

(* Where the first window begins. *)
FirstStart(r) ==
    CASE r.op = "cumulative"  -> Max({r.start, GenesisTime})
      [] r.op = "outstanding" ->
            ((IF r.start = 0 THEN HeadTime ELSE r.start) + Word - r.diff * r.repeate) % Word
      [] r.op = "balance"     -> r.start

(* Requests change nothing: one of them is looked at between two starts.   *)
Ask ==
    /\ rpc = "idle"
    /\ \E r \in Asks :
        /\ req' = r /\ start' = FirstStart(r)
        /\ rpc' = IF r.op = "balance" THEN "from" ELSE "range"
    /\ k' = 0 /\ high' = 0 /\ points' = <<>> /\ clean' = TRUE
    /\ seen' = IF req'.op = "balance" THEN Tipsets ELSE HeightsOf(blocks)
    /\ UNCHANGED <<loopVars, fails>>

(* CumulativeBlockRewardsOverTime names the window after the one whose     *)
(* blocks it looks at; FilOutStanding names the window itself.             *)
Point(value) == [from |-> IF req.op = "cumulative" THEN start + req.diff ELSE start,
                 value |-> value]

(* The loops end: the last window is done or the next one lies ahead.      *)
(* FilOutStanding does not move on from a window before genesis.           *)
LoopEnds ==
    /\ rpc = "range" /\ rpc' = "answered"
    /\ \/ k = req.repeate
       \/ req.op = "cumulative" /\ start + req.diff > HeadTime
       \/ req.op = "outstanding" /\ (start < GenesisTime \/ start > HeadTime)
    /\ UNCHANGED <<loopVars, req, k, start, high, points, seen, clean, fails>>

(* The blocks of the window; of none the answer is an error of mgo. *)
RangeFound ==
    /\ rpc = "range" /\ k < req.repeate
    /\ IF req.op = "cumulative" THEN start + req.diff <= HeadTime
       ELSE GenesisTime <= start /\ start <= HeadTime
    /\ LET hs == InPeriod(HeightsOf(blocks), start, start + req.diff)
       IN  /\ hs # {} /\ (req.op = "cumulative" => Max(hs) # 0)
           /\ high' = Max(hs)
    /\ rpc' = "reward" /\ CallWorks
    /\ UNCHANGED <<loopVars, req, k, start, points, seen>>

(* CumulativeBlockRewardsOverTime repeats the point before, if there is one. *)
RangeEmpty ==
    /\ rpc = "range" /\ k < req.repeate
    /\ IF req.op = "cumulative" THEN start + req.diff <= HeadTime
       ELSE GenesisTime <= start /\ start <= HeadTime
    /\ \/ CallFails
       \/ CallWorks /\ InPeriod(HeightsOf(blocks), start, start + req.diff)
                        \subseteq (IF req.op = "cumulative" THEN {0} ELSE {})
    /\ points' = IF req.op = "cumulative" /\ points # <<>>
                 THEN Append(points, Point(Last(points).value)) ELSE points
    /\ k' = k + 1 /\ start' = start + req.diff
    /\ UNCHANGED <<loopVars, rpc, req, high, seen>>

(* Mutant: the window has moved on when its reward is noted. *)
RewardMoved ==
    /\ rpc = "reward" /\ rpc' = "range"
    /\ points' = Append(points, [Point(released_reward_at_height(high)) EXCEPT !.from = @ + req.diff])
    /\ k' = k + 1 /\ start' = start + req.diff
    /\ UNCHANGED <<loopVars, req, high, seen, fails, clean>>

(* The reward at the highest block.  FilOutStanding then asks lotus for    *)
(* the tipset, without which the window is left out, and for its pledge.   *)
Reward ==
    /\ rpc = "reward" /\ rpc' = "range"
    /\ \/ CallWorks /\ points' = Append(points, Point(released_reward_at_height(high)))
       \/ CallFails /\ points' = Append(points, Point(reward_without_record(high)))
       \/ CallFails /\ req.op = "outstanding" /\ UNCHANGED points
    /\ k' = k + 1 /\ start' = start + req.diff
    /\ UNCHANGED <<loopVars, req, high, seen>>

(* The height of the last stored tipset before a time or of the first from *)
(* it on, 0 if there is none.                                              *)
models_get_tipset_at_time(at_time, befor) ==
    LET hs == {h \in Tipsets : befor = (Time(h) < at_time)}
    IN  IF hs = {} THEN 0 ELSE IF befor THEN Max(hs) ELSE Min(hs)

(* BalanceIncreased: genesis has no parent, so height 1 stands in for it.  *)
HeightStart ==
    /\ rpc = "from" /\ rpc' = "to"
    /\ high' = Max({1, models_get_tipset_at_time(start, FALSE)})
    /\ UNCHANGED <<loopVars, req, k, start, points, seen, clean, fails>>

(* Without a period between the two heights there is no answer.            *)
HeightEnd ==
    /\ rpc = "to"
    /\ LET end == models_get_tipset_at_time(start + req.diff, TRUE)
       IN  IF end <= high
           THEN rpc' = "idle" /\ UNCHANGED points
           ELSE rpc' = "answered" /\ points' = <<[from |-> high, value |-> end]>>
    /\ UNCHANGED <<loopVars, req, k, start, high, seen, clean, fails>>

RequestFails ==
    /\ rpc \in {"reward", "from", "to"} /\ req.op # "cumulative"
    /\ CallFails /\ rpc' = "idle"
    /\ UNCHANGED <<loopVars, req, k, start, high, points, seen>>

BlockNext ==
    \/ StartLoop \/ UpsertBatch \/ CrashLoop
    \/ Ask \/ LoopEnds \/ RangeFound \/ RangeEmpty \/ Reward
    \/ HeightStart \/ HeightEnd \/ RequestFails
=============================================================================
