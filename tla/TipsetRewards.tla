--------------------------- MODULE TipsetRewards ---------------------------
(***************************************************************************)
(* models/miner_rewards.go: Loop_WalkThroughTipsetRewards follows the      *)
(* stored blocks upwards and keeps for each tipset what its miners were    *)
(* paid, in the collection "tipset_rewards"; MinerRewardInTimeRange and    *)
(* GetLatestReward answer from it.  The loop reads the last tipset of a    *)
(* round again in the next one, as part of its window, and pays it again:  *)
(* the released total runs ahead of the chain, one tipset a round.         *)
(***************************************************************************)
EXTENDS StoredBlocks, Sequences, SequencesExt

CONSTANTS
    Total,      \* build.TotalFilecoin
    Divisor,    \* a block is paid this part of what remains
    WorkerOf,   \* [miner -> wallet_addr]
    Window,     \* the 201 heights of a round
    MaxRounds,  \* bound: rounds of the loop
    MaxCrashes  \* bound: restarts of the process

(* The blocks of a tipset are far fewer than Divisor, some millions, so    *)
(* what it is paid is less than what remains.                              *)
ASSUME RewardsAssumption ==
    /\ Total \in Nat /\ Divisor \in Nat \ {0} /\ Window \in Nat \ {0}
    /\ IsFiniteSet(DOMAIN WorkerOf)
    /\ \A h \in HeightsOf(Mined) : Cardinality(MinersAt(Mined, h)) <= Divisor

VARIABLES
    rewards,    \* the documents, by tipset_height
    wpc,        \* where the loop is
    last,       \* last_tipset_rewards
    remaining,  \* remaining_filcoin
    pending,    \* tipset_rewards_map
    rounds, crashes

tipsetVars == <<rewards, wpc, last, remaining, pending, rounds, crashes>>

MiningReward(left) == left \div Divisor

None == [h \in {} |-> 0]
Genesis == [height |-> 0, count |-> 0, reward |-> 0, released |-> 0, miners |-> None]

TipsetInit ==
    /\ rewards = None /\ pending = None
    /\ wpc = "off" /\ last = Genesis /\ remaining = 0
    /\ rounds = 0 /\ crashes = 0

(* last_block_chain_rewards: the highest document, or none so far. *)
LastRewards ==
    IF DOMAIN rewards = {} THEN Genesis ELSE rewards[Max(DOMAIN rewards)]

(* Mutant: the released rewards are not taken off. *)
StartFromTotal ==
    /\ wpc = "off" /\ wpc' = "read"
    /\ last' = LastRewards
    /\ remaining' = Total
    /\ UNCHANGED <<rewards, pending, rounds, crashes>>

StartWalk ==
    /\ wpc = "off" /\ wpc' = "read"
    /\ last' = LastRewards
    /\ remaining' = Total - LastRewards.released
    /\ UNCHANGED <<rewards, pending, rounds, crashes>>

BlocksAtHeight(offset, count) ==
    {b \in blocks : offset <= b.height /\ b.height < offset + count}

(* AddMinedBlock for each block of a tipset; what a block is paid is       *)
(* computed at the first of them.                                          *)
Tipset(height, before, paid) ==
    LET miners == MinersAt(blocks, height)
        n      == Cardinality(miners)
    IN  [height |-> height, count |-> n, reward |-> n * paid,
         released |-> before.released + n * paid, miners |-> [m \in miners |-> paid]]

(* Mutant: the total is the one object, which all tipsets of a round share. *)
ShareReleased(acc, height) ==
    LET tipset == Tipset(height, acc.last, MiningReward(acc.remaining))
    IN  [last      |-> tipset,
         remaining |-> acc.remaining - tipset.reward,
         pending   |-> [h \in DOMAIN acc.pending \cup {height} |->
                           IF h = height THEN tipset
                           ELSE [acc.pending[h] EXCEPT !.released = tipset.released]]]

(* The loop over the blocks of a round, a tipset at a time: the tipset     *)
(* before is the one of the height below, or else last_tipset_rewards,     *)
(* which is that one whenever there is one.                                *)
AddTipset(acc, height) ==
    LET tipset == Tipset(height, acc.last, MiningReward(acc.remaining))
    IN  [last      |-> tipset,
         remaining |-> acc.remaining - tipset.reward,
         pending   |-> [h \in DOMAIN acc.pending \cup {height} |->
                           IF h = height THEN tipset ELSE acc.pending[h]]]

(* The first n heights of the round, upwards from last_tipset_rewards.     *)
Walked(heights, n) ==
    LET walked[i \in 0..n] ==
            IF i = 0 THEN [last |-> last, remaining |-> remaining, pending |-> None]
            ELSE IF last.height + i - 1 \in heights
                 THEN AddTipset(walked[i - 1], last.height + i - 1) ELSE walked[i - 1]
    IN  walked[n]

(* A round; without blocks, or with an error, it is a pause of a minute.   *)
WalkRound ==
    LET heights == HeightsOf(BlocksAtHeight(last.height, Window))
        round   == Walked(heights, Window)
    IN  /\ wpc = "read" /\ wpc' = "write"
        /\ heights # {}
        /\ rounds < MaxRounds /\ rounds' = rounds + 1
        /\ last' = round.last /\ remaining' = round.remaining /\ pending' = round.pending
        /\ UNCHANGED <<rewards, crashes>>

(* bulkUpsertTipsetRewards ranges over a map and its error is ignored: any *)
(* part of the round is written.                                           *)
UpsertRewards ==
    /\ wpc = "write" /\ wpc' = "read"
    /\ \E written \in SUBSET DOMAIN pending :
        rewards' = [h \in DOMAIN rewards \cup written |->
                       IF h \in written THEN pending[h] ELSE rewards[h]]
    /\ pending' = None
    /\ UNCHANGED <<last, remaining, rounds, crashes>>

CrashWalk ==
    /\ wpc # "off" /\ wpc' = "off"
    /\ crashes < MaxCrashes /\ crashes' = crashes + 1
    /\ last' = Genesis /\ remaining' = 0 /\ pending' = None
    /\ UNCHANGED <<rewards, rounds>>

TipsetNext == StartWalk \/ WalkRound \/ UpsertRewards \/ CrashWalk

(* MinerRewardInTimeRange by height: what each of the miners was paid in   *)
(* [from, from + diff).                                                  *)
MinerRewardInTimeRange(from, diff, miners) ==
    [m \in miners |->
        SumFunction([h \in {g \in DOMAIN rewards : /\ from <= g /\ g < from + diff
                                                   /\ m \in DOMAIN rewards[g].miners}
                        |-> rewards[h].miners[m]])]

(* MinerRewards is asked for miners, or for workers.  GetMinersByT3 finds  *)
(* a miner of each worker, and the loop over them keeps only one.          *)
GetMinersByT3(workers) == {m \in DOMAIN WorkerOf : WorkerOf[m] \in workers}

Requested(miners, workers) ==
    IF miners = {} /\ GetMinersByT3(workers) # {} THEN {{m} : m \in GetMinersByT3(workers)} ELSE {miners}

(* The possible answers; none when no period is named. *)
MinerRewards(from, diff, miners, workers) ==
    IF diff = 0 THEN {} ELSE {MinerRewardInTimeRange(from, diff, ms) : ms \in Requested(miners, workers)}

(* GetLatestReward: what a block of the highest tipset was paid.           *)
LatestReward == IF DOMAIN rewards = {} THEN 0 ELSE LastRewards.reward \div LastRewards.count
=============================================================================
