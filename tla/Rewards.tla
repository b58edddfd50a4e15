------------------------------ MODULE Rewards ------------------------------
(***************************************************************************)
(* The two bookkeepings of rewards beside the goroutines that store the    *)
(* blocks: TipsetRewards and BlockRewards.  They share nothing but the     *)
(* collection "block", so one of the two is looked at in a behaviour.      *)
(***************************************************************************)
EXTENDS TipsetRewards, BlockRewards

VARIABLE task   \* the task that runs: Task_SyncTipsetRewardsDb, Task_InitBlockRewards

vars == <<blockVars, tipsetVars, rewardVars, task>>

Init ==
    /\ BlocksInit /\ TipsetInit /\ BlockInit
    /\ task \in {"tipset", "block"}

Store == StoreBlock /\ UNCHANGED <<tipsetVars, rewardVars, task>>

SyncTipsetRewardsDb ==
    task = "tipset" /\ TipsetNext /\ UNCHANGED <<blockVars, rewardVars, task>>

InitBlockRewards ==
    task = "block" /\ BlockNext /\ UNCHANGED <<blockVars, tipsetVars, task>>

Next == Store \/ SyncTipsetRewardsDb \/ InitBlockRewards

Spec == Init /\ [][Next]_vars

-----------------------------------------------------------------------------
(* Properties. *)


(* What MinerRewards shows for the tipsets after one document and up to    *)
(* another is covered by the growth of chain_released_rewards between the  *)
(* two, although every round pays its first tipset again, any document of  *)
(* a round may not be written, and a restart begins at the highest one     *)
(* there is.  (Loop_WalkThroughTipsetRewards, MinerRewardInTimeRange)      *)
PaidIsReleased ==
    \A h, g \in DOMAIN rewards : h < g =>
        \A miners \in SUBSET DOMAIN WorkerOf, workers \in SUBSET Range(WorkerOf) :
            \A answer \in MinerRewards(h + 1, g - h, miners, workers) :
                SumFunction(answer) <= rewards[g].released - rewards[h].released

(* The reward of a block never goes up: what has been paid twice, or was   *)
(* not written, or is computed again after a restart, has only made what   *)
(* remains less.  (GetLatestReward)                                        *)
LatestRewardNeverRises ==
    [][DOMAIN rewards # {} => LatestReward' <= LatestReward]_rewards

(* What the api takes for released up to a height is never less than the   *)
(* schedule says of the tipsets below it: records of a batch hold the      *)
(* value of its end, restarts count a tipset again, missing records are    *)
(* made up for at the rate of the one before.  (released_reward_at_height) *)
NeverUnderstated == \A h \in 0..Max(Heads) : Scheduled[h] <= released_reward_at_height(h)

(* A window of an answer shows at least what was released by its highest   *)
(* block that was stored when the request came, at the time it names, and  *)
(* BalanceIncreased spans every tipset of its period but genesis that was  *)
(* stored then, whatever is stored between the queries of the request.     *)
(* FilOutStanding shows nothing if its first window begins before genesis. *)
(* (CumulativeBlockRewardsOverTime, FilOutStanding, BalanceIncreased)      *)
AnswersCoverPeriods ==
    rpc = "answered" /\ clean =>
        IF req.op = "balance"
        THEN \A h \in InPeriod(seen, req.start, req.start + req.diff) \ {0} :
                points[1].from <= h /\ h <= points[1].value
        ELSE \A i \in 0..(req.repeate - 1) :
                LET from == FirstStart(req) + i * req.diff
                    hs   == InPeriod(seen, from, from + req.diff) \ {0}
                    name == IF req.op = "cumulative" THEN from + req.diff ELSE from
                IN  hs # {} /\ name <= HeadTime /\ FirstStart(req) >= GenesisTime =>
                        \E j \in DOMAIN points :
                            points[j].from = name /\ Scheduled[Max(hs)] <= points[j].value
=============================================================================
