----------------------------- MODULE MinerCache -----------------------------
(***************************************************************************)
(* filscaner/fs_miner_cache.go: the power of the strongest miners over the *)
(* last Slots windows of Duration seconds, one cache per window length     *)
(* (miner_cache24h, miner_cache1day).  Slot k of a miner holds its newest  *)
(* known state at the end of window k; window 0 is the newest one.         *)
(*                                                                         *)
(* States come out of miner_state_chan in the order their tipsets are      *)
(* handled: upwards from run_syncer, downwards from sync_to_genesis, mixed.*)
(* The collection "miner" gets them earlier or later than the cache does.  *)
(* update runs under the cache's mutex and is one step.                    *)
(***************************************************************************)
EXTENDS Integers, Sequences, FiniteSets

CONSTANTS
    Miner,
    Time,       \* the mine times of the tipsets with a miner message
    Power,      \* Power[m][t]: what lotus says of miner m at the tipset of t
    Capacity,   \* max_miner_count
    Slots,      \* max_cached_size
    Duration,   \* time_duration
    StartTime,  \* start_time computed by init_miners_caches: the end of slot Slots - 1
    Now,        \* time_now there
    NoState,    \* Go's nil *MinerStateAtTipset
    NoMiner,    \* the empty string
    ChanSize,   \* capacity of miner_state_chan
    MaxFails    \* bound: queries that fail

State == [miner : Miner, time : Time]

ASSUME CacheAssumption ==
    /\ IsFiniteSet(Miner) /\ Time \subseteq Nat \ {0}
    /\ Power \in [Miner -> [Time -> Nat]]
    /\ Capacity \in Nat \ {0} /\ Slots \in Nat \ {0} /\ Duration \in Nat \ {0}
    /\ StartTime \in Int /\ Now \in Nat
    /\ NoState \notin State /\ NoMiner \notin Miner
    /\ ChanSize \in Nat \ {0} /\ MaxFails \in Nat

VARIABLES
    miners,     \* this.miners: from the cached miners to their slots
    start_time, \* this.start_time
    min,        \* this.min
    chan,       \* miner_state_chan, oldest first
    fetched,    \* states the handler asked lotus for
    history,    \* the collection "miner"
    fails       \* counts the failures that MaxFails bounds

vars == <<miners, start_time, min, chan, fetched, history, fails>>

Slot == 0..(Slots - 1)

power(s) == Power[s.miner][s.time]

-----------------------------------------------------------------------------
(* Windows. *)

(* The end of the window of slot k when the oldest one ends at start. *)
WindowEnd(start, k) == start + (Slots - 1 - k) * Duration

(* time_to_index, and the boolean it returns beside the index *)
Offseted(start, t) == t > WindowEnd(start, 0)

time_to_index(start, t) ==
    IF t <= start THEN Slots - 1
    ELSE IF Offseted(start, t) THEN 0
    ELSE Slots - 1 - ((t - start + Duration - 1) \div Duration)

(* do_offset on one miner's slots *)
shifted(slots) == [k \in Slot |-> IF k = 0 THEN slots[0] ELSE slots[k - 1]]

-----------------------------------------------------------------------------
(* set_miners_at_index for one state s and slot k *)

(* Mutant: the later message wins. *)
AlwaysOlder(slot, s) == TRUE

IsOlder(slot, s) == slot = NoState \/ slot.time < s.time

(* Mutant: the newer slots are not looked at. *)
RefillOne(slots, s, k) ==
    [i \in Slot |-> IF i = k /\ IsOlder(slots[k], s) THEN s ELSE slots[i]]

(* a cached miner: the slot itself, and the newer ones down to the first   *)
(* that holds a state as new                                               *)
refill(slots, s, k) ==
    [i \in Slot |->
        IF \/ i = k /\ IsOlder(slots[k], s)
           \/ i < k /\ \A j \in i..(k - 1) : IsOlder(slots[j], s)
        THEN s ELSE slots[i]]

(* a new miner, in a slice of its own or in the one of the weakest miner *)
fresh(s, k) == [i \in Slot |-> IF i <= k THEN s ELSE NoState]

IsWeaker(cache, s) == power(cache[min][0]) < power(s)

(* Mutant: nobody is ousted. *)
KeptAll(cache) == DOMAIN cache

(* The miners that stay when s's miner is put in. *)
Kept(cache) ==
    IF Cardinality(DOMAIN cache) < Capacity
    THEN DOMAIN cache ELSE DOMAIN cache \ {min}

Put(cache, s, slots) ==
    [m \in Kept(cache) \cup {s.miner} |-> IF m = s.miner THEN slots ELSE cache[m]]

(* refresh_min_max: a miner of least power now; of several, the one the    *)
(* iteration over the map meets first.                                     *)
Weakest(cache) ==
    {m \in DOMAIN cache :
        \A n \in DOMAIN cache : power(cache[m][0]) <= power(cache[n][0])}

(* Mutant: min is chosen anew only when its miner is gone. *)
KeepMin == IF min \in DOMAIN miners' THEN min' = min ELSE min' \in Weakest(miners')

refresh_min == min' \in Weakest(miners')

(* The history models_set_index_and_load_histroy reads into the slots      *)
(* above k, the oldest first: each gets the newest stored state of its     *)
(* window, and hands it down while the windows below have none.  When a    *)
(* query fails at slot stop - 1 those below get what slot stop has.        *)
Newest(S) == IF S = {} THEN NoState ELSE CHOOSE s \in S : \A r \in S : r.time <= s.time

Past(m, t) == {h \in history : h.miner = m /\ h.time <= t}

load_history(start, slots, s, k, stop) ==
    [i \in Slot |->
        IF i <= k THEN slots[i]
        ELSE IF stop = Slots THEN NoState
        ELSE Newest(Past(s.miner, WindowEnd(start, IF i < stop THEN stop ELSE i)))]

-----------------------------------------------------------------------------
(* init_miners_caches: the Capacity strongest miners (models_miner_top_power) *)
(* by a state before Now: the newest of each, or the strongest, as the two *)
(* keys of the "$sort" are a Go map, which has no order.  It goes into slot *)
(* 0, and then the history is filed as states of cached miners, so that a  *)
(* newer one of an older window gets there too, and min stays what it was. *)
Latest(m) == Newest(Past(m, Now - 1))

Strongest(m) ==
    LET S == {s \in Past(m, Now - 1) : \A r \in Past(m, Now - 1) : power(r) <= power(s)}
    IN  IF S = {} THEN NoState ELSE CHOOSE s \in S : TRUE

TopMiners(top, found) ==
    LET known == {m \in Miner : found[m] # NoState}
    IN  /\ top \subseteq known
        /\ Cardinality(top) = IF Cardinality(known) < Capacity
                              THEN Cardinality(known) ELSE Capacity
        /\ \A m \in top, n \in known \ top : power(found[m]) >= power(found[n])

AtStart(m, found) ==
    Newest({found[m]} \cup UNION {Past(m, WindowEnd(StartTime, k)) : k \in Slot \ {0}})

Init ==
    /\ history \in {S \in SUBSET State : \A s \in S : s.time < Now}
    /\ \E found \in {[m \in Miner |-> Latest(m)], [m \in Miner |-> Strongest(m)]} :
       \E top \in SUBSET Miner :
        /\ TopMiners(top, found)
        /\ miners = [m \in top |-> LET s == AtStart(m, found)
                                   IN  load_history(StartTime, fresh(s, 0), s, 0, 1)]
        /\ min \in IF top = {} THEN {NoMiner}
                  ELSE {m \in top : \A n \in top : power(found[m]) <= power(found[n])}
    /\ start_time = StartTime
    /\ chan = <<>> /\ fetched = {} /\ fails = 0

(* handle_storage_miner_message: the state goes into the upsert buffer and *)
(* into the channel.                                                       *)
Fetch(s) ==
    /\ s \notin fetched /\ Len(chan) < ChanSize
    /\ fetched' = fetched \cup {s}
    /\ chan' = Append(chan, s)
    /\ UNCHANGED <<miners, start_time, min, history, fails>>

(* The buffer is written. *)
Flush ==
    /\ ~(fetched \subseteq history)
    /\ history' = history \cup fetched
    /\ UNCHANGED <<miners, start_time, min, chan, fetched, fails>>

-----------------------------------------------------------------------------
(* update *)

ExistsNewer(s) == \E h \in history : h.miner = s.miner /\ h.time > s.time

(* A query fails; at most one of those an update makes. *)
Fail == fails < MaxFails /\ fails' = fails + 1

LoadFrom(cache, start, s, k, stop) ==
    /\ miners' = Put(cache, s, load_history(start, fresh(s, k), s, k, stop))
    /\ refresh_min

Load(cache, start, s, k) ==
    \/ LoadFrom(cache, start, s, k, k + 1) /\ UNCHANGED fails
    \/ Fail /\ \E stop \in (k + 2)..Slots : LoadFrom(cache, start, s, k, stop)

(* set_miners_at_index calls refresh_min_max for a new miner only. *)
Refill(cache, s, k) ==
    /\ s.miner \in DOMAIN cache
    /\ miners' = [cache EXCEPT ![s.miner] = refill(@, s, k)]
    /\ UNCHANGED <<min, fails>>

Join(cache, start, s, k) ==
    /\ s.miner \notin DOMAIN cache /\ Cardinality(DOMAIN cache) < Capacity
    /\ Load(cache, start, s, k)

Oust(cache, start, s, k) ==
    /\ s.miner \notin DOMAIN cache /\ Cardinality(DOMAIN cache) >= Capacity
    /\ IsWeaker(cache, s)
    /\ \/ k = 0 /\ Load(cache, start, s, k)
       \/ k # 0 /\ ~ExistsNewer(s) /\ Load(cache, start, s, k)
       \/ /\ k # 0 /\ ExistsNewer(s)        \* the count fails: taken for none
          /\ Fail
          /\ LoadFrom(cache, start, s, k, k + 1)

Ignore(cache, s, k) ==
    /\ s.miner \notin DOMAIN cache /\ Cardinality(DOMAIN cache) >= Capacity
    /\ ~IsWeaker(cache, s) \/ (k # 0 /\ ExistsNewer(s))
    /\ miners' = cache
    /\ UNCHANGED <<min, fails>>

Update ==
    /\ chan # <<>>
    /\ chan' = Tail(chan)
    /\ LET s     == Head(chan)
           k     == time_to_index(start_time, s.time)
           cache == IF Offseted(start_time, s.time)
                    THEN [m \in DOMAIN miners |-> shifted(miners[m])] ELSE miners
       IN  /\ start_time' = start_time
                            + IF Offseted(start_time, s.time) THEN Duration ELSE 0
           /\ \/ Refill(cache, s, k)
              \/ Join(cache, start_time', s, k)
              \/ Oust(cache, start_time', s, k)
              \/ Ignore(cache, s, k)
    /\ UNCHANGED <<fetched, history>>

Next == (\E s \in State : Fetch(s)) \/ Flush \/ Update

Spec == Init /\ [][Next]_vars

-----------------------------------------------------------------------------
(* Properties. *)

(* Of min, which update takes for the weakest miner: whenever a miner      *)
(* comes in, in a slice of its own or an ousted one's, and also before a   *)
(* history that is read halfway, min becomes a weakest miner; only a new   *)
(* state of a miner that is cached already can make it stale; and a miner  *)
(* goes only for one that is stronger now.  (update, set_miners_at_index,  *)
(* refresh_min_max, fs_miner_cache.go:343-355, 396-430)                    *)
OnlyRefillsLeaveMinStale ==
    [][ /\ min' \notin Weakest(miners') /\ DOMAIN miners' # {} =>
            /\ DOMAIN miners' = DOMAIN miners
            /\ \/ min \notin Weakest(miners)
               \/ \E m \in DOMAIN miners : miners'[m][0] # miners[m][0]
        /\ \A m \in DOMAIN miners \ DOMAIN miners' :
               \E n \in DOMAIN miners' \ DOMAIN miners :
                   power(miners[m][0]) < power(miners'[n][0]) ]_vars

(* The reference the code gives for time_to_index ("i > 15 && i <= 20"     *)
(* ...): slot k holds the times of a window of its own, the oldest slot    *)
(* everything before it too, and only what lies after the newest window    *)
(* moves the windows.                                                      *)
IndexIsWindow ==
    \A t \in Time :
        LET k == time_to_index(start_time, t)
        IN  /\ k \in Slot
            /\ ~Offseted(start_time, t) => t <= WindowEnd(start_time, k)
            /\ k # Slots - 1 => t > WindowEnd(start_time, k + 1)

(* A state that comes in is filed in the slot of its window, and the slots *)
(* of a miner hold its own states, newest first, without a gap above an    *)
(* older one; and slot 0, which refresh_min_max and index dereference, is  *)
(* never nil; also in a slice taken over from an ousted miner and after a  *)
(* history that was read halfway.  min, which update dereferences without  *)
(* a test, names a miner of the cache as soon as there is one.             *)
(* (time_to_index, set_miners_at_index)                                    *)
SlotsSound ==
    /\ IndexIsWindow /\ Cardinality(DOMAIN miners) <= Capacity
    /\ DOMAIN miners # {} => min \in DOMAIN miners
    /\ \A m \in DOMAIN miners :
           /\ miners[m][0] # NoState
           /\ \A k \in Slot : miners[m][k] # NoState =>
               /\ miners[m][k].miner = m
               /\ \A i \in 0..k : /\ miners[m][i] # NoState
                                  /\ miners[m][i].time >= miners[m][k].time

(* What a cache shows of a miner for one window of time never goes back to *)
(* an older state, in whichever order the states of head and tail arrive,  *)
(* and while the windows move.  (update, do_offset, set_miners_at_index)   *)
NeverOlder ==
    [][ \A m \in DOMAIN miners \cap DOMAIN miners' : \A k \in Slot :
            LET moved == k + (start_time' - start_time) \div Duration
            IN  moved \in Slot /\ miners[m][k] # NoState =>
                    /\ miners'[m][moved] # NoState
                    /\ miners'[m][moved].time >= miners[m][k].time ]_vars
=============================================================================
