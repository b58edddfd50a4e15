# filscan: a verification project

filscan is a block explorer for Filecoin.  It follows the chain of a lotus
node, keeps what it sees in MongoDB, and answers an API from what it keeps.
This directory models the parts of it that run concurrently and survive
restarts, and the requests that read what those parts write; it checks them with
TLC on small instances, and proves the properties that matter most with TLAPS
for every value of the constants.

Paths below are relative to the repository (`src/`).

## 1. The system

### 1.1 Goroutines

| goroutine | started by | does |
|---|---|---|
| `run_syncer` (`filscaner/fs_tasks.go:15`) | `Task_StartSyncer` | takes the head changes of `ChainNotify`, fills the tipset cache, stores the tipsets that fall off it |
| `sync_to_genesis` (`fs_syncer.go:12`) | the first safe tipset | walks from it down to genesis and stores what it meets, in batches of 25 |
| `loop_handle_messages` (`fs_loops.go`) | `Task_StartHandleMessage` | asks lotus for the state of the miners of each tipset, buffers 512 of them, upserts full buffers, passes each on |
| `loop_handle_refresh_miner_state` (`fs_loops.go:105`) | `Task_StartHandleMinerState` | takes the states out of `miner_state_chan` into the two miner caches |
| API handlers (`controllers/`, `filscaner/fs_api_*.go`) | grpc / json | read the tipset cache, the miner caches and the collections; refresh the cached answers of the home page |
| account refresh (`controllers/lotus_controller.go:584`) | `UpdateAllAccount` | at every tick, gives each address of the collections an account with its actor |
| peer refresh (`lotus_controller.go:666`) | `UpdatePeers` | at every tick, inserts the peers of the lotus node with their places |
| reward walks (`models/miner_rewards.go`, `filscaner/fs_loops.go:170`) | tasks of `fs_tasks.go:161-175` that `Run` does not start | follow the stored blocks and keep what was paid and what was released |
| receipts (`controllers/tipset_queue.go:483`, `models/msg.go`) | commented-out code | write receipts into the legacy queue or, after it, into the collection |
| one goroutine per `Put` (`filscaner/force/fblockstore`) | a lotus daemon with an `MgoStore`; nothing here makes one | parse the blocks put and insert their documents |

They share the tipset cache (one mutex), the list of synced paths (one mutex),
two channels, the miner caches (one mutex each), the global structs of the home
page (no lock) and the database, which has no transactions: each upsert is atomic,
two upserts are not.

### 1.2 Components, their state and what makes them correct

**Tipset cache** (`fs_tipset_cache.go`).  State: a list of tipsets with their
blocks and messages, newest first, of at most `tipset_cache_size`.  Operations:
`push_front` (removes the tipsets of an abandoned branch, returns the one that
falls off the back), `push_back` (initial fill), readers for the API.  Correct
when it always holds a piece of one branch, since what falls off it is stored as
confirmed.

**Synced paths** (`fs_sync_models.go`).  State: a list of ranges
(head, tail, selector under which the range is stored), and the collection
`synced_tipset` that keeps it over restarts.  Operations: grow the front path at
the head or at the tail, merge it with the next one, persist, delete, load.
Correct when a range that is claimed is stored, and merging forgets nothing.

**Chain syncer** (`fs_syncer.go`, `fs_tasks.go`, `fs_loops.go`).  State: which of
the two handlers for applied and for safe tipsets is installed, the last applied
tipset, and the locals of the two goroutines.  Each tipset is claimed in memory,
then in `synced_tipset`, then its miners are sent, then its data are stored.
Correct when nothing that leaves the cache is lost, when the walk reaches genesis
and leaves no hole, and when the two goroutines do not disturb each other on the
front path they share.

**Tipset documents** (`fs_block_message.go`, the goroutines above).  State: the
collections of messages, blocks and tipsets.  A list of tipsets is built from calls
of lotus and upserted in bulks, one collection after the other.  Correct when a
tipset that is stored has its blocks, its messages and their receipts.

**Miner pipeline** (`fs_loops.go`, `fs_models.go`,
`fs_storage_miner_message_handler.go`).  State: an unbuffered channel of batches,
the handler's buffer and its index, a buffered channel of states.  Correct when a
failing call loses at most what it was about, when no write goes behind the end
of the buffer, when what is stored is shown, and when no sender is stuck.

**Miner power caches** (`fs_miner_cache.go`).  State: the strongest miners, for
each of them one state per time window, the address of the weakest, the start of
the windows.  States arrive in two opposite orders.  Correct when a newcomer is
compared with the weakest miner, the slots of a miner are sound and no slot goes back
in time.

**API reads** (`controllers/tipsetqueue_DB.go` and the `filscan_*_controller.go`).
No state of their own: each request reads the cache and then the collections, or
the other way round, without a lock over both.  Correct when a tipset that moves
between them is neither missed nor counted twice, and a page is the slice of rows
that was asked for; a query that fails should not look like one that found nothing.

**Home page caches** (`controllers/define.go`, `filscan_controller.go`).  State:
five global structs, each with a `Time` and the fields it speaks for.  Any request
that finds the time too old computes the fields and assigns them one by one.
Correct when no request takes a field for newer than it is.

**Account refresh** (`controllers/define.go`, `lotus_controller.go`,
`models/account.go`).  State: the collection `account`, and `startTime`, from which
on documents are looked at.  Correct when every address gets an account and its
actor, neither actor nor role is replaced by an older or weaker one, and what a
request reads of an account between two passes goes together.
`conf/app.conf` turns it off by a period that wraps to 59 years.

**Peer refresh** (`lotus_controller.go:666`, `models/peer.go`).  State: the
collection `peer`.  Correct when the map shows the peers of the day.

**Block reward walk** (`models/miner_rewards.go`, `fs_loops.go`,
`fs_api_token.go`).  State: the collections `tipset_rewards` and `block_reward`,
each with a running total.  Correct when the totals cover what they are totals of,
over rounds, failed upserts and restarts, and when the answers put together from
them and the blocks cover the periods they name.

**Statistics** (`fs_api_mining.go`, `fs_models.go`).  No state: each answer
comes from several aggregations while both collections grow.  Correct when the rows
of an answer belong together and to its window.

**Legacy tipset queue** (`controllers/tipset_queue.go`, `models/msg.go`).  State:
a slice of tipsets with blocks and messages.  Correct when its readers agree and
receipts find their messages.

**Goroutine lock** (`utils/happi_lock.go`).  State: a mutex and the id of the
goroutine that holds it.  Used by the legacy queue, whose methods nest.  Correct
when it excludes, never unlocks what is not locked, and lets every waiter in.

**Block store and actor tables** (`filscaner/force/`).  State: the documents of the
mirror, the encoder's global map of struct types, the table of actors and methods.
Correct when what was put is mirrored, whatever other puts and failures there are,
and when both sides name a message's method the same way.

**Not modelled**: configuration, formatting, reflection and logging (`utils`); the
generated protocol code (`filscanproto/*.pb.go`, almost half of the lines of the
repository); sessions and indexes of mgo; the older syncer in
`controllers/lotus_controller.go`, which is commented out; what is reached from
nowhere, such as `sync_tipset_with_range`, `get_totalpower_at_time`,
`get_minerstate_activate_at_time`, `delete_minerstate_at`, `to_resp_map`; requests
that read one document or only a cache under its mutex (`PeerById`,
`ActivePeerCount`, `MinerPowerAtTime`, `TopnPowerMiners`, the percentages of
`index()`); prices, sizes and the wording of answers wherever no property is about
them.  `PROJECT.json` lists each component with what is left out of it.

### 1.3 What is hard here

* Two goroutines move the same front path and persist it; each persists what the
  other has claimed and not stored yet (a `todo` in the code names one case).
* The order persist-then-store, and crashes in between.
* Reorganisations up to the depth of the cache and beyond it, null rounds, closed
  notification channels.
* Errors of any call: some end a goroutine for good, some drop a tipset without
  a word, some are ignored.
* The handler of miner messages sends into a channel while two goroutines wait
  behind it.
* Bulks of three collections by two writers that may meet in a message.
* States in two orders, windows that move meanwhile, queries that fail halfway.
* Documents that are stored after a query with an earlier creation time; actors
  that are fetched long before they are written.
* Reads of two places while a tipset moves from one to the other; offsets
  at the seam between them.
* Requests that refresh a struct others read, field by field.
* Running totals over rounds that overlap, batches that are half written, restarts.
* Answers from several queries while documents are stored above and below.
* A lock that an inner call lets go.

The full list, line by line, is `hazards` in `PROJECT.json`.

## 2. Modules

```
 Chain ─┬─ TipsetCache ─┬─ ChainSync ─┬─ MCChainSync
        └─ SyncedPath ──┘     │       └─ ChainSync_proofs
 ChainIndex ◁─────────────────┘
 TipsetCache ── ApiReads ─┐
 IntHour ─────────────────┴─ ApiQueries ─┬─ MCApiReads
                                         └─ ApiQueries_proofs
 MinerPipeline ─────────────┐
 ActorTable ─┬─ TipsetData ─┼─ StoredDocuments ─┬─ MCStoredDocuments
             └─ BlockStore ─┘                   └─ StoredDocuments_proofs
 MinerCache ─┬─ MCMinerCache
             └─ MinerCache_proofs
 Accounts ── AccountReads ─┬─ MCAccounts
                           └─ Accounts_proofs
 Peers ── HomePage ─┬─ MCHomePage
                    └─ HomePage_proofs
 StoredBlocks ─┬─ TipsetRewards ─────────┬─ Rewards ─┬─ MCRewards
               └─ FsApi ─┬─ BlockRewards ┘           ├─ StoredBlocks_proofs
               IntHour ──┴─ MiningStats ─┬───────────┘
                                         └─ MCMiningStats
 LegacyQueue ─┬─ MCLegacyQueue
              └─ LockedQueue_proofs
 Mutex ◁── HappiLock ───┘
```

`◁` is refinement.  A definition whose comment starts with `Mutant:` is not part
of the model; it is a plausible bug in the definition that follows it, used to
see that a property can fail.

Three modules compose components that share one input and no state
(`StoredDocuments`, `Rewards`, and `HomePage` with its five structs).  Their initial
state chooses which one a behaviour looks at, so that each is explored to the end
without the product of the others.

### 2.1 Chain, TipsetCache, SyncedPath

`Chain` is the tree of tipsets as lotus shows it (external).  A tipset stands for
its key, since the code compares keys everywhere.  `Height` may skip numbers: null
rounds.  `TipsetCache` and `SyncedPath` are functions on sequences, one per method
of the two Go types; every method runs under its type's mutex, so each is one step.
The collection `synced_tipset` is a sequence of documents in the order a scan
finds them, because `Upsert` and `Remove` take the first that matches and
`models_load` sorts by a field that no document has.

### 2.2 ChainSync, ChainIndex

| model | code |
|---|---|
| `lotus`, `notifs` | head of the node; HCApply entries queued in the channel of `ChainNotify` |
| `HeadMoves` | one notification, a move to a branch at most `MaxReorg` deep |
| `ChannelReopens` | `goto re_sync`: queued entries and the HCCurrent of the new channel are lost |
| `FirstAppl`, `FallThrough` | `handle_first_appl_tipset`, `sync_tipset_cache_fall_through` |
| `SecondAppl` | `handle_secod_appl_tipset` |
| `FirstStore`, `PushPath` | `handle_first_safe_tipset`, `task_sync_to_genesis` |
| `InsertHead`, `PersistHead`, `SendHead`, `StoreHead` | the four calls of `handle_secod_safe_tipset`, in order |
| `InsertTail` ... `SendNil` | the calls of the loop of `sync_to_genesis`, in order |
| `Start`, `LoadDelete` | `models_load` with its merge loop |
| `Crash` | the process dies; memory is lost, collections stay |

A step ends where another goroutine can see or change what is shared: at each
operation of the path list, each database call, each send.  Calls of lotus that
only feed the next operation are part of its step.  Every database or lotus call
may fail (`Fail`), and the step then takes the code's error path.

`ChainIndex` is what the syncer is for: a range of one branch that grows by one
tipset at either end, goes on at the top only over a stored tipset, and is complete
when it reaches genesis with nothing but its newest tipset outstanding.  The
refinement mapping takes the front path in memory for the range, the collections
for what is stored, and the end of `sync_to_genesis` for completion; the first safe
tipset counts from its store on, because the code pushes its path afterwards.

### 2.3 MinerPipeline, ActorTable, TipsetData, BlockStore, StoredDocuments

`MinerPipeline`: `Work[s]` is what a sender sends: batches of (tipset, miner)
pairs; `NilBatch` is the nil slice that `sync_to_genesis` sends last, after which
the handler lists the miners of genesis.  `buffer` is `to_upsert_miners` up to its
index.  `do_upsert_miners` computes an offset of twice the index when the buffer is
full and of 0 otherwise, so a buffer that is not full leads to a bulk of no
documents; the server the repository asks for (mongo 4.2 or later, `README.md`)
refuses it.

`ActorTable` is the table `factors` makes of the lotus actors, with its two
readers; reflection is abstracted to the exports and method numbers it delivers.
`TipsetData` has a writer for each storing goroutine: `Build` (the calls of lotus,
each of which may fail), the send to the pipeline, and a `Store` per collection.
`BlockStore` has a goroutine per `Put` that inserts document by document and uses
the encoder's map without a lock; using it beside an addition may end the daemon.
`StoredDocuments` makes the writers' sends those of `MinerPipeline`: a writer waits
in its send until the handler takes the batch.

### 2.4 MinerCache

`update` runs under the cache's mutex and is one step: `Update`, which is
`Refill` (a cached miner), `Join` (there is room), `Oust` (it is stronger than
`min`) or `Ignore`.  `Refill` leaves `min` as it is: `set_miners_at_index` calls
`refresh_min_max` only for a miner that was not cached.  The iteration over a Go map
shows as a free choice of the minimum among equals.  A query for the history that
fails leaves the slots the code has written by then.  `power` is what lotus answers.
At the start `models_miner_top_power` takes one state of each miner, the newest or the
strongest: its `$sort` is a `bson.M` of two keys, and a Go map has no order.

### 2.5 ApiReads, ApiQueries, IntHour

The writers are those of `ChainSync` as far as a reader can tell: the cache
advances, what falls off is written to `blocks` (a tipset's messages and blocks, in one
step) and then to `tipsets`, the walk stores downwards.  Reorganisations stay within the
cache, so the collections hold tipsets of one branch.  One request runs at a time, each
of its reads is a step, and the writers take any steps in between.

A tipset has a list of blocks, and a list of messages, block after block, each with the
block it is from.  A message of two blocks is twice in that list, and so it is in the
cache (`fs_block_message.go:154-170`).  The collection of messages is upserted by cid and
keeps the last: `Documents`.  `Cached(r)` and `Stored(r)` are what a request asks of
either place, and a row is a tipset with a place in it.  `MessagesMethods` finds stored
messages by their own `block_cid`; `BlockMessages` by the cids the block's document
lists.  `Match` and `Mined` are what the client's filter selects.

A query that fails ends most requests with an error (`ReadFails`).  `GetBlockByMiner`
and `GetBlockTotalFilByMiner` drop it and answer success with what the cache holds:
`PageOfCache`, `RewardOfCache`, in the step `"partly"`.

`Newest` gives what the cache may hold at the start: a
piece of the chain below the head.  Since heights fall along the cache, what it
holds between two heights is a piece of it (`FindTipset_in_height`).  `Rising` and
`NewestFirst` are the sorts the queries ask mongo for.  Arithmetic on heights is modulo `Word` as in `uint64`.
`seen`, `stayed` and `known` are history: what was cached or stored when the request
came, what has not moved since, what has ever been there.  `ApiReads` has the
requests for tipsets, blocks, messages and pages; `ApiQueries` the search, the methods of a
message list, the counts of an account, `BaseInformation` and the two charts over
the full hours of `IntHour`.  Taken as one step although the code reads more than
once: the list and the count of a page, the documents of a block and those of its
messages.  A request for methods names one block.

### 2.6 Accounts, AccountReads

A pass is `Tick`, five times `Query`, a `FetchActor` per address, an
`UpsertAccount` per address, in the order of the code; the maps it ranges over
make the order of the addresses free.  A query and the loop over its result are
one step: the result is local.  Any call may fail; a closed connection and an
error of mgo end the pass.  `startTime` is passed by pointer, and `startTime = &t`
changes the copy: `Return` leaves it.  A document may carry a `gmt_create` of any
second up to one after `TimeNow`, which is renewed once a second.  `AccountReads`
adds a request (`ActorById`) that reads the account, and then the miners of its
role, while the passes go on.

### 2.7 Peers, HomePage

A request reads `Time` (`Call`), then either the fields one by one (`Read`), or
computes them (`Compute`, or `Fails`) and assigns them in the order of the code
(`Write`).  A field's value
is the moment its computation began.  `Writes(struct)` is that order for each of the
five structs.  `Peers` is the pass of `SavePeers` with its lookup by the wrong
column, which finds nothing, and its insert, which the unique index ends.

### 2.8 StoredBlocks, FsApi, TipsetRewards, BlockRewards, Rewards, MiningStats

`StoredBlocks` is the collection `block` as the two storing goroutines fill it,
upwards and downwards, block by block.  `TipsetRewards` follows it in rounds that
begin with the last tipset of the round before; `BlockRewards` fills its records in
batches whose entries point to one shared `big.Int`.  Upserts may fail halfway and
the process may restart.  A reward is a part of what remains, rounded down once
where the code rounds a block's and multiplies.  `FsApi` is what the requests of
`fs_api_token.go` and `fs_api_mining.go` have in common: an answer made of several
calls, any of which may fail, the history `seen` of what was stored when the request
came, and the time of a height.  `MiningStats` has a step per aggregation; `counted`
is history.  `Kept` is the filter by miners and `Page` the slice at the end of the
pipelines.  Times are rounds; series walk back modulo `Word`, and bson refuses to encode
a time that has wrapped (`Refused`).  `topOld` ranks each miner by its newest or its
strongest state, for the same random `$sort` as in 2.4.  When the query of a record
fails, `released_reward_at_height` takes it for one of nothing
(`reward_without_record`).

### 2.9 Mutex, HappiLock

`Mutex` is what a `sync.Locker` promises.  `HappiLock` has the steps of `Sexylock`
between which another goroutine can run; `owner` is written after `mu` is taken
and outside `inermutx`, so a reader sees the word before or after the write.
`nested` is a history variable: some goroutine has called `Lock` while it was
between `Lock` and `Unlock`.  The refinement mapping takes the first such call for
the end of the use of the mutex.

### 2.10 LegacyQueue

A method of `SliceEntry` is one step up to the return of its first inner call,
which lets the lock go, and another from there (`Append1`, `Replace`, `Fork`); each
removal of `UpdatePush` is a step.  A receipt makes five tries at the queue and then
goes to the collection (`UpdateMsgReceipts`), after the sleeps of the code.  An index
out of range ends the process (`dead`).  `sort.Slice` leaves the order of equal heights
open, so `Append1` allows every sorted order.  The loop of `DelTipsetByHeight`, which
moves the rest of the slice down while it runs over it, is `Removed`, a `Visited` for
each place.  `Clear`, which nothing calls, is one step: its loop blanks the elements one
by one without the lock before it drops the list, and a reader in between would meet an
element without a tipset; that is not modelled.

## 3. What the runs check

| run | instance | result |
|---|---|---|
| `chainsync_clean` | no failure, no crash, fair | `NoSafeTipsetLost`, `ClaimedIsStoredOrInFlight`, `ImplementsIndex`, `WalkReachesGenesis` hold |
| `chainsync_faults` | two crashes, one failure, one closed channel | `CacheIsChain`, `NeverImpossible`, `MinersSentBeforeStored`, `FrontOnlyWidens` hold |
| `chainsync_hole` | one crash | `LoadedPathsAreStored` is violated |
| `happilock` | 4 goroutines, nesting of 2, fair | `NeverUnlocksUnlocked`, `ImplementsMutex`, `LockReturns` hold |
| `stored_documents` | 2 writers over 4 tipsets, buffer of 2, failures; 2 puts; fair | `EachFailureLosesOne`, `StoredIsCached`, `TipsetsAreWhole`, `MirrorIsTrue`, `SendersReturn` hold |
| `miner_cache` | 2 of 3 miners, 3 windows, one failure | `SlotsSound`, `OnlyRefillsLeaveMinStale`, `NeverOlder` hold |
| `api_reads` | cache of 3, null rounds, fork, shared messages, failing queries | `CacheFirstMissesNothing`, `FoundUnlessMoved`, `NeverOverstates`, `PagesOffTheSeam` hold |
| `accounts` | 2 addresses, 2 seconds, one failure, fair | `AddressesGetActors`, `ActorsDontGoBack`, `RolesStay`, `OwnersShowTheirWork` hold |
| `home_page` | 2 requests at a time, 3 seconds | `TimeVouchesForFields`, `OldOnlyBesideRefresh`, `AnswersFromOneRefresh`, `PeersLeaveTheMap` hold |
| `rewards` | 5 blocks, 4 rounds, a crash, 2 starts, a failure | `PaidIsReleased`, `NeverUnderstated`, `AnswersCoverPeriods`, `LatestRewardNeverRises` hold |
| `mining_stats` | 4 blocks, 4 states, 18 requests, one failure | `RowsOfTheWindow`, `SharesAddUp`, `PointsShowTheirTime` hold |
| `legacy_queue` | 3 tipsets on two branches, 3 pushes, fair receipts | `ReceiptsSettle`, `ListsAgree` hold |

What each says:

* **The syncer.**  Concurrency and reorganisations alone do no harm: no safe tipset
  is dropped, what `synced_tipset` claims is stored or in somebody's hands, the walk
  arrives, and the two goroutines together are the index `ChainIndex` describes.
  With faults the cache is still one branch, the error the code calls impossible
  does not occur, miners are asked for before their tipset counts as stored (but for
  one tipset per start), and an ordered list of paths never forgets.
* **The documents.**  A stored tipset has its blocks, messages and receipts; a failure
  costs one miner state or one mirrored document; what is stored is in the power
  caches or on its way; every send returns.
* **The power caches.**  Slots and windows are right in every order of states.  `min` is
  chosen anew whenever a miner comes in, and only then.
* **The requests.**  `CacheFirstMissesNothing` and `FoundUnlessMoved` are the two
  halves of reading two places without a lock: cache first misses nothing (unless a
  failing query is passed over in silence), collection first misses what moves;
  `NeverOverstates` bounds the counts: no tipset is counted twice, and no message more
  often than there are blocks with it.
  `OldOnlyBesideRefresh` and `TimeVouchesForFields` say how old a field of the home
  page may be by its place in the order of assignments.
* **The bookkeepings.**  Released totals run ahead of the chain, never behind it.
* **The statistics.**  Figures of one answer that come from several queries differ by
  no more than what was stored in between.

### 3.1 The violation

**`LoadedPathsAreStored`.**  `handle_secod_safe_tipset` persists the grown path
and then stores the tipset.  A crash in between leaves a persisted range with a
tipset that no collection holds; the next start takes the range for synced.

### 3.2 Seen while modelling, without a run

The syncer

* The loop of `models_load` that merges loaded ranges is
  `for merged := ...; merged != nil; {` and has no post statement.  After one merge
  it deletes the same document twice, gets `ErrNotFound`, and start-up fails.  Two
  crashes suffice to leave two ranges that touch (`LoadDelete`, `"panicked"`).
* `sync_to_genesis` returns when `models_del` finds nothing, which needs no failed
  call: `run_syncer` has meanwhile persisted the front path under the selector of
  the merged document, or an upsert has replaced it.  The walk then stays where it
  is until the next start.
* A reorganisation deeper than the cache empties it; the next safe tipset is then
  not the child of the path's head, is dropped, and so is every later one.
  The same follows after a closed notification channel or a failed store.
* The first safe tipset is stored without its miners being sent; after a failed
  upsert the next one is again a first.
* The `nil` that ends the walk is meant to flush the buffer of miner states
  (comment in `fs_syncer.go:100`); `do_upsert_miners` writes only a full one.
* Messages are upserted by cid: of a message in two blocks only the last block stays, so
  `MessagesMethods` of the other block leaves its method out once the tipset is stored.
  While it is cached the message counts twice in `AccountList` and `BaseInformation`.
* An addressee without a fixed address is taken for a `StorageMinerActor`.
* `fs_miner_cache.update` asks for a newer stored state only for windows other than
  the newest, so a miner can oust another with a state that is not its newest.  After
  a gap of several windows, states sit in slots of older windows.
* `set_miners_at_index` renews `min` for a miner that comes in (`fs_miner_cache.go:429`)
  and not for one that is cached already (396-405).  When the power of a cached miner
  falls below `min`'s, a newcomer is compared with the wrong one: it is refused although
  it is stronger than the weakest, or ousts another than the weakest (the comment at 347
  says "check whether the lowest power is less than in_miner's").  The model does the
  same; `OnlyRefillsLeaveMinStale` says that nothing else makes `min` stale.

The requests

* `BlockByCid`, `BlockByHeight`, `MessagesMethods` and `SearchIndex` read the
  collection and then the cache: what moves in between is not found.  A tipset that
  has fallen off the cache and is not stored yet is in neither place, and nobody
  finds it.  `Blocks` leaves out a cached block exactly at the full hour.
* `GetBlockByMiner` and `GetBlockTotalFilByMiner` (`tipsetqueue_DB.go:244`, 261) drop the
  error of a failing query of the collection: `BlockByMiner` then answers success with
  the blocks, the total and the reward of the cache alone.  In the model these are
  `PageOfCache` and `RewardOfCache`, and their answers are `"partly"`;
  `CacheFirstMissesNothing` is about the answers of queries that do not fail.
* A page of BlockByMiner behind the cached rows begins with all of them again
  (`tipsetqueue_DB.go:237`), and any page that begins in the cached rows and ends behind
  them goes on in the collection at `|start - len(page) - diff|`, which repeats or skips
  rows (`Filscan_Interface_v1.0.md:392`, 525: "start index").  `PagesOffTheSeam` says
  which pages are right.
* Charts count a tipset twice that moves between their two reads.  The last hour of
  `GetIntHour` may lie at or behind the end.
* `SearchIndex` falls through its labels, dereferences a nil `GetMaxTipSet` while no
  tipset is stored, and calls every height below the newest a height, null rounds
  included.
* `BaseInformation` may count a tipset a reorganisation has since removed.  Two
  tipsets of different branches can appear in one answer of `TipSetTree`.
* `MessageDetails` answers a message that is not found with an empty one, by way of
  `err.Error()` on a nil error.  `FilscanBlockResult2Proto` swaps signature fields.
* The charts of the home page answer from their cache by time alone, whatever window
  the request names (`filscan_controller.go:279`).  A client that names an end time
  in the future freezes a chart until then.
* `SavePeers` looks a peer up by its ip in the column `peer_id` and so never finds
  it (`lotus_controller.go:676`); its insert then ends at the first peer that has a
  row, and `gmt_modified`, by which `PeerMap` selects, is never renewed.
* An account without an actor is answered without data, and may break `AccountList`.
  A role from a block carries no miner; the list of an owner's miners has every miner
  that ever named the wallet.
* `startTime` of `UpdateAllAccount` never moves, so every pass reads everything.
  That looks unintended, but the obvious repair, to move it to the end of the pass,
  would lose the documents stored during a pass: it is the mutant of
  `AddressesGetActors`.

The bookkeepings and statistics

* Every round of the reward walk reads and pays its last tipset again, and blocks
  stored below its start are never paid.
* `block_reward` overstates: one `big.Int` for all records of a batch, the last record
  dropped, the head counted again at a restart.  `released_reward_at_height` is
  therefore not monotone.
* `FilOutStanding` answers nothing if its first window begins before genesis, or wraps.
  `MinerRewards` asked by workers keeps one miner for each.
  `CumulativeBlockRewardsOverTime` puts a window's value at the beginning of the next.
* `MinerList` by power applies the offset again to its second list; its total is 0
  when no row has mined.  `TopnPowerIncreaseMiners` counts the whole in another window
  than its rows.  Rankings panic when nothing is in the window.
* `ActiveStorageMinerCountAtTime` repeats its first point when it is aligned and
  panics for a difference of 0; `MinerPowerAtTime_old` and `TotalPowerGraphical`
  wrap, and then end in bson's error.  `MinerPowerAtTime` dereferences a nil cache for other differences than its
  two.

The legacy queue, the lock and the mirror

* `Unlock` does not count nested locks: after `Lock Lock Unlock` another goroutine
  enters while the first is still between its outer `Lock` and `Unlock`.
  `ImplementsMutex` therefore speaks of the behaviour up to the first nested call.
* In the queue this makes the index of `Have` stale, and what is replaced there need not
  have the height of what replaces it: a lower tipset can end up last, until the next
  append sorts again.  `TipsetByOneHeight` and `DelTipsetByHeight` take the last element
  for the highest (a comment at `tipset_queue.go:242` says "queue is height desc") and
  find nothing of the heights above it, though `TipsetByHeight` lists them.  `ListsAgree`
  makes this exception.  It takes five pushes, two more than the run has.
* Index 0 is never replaced, so an element comes twice; tipsets of two blocks are never
  the same; `GetHeaderList` takes one element more, panics when it asks for the whole
  queue and removes nothing when there are fewer; `TipSetElement` drops the newest;
  `MsgByBlockCid` looks only at the first element.
* Receipts are dropped while the queue has one element, or written to an element that
  has been saved already.  `UpdateMsgReceipts` tries for ever with the same counter and
  writes an exit code as a rune first.
* `MgoStore`: concurrent puts use the encoder's map without a lock; a put is mirrored
  though the inner store failed; deletes are not mirrored; `FirstSeen` is the first
  insert's; documents under way are lost at exit.

### 3.3 Bounds, and why they are enough

* `MCChainSync`: eleven tipsets with a null round and a fork of two.  `MaxSize` is
  1 or 2, `BatchSize` 2: a batch ends by its size, by a merge and at genesis.
  `MaxReorg = 2` reverts one tipset more than a cache of one holds, and as many as
  a cache of two.  `MaxStarts = 3` gives the list the paths of two earlier
  runs.  With `MaxBurst = MaxQueue = 2` a notification waits while a safe tipset is
  being stored.  `LoadLimit` is the code's 20 and is never reached.
* `chainsync_clean` sets crashes, failures and closed channels to 0 because each of
  its properties is false with them (section 3.2); that is what the code is, and
  the run shows that concurrency and reorganisations alone do no harm.
* `StoredDocuments`: two blocks of a tipset share a message; a list of two tipsets
  goes down while two single ones go up.  The buffer of two fills and is written, the
  channel of one is full while the handler sends; failures hit the calls of the
  pipeline (two) and those of the writers (one).  The mirror has two goroutines at a
  time, one failure and at most one end of the daemon; its calls share documents.
* `MinerCache`: capacity 2 of 3 miners with powers that cross over time; `Time`
  has a value in the oldest window, one in a newer one, and one beyond the newest,
  which moves the windows.  Two of the times lie before the start, so that the newest and
  the strongest state of a miner differ there.
* `ApiReads`: a cache of three can lose a tipset to a reorganisation without being
  emptied; tipsets of two blocks share a message, one on the branch that is given up, one
  is stored from the start or falls off the cache; any query may fail; `Word = 16` lets a count wrap; start indexes lie within, at the end
  of, and behind the cached rows; one chart begins at a full hour and one does not.
* `Accounts`: a wallet that sends and owns, a miner that receives and mines, so
  that each has two roles; a document can be stored before, between and after the
  queries of a pass and with either of two times; the failure can hit any call.
* `HomePage`: two requests are enough for two refreshes at once and for a reader
  beside a refresh, and each may ask again.  `MaxRun` is an assumption: a request
  takes at most one second; the ages the properties allow are stated in it.
  Requests, and peers, are symmetric.
* `Rewards`: windows of 3 heights over a null round; records of every second height
  in batches of 2, so that a batch ends full and half; four rounds with a restart
  between two of them.
* `MiningStats`: a request of each kind, of some two, for windows that begin and end at a block,
  at the newest, and before genesis; offsets 0 and 1.  `Word = 64` lets series wrap.
* `LegacyQueue`: one goroutine pushes and one takes, which is enough for a lock that
  is let go; the branch that skips a height replaces the one that does not.  Three
  pushes do not bring the queue out of order (section 3.2); the theorem has no bound.
* `HappiLock`: neither the goroutines nor the nesting are bounds of the proof.

`CHECK_DEADLOCK FALSE` is set where a bound (of the chain, of failures, of batches)
lets the system come to rest.  `HappiLock` checks deadlock.

### 3.4 Fairness

* `ChainSync!FairSpec`: weak fairness of each goroutine's steps.  They are
  goroutines of the Go scheduler, and a database call that is not a failure
  returns.  Nothing is assumed of the lotus node: the head may stop or go on.
* `StoredDocuments!DocSpec`: the same for the writers' upserts, the refresh loop, and
  the handler together with the sends it receives; none for the ticker.
* `AccountReads!ReadsSpec`: weak fairness of the goroutine and of the one that renews
  `TimeNow`.  The number of failures is bounded, so that some pass succeeds.
* `LegacyQueue!FairQueueSpec`: weak fairness of the goroutines of the receipts, which wake
  from their sleeps.  Nobody has to save an element: `ReceiptsSettle` asks for it.
* `HappiLock!FairSpec`: weak fairness for the steps of a goroutine that owns the
  lock, strong fairness for taking `mu`, which `sync.Mutex` gives by its starvation
  mode.

## 4. What is proved

| theorem | says |
|---|---|
| `ChainSync_proofs!TypeCorrect` | `Spec => []TypeOK` |
| `ChainSync_proofs!CacheIsAlwaysChain` | `Spec => []CacheIsChain` |
| `ChainSync_proofs!TailIsWhereTheWalkIs` | `Spec => []NeverImpossible` |
| `ChainSync_proofs!MinersBeforeData` | `Spec => []MinersSentBeforeStored` |
| `ChainSync_proofs!FrontWidens` | `Spec => FrontOnlyWidens` |
| `ChainSync_proofs!ClaimsAreCovered` | `Spec => [](FirstRun => ClaimedIsStoredOrInFlight)` |
| `ChainSync_proofs!FollowsTheChain` | `Spec /\ []FirstRun => ImplementsIndex` |
| `ChainSync_proofs!SafeTipsetsKept` | `Spec /\ []Calm => []NoSafeTipsetLost` |
| `StoredDocuments_proofs!TypeCorrect`, `BufferStaysInRange` | of `MinerPipeline`, whoever sends |
| `StoredDocuments_proofs!MinersReachTheCaches` | `DocSpec => []StoredIsCached` |
| `StoredDocuments_proofs!FailuresStillLoseOne` | `DocSpec => []EachFailureLosesOne` |
| `StoredDocuments_proofs!StoredTipsetsAreWhole` | `DocSpec => []TipsetsAreWhole` |
| `StoredDocuments_proofs!MirrorStaysTrue` | `DocSpec => []MirrorIsTrue` |
| `MinerCache_proofs!MinStaleOnlyByRefill`, `SlotsAlwaysSound` | `Spec => OnlyRefillsLeaveMinStale`, `Spec => []SlotsSound` |
| `MinerCache_proofs!SlotsNeverOlder` | `Spec => NeverOlder` |
| `ApiQueries_proofs!StoreInOrder` | the order of cache and collections, and that nothing stored is replaced |
| `ApiQueries_proofs!NothingIsMissed` | `Spec => []CacheFirstMissesNothing` |
| `ApiQueries_proofs!WhatStaysIsFound` | `Spec => []FoundUnlessMoved` |
| `ApiQueries_proofs!NothingIsOverstated` | `Spec => []NeverOverstates` |
| `ApiQueries_proofs!PagesAreWhole` | `Spec => []PagesOffTheSeam` |
| `Accounts_proofs!TypeCorrect`, `ActorsOnlyGrow` | of `Accounts`: `[]TypeOK`, `ActorsDontGoBack` |
| `Accounts_proofs!MarkedRolesStay` | of `Accounts`: `RolesStay` |
| `Accounts_proofs!OwnersAlwaysShowWork` | `ReadsSpec => []OwnersShowTheirWork` |
| `HomePage_proofs!TimeVouches`, `OldBesideRefresh` | how old a field may be in an answer |
| `HomePage_proofs!OneRefreshAnswers`, `PeersLeave` | that it goes with the others, and the map of peers |
| `StoredBlocks_proofs!TipsetsFollow` | the documents of `tipset_rewards` and the walk go together |
| `StoredBlocks_proofs!RewardNeverRises` | `Spec => LatestRewardNeverRises` |
| `StoredBlocks_proofs!PaymentsCovered` | `Spec => []PaidIsReleased` |
| `StoredBlocks_proofs!RecordsAhead`, `ReleasedCovered` | no record, and no height between two, is behind the schedule: `Spec => []NeverUnderstated` |
| `StoredBlocks_proofs!RequestsFollow`, `PeriodsCovered` | of each window at hand, and `Spec => []AnswersCoverPeriods` |
| `StoredBlocks_proofs!StoredOnlyGrows`, `SeriesFollow` | what the series of `MiningStats` go by |
| `StoredBlocks_proofs!PointsInTime` | `StatsSpec => []PointsShowTheirTime` |
| `StoredBlocks_proofs!ListsFollow` | what a list or ranking is at each of its stages |
| `StoredBlocks_proofs!RowsInWindow`, `SharesOfTheWhole` | `StatsSpec => []RowsOfTheWindow`, `[]SharesAddUp` |
| `LockedQueue_proofs!TypeCorrect`, `UnlockIsSafe` | of `HappiLock`, for any nesting |
| `LockedQueue_proofs!LockIsExclusive`, `LockIsMutex` | up to the first nested call |
| `LockedQueue_proofs!ElementsWerePushed` | what the legacy queue and its callers hold on to was pushed |
| `LockedQueue_proofs!ReadersAgree` | `QueueSpec => []ListsAgree` |

The type invariants, `BufferInRange` and `MutualExclusion` are proved and no longer
run.  `MinerPipeline!Spec` leaves the order of the sends free, so what is proved of
it holds of the pipeline of `stored_documents`, whose senders are the writers.

The lemmas on sequences, sums and a model's own operators stand at the head of its
proof module: what `ToSet`, `Reverse`, `FlattenSeq`, prefixes and concatenations keep;
`push_front` and `push_back` keep a chain a chain, the upsert and the delete keep a
sequence of documents one, a merge of two ordered paths widens the first, shifted,
loaded and refilled slots are sound, `Rising` sorts, a sum loses what is taken out of
its domain whatever order `SumFunction` takes it in.  An induction that the library's
theorems cannot state for these provers is a least counterexample: a recursive
function is first shown to satisfy its equation (`WalksExist`, `Sums`), then the least
index, or cardinality, at which a claim fails is refuted.

**Assumptions.**  The named `ASSUME`s of the modules, and nothing else: lotus shows a
tree with one parent per tipset, heights grow along it; bounds are naturals; a batch
size, a buffer, a channel, a window and a second a request may take are at least 1;
miners, and the states of `MinerPipeline`, are finitely many; `run_syncer` stores one
tipset at a time; method 0 is the transfer and no actor's own; the documents name
known fields and addresses; a block is of one height, a message is in one tipset of a
branch, and a tipset has a block; twice a height fits in a word; a block's cid is not the
empty string, by which a filter asks for all.  Of the rewards: the miners
of a tipset are no more than the divisor of a block's reward (some millions in the
code), and some head is above all blocks.  Of the statistics: a request names a step
and a limit of at least 1 (a step of 0 panics, section 3.2) and the chart of the home
page an end after the first day; a day is whole hours; the time fits in an int64.
The proofs let the chain,
the cache size, the batch size, the number of requests, puts and senders and every
bound be arbitrary.

**The syncer, with every fault.**  The inductive invariant is
`SyncInv == TypeOK /\ SyncerInv /\ CacheInv /\ WalkInv`.  `CacheIsChain` alone is
not inductive: while the cache is being filled, the tipset at hand must be the
parent of the cache's back, and that is what `CacheInv` adds.  `NeverImpossible`
needs `WalkInv`: wherever `sync_to_genesis` is between two steps, its `child` (or
`parent`) is the tail of the front path, which no step of `run_syncer` changes;
after a merge it is not, and the code reads the tail again (`ReloadTail`), which is
why that call is needed.  `SyncerInv` says what `run_syncer` holds at
each of its steps, and that the list has a front path once the walk was started.
`MinersInv` says that at each store of a batch or of a safe tipset the miners were
sent, and that the first tipset of each start is the only exception.

**The syncer, as long as nothing fails.**  `ClaimsAreCovered`, `FollowsTheChain` and
`SafeTipsetsKept` are false after a failed call or a restart (section 3.2), and say
so in their hypotheses.  `FirstRun`: no call has failed and the process has not been
started a second time; reorganisations and lost notifications may come.  `Calm`: no
notification was lost either, and none waits whose branch leaves out the head of the
front path.  The runs make the hypotheses true by their bounds; the theorems
hold of a behaviour up to the first fault, whatever the bounds.  `RunInv` adds to
`SyncInv` that there is one path at most, that what is stored or about to be
is the piece of one branch between its ends (with the exception of the first safe
tipset, which is stored before its path is pushed), and that the documents in
`synced_tipset` claim no more.  `QueueInv` and `CoverInv` are about what is between lotus and the cache:
each notification stands on the tipset of the one before or on one below that, and
the tipset the cache stands on is the head of the front path or in a step's hand.
`FollowsTheChain` maps initial states to initial states and each step to a step of
`ChainIndex` or a stutter.  `Ancestry` is a recursive function; what is needed of
it over all tipsets is proved by a least counterexample in height.

**The pipeline and the documents.**  `PipelineInv == TypeOK /\ HoldsToSend /\
BufferInRange /\ StoredIsCached`, where `HoldsToSend` says that the handler holds a
state exactly while it sends it.  `FailuresStillLoseOne` counts: each step that asks
and does not keep the state is a step that fails.  `DataInv` says of each writer what
it has upserted when it goes on to the next collection (`ReadyInv`), so that a stored
tipset has all of it, and that `sync_to_genesis` has not started while nothing is
stored.  `SentInv` finds the one tipset whose miners need not have been sent: the
first that is stored.  `TipsetsAreWhole` speaks of two collections and the handler at
once, and holds of the composition `DocInv`.  `MirrorInv` says of the goroutines of
the puts that each document owed is in the mirror, excused, or in the hands of one of
them (`Remembered`), and not seen before it was owed (`SeenInv`).

**The power caches.**  `CacheInv` is `SlotsSound` for every miner, the capacity, and
that `min` names a cached miner (`MinIsCached`).  They depend on each other: `update`
compares with slot 0 of `min`, and what goes for a newcomer keeps the capacity only if it
was in the cache.  `StartFacts` and `TopSize` give the start, whichever of a miner's
states it takes.  The way of `update` through its branches is followed case by case.  That
`min` is a weakest miner is no part of it, since it is false (3.2); `MinStaleOnlyByRefill` is a
statement about one step, and follows from `CacheInv` and `WeakestExists`.

**The requests.**  `IInv == StoreInv /\ CallInv /\ FoundInv /\ CacheInv /\ SumInv`.
`StoreInv`: what is stored, or has fallen off the cache and is on its way, lies
strictly below the cache; what `run_syncer` stores lies above, and what
`sync_to_genesis` stores below, all stored before.  So a tipset moves in one
direction only, from the cache to the collections, and an upsert by height never
replaces another tipset (`StoreInOrder`).  `FoundInv`, `CacheInv` and `SumInv` say of a
request between two reads what the first one has left for the second:
that what was seen is either found already or still stored, or that the two finds
are of disjoint heights, so that a count over both counts nothing twice.  Rows are counted
as pairs of a tipset and a place in it (`Among`), which makes a message of two blocks two
rows of the cache and one of the collection.  A query that fails leads to no answer the
three speak of (`Breaks`).

**The home page.**  `VouchInv`: `Time` vouches for a field, unless a refresh has
written `Time` and has yet to write the field.  That is the exception
`OldOnlyBesideRefresh` makes and the reason why the order of the assignments
decides what `TimeVouchesForFields` can promise.  `OneInv` says the same of values in
place of ages as long as refreshes do not overlap, `PeersInv` follows the map of
peers from the pass that located a peer to the answer.

**The rewards.**  `TipsetInv` relates three things: the documents that were written
(any part of a round), the totals the walk holds, and the documents it has yet to
write.  Each document's total is at least that of any lower one and what it paid itself
on top (`Documents`, `ReleasedBefore`), nothing is above the walk's own total
(`UpTo`), and what is pending comes after all that is stored but for the tipset that is
paid again.  A restart keeps it because the walk starts at the highest document.
`LatestRewardNeverRises` follows since a block's reward is a part of what the total
leaves; `PaidIsReleased` adds the payments up height by height.  The tipset paid twice
is the reason why the statement is `<=`.  `LoopInv` says of `block_reward` that no
record is behind the schedule and that the loop is not either, whatever height it
starts at: what remains after a payment of a part of it falls as what was released
rises, so running ahead once is running ahead for good (`After` is monotone in both
its arguments).  The rate of a record is then high enough for the heights up to the
next one.  `RequestInv` says which windows are done at each step of a request, and
that each one that had a block when the request came has its point.

**The statistics.**  `StatsTypes` is that collections only grow.  `SeriesInv` follows
a series: `StepsDown` keeps the time of the active miners from going below 0, and
after the first step at a multiple of `diff`, so that none is refused and the series ends
nowhere but at the start of the chain or when it is long enough (`ActiveWhole`); `HoursSoFar` counts the hours of the home
page.  `ListInv` follows a list through its stages: `CountInv` compares the rows with
the miners counted before them, `FigureInv` the figures of each row with its miner's
blocks then and now, `ShareInv` their sum with the whole, which is a sum over disjoint
sets of blocks because no miner comes twice (`IsRows`).

**The lock.**  `MutexInv == FlatInv /\ WaitersHoldNothing /\ Once`.
`LockInv`, a part of it, says of any nesting that the goroutine which has taken `mu`
and not written `owner` is alone and nobody is the owner.  The rest speaks of the
time before the first nested call: the owner is who holds the lock, whoever is inside
`Lock` holds nothing, and nobody holds it twice.

**The legacy queue.**  `QueueTypeOK` is inductive, and is the whole invariant: since the
lock is let go inside the methods, the order of the heights is none (section 3.2), and
neither is that an element comes once.  What is left is that every id anyone holds is
of an element that was pushed, over removals that run past the new end of the slice
(`RemovedIsLeft`) and takes of more than there is.  `ReadersAgree` is about the readers
then, not the steps: `FlatToSet` and `FlatAdds` say what a loop that appends lists has
collected, and how many; a sum backwards is the same (`SumReversed`), so the list from
the newest has the size counted from the oldest; and counted through the blocks
(`MsgsCounted`) there are as many messages as element by element.  `HeightsAgree`
compares the first of a listing with the first place of a height, whatever is in
between.

**The accounts.**  `ActorsInv == TypeOK /\ FetchedIsOnChain /\
StoredIsOnChain /\ StoredIsFetched`.  `ActorsDontGoBack` speaks of the write; that
the written actor is not older than the stored one holds since the fetch, because
the goroutine is the only writer of `account` (`StoredIsFetched`), and held at the
fetch because no actor is ahead of the chain (`StoredIsOnChain`).
`RolesStay` rests on `startTime` never moving: every pass reads everything, so what
marked an address once is found again by the same query (`MapSeen`, `MarkSeen`), even
by a pass that has begun before that document was stored and missed others.  `OwnersInv` says that an owner is named by
a document of a miner, and documents stay.

**Only model-checked.**

* Liveness (`WalkReachesGenesis`, `SendersReturn`, `LockReturns`,
  `AddressesGetActors`, `ReceiptsSettle`), which is beyond the provers used here.
* `LoadedPathsAreStored`, which is false.

## 5. Plan

1. *(done)* `Chain`, `TipsetCache`, `SyncedPath`, `ChainSync` with their proofs;
   `HappiLock` with its refinement of `Mutex`; `MinerPipeline` with its proofs;
   `MinerCache`; `ApiReads`; `Accounts`.
2. *(done)* `ChainIndex` and the refinement; the documents of tipsets, composed with
   the pipeline; the other requests; the home page and the peers; the rewards; the
   statistics; the legacy queue with its receipts; the mirror and the actor table.
3. *(done)* Proofs of every safety property that holds: of the syncer, the documents,
   the power caches, the requests, the accounts, the home page, the rewards, the
   statistics, the lock and the legacy queue, the two refinements among them.
4. *Open.*  A crash in the composition of pipeline and writers, for the states that are
   lost after their path was persisted.

## 6. Running

```
tlc -workers 2 -config ChainSyncClean.cfg MCChainSync.tla
tlapm ChainSync_proofs.tla
```

The longest runs are `legacy_queue`, `rewards` and `stored_documents`, two to three
minutes each; the longest proofs are `ChainSync_proofs`, `StoredDocuments_proofs`,
`ApiQueries_proofs` and `StoredBlocks_proofs`, some minutes each.
