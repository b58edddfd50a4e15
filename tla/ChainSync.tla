----------------------------- MODULE ChainSync -----------------------------
(***************************************************************************)
(* How filscaner follows the chain (fs_tasks.go, fs_loops.go, fs_syncer.go *)
(* over fs_tipset_cache.go and fs_sync_models.go).                         *)
(*                                                                         *)
(*   lotus      -- notifies every tipset the head advances over            *)
(*   run_syncer -- caches the newest MaxSize tipsets; one that falls off   *)
(*                 the cache is "safe" and is stored, and the front synced *)
(*                 path grows up to it                                     *)
(*   sync_to_genesis -- started by the first safe tipset, walks down from  *)
(*                 it, stores what it meets in batches, and lets the front *)
(*                 path grow down and swallow the paths of earlier runs    *)
(*                                                                         *)
(* The two goroutines share the path list, whose operations are atomic,    *)
(* and the database.  The program may crash between any two steps; memory  *)
(* is lost, the collections stay.                                          *)
(***************************************************************************)
EXTENDS TipsetCache, SyncedPath, FiniteSets

CONSTANTS
    FirstHead,   \* head of the lotus node when the explorer is first started
    BatchSize,   \* max_size (25) of sync_to_genesis
    MaxBurst,    \* bound: tipsets one move of the head applies
    MaxReorg,    \* bound: tipsets one move of the head reverts
    MaxQueue,    \* bound: notifications waiting for run_syncer
    MaxMissed,   \* bound: moves of the head nobody is notified of
    MaxFails,    \* bound: calls of lotus or of the database that fail
    MaxStarts    \* bound: times the program is started

ASSUME BoundsAssumption ==
    /\ FirstHead \in Tipset
    /\ BatchSize \in Nat \ {0}
    /\ MaxBurst \in Nat /\ MaxReorg \in Nat /\ MaxQueue \in Nat
    /\ MaxMissed \in Nat /\ MaxFails \in Nat /\ MaxStarts \in Nat

VARIABLES
    lotus,      \* head of the lotus node
    notifs,     \* the ChainNotify channel: HCApply tipsets, oldest first
    missed,     \* counts the moves that MaxMissed bounds
    fails,      \* counts the failures that MaxFails bounds
    starts,     \* counts the starts that MaxStarts bounds
    proc,       \* "down" | "loading" | "up" | "panicked": Init returned an error
    cache,      \* fs.tipsets_cache
    last,       \* fs.last_appl_tipset
    appl,       \* fs.handle_appl_tipset: "first" | "second"
    safe,       \* fs.handle_safe_tipset: "first" | "second"
    spc,        \* where run_syncer is
    hand,       \* the tipset run_syncer works on
    paths,      \* fs.synced_tipset_path_list
    gpc,        \* where sync_to_genesis is
    child,      \* its local child
    parent,     \* its local parent
    batch,      \* its local tbml.Tipset_block_messages
    merged,     \* its local merged_path
    docs,       \* the collection "synced_tipset"
    data,       \* tipsets stored in the collections tipset, block and message
    sent        \* tipsets whose miners reached tipset_miner_messages_notifer

environment == <<lotus, notifs, missed>>
syncerVars  == <<cache, last, appl, safe, spc, hand>>
genesisVars == <<gpc, child, parent, batch, merged>>
database    == <<docs, data, sent>>
counters    == <<fails, starts>>
vars == <<environment, counters, proc, syncerVars, paths, genesisVars, database>>

SyncerStep  == {"idle", "fill", "first_store", "push_path", "insert", "persist",
                "send", "store"}
GenesisStep == {"off", "insert", "build", "send", "store", "persist", "delete",
                "reload", "send_nil", "done", "exit", "impossible"}

MaybeTipset == Tipset \cup {NoTipset}

TypeOK ==
    /\ lotus \in Tipset
    /\ notifs \in Seq(Tipset \ {Genesis})
    /\ missed \in Nat /\ fails \in Nat /\ starts \in Nat
    /\ proc \in {"down", "loading", "up", "panicked"}
    /\ cache \in Seq(Tipset)
    /\ last \in MaybeTipset
    /\ appl \in {"first", "second"} /\ safe \in {"first", "second"}
    /\ spc \in SyncerStep /\ hand \in MaybeTipset
    /\ paths \in Seq(Path)
    /\ gpc \in GenesisStep
    /\ child \in MaybeTipset /\ parent \in MaybeTipset
    /\ batch \in Seq(Tipset)
    /\ merged \in Path \cup {NoPath}
    /\ docs \in Seq(Doc)
    /\ data \subseteq Tipset
    /\ sent \subseteq Tipset

(* Everything in memory but the list of paths is as Init leaves it.        *)
Volatile(on, path) ==
    /\ proc' = on
    /\ notifs' = <<>>
    /\ cache' = <<>> /\ last' = NoTipset /\ hand' = NoTipset
    /\ appl' = "first" /\ safe' = "first" /\ spc' = "idle"
    /\ gpc' = "off" /\ child' = NoTipset /\ parent' = NoTipset
    /\ batch' = <<>> /\ merged' = path

Init ==
    /\ lotus = FirstHead /\ notifs = <<>> /\ missed = 0
    /\ fails = 0 /\ starts = 0
    /\ proc = "down"
    /\ cache = <<>> /\ last = NoTipset /\ hand = NoTipset
    /\ appl = "first" /\ safe = "first" /\ spc = "idle"
    /\ paths = <<>>
    /\ gpc = "off" /\ child = NoTipset /\ parent = NoTipset
    /\ batch = <<>> /\ merged = NoPath
    /\ docs = <<>> /\ data = {} /\ sent = {}

(* One call of the lotus api or of the database returns an error. *)
Fail == fails < MaxFails /\ fails' = fails + 1 /\ UNCHANGED starts

(* The tipset collection is keyed by height: a tipset replaces the one of  *)
(* its height.  Messages and blocks go before it, in the same step.        *)
Stored(S) == {d \in data : \A t \in S : Height[d] # Height[t]} \cup S

-----------------------------------------------------------------------------
(* The lotus node. *)

(* The tipsets a move of the head applies: a branch that leaves the chain  *)
(* of the present head at most MaxReorg tipsets down, and ends above it.   *)
Branch(apply) ==
    /\ \A i \in 1..(Len(apply) - 1) : Parent[apply[i + 1]] = apply[i]
    /\ Parent[apply[1]] \in Ancestry[lotus]
    /\ apply[1] \notin Ancestry[lotus]
    /\ Cardinality(Ancestry[lotus] \ Ancestry[Parent[apply[1]]]) <= MaxReorg
    /\ Height[apply[Len(apply)]] > Height[lotus]

Bursts == UNION {[1..n -> Tipset \ {Genesis}] : n \in 1..MaxBurst}

(* The HCRevert entries of the same notification are skipped by            *)
(* handle_new_headers, so only the applied tipsets are in the queue.       *)
HeadMoves ==
    /\ \E apply \in Bursts :
        /\ Branch(apply)
        /\ lotus' = apply[Len(apply)]
        /\ IF proc = "up"
           THEN /\ Len(notifs) + Len(apply) <= MaxQueue
                /\ notifs' = notifs \o apply
           ELSE notifs' = notifs
    /\ UNCHANGED <<missed, counters, proc, syncerVars, paths, genesisVars, database>>

(* The channel is closed, what it held is gone, the head moves, and        *)
(* run_syncer subscribes again (goto re_sync).  The first entry of the new *)
(* channel is HCCurrent, which handle_new_headers skips like an HCRevert.  *)
ChannelReopens ==
    /\ proc = "up" /\ missed < MaxMissed
    /\ missed' = missed + 1
    /\ notifs' = <<>>
    /\ \E apply \in Bursts : Branch(apply) /\ lotus' = apply[Len(apply)]
    /\ UNCHANGED <<counters, proc, syncerVars, paths, genesisVars, database>>

-----------------------------------------------------------------------------
(* run_syncer: the tipset cache. *)

(* handle_first_appl_tipset: from the first applied tipset's parent on,    *)
(* sync_tipset_cache_fall_through fills the cache down the chain.  An      *)
(* error before that loop is printed through a nil parent: a crash.        *)
FirstAppl ==
    /\ proc = "up" /\ spc = "idle" /\ notifs # <<>> /\ appl = "first"
    /\ notifs' = Tail(notifs)
    /\ last' = Head(notifs)
    /\ hand' = Parent[Head(notifs)]
    /\ spc' = "fill"
    /\ UNCHANGED <<lotus, missed, counters, proc, cache, appl, safe, paths,
                   genesisVars, database>>

(* Whatever ends the loop, the handler is switched to the second one. *)
LeaveFill == spc' = "idle" /\ hand' = NoTipset /\ appl' = "second"

FallThrough ==
    /\ proc = "up" /\ spc = "fill"
    /\ \/ /\ full(cache)
          /\ LeaveFill /\ UNCHANGED <<cache, counters>>
       \/ /\ ~full(cache)
          /\ cache' = push_back(cache, hand)
          /\ UNCHANGED counters
          /\ IF hand = Genesis      \* ChainGetTipSet of no key: an error
             THEN LeaveFill
             ELSE hand' = Parent[hand] /\ UNCHANGED <<appl, spc>>
       \/ /\ ~full(cache)           \* build_persistence_data fails, or the fetch
          /\ Fail
          /\ cache' \in {cache, push_back(cache, hand)}
          /\ LeaveFill
    /\ UNCHANGED <<environment, proc, last, safe, paths, genesisVars, database>>

(* handle_secod_appl_tipset: the parent of the applied tipset enters the   *)
(* cache; what falls off goes to the safe handler.  Nothing happens for a  *)
(* tipset of the same height as the one before.                            *)
SecondAppl ==
    /\ proc = "up" /\ spc = "idle" /\ notifs # <<>> /\ appl = "second"
    /\ notifs' = Tail(notifs)
    /\ last' = Head(notifs)
    /\ LET push == push_front(cache, Parent[Head(notifs)])
       IN  \/ /\ Height[last] = Height[Head(notifs)]
              /\ UNCHANGED <<cache, hand, spc, counters>>
           \/ /\ Height[last] # Height[Head(notifs)]
              /\ cache' = push.cache
              /\ hand' = push.evicted
              /\ spc' = IF push.evicted = NoTipset THEN "idle"
                        ELSE IF safe = "first" THEN "first_store" ELSE "insert"
              /\ UNCHANGED counters
           \/ /\ Height[last] # Height[Head(notifs)]
              /\ Fail               \* ChainGetTipSet or build_persistence_data
              /\ UNCHANGED <<cache, hand, spc>>
    /\ UNCHANGED <<lotus, missed, proc, appl, safe, paths, genesisVars, database>>

-----------------------------------------------------------------------------
(* run_syncer: the safe tipset. *)

SafeDone == spc' = "idle" /\ hand' = NoTipset

(* handle_first_safe_tipset *)
FirstStore ==
    /\ proc = "up" /\ spc = "first_store"
    /\ \/ /\ data' = Stored({hand})
          /\ spc' = "push_path" /\ UNCHANGED <<hand, counters>>
       \/ /\ Fail /\ SafeDone /\ UNCHANGED data
    /\ UNCHANGED <<environment, proc, cache, last, appl, safe, paths, genesisVars,
                   docs, sent>>

(* The head of the loop of sync_to_genesis, entered with child = t. *)
Walk(t) ==
    /\ child' = t
    /\ gpc' = IF t = Genesis THEN "send_nil" ELSE "insert"

(* task_sync_to_genesis: push_new_path, whose error is ignored, and the    *)
(* goroutine is started.                                                   *)
PushPath ==
    /\ proc = "up" /\ spc = "push_path"
    /\ paths' = <<NewPath(hand)>> \o paths
    /\ \/ docs' = models_upsert(docs, NewPath(hand)) /\ UNCHANGED counters
       \/ Fail /\ UNCHANGED docs
    /\ safe' = "second"
    /\ SafeDone
    /\ Walk(hand)
    /\ UNCHANGED <<environment, proc, cache, last, appl, parent, batch, merged,
                   data, sent>>

(* handle_secod_safe_tipset: in memory, into "synced_tipset", to the miner *)
(* handler, and into the data collections, in that order.  A tipset that   *)
(* is not the head's child is dropped without a word.                      *)
InsertHead ==
    /\ proc = "up" /\ spc = "insert"
    /\ IF IsHeadChild(paths, hand)
       THEN /\ paths' = insert_head_child(paths, hand)
            /\ spc' = "persist" /\ UNCHANGED hand
       ELSE SafeDone /\ UNCHANGED paths
    /\ UNCHANGED <<environment, counters, proc, cache, last, appl, safe,
                   genesisVars, database>>

(* Mutant: the miners of the tipset are not sent. *)
PersistHeadOnly ==
    /\ proc = "up" /\ spc = "persist"
    /\ docs' = models_upsert(docs, paths[1])
    /\ paths' = refresh_front(paths)
    /\ spc' = "store"
    /\ UNCHANGED <<environment, counters, proc, cache, last, appl, safe, hand,
                   genesisVars, data, sent>>

PersistHead ==
    /\ proc = "up" /\ spc = "persist"
    /\ \/ /\ docs' = models_upsert(docs, paths[1])
          /\ paths' = refresh_front(paths)
          /\ spc' = "send" /\ UNCHANGED <<hand, counters>>
       \/ /\ Fail /\ SafeDone /\ UNCHANGED <<docs, paths>>
    /\ UNCHANGED <<environment, proc, cache, last, appl, safe, genesisVars,
                   data, sent>>

SendHead ==
    /\ proc = "up" /\ spc = "send"
    /\ sent' = sent \cup {hand}
    /\ spc' = "store"
    /\ UNCHANGED <<environment, counters, proc, cache, last, appl, safe, hand,
                   paths, genesisVars, docs, data>>

StoreHead ==
    /\ proc = "up" /\ spc = "store"
    /\ \/ data' = Stored({hand}) /\ UNCHANGED counters
       \/ Fail /\ UNCHANGED data
    /\ SafeDone
    /\ UNCHANGED <<environment, proc, cache, last, appl, safe, paths,
                   genesisVars, docs, sent>>

-----------------------------------------------------------------------------
(* sync_to_genesis.  Any error ends the goroutine for good. *)

Exit == Fail /\ gpc' = "exit"

(* ChainGetTipSet(child.Parents()) and insert_tail_parent *)
InsertTail ==
    /\ proc = "up" /\ gpc = "insert"
    /\ \/ /\ parent' = Parent[child]
          /\ IF IsTailParent(paths, parent')
             THEN /\ paths' = insert_tail_parent(paths, parent')
                  /\ gpc' = "build"
             ELSE gpc' = "impossible" /\ UNCHANGED paths
          /\ UNCHANGED counters
       \/ Exit /\ UNCHANGED <<parent, paths>>
    /\ UNCHANGED <<environment, proc, syncerVars, child, batch, merged, database>>

(* Mutant: what is left in the batch at genesis is not flushed. *)
BuildFullBatches ==
    /\ proc = "up" /\ gpc = "build"
    /\ LET merge == try_merge_front_with_next(paths)
       IN  /\ batch' = Append(batch, parent)
           /\ paths' = merge.paths
           /\ merged' = merge.merged
           /\ IF Len(batch') >= BatchSize \/ merge.merged # NoPath
              THEN gpc' = "send" /\ UNCHANGED child
              ELSE Walk(parent)
    /\ UNCHANGED <<environment, counters, proc, syncerVars, parent, database>>

(* build_persistence_data, append, try_merge_front_with_next *)
BuildAndMerge ==
    /\ proc = "up" /\ gpc = "build"
    /\ \/ LET merge == try_merge_front_with_next(paths)
          IN  /\ batch' = Append(batch, parent)
              /\ paths' = merge.paths
              /\ merged' = merge.merged
              /\ IF \/ Len(batch') >= BatchSize
                    \/ merge.merged # NoPath
                    \/ parent = Genesis
                 THEN gpc' = "send" /\ UNCHANGED child
                 ELSE Walk(parent)
              /\ UNCHANGED counters
       \/ Exit /\ UNCHANGED <<batch, paths, merged, child>>
    /\ UNCHANGED <<environment, proc, syncerVars, parent, database>>

SendBatch ==
    /\ proc = "up" /\ gpc = "send"
    /\ sent' = sent \cup Range_(batch)
    /\ gpc' = "store"
    /\ UNCHANGED <<environment, counters, proc, syncerVars, paths, child, parent,
                   batch, merged, docs, data>>

(* Mutant: the first tipset of a batch is skipped. *)
StoreTailOfBatch ==
    /\ proc = "up" /\ gpc = "store"
    /\ data' = Stored(Range_(Tail(batch))) /\ gpc' = "persist"
    /\ UNCHANGED <<environment, counters, proc, syncerVars, paths, child, parent,
                   batch, merged, docs, sent>>

StoreBatch ==
    /\ proc = "up" /\ gpc = "store"
    /\ \/ data' = Stored(Range_(batch)) /\ gpc' = "persist" /\ UNCHANGED counters
       \/ Exit /\ UNCHANGED data
    /\ UNCHANGED <<environment, proc, syncerVars, paths, child, parent, batch,
                   merged, docs, sent>>

PersistTail ==
    /\ proc = "up" /\ gpc = "persist"
    /\ \/ /\ docs' = models_upsert(docs, paths[1])
          /\ paths' = refresh_front(paths)
          /\ IF merged # NoPath
             THEN gpc' = "delete" /\ UNCHANGED <<child, batch>>
             ELSE batch' = <<>> /\ Walk(parent)
          /\ UNCHANGED counters
       \/ Exit /\ UNCHANGED <<docs, paths, child, batch>>
    /\ UNCHANGED <<environment, proc, syncerVars, parent, merged, data, sent>>

(* merged_path.models_del *)
DeleteMerged ==
    /\ proc = "up" /\ gpc = "delete"
    /\ \/ /\ Found(docs, merged.selc) # {}
          /\ docs' = models_del(docs, merged.selc)
          /\ gpc' = "reload" /\ UNCHANGED counters
       \/ /\ Found(docs, merged.selc) = {}        \* mgo.ErrNotFound
          /\ gpc' = "exit" /\ UNCHANGED <<docs, counters>>
       \/ Exit /\ UNCHANGED docs
    /\ UNCHANGED <<environment, proc, syncerVars, paths, child, parent, batch,
                   merged, data, sent>>

(* Mutant: the walk goes on where it was. *)
ReloadNothing ==
    /\ proc = "up" /\ gpc = "reload"
    /\ batch' = <<>> /\ merged' = NoPath
    /\ Walk(parent)
    /\ UNCHANGED <<environment, counters, proc, syncerVars, parent, paths, database>>

(* api_tipset(front_tail().Key): the walk goes on below the merged path. *)
ReloadTail ==
    /\ proc = "up" /\ gpc = "reload"
    /\ \/ /\ parent' = paths[1].tail
          /\ batch' = <<>> /\ merged' = NoPath
          /\ Walk(parent')
          /\ UNCHANGED counters
       \/ Exit /\ UNCHANGED <<parent, batch, merged, child>>
    /\ UNCHANGED <<environment, proc, syncerVars, paths, database>>

(* tipset_miner_messages_notifer <- nil *)
SendNil ==
    /\ proc = "up" /\ gpc = "send_nil"
    /\ gpc' = "done"
    /\ UNCHANGED <<environment, counters, proc, syncerVars, paths, child, parent,
                   batch, merged, database>>

-----------------------------------------------------------------------------
(* The process. *)

(* Filscaner.Init: models_load, then the cache and the handlers are new.   *)
Start ==
    /\ proc \notin {"up", "loading"} /\ starts < MaxStarts
    /\ starts' = starts + 1
    /\ \E order \in LoadOrders(docs) :
        LET loaded == LoadedPaths(docs, order)
        IN  IF CanMergeFront(loaded)
            THEN Volatile("loading", loaded[2]) /\ paths' = <<>>
            ELSE Volatile("up", NoPath) /\ paths' = loaded
    /\ UNCHANGED <<lotus, missed, fails, database>>

(* The merge loop of models_load has no post statement: once two paths     *)
(* merge it removes the same range again and again until Remove finds      *)
(* nothing and models_load returns the error, which makes main panic.      *)
LoadDelete ==
    /\ proc = "loading"
    /\ \/ /\ Found(docs, merged.selc) # {}
          /\ docs' = models_del(docs, merged.selc)
          /\ UNCHANGED <<proc, notifs, syncerVars, genesisVars>>
       \/ /\ Found(docs, merged.selc) = {}
          /\ Volatile("panicked", NoPath) /\ UNCHANGED docs
    /\ UNCHANGED <<lotus, missed, counters, paths, data, sent>>

(* The process dies: killed, or by a nil dereference such as the one of    *)
(* display_notifi_ when ChainGetTipSet fails.  A crash nobody recovers     *)
(* from is not looked at, so the last start does not crash.                *)
Crash ==
    /\ proc \in {"up", "loading"} /\ starts < MaxStarts
    /\ Volatile("down", NoPath)
    /\ paths' = <<>>
    /\ UNCHANGED <<lotus, missed, counters, database>>

Syncer == \/ FirstAppl \/ FallThrough \/ SecondAppl
          \/ FirstStore \/ PushPath
          \/ InsertHead \/ PersistHead \/ SendHead \/ StoreHead

SyncToGenesis == \/ InsertTail \/ BuildAndMerge \/ SendBatch \/ StoreBatch
                 \/ PersistTail \/ DeleteMerged \/ ReloadTail \/ SendNil

Next == \/ HeadMoves \/ ChannelReopens
        \/ Syncer \/ SyncToGenesis
        \/ Start \/ LoadDelete \/ Crash

Spec == Init /\ [][Next]_vars

(* Both goroutines are scheduled: a step one of them can take is taken.    *)
FairSpec == Spec /\ WF_vars(Syncer) /\ WF_vars(SyncToGenesis)

-----------------------------------------------------------------------------
(* Properties. *)

(* Tipsets some goroutine holds between claiming and storing them. *)
HeadInFlight == IF spc \in {"persist", "send", "store"} THEN {hand} ELSE {}

InFlight ==
    HeadInFlight \cup Range_(batch) \cup (IF gpc = "build" THEN {parent} ELSE {})

(* The tipsets a document of "synced_tipset" says are stored. *)
Claimed(d) == {t \in Ancestry[d.head] : Height[t] >= Height[d.tail]}

(* The cache is a piece of one branch, whatever the head reverts, whatever *)
(* notification is lost and whichever call fails: each tipset in it is the *)
(* parent of the one before.  (push_front's removal loop, push_back)       *)
CacheIsChain ==
    \A i \in 1..(Len(cache) - 1) : Parent[cache[i]] = cache[i + 1]

(* "error, sync to genesis, isn't a parents(%d), it's impossible": the     *)
(* error sync_to_genesis says cannot happen does not happen, although      *)
(* run_syncer moves the same front path meanwhile and merges replace its   *)
(* tail.  (fs_syncer.go, insert_tail_parent)                               *)
NeverImpossible == gpc # "impossible"

(* A tipset leaving the cache continues the front path, or is stored       *)
(* already.  One that does neither would be dropped without a word, and    *)
(* with it every later one: the head of the path could not move again.     *)
(* (handle_secod_safe_tipset)                                              *)
NoSafeTipsetLost ==
    spc = "insert" => IsHeadChild(paths, hand) \/ hand \in data

(* Whatever "synced_tipset" claims is in the collections or in the hands   *)
(* of a goroutine about to put it there; also when run_syncer persists the *)
(* path while sync_to_genesis has a batch that is not flushed yet.         *)
ClaimedIsStoredOrInFlight ==
    \A d \in Range_(docs) : Claimed(d) \subseteq data \cup InFlight

(* The miners of every stored tipset were handed to the miner handler, but *)
(* for the first safe tipset of each run, which handle_first_safe_tipset   *)
(* stores without sending them.                                            *)
MinersSentBeforeStored == Cardinality(data \ sent) <= starts

(* The paths of the list are ordered, the newest first. *)
InOrder ==
    \A i, j \in 1..Len(paths) : i <= j =>
        /\ Height[paths[i].head] >= Height[paths[j].head]
        /\ Height[paths[i].tail] >= Height[paths[j].tail]

(* While the program runs, the front path of an ordered list only widens:  *)
(* its head never goes down and its tail never goes up, whichever          *)
(* goroutine moves it and whichever older path it swallows.  The order     *)
(* matters: models_load does not establish it, and try_merge_with takes    *)
(* the tail of a path that lies inside the front one.                      *)
FrontOnlyWidens ==
    [][ /\ gpc # "off" /\ proc' = "up" /\ InOrder
        => /\ Height[paths'[1].head] >= Height[paths[1].head]
           /\ Height[paths'[1].tail] <= Height[paths[1].tail] ]_vars

(* Once the first safe tipset has started it, the walk reaches genesis. *)
WalkReachesGenesis == safe = "second" ~> gpc = "done"

(* The two goroutines together index the chain: between them they store    *)
(* one range that grows at both ends by one tipset at a time, never goes   *)
(* on at the top before the last one is stored, and when the walk has      *)
(* ended at genesis neither a batch, nor a merge, nor the growth at the    *)
(* top has left a hole.  The first tipset counts when it is stored, since  *)
(* its path is pushed after that.  (handle_first_safe_tipset,              *)
(* handle_secod_safe_tipset, sync_to_genesis)                              *)
responsible ==
    IF spc = "push_path" THEN {hand}
    ELSE IF paths = <<>> THEN {} ELSE Claimed(paths[1])

Index == INSTANCE ChainIndex
         WITH range <- responsible, stored <- data,
              complete <- gpc \in {"send_nil", "done"}

ImplementsIndex == Index!Spec

(* The collection "synced_tipset" is what a restart loads as "tipset       *)
(* synced status": whatever a path in it covers is stored.                 *)
LoadedPathsAreStored ==
    proc = "down" => \A d \in Range_(docs) : Claimed(d) \subseteq data
=============================================================================
