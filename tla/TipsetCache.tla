---------------------------- MODULE TipsetCache ----------------------------
(***************************************************************************)
(* filscaner/fs_tipset_cache.go: the list of tipsets in front of the chain *)
(* head that are not confirmed yet.  A cache is a sequence, newest first,  *)
(* so that cache[1] is list.Front() and cache[Len(cache)] is list.Back().  *)
(* Every operation runs under fsc.mutx, so each is one function of the     *)
(* list.                                                                   *)
(***************************************************************************)
EXTENDS Chain, Sequences

CONSTANT MaxSize    \* tipset_cache_size of conf/app.conf

ASSUME MaxSizeAssumption == MaxSize \in Nat

full(cache) == Len(cache) >= MaxSize

(* push_back: the older neighbour, unless it is the back already. *)
push_back(cache, in) ==
    IF cache # <<>> /\ cache[Len(cache)] = in THEN cache ELSE Append(cache, in)

(* Mutant: a reorganisation does not clear the cache. *)
TrunkOrAll(cache, in) ==
    IF \E i \in 1..Len(cache) : cache[i] = Parent[in]
    THEN SubSeq(cache, CHOOSE i \in 1..Len(cache) : cache[i] = Parent[in], Len(cache))
    ELSE cache

(* What is left of the cache once every tipset above in's parent has been  *)
(* taken off the front; nothing at all when the parent is not cached.      *)
Trunk(cache, in) ==
    IF \E i \in 1..Len(cache) : cache[i] = Parent[in]
    THEN LET first == CHOOSE i \in 1..Len(cache) :
                         /\ cache[i] = Parent[in]
                         /\ \A j \in 1..(i - 1) : cache[j] # Parent[in]
         IN  SubSeq(cache, first, Len(cache))
    ELSE <<>>

(* The list right after PushFront. *)
Grown(cache, in) == <<in>> \o Trunk(cache, in)

IsFront(cache, in) == cache # <<>> /\ cache[1] = in

(* push_front as a pair: the list it leaves, and the block message it      *)
(* returns because the list was over max_size, nil otherwise.              *)
push_front(cache, in) ==
    LET grown == Grown(cache, in)
    IN  IF IsFront(cache, in)
        THEN [cache |-> cache, evicted |-> NoTipset]
        ELSE IF Len(grown) > MaxSize
             THEN [cache |-> SubSeq(grown, 1, Len(grown) - 1),
                   evicted |-> grown[Len(grown)]]
             ELSE [cache |-> grown, evicted |-> NoTipset]
=============================================================================
