----------------------------- MODULE SyncedPath -----------------------------
(***************************************************************************)
(* filscaner/fs_sync_models.go: the list of chain ranges the explorer has  *)
(* synced, and the collection "synced_tipset" that keeps it over restarts. *)
(*                                                                         *)
(* A path is [head, tail, selc]: the newest and the oldest tipset of the   *)
(* range, and the heights under which the collection holds it.  A          *)
(* fs_synced_tipset {Key, ParentKey, Height} is the tipset itself.         *)
(* Path_list is a sequence, its Front() first.  The collection is a        *)
(* sequence of documents [head, tail] in the order a scan finds them.      *)
(* Every operation runs under the list's mutex.                            *)
(***************************************************************************)
EXTENDS Chain, Sequences

CONSTANTS
    NoPath,     \* Go's nil *fs_synced_tipset_path
    LoadLimit   \* Limit(20) of models_load

ASSUME LoadLimitAssumption == LoadLimit \in Nat \ {0}

Range_(s) == {s[i] : i \in 1..Len(s)}

Doc == [head : Tipset, tail : Tipset]
Selector == [head : Nat, tail : Nat]
Path == [head : Tipset, tail : Tipset, selc : Selector]

ASSUME NoPathAssumption == NoPath \notin Path

(* {"head.height": ..., "tail.height": ...} of a path or of a document. *)
SelectorOf(p) == [head |-> Height[p.head], tail |-> Height[p.tail]]

refresh_selc(p) == [p EXCEPT !.selc = SelectorOf(p)]

NewPath(t) ==
    [head |-> t, tail |-> t, selc |-> [head |-> Height[t], tail |-> Height[t]]]

ToDoc(p) == [head |-> p.head, tail |-> p.tail]
ToPath(d) == [head |-> d.head, tail |-> d.tail, selc |-> SelectorOf(d)]

(***************************************************************************)
(* The collection.  Upsert replaces the first document the selector finds  *)
(* and inserts when there is none; Remove takes away one document, and     *)
(* fails with ErrNotFound when there is none.                              *)
(***************************************************************************)
Found(docs, selc) == {i \in 1..Len(docs) : SelectorOf(docs[i]) = selc}

IsFirst(i, found) == i \in found /\ \A j \in found : i <= j

models_upsert(docs, p) ==
    LET found == Found(docs, p.selc)
    IN  IF found = {}
        THEN Append(docs, ToDoc(p))
        ELSE [docs EXCEPT ![CHOOSE i \in found : IsFirst(i, found)] = ToDoc(p)]

(* Remove of a selector some document matches. *)
models_del(docs, selc) ==
    LET found == Found(docs, selc)
        gone  == CHOOSE i \in found : IsFirst(i, found)
    IN  [i \in 1..(Len(docs) - 1) |-> IF i < gone THEN docs[i] ELSE docs[i + 1]]

(***************************************************************************)
(* The list.  Both inserts change the front path only; the boolean they    *)
(* return is the guard beside them.                                        *)
(***************************************************************************)
(* Mutant: null rounds are forgotten. *)
IsNextHeight(paths, t) == paths = <<>> \/ Height[t] = Height[paths[1].head] + 1

IsHeadChild(paths, t) == paths = <<>> \/ Parent[t] = paths[1].head

insert_head_child(paths, t) ==
    IF paths = <<>> THEN <<NewPath(t)>> ELSE [paths EXCEPT ![1].head = t]

(* Mutant: the parent of the wrong end. *)
IsHeadParent(paths, t) == paths = <<>> \/ Parent[paths[1].head] = t

IsTailParent(paths, t) == paths = <<>> \/ Parent[paths[1].tail] = t

insert_tail_parent(paths, t) ==
    IF paths = <<>> THEN <<NewPath(t)>> ELSE [paths EXCEPT ![1].tail = t]

(* upper reaches down to lower: its tail sits on lower's head, or no higher *)
Touches(upper, lower) ==
    \/ Parent[upper.tail] = lower.head
    \/ Height[upper.tail] <= Height[lower.head]

(* try_merge_with: whether self takes fstp in, and what self becomes. *)
Mergeable(self, fstp) ==
    \/ Height[self.head] > Height[fstp.head] /\ Touches(self, fstp)
    \/ Height[self.head] < Height[fstp.head] /\ Touches(fstp, self)
    \/ Height[self.head] = Height[fstp.head]

(* Mutant: the comparison of the heads is the wrong way round. *)
MergeReversed(self, fstp) ==
    IF Height[self.head] < Height[fstp.head]
    THEN [self EXCEPT !.tail = fstp.tail]
    ELSE [self EXCEPT !.head = fstp.head]

try_merge_with(self, fstp) ==
    IF Height[self.head] > Height[fstp.head]
    THEN [self EXCEPT !.tail = fstp.tail]
    ELSE IF Height[self.head] < Height[fstp.head]
    THEN [self EXCEPT !.head = fstp.head]
    ELSE IF Height[fstp.tail] < Height[self.tail]
    THEN [self EXCEPT !.tail = fstp.tail]
    ELSE self

(* try_merge_front_with_next: the list it leaves, and the path it removed. *)
CanMergeFront(paths) == Len(paths) >= 2 /\ Mergeable(paths[1], paths[2])

try_merge_front_with_next(paths) ==
    IF CanMergeFront(paths)
    THEN [paths  |-> <<try_merge_with(paths[1], paths[2])>> \o SubSeq(paths, 3, Len(paths)),
          merged |-> paths[2]]
    ELSE [paths |-> paths, merged |-> NoPath]

refresh_front(paths) == [paths EXCEPT ![1] = refresh_selc(@)]

(***************************************************************************)
(* models_load.  The query sorts by "head.tipset_height", a field no       *)
(* document has, so the order is the server's choice.                      *)
(***************************************************************************)
LoadOrders(docs) ==
    LET size == IF Len(docs) > LoadLimit THEN LoadLimit ELSE Len(docs)
    IN  {f \in [1..size -> 1..Len(docs)] :
            \A i, j \in 1..size : f[i] = f[j] => i = j}

LoadedPaths(docs, order) == [i \in DOMAIN order |-> ToPath(docs[order[i]])]
=============================================================================
