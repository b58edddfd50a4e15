-------------------------- MODULE ChainSync_proofs --------------------------
(***************************************************************************)
(* Theorems about ChainSync, for every tree of tipsets, every size of the  *)
(* cache and of the batches, and any number of reorgs, lost notifications, *)
(* failing calls, crashes and restarts.                                    *)
(***************************************************************************)
EXTENDS ChainSync, FiniteSetTheorems, SequenceTheorems, WellFoundedInduction,
        TLAPS

-----------------------------------------------------------------------------
(* Facts about sequences and numbers. *)

(* A function over 1..n is a sequence. *)
LEMMA IntervalSeq ==
    ASSUME NEW S, NEW n \in Nat, NEW f \in [1..n -> S]
    PROVE  f \in Seq(S)
BY SeqDef

(* A set of numbers that is not empty has a least one: the first index at  *)
(* which the removal loop of push_front stops.                             *)
LEMMA FirstOfNats ==
    ASSUME NEW S \in SUBSET Nat, S # {}
    PROVE  \E i \in S : \A j \in S : i <= j
<1>1. PICK i \in S : \A j \in S : <<j, i>> \notin OpToRel(<, Nat)
  BY NatLessThanWellFounded, WFMin
<1>2. \A j \in S : i \in Nat /\ j \in Nat /\ ~(j < i)
  BY <1>1 DEF OpToRel
<1>3. \A j \in S : i <= j
  BY <1>2
<1>4. QED
  BY <1>3


-----------------------------------------------------------------------------
(* What the operations of SyncedPath return, for every list of paths and   *)
(* every collection.                                                       *)

LEMMA SelectorType ==
    ASSUME NEW p, p.head \in Tipset, p.tail \in Tipset
    PROVE  SelectorOf(p) \in Selector
BY ChainAssumption DEF SelectorOf, Selector

LEMMA NewPathType ==
    ASSUME NEW t \in Tipset
    PROVE  NewPath(t) \in Path
BY ChainAssumption DEF NewPath, Path, Selector

LEMMA ToDocType ==
    ASSUME NEW p \in Path
    PROVE  ToDoc(p) \in Doc
BY DEF ToDoc, Path, Doc

LEMMA ToPathType ==
    ASSUME NEW d \in Doc
    PROVE  ToPath(d) \in Path
BY ChainAssumption DEF ToPath, SelectorOf, Doc, Path, Selector

(* Upsert leaves documents. *)
LEMMA UpsertType ==
    ASSUME NEW ds \in Seq(Doc), NEW p \in Path
    PROVE  models_upsert(ds, p) \in Seq(Doc)
<1> DEFINE found == Found(ds, p.selc)
           first == CHOOSE i \in found : IsFirst(i, found)
<1>1. ToDoc(p) \in Doc
  BY ToDocType
<1>2. CASE found = {}
  BY <1>1, <1>2, AppendProperties DEF models_upsert
<1>3. CASE found # {}
  <2>1. models_upsert(ds, p) = [ds EXCEPT ![first] = ToDoc(p)]
    BY <1>3 DEF models_upsert
  <2>2. ds \in [1..Len(ds) -> Doc] /\ Len(ds) \in Nat
    BY LenProperties
  <2> HIDE DEF first
  <2>3. [ds EXCEPT ![first] = ToDoc(p)] \in [1..Len(ds) -> Doc]
    BY <1>1, <2>2
  <2>4. QED
    BY <2>1, <2>2, <2>3, IntervalSeq
<1>4. QED
  BY <1>2, <1>3

(* Remove of a document that is there leaves documents. *)
LEMMA DelType ==
    ASSUME NEW ds \in Seq(Doc), NEW selc, Found(ds, selc) # {}
    PROVE  models_del(ds, selc) \in Seq(Doc)
<1> DEFINE gone == CHOOSE i \in Found(ds, selc) : IsFirst(i, Found(ds, selc))
<1>1. Len(ds) - 1 \in Nat
  BY DEF Found
<1>2. \A i \in 1..(Len(ds) - 1) : (IF i < gone THEN ds[i] ELSE ds[i + 1]) \in Doc
  <2> TAKE i \in 1..(Len(ds) - 1)
  <2>1. i \in 1..Len(ds) /\ i + 1 \in 1..Len(ds)
    BY <1>1
  <2>2. ds[i] \in Doc /\ ds[i + 1] \in Doc
    BY <2>1, ElementOfSeq
  <2>3. QED
    BY <2>2
<1>3. models_del(ds, selc) \in [1..(Len(ds) - 1) -> Doc]
  BY <1>2 DEF models_del
<1>4. QED
  BY <1>1, <1>3, IntervalSeq

(* models_load leaves paths, in whatever order it meets the documents. *)
LEMMA LoadedType ==
    ASSUME NEW ds \in Seq(Doc), NEW order \in LoadOrders(ds)
    PROVE  LoadedPaths(ds, order) \in Seq(Path)
<1> DEFINE size == IF Len(ds) > LoadLimit THEN LoadLimit ELSE Len(ds)
<1>1. size \in Nat /\ order \in [1..size -> 1..Len(ds)]
  BY LoadLimitAssumption DEF LoadOrders
<1>2. \A i \in 1..size : ToPath(ds[order[i]]) \in Path
  <2> TAKE i \in 1..size
  <2>1. ds[order[i]] \in Doc
    BY <1>1, ElementOfSeq
  <2>2. QED
    BY <2>1, ToPathType
<1> HIDE DEF size
<1>3. LoadedPaths(ds, order) \in [1..size -> Path]
  BY <1>1, <1>2 DEF LoadedPaths
<1>4. QED
  BY <1>1, <1>3, IntervalSeq

(* A list that is not empty has a front path. *)
LEMMA FrontPath ==
    ASSUME NEW ps \in Seq(Path), ps # <<>>
    PROVE  /\ 1 \in 1..Len(ps) /\ ps[1] \in Path
           /\ ps[1].head \in Tipset /\ ps[1].tail \in Tipset
<1>1. 1 \in 1..Len(ps)
  BY EmptySeq
<1>2. ps[1] \in Path
  BY <1>1, ElementOfSeq
<1>3. QED
  BY <1>1, <1>2 DEF Path

(* A change of the front path leaves the others alone. *)
LEMMA FrontExcept ==
    ASSUME NEW ps \in Seq(Path), ps # <<>>, NEW p \in Path
    PROVE  /\ [ps EXCEPT ![1] = p] \in Seq(Path)
           /\ [ps EXCEPT ![1] = p] # <<>>
           /\ [ps EXCEPT ![1] = p][1] = p
<1>1. 1 \in 1..Len(ps)
  BY FrontPath
<1>2. /\ [ps EXCEPT ![1] = p] \in Seq(Path)
      /\ Len([ps EXCEPT ![1] = p]) = Len(ps)
      /\ [ps EXCEPT ![1] = p][1] = p
  BY <1>1, ExceptSeq
<1>3. QED
  BY <1>1, <1>2, EmptySeq

-----------------------------------------------------------------------------
(* push_back and push_front keep the cache a piece of one branch, for      *)
(* every tree of tipsets and every size of the cache.                      *)

(* Each tipset is the parent of the one before it. *)
IsBranch(s) == \A i \in 1..(Len(s) - 1) : Parent[s[i]] = s[i + 1]

LEMMA PushBackBranch ==
    ASSUME NEW c \in Seq(Tipset), NEW t \in Tipset, IsBranch(c),
           c # <<>> => Parent[c[Len(c)]] = t
    PROVE  /\ push_back(c, t) \in Seq(Tipset)
           /\ IsBranch(push_back(c, t))
           /\ push_back(c, t) # <<>>
           /\ push_back(c, t)[Len(push_back(c, t))] = t
<1>1. CASE c # <<>> /\ c[Len(c)] = t
  BY <1>1 DEF push_back
<1>2. CASE ~(c # <<>> /\ c[Len(c)] = t)
  <2> DEFINE a == Append(c, t)
  <2>1. /\ push_back(c, t) = a
        /\ a \in Seq(Tipset) /\ a # <<>> /\ Len(a) = Len(c) + 1
        /\ \A i \in 1..Len(c) : a[i] = c[i]
        /\ a[Len(c) + 1] = t
    BY <1>2, AppendProperties DEF push_back
  <2> HIDE DEF a
  <2>2. ASSUME NEW i \in 1..(Len(a) - 1) PROVE Parent[a[i]] = a[i + 1]
    <3>1. i \in 1..Len(c) /\ a[i] = c[i] /\ c # <<>>
      BY <2>1, LenProperties, EmptySeq
    <3>2. CASE i < Len(c)
      BY <2>1, <3>1, <3>2, LenProperties DEF IsBranch
    <3>3. CASE i = Len(c)
      BY <2>1, <3>1, <3>3
    <3>4. QED
      BY <3>1, <3>2, <3>3, LenProperties
  <2>3. QED
    BY <2>1, <2>2 DEF IsBranch
<1>3. QED
  BY <1>1, <1>2

LEMMA SubSeqBranch ==
    ASSUME NEW c \in Seq(Tipset), IsBranch(c), NEW m \in 1..Len(c),
           NEW n \in 0..Len(c)
    PROVE  /\ SubSeq(c, m, n) \in Seq(Tipset)
           /\ IsBranch(SubSeq(c, m, n))
           /\ m <= n => SubSeq(c, m, n) # <<>> /\ SubSeq(c, m, n)[1] = c[m]
<1> DEFINE s == SubSeq(c, m, n)
<1>1. Len(c) \in Nat /\ m \in Int /\ n \in Int
  BY LenProperties
<1>2. \A i \in m..n : c[i] \in Tipset
  BY <1>1, ElementOfSeq
<1>3. /\ s \in Seq(Tipset)
      /\ Len(s) = IF m <= n THEN n - m + 1 ELSE 0
      /\ \A i \in 1..(n - m + 1) : s[i] = c[m + i - 1]
  BY <1>1, <1>2, SubSeqProperties
<1> HIDE DEF s
<1>4. ASSUME NEW i \in 1..(Len(s) - 1) PROVE Parent[s[i]] = s[i + 1]
  <2>0. i \in 1..(n - m + 1) /\ i + 1 \in 1..(n - m + 1) /\ m + (i + 1) - 1 = m + i
    BY <1>1, <1>3
  <2>1. s[i] = c[m + i - 1] /\ s[i + 1] = c[m + i]
    BY <1>3, <2>0
  <2>2. PICK j : j = m + i - 1
    OBVIOUS
  <2>3. j \in 1..(Len(c) - 1) /\ j + 1 = m + i
    BY <1>1, <1>3, <2>2
  <2>4. Parent[c[j]] = c[j + 1]
    BY <2>3 DEF IsBranch
  <2>5. QED
    BY <2>1, <2>2, <2>3, <2>4
<1>5. m <= n => s # <<>> /\ s[1] = c[m]
  BY <1>1, <1>3, EmptySeq
<1>6. QED
  BY <1>3, <1>4, <1>5 DEF IsBranch, s

LEMMA GrownBranch ==
    ASSUME NEW c \in Seq(Tipset), NEW t \in Tipset, IsBranch(c)
    PROVE  /\ Grown(c, t) \in Seq(Tipset)
           /\ Grown(c, t) # <<>>
           /\ IsBranch(Grown(c, t))
<1> DEFINE trunk == Trunk(c, t)
           grown == Grown(c, t)
<1>1. /\ trunk \in Seq(Tipset) /\ IsBranch(trunk)
      /\ trunk # <<>> => trunk[1] = Parent[t]
  <2> DEFINE first == CHOOSE i \in 1..Len(c) :
                       c[i] = Parent[t] /\ \A j \in 1..(i - 1) : c[j] # Parent[t]
  <2>1. CASE \E i \in 1..Len(c) : c[i] = Parent[t]
    <3>1. \E i \in 1..Len(c) : c[i] = Parent[t] /\ \A j \in 1..(i - 1) : c[j] # Parent[t]
      <4> DEFINE At == {i \in 1..Len(c) : c[i] = Parent[t]}
      <4>1. At \in SUBSET Nat /\ At # {}
        BY <2>1, LenProperties
      <4>2. PICK i \in At : \A j \in At : i <= j
        BY <4>1, FirstOfNats
      <4>3. QED
        BY <4>2, LenProperties
    <3>2. first \in 1..Len(c) /\ c[first] = Parent[t]
      BY <3>1
    <3>3. trunk = SubSeq(c, first, Len(c))
      BY <2>1 DEF Trunk
    <3> HIDE DEF first
    <3>4. first <= Len(c) /\ Len(c) \in 0..Len(c)
      BY <3>2, LenProperties
    <3>5. QED
      BY <3>2, <3>3, <3>4, SubSeqBranch
  <2>2. CASE ~\E i \in 1..Len(c) : c[i] = Parent[t]
    <3>1. trunk = <<>>
      BY <2>2 DEF Trunk
    <3>2. QED
      BY <3>1, EmptySeq DEF IsBranch
  <2>3. QED
    BY <2>1, <2>2
<1>2. <<t>> \in Seq(Tipset) /\ Len(<<t>>) = 1 /\ <<t>>[1] = t
  OBVIOUS
<1>3. grown = <<t>> \o trunk
  BY DEF Grown
<1> HIDE DEF trunk, grown
<1>4. /\ grown \in Seq(Tipset)
      /\ Len(grown) = 1 + Len(trunk)
      /\ \A i \in 1..(1 + Len(trunk)) :
            grown[i] = IF i <= 1 THEN t ELSE trunk[i - 1]
  BY <1>1, <1>2, <1>3, ConcatProperties
<1>5. ASSUME NEW i \in 1..(Len(grown) - 1) PROVE Parent[grown[i]] = grown[i + 1]
  <2>1. Len(trunk) \in Nat /\ trunk # <<>>
    BY <1>1, <1>4, LenProperties, EmptySeq
  <2>2. CASE i = 1
    BY <1>1, <1>4, <2>1, <2>2
  <2>3. CASE i > 1
    <3>1. i - 1 \in 1..(Len(trunk) - 1)
      BY <1>4, <2>1, <2>3
    <3>2. Parent[trunk[i - 1]] = trunk[(i - 1) + 1]
      BY <1>1, <3>1 DEF IsBranch
    <3>3. QED
      BY <1>4, <2>1, <2>3, <3>2
  <2>4. QED
    BY <2>2, <2>3, <1>4, <2>1
<1>6. grown # <<>>
  BY <1>1, <1>4, LenProperties, EmptySeq
<1>7. QED
  BY <1>4, <1>5, <1>6 DEF IsBranch, grown

LEMMA PushFrontBranch ==
    ASSUME NEW c \in Seq(Tipset), NEW t \in Tipset, IsBranch(c)
    PROVE  /\ push_front(c, t).cache \in Seq(Tipset)
           /\ IsBranch(push_front(c, t).cache)
           /\ push_front(c, t).evicted \in Tipset \cup {NoTipset}
<1> DEFINE grown == Grown(c, t)
<1>1. grown \in Seq(Tipset) /\ grown # <<>> /\ IsBranch(grown)
  BY GrownBranch
<1>2. 1 \in 1..Len(grown) /\ Len(grown) - 1 \in 0..Len(grown) /\ Len(grown) \in 1..Len(grown)
  BY <1>1, EmptySeq
<1>3. CASE IsFront(c, t)
  BY <1>3 DEF push_front
<1>4. CASE ~IsFront(c, t) /\ Len(grown) > MaxSize
  <2>1. push_front(c, t) = [cache |-> SubSeq(grown, 1, Len(grown) - 1),
                            evicted |-> grown[Len(grown)]]
    BY <1>4 DEF push_front
  <2>2. grown[Len(grown)] \in Tipset
    BY <1>1, <1>2, ElementOfSeq
  <2> HIDE DEF grown
  <2>3. QED
    BY <1>1, <1>2, <2>1, <2>2, SubSeqBranch
<1>5. CASE ~IsFront(c, t) /\ ~(Len(grown) > MaxSize)
  BY <1>1, <1>5 DEF push_front
<1>6. QED
  BY <1>3, <1>4, <1>5

-----------------------------------------------------------------------------
(* The invariant. *)

(* Where run_syncer is, and what it then has in its hand. *)
SyncerInv ==
    /\ spc # "idle" => hand \in Tipset
    /\ spc \in {"first_store", "push_path"} => safe = "first"
    /\ spc \in {"insert", "persist", "send", "store"} => safe = "second"
    /\ safe = "second" => paths # <<>>

(* The cache ends where the loop that fills it goes on. *)
CacheInv ==
    /\ IsBranch(cache)
    /\ appl = "first" /\ spc # "fill" => cache = <<>>
    /\ spc = "fill" => appl = "first"
    /\ spc = "fill" /\ cache # <<>> => Parent[cache[Len(cache)]] = hand

(* The tail of the front path is where sync_to_genesis goes on.            *)
(* run_syncer may change the head of that path in the meantime, and a      *)
(* merge may give it another tail: then the walk goes on from that one.    *)
WalkInv ==
    /\ gpc # "off" => safe = "second" /\ proc = "up"
    /\ gpc = "insert" => child \in Tipset \ {Genesis} /\ paths[1].tail = child
    /\ gpc = "build" => parent \in Tipset /\ paths[1].tail = parent
    /\ gpc \in {"send", "store", "persist"} =>
          parent \in Tipset /\ (merged = NoPath => paths[1].tail = parent)
    /\ gpc = "delete" => merged \in Path
    /\ proc = "loading" => merged \in Path
    /\ gpc # "impossible"

SyncInv == TypeOK /\ SyncerInv /\ CacheInv /\ WalkInv

-----------------------------------------------------------------------------
(* The operations on the list of paths. *)

LEMMA TailsOfMerge ==
    ASSUME NEW ps \in Seq(Path), ps # <<>>
    PROVE  LET merge == try_merge_front_with_next(ps)
           IN  /\ merge.paths \in Seq(Path) /\ merge.paths # <<>>
               /\ merge.merged \in Path \cup {NoPath}
               /\ merge.merged = NoPath => merge.paths = ps
<1>1. CASE ~CanMergeFront(ps)
  BY <1>1 DEF try_merge_front_with_next
<1>2. CASE CanMergeFront(ps)
  <2> DEFINE front == try_merge_with(ps[1], ps[2])
             rest == SubSeq(ps, 3, Len(ps))
  <2>1. Len(ps) \in Nat /\ Len(ps) >= 2
    BY <1>2 DEF CanMergeFront
  <2>2. ps[1] \in Path /\ ps[2] \in Path
    BY <2>1, ElementOfSeq
  <2>3. front \in Path
    BY <2>2 DEF try_merge_with, Path
  <2>4. <<front>> \in Seq(Path) /\ Len(<<front>>) = 1
    BY <2>3
  <2>5. rest \in Seq(Path)
    <3>1. \A i \in 3..Len(ps) : ps[i] \in Path
      BY <2>1, ElementOfSeq
    <3>2. QED
      BY <2>1, <3>1, SubSeqProperties
  <2>6. /\ try_merge_front_with_next(ps).paths = <<front>> \o rest
        /\ try_merge_front_with_next(ps).merged = ps[2]
    BY <1>2 DEF try_merge_front_with_next
  <2> HIDE DEF front, rest
  <2>7. <<front>> \o rest \in Seq(Path) /\ Len(<<front>> \o rest) = 1 + Len(rest)
    BY <2>4, <2>5, ConcatProperties
  <2>8. <<front>> \o rest # <<>>
    BY <2>5, <2>7, LenProperties, EmptySeq
  <2>9. QED
    BY <2>2, <2>6, <2>7, <2>8, NoPathAssumption
<1>3. QED
  BY <1>1, <1>2

(* Neither insert empties the list; each moves its end of the front path. *)
LEMMA InsertHeadType ==
    ASSUME NEW ps \in Seq(Path), ps # <<>>, NEW t \in Tipset
    PROVE  /\ insert_head_child(ps, t) \in Seq(Path)
           /\ insert_head_child(ps, t) # <<>>
           /\ insert_head_child(ps, t)[1] = [ps[1] EXCEPT !.head = t]
<1>1. [ps[1] EXCEPT !.head = t] \in Path
  BY FrontPath DEF Path
<1>2. insert_head_child(ps, t) = [ps EXCEPT ![1] = [ps[1] EXCEPT !.head = t]]
  BY DEF insert_head_child
<1>3. QED
  BY <1>1, <1>2, FrontExcept

LEMMA InsertTailType ==
    ASSUME NEW ps \in Seq(Path), ps # <<>>, NEW t \in Tipset
    PROVE  /\ insert_tail_parent(ps, t) \in Seq(Path)
           /\ insert_tail_parent(ps, t) # <<>>
           /\ insert_tail_parent(ps, t)[1] = [ps[1] EXCEPT !.tail = t]
<1>1. [ps[1] EXCEPT !.tail = t] \in Path
  BY FrontPath DEF Path
<1>2. insert_tail_parent(ps, t) = [ps EXCEPT ![1] = [ps[1] EXCEPT !.tail = t]]
  BY DEF insert_tail_parent
<1>3. QED
  BY <1>1, <1>2, FrontExcept

LEMMA RefreshType ==
    ASSUME NEW ps \in Seq(Path), ps # <<>>
    PROVE  /\ refresh_front(ps) \in Seq(Path)
           /\ refresh_front(ps) # <<>>
           /\ refresh_front(ps)[1] = refresh_selc(ps[1])
           /\ refresh_front(ps)[1].head = ps[1].head
           /\ refresh_front(ps)[1].tail = ps[1].tail
<1>1. /\ refresh_selc(ps[1]) \in Path
      /\ refresh_selc(ps[1]).head = ps[1].head
      /\ refresh_selc(ps[1]).tail = ps[1].tail
  <2>1. SelectorOf(ps[1]) \in Selector
    BY FrontPath, SelectorType
  <2>2. QED
    BY <2>1, FrontPath DEF refresh_selc, Path
<1>2. QED
  BY <1>1, FrontExcept DEF refresh_front

LEMMA PushNewType ==
    ASSUME NEW ps \in Seq(Path), NEW t \in Tipset
    PROVE  /\ <<NewPath(t)>> \o ps \in Seq(Path)
           /\ <<NewPath(t)>> \o ps # <<>>
           /\ (<<NewPath(t)>> \o ps)[1] = NewPath(t)
           /\ NewPath(t).head = t /\ NewPath(t).tail = t
<1> DEFINE p == NewPath(t)
<1>1. p \in Path /\ p.head = t /\ p.tail = t
  BY NewPathType DEF NewPath
<1> HIDE DEF p
<1>2. <<p>> \in Seq(Path) /\ Len(<<p>>) = 1 /\ <<p>>[1] = p
  BY <1>1
<1>3. /\ <<p>> \o ps \in Seq(Path) /\ Len(<<p>> \o ps) = 1 + Len(ps)
      /\ (<<p>> \o ps)[1] = p
  BY <1>2, ConcatProperties, LenProperties
<1>4. <<p>> \o ps # <<>>
  BY <1>3, LenProperties, EmptySeq
<1>5. QED
  BY <1>1, <1>3, <1>4 DEF p

-----------------------------------------------------------------------------
(* The invariant holds initially and every step keeps it. *)

USE ChainAssumption

LEMMA SyncInvInit == Init => SyncInv
<1> SUFFICES ASSUME Init PROVE SyncInv
  OBVIOUS
<1> USE DEF Init
<1>1. TypeOK
  <2>1. /\ notifs \in Seq(Tipset \ {Genesis}) /\ cache \in Seq(Tipset)
        /\ paths \in Seq(Path) /\ batch \in Seq(Tipset) /\ docs \in Seq(Doc)
    BY EmptySeq
  <2>2. QED
    BY <2>1, BoundsAssumption DEF TypeOK, SyncerStep, GenesisStep, MaybeTipset
<1>2. CacheInv
  BY EmptySeq DEF CacheInv, IsBranch
<1>3. SyncerInv /\ WalkInv
  BY DEF SyncerInv, WalkInv
<1>4. QED
  BY <1>1, <1>2, <1>3 DEF SyncInv

(* The lotus node only moves its head and queues tipsets. *)
LEMMA LotusStep ==
    ASSUME SyncInv, HeadMoves \/ ChannelReopens
    PROVE  SyncInv'
<1> USE DEF SyncInv
<1>1. lotus' \in Tipset /\ notifs' \in Seq(Tipset \ {Genesis})
  <2>1. ASSUME NEW apply \in Bursts
        PROVE  apply \in Seq(Tipset \ {Genesis}) /\ apply[Len(apply)] \in Tipset
    <3>1. PICK n \in 1..MaxBurst : apply \in [1..n -> Tipset \ {Genesis}]
      BY <2>1 DEF Bursts
    <3>2. n \in Nat /\ n \in 1..n
      BY <3>1, BoundsAssumption
    <3>3. apply \in Seq(Tipset \ {Genesis})
      BY <3>1, <3>2, IntervalSeq
    <3>4. Len(apply) = n
      <4>1. DOMAIN apply = 1..n /\ DOMAIN apply = 1..Len(apply) /\ Len(apply) \in Nat
        BY <3>1, <3>3, LenProperties
      <4>2. n \in 1..Len(apply) /\ Len(apply) \in 1..n
        BY <3>2, <4>1
      <4>3. QED
        BY <3>2, <4>1, <4>2
    <3>5. QED
      BY <3>1, <3>2, <3>3, <3>4
  <2>2. CASE HeadMoves
    <3>1. PICK apply \in Bursts : /\ lotus' = apply[Len(apply)]
                                  /\ notifs' \in {notifs, notifs \o apply}
      BY <2>2 DEF HeadMoves
    <3>2. notifs \in Seq(Tipset \ {Genesis}) /\ apply \in Seq(Tipset \ {Genesis})
      BY <2>1 DEF TypeOK
    <3>3. notifs \o apply \in Seq(Tipset \ {Genesis})
      BY <3>2, ConcatProperties
    <3>4. QED
      BY <2>1, <3>1, <3>2, <3>3
  <2>3. CASE ChannelReopens
    <3>1. PICK apply \in Bursts : lotus' = apply[Len(apply)] /\ notifs' = <<>>
      BY <2>3 DEF ChannelReopens
    <3>2. QED
      BY <2>1, <3>1, EmptySeq
  <2>4. QED
    BY <2>2, <2>3
<1>2. /\ missed' \in Nat
      /\ UNCHANGED <<counters, proc, syncerVars, paths, genesisVars, database>>
  BY DEF HeadMoves, ChannelReopens, TypeOK
<1> USE <1>2 DEF counters, syncerVars, genesisVars, database
<1>3. TypeOK'
  BY <1>1 DEF TypeOK
<1>4. SyncerInv' /\ CacheInv' /\ WalkInv'
  BY DEF SyncerInv, CacheInv, WalkInv, IsBranch
<1>5. QED
  BY <1>3, <1>4

(* A failing call is counted. *)
LEMMA CountersType ==
    ASSUME TypeOK, Fail \/ UNCHANGED counters
    PROVE  fails' \in Nat /\ starts' \in Nat
BY DEF Fail, counters, TypeOK

LEMMA StoredType ==
    ASSUME TypeOK, NEW S \in SUBSET Tipset
    PROVE  Stored(S) \subseteq Tipset
BY DEF Stored, TypeOK

(* run_syncer and its cache. *)
LEMMA FirstApplStep ==
    ASSUME SyncInv, FirstAppl
    PROVE  SyncInv'
<1> USE DEF SyncInv
<1>1. Head(notifs) \in Tipset \ {Genesis} /\ Tail(notifs) \in Seq(Tipset \ {Genesis})
  BY HeadTailProperties DEF FirstAppl, TypeOK
<1>2. /\ last' \in Tipset /\ hand' \in Tipset /\ notifs' \in Seq(Tipset \ {Genesis})
      /\ spc' = "fill" /\ spc = "idle" /\ appl = "first"
      /\ UNCHANGED <<lotus, missed, counters, proc, cache, appl, safe, paths,
                     genesisVars, database>>
  BY <1>1 DEF FirstAppl
<1> USE <1>2 DEF counters, genesisVars, database
<1>3. TypeOK'
  BY DEF TypeOK, MaybeTipset, SyncerStep
<1>4. SyncerInv' /\ CacheInv' /\ WalkInv'
  BY DEF SyncerInv, CacheInv, WalkInv, IsBranch
<1>5. QED
  BY <1>3, <1>4

LEMMA FallThroughStep ==
    ASSUME SyncInv, FallThrough
    PROVE  SyncInv'
<1> USE DEF SyncInv
<1> DEFINE longer == push_back(cache, hand)
<1>1. /\ hand \in Tipset /\ spc = "fill" /\ appl = "first"
      /\ UNCHANGED <<environment, proc, last, safe, paths, genesisVars, database>>
  BY DEF FallThrough, SyncerInv, CacheInv
<1>2. /\ longer \in Seq(Tipset) /\ IsBranch(longer)
      /\ longer # <<>> /\ longer[Len(longer)] = hand
  <2>1. cache \in Seq(Tipset) /\ IsBranch(cache)
        /\ (cache # <<>> => Parent[cache[Len(cache)]] = hand)
    BY <1>1 DEF TypeOK, CacheInv
  <2>2. QED
    BY <1>1, <2>1, PushBackBranch
<1>3. /\ Fail \/ UNCHANGED counters
      /\ cache' \in {cache, longer}
      /\ \/ LeaveFill
         \/ /\ cache' = longer /\ hand # Genesis /\ hand' = Parent[hand]
            /\ UNCHANGED <<appl, spc>>
  BY DEF FallThrough
<1>4. fails' \in Nat /\ starts' \in Nat
  BY <1>3, CountersType
<1> HIDE DEF longer
<1>5. cache' \in Seq(Tipset) /\ IsBranch(cache')
  BY <1>2, <1>3 DEF TypeOK, CacheInv
<1> USE <1>1, <1>4, <1>5 DEF environment, genesisVars, database
<1>6. CASE LeaveFill
  <2>1. TypeOK'
    BY <1>6 DEF TypeOK, LeaveFill, MaybeTipset, SyncerStep
  <2>2. SyncerInv' /\ CacheInv' /\ WalkInv'
    BY <1>6 DEF SyncerInv, CacheInv, WalkInv, LeaveFill, IsBranch
  <2>3. QED
    BY <2>1, <2>2
<1>7. CASE /\ cache' = longer /\ hand # Genesis /\ hand' = Parent[hand]
           /\ UNCHANGED <<appl, spc>>
  <2>1. hand' \in Tipset
    BY <1>7, ChainAssumption
  <2>2. TypeOK'
    BY <1>7, <2>1 DEF TypeOK, MaybeTipset
  <2>3. CacheInv'
    BY <1>2, <1>7, <2>1 DEF CacheInv, IsBranch
  <2>4. SyncerInv' /\ WalkInv'
    BY <1>7, <2>1 DEF SyncerInv, WalkInv
  <2>5. QED
    BY <2>2, <2>3, <2>4
<1>8. QED
  BY <1>3, <1>6, <1>7

LEMMA SecondApplStep ==
    ASSUME SyncInv, SecondAppl
    PROVE  SyncInv'
<1> USE DEF SyncInv
<1> DEFINE push == push_front(cache, Parent[Head(notifs)])
<1>1. Head(notifs) \in Tipset \ {Genesis} /\ Tail(notifs) \in Seq(Tipset \ {Genesis})
  BY HeadTailProperties DEF SecondAppl, TypeOK
<1>2. Parent[Head(notifs)] \in Tipset
  BY <1>1, ChainAssumption
<1>3. /\ push.cache \in Seq(Tipset) /\ IsBranch(push.cache)
      /\ push.evicted \in Tipset \cup {NoTipset}
  <2>1. cache \in Seq(Tipset) /\ IsBranch(cache)
    BY DEF TypeOK, CacheInv
  <2>2. QED
    BY <1>2, <2>1, PushFrontBranch
<1>4. /\ Fail \/ UNCHANGED counters
      /\ last' \in Tipset /\ notifs' \in Seq(Tipset \ {Genesis})
      /\ spc = "idle" /\ appl = "second"
      /\ UNCHANGED <<lotus, missed, proc, appl, safe, paths, genesisVars, database>>
      /\ \/ UNCHANGED <<cache, hand, spc>>
         \/ /\ cache' = push.cache
            /\ hand' = push.evicted
            /\ spc' = IF push.evicted = NoTipset THEN "idle"
                      ELSE IF safe = "first" THEN "first_store" ELSE "insert"
  BY <1>1 DEF SecondAppl
<1> HIDE DEF push
<1>5. fails' \in Nat /\ starts' \in Nat
  BY <1>4, CountersType
<1>6. cache' \in Seq(Tipset) /\ IsBranch(cache')
  BY <1>3, <1>4 DEF TypeOK, CacheInv
<1> USE <1>4, <1>5, <1>6 DEF genesisVars, database
<1>7. spc' \in {"idle", "first_store", "insert"} /\ hand' \in MaybeTipset
  BY <1>3 DEF TypeOK, MaybeTipset
<1>8. TypeOK'
  BY <1>7 DEF TypeOK, MaybeTipset, SyncerStep
<1>9. SyncerInv'
  BY <1>3 DEF SyncerInv, TypeOK
<1>10. CacheInv' /\ WalkInv'
  BY <1>7 DEF CacheInv, WalkInv, IsBranch
<1>11. QED
  BY <1>8, <1>9, <1>10

(* run_syncer and the tipset that left the cache. *)
LEMMA FirstStoreStep ==
    ASSUME SyncInv, FirstStore
    PROVE  SyncInv'
<1> USE DEF SyncInv
<1>1. /\ hand \in Tipset /\ spc = "first_store" /\ safe = "first"
      /\ Fail \/ UNCHANGED counters
      /\ UNCHANGED <<environment, proc, cache, last, appl, safe, paths, genesisVars,
                     docs, sent>>
  BY DEF FirstStore, SyncerInv
<1>2. fails' \in Nat /\ starts' \in Nat
  BY <1>1, CountersType
<1>3. /\ data' \subseteq Tipset
      /\ \/ spc' = "push_path" /\ hand' = hand
         \/ spc' = "idle" /\ hand' = NoTipset
  BY <1>1, StoredType DEF FirstStore, SafeDone, TypeOK
<1> USE <1>1, <1>2, <1>3 DEF environment, genesisVars
<1>4. TypeOK'
  BY DEF TypeOK, MaybeTipset, SyncerStep
<1>5. SyncerInv' /\ CacheInv' /\ WalkInv'
  BY DEF SyncerInv, CacheInv, WalkInv, IsBranch
<1>6. QED
  BY <1>4, <1>5

LEMMA PushPathStep ==
    ASSUME SyncInv, PushPath
    PROVE  SyncInv'
<1> USE DEF SyncInv
<1>1. /\ hand \in Tipset /\ spc = "push_path" /\ proc = "up"
      /\ Fail \/ UNCHANGED counters
      /\ UNCHANGED <<environment, proc, cache, last, appl, parent, batch, merged,
                     data, sent>>
      /\ safe' = "second" /\ spc' = "idle" /\ hand' = NoTipset
      /\ child' = hand
      /\ gpc' = IF hand = Genesis THEN "send_nil" ELSE "insert"
      /\ paths' = <<NewPath(hand)>> \o paths
      /\ docs' \in {docs, models_upsert(docs, NewPath(hand))}
  BY DEF PushPath, SyncerInv, SafeDone, Walk
<1>2. fails' \in Nat /\ starts' \in Nat
  BY <1>1, CountersType
<1>3. paths \in Seq(Path) /\ docs \in Seq(Doc)
  BY DEF TypeOK
<1>4. paths' \in Seq(Path) /\ paths' # <<>> /\ paths'[1].tail = hand
  BY <1>1, <1>3, PushNewType
<1>5. docs' \in Seq(Doc)
  <2>1. NewPath(hand) \in Path
    BY <1>1, NewPathType
  <2>2. models_upsert(docs, NewPath(hand)) \in Seq(Doc)
    BY <1>3, <2>1, UpsertType
  <2>3. QED
    BY <1>1, <1>3, <2>2
<1>6. TypeOK'
  BY <1>1, <1>2, <1>4, <1>5 DEF TypeOK, MaybeTipset, SyncerStep, GenesisStep, environment
<1>7. SyncerInv'
  BY <1>1, <1>4 DEF SyncerInv
<1>8. CacheInv'
  BY <1>1 DEF CacheInv, IsBranch
<1>9. WalkInv'
  BY <1>1, <1>4 DEF WalkInv
<1>10. QED
  BY <1>6, <1>7, <1>8, <1>9

LEMMA InsertHeadStep ==
    ASSUME SyncInv, InsertHead
    PROVE  SyncInv'
<1> USE DEF SyncInv
<1>1. /\ hand \in Tipset /\ spc = "insert" /\ safe = "second"
      /\ paths \in Seq(Path) /\ paths # <<>>
      /\ UNCHANGED <<environment, counters, proc, cache, last, appl, safe,
                     genesisVars, database>>
      /\ \/ paths' = insert_head_child(paths, hand) /\ spc' = "persist" /\ hand' = hand
         \/ paths' = paths /\ spc' = "idle" /\ hand' = NoTipset
  BY DEF InsertHead, SyncerInv, SafeDone, TypeOK
<1>2. paths' \in Seq(Path) /\ paths' # <<>> /\ paths'[1].tail = paths[1].tail
  <2>1. CASE paths' = paths
    BY <1>1, <2>1
  <2>2. CASE paths' = insert_head_child(paths, hand)
    <3>1. paths[1] \in Path
      BY <1>1, FrontPath
    <3>2. /\ paths' \in Seq(Path) /\ paths' # <<>>
          /\ paths'[1] = [paths[1] EXCEPT !.head = hand]
      BY <1>1, <2>2, InsertHeadType
    <3>3. QED
      BY <3>1, <3>2 DEF Path
  <2>3. QED
    BY <1>1, <2>1, <2>2
<1> USE <1>1, <1>2 DEF environment, counters, genesisVars, database
<1>3. TypeOK'
  BY DEF TypeOK, MaybeTipset, SyncerStep
<1>4. SyncerInv' /\ CacheInv' /\ WalkInv'
  BY DEF SyncerInv, CacheInv, WalkInv, IsBranch
<1>5. QED
  BY <1>3, <1>4

(* Persisting the front path moves neither of its ends. *)
LEMMA PersistFront ==
    ASSUME SyncInv, safe = "second"
    PROVE  /\ refresh_front(paths) \in Seq(Path) /\ refresh_front(paths) # <<>>
           /\ refresh_front(paths)[1].head = paths[1].head
           /\ refresh_front(paths)[1].tail = paths[1].tail
           /\ models_upsert(docs, paths[1]) \in Seq(Doc)
<1>1. paths \in Seq(Path) /\ paths # <<>> /\ docs \in Seq(Doc)
  BY DEF SyncInv, SyncerInv, TypeOK
<1>2. paths[1] \in Path
  BY <1>1, FrontPath
<1>3. QED
  BY <1>1, <1>2, RefreshType, UpsertType

LEMMA PersistHeadStep ==
    ASSUME SyncInv, PersistHead
    PROVE  SyncInv'
<1> USE DEF SyncInv
<1>1. /\ hand \in Tipset /\ spc = "persist" /\ safe = "second" /\ paths # <<>>
      /\ Fail \/ UNCHANGED counters
      /\ UNCHANGED <<environment, proc, cache, last, appl, safe, genesisVars,
                     data, sent>>
      /\ \/ /\ docs' = models_upsert(docs, paths[1])
            /\ paths' = refresh_front(paths)
            /\ spc' = "send" /\ hand' = hand
         \/ UNCHANGED <<docs, paths>> /\ spc' = "idle" /\ hand' = NoTipset
  BY DEF PersistHead, SyncerInv, SafeDone
<1>2. fails' \in Nat /\ starts' \in Nat
  BY <1>1, CountersType
<1>3. /\ paths' \in Seq(Path) /\ paths' # <<>> /\ paths'[1].tail = paths[1].tail
      /\ docs' \in Seq(Doc)
  BY <1>1, PersistFront DEF TypeOK
<1> USE <1>1, <1>2, <1>3 DEF environment, genesisVars
<1>4. TypeOK'
  BY DEF TypeOK, MaybeTipset, SyncerStep
<1>5. SyncerInv' /\ CacheInv' /\ WalkInv'
  BY DEF SyncerInv, CacheInv, WalkInv, IsBranch
<1>6. QED
  BY <1>4, <1>5

LEMMA SendStoreHeadStep ==
    ASSUME SyncInv, SendHead \/ StoreHead
    PROVE  SyncInv'
<1> USE DEF SyncInv
<1>1. /\ hand \in Tipset /\ spc \in {"send", "store"} /\ safe = "second"
      /\ Fail \/ UNCHANGED counters
      /\ UNCHANGED <<environment, proc, cache, last, appl, safe, paths, genesisVars, docs>>
      /\ \/ spc' = "store" /\ hand' = hand
         \/ spc' = "idle" /\ hand' = NoTipset
  BY DEF SendHead, StoreHead, SyncerInv, SafeDone
<1>2. fails' \in Nat /\ starts' \in Nat
  BY <1>1, CountersType
<1>3. data' \subseteq Tipset /\ sent' \subseteq Tipset
  BY <1>1, StoredType DEF SendHead, StoreHead, TypeOK
<1> USE <1>1, <1>2, <1>3 DEF environment, genesisVars
<1>4. TypeOK'
  BY DEF TypeOK, MaybeTipset, SyncerStep
<1>5. SyncerInv' /\ CacheInv' /\ WalkInv'
  BY DEF SyncerInv, CacheInv, WalkInv, IsBranch
<1>6. QED
  BY <1>4, <1>5

(* sync_to_genesis.  It runs only once run_syncer has pushed a path. *)
LEMMA InsertTailStep ==
    ASSUME SyncInv, InsertTail
    PROVE  SyncInv'
<1> USE DEF SyncInv
<1>1. /\ gpc = "insert" /\ safe = "second"
      /\ child \in Tipset \ {Genesis} /\ paths[1].tail = child
      /\ paths \in Seq(Path) /\ paths # <<>>
      /\ Fail \/ UNCHANGED counters
      /\ UNCHANGED <<environment, proc, syncerVars, child, batch, merged, database>>
  BY DEF InsertTail, Exit, SyncerInv, WalkInv, TypeOK
<1>2. Parent[child] \in Tipset /\ IsTailParent(paths, Parent[child])
  BY <1>1, ChainAssumption DEF IsTailParent
<1>3. fails' \in Nat /\ starts' \in Nat
  BY <1>1, CountersType
<1>4. \/ /\ parent' = Parent[child] /\ gpc' = "build"
         /\ paths' = insert_tail_parent(paths, Parent[child])
      \/ gpc' = "exit" /\ UNCHANGED <<parent, paths>>
  BY <1>2 DEF InsertTail, Exit
<1>5. /\ paths' \in Seq(Path) /\ paths' # <<>> /\ parent' \in MaybeTipset
      /\ gpc' = "build" => parent' \in Tipset /\ paths'[1].tail = parent'
  <2>1. CASE gpc' = "exit" /\ UNCHANGED <<parent, paths>>
    BY <1>1, <2>1 DEF TypeOK
  <2>2. CASE /\ parent' = Parent[child] /\ gpc' = "build"
             /\ paths' = insert_tail_parent(paths, Parent[child])
    <3>1. paths[1] \in Path
      BY <1>1, FrontPath
    <3>2. /\ paths' \in Seq(Path) /\ paths' # <<>>
          /\ paths'[1] = [paths[1] EXCEPT !.tail = Parent[child]]
      BY <1>1, <1>2, <2>2, InsertTailType
    <3>3. QED
      BY <1>2, <2>2, <3>1, <3>2 DEF Path, MaybeTipset
  <2>3. QED
    BY <1>4, <2>1, <2>2
<1>6. gpc' \in {"build", "exit"}
  BY <1>4
<1> USE <1>1, <1>3, <1>5, <1>6 DEF environment, syncerVars, database
<1>7. TypeOK'
  BY DEF TypeOK, MaybeTipset, GenesisStep
<1>8. SyncerInv' /\ CacheInv' /\ WalkInv'
  BY DEF SyncerInv, CacheInv, WalkInv, IsBranch
<1>9. QED
  BY <1>7, <1>8

LEMMA BuildAndMergeStep ==
    ASSUME SyncInv, BuildAndMerge
    PROVE  SyncInv'
<1> USE DEF SyncInv
<1> DEFINE merge == try_merge_front_with_next(paths)
<1>1. /\ gpc = "build" /\ safe = "second" /\ proc = "up"
      /\ parent \in Tipset /\ paths[1].tail = parent
      /\ paths \in Seq(Path) /\ paths # <<>>
      /\ Fail \/ UNCHANGED counters
      /\ UNCHANGED <<environment, proc, syncerVars, parent, database>>
  BY DEF BuildAndMerge, Exit, SyncerInv, WalkInv, TypeOK
<1>2. fails' \in Nat /\ starts' \in Nat
  BY <1>1, CountersType
<1>3. /\ merge.paths \in Seq(Path) /\ merge.paths # <<>>
      /\ merge.merged \in Path \cup {NoPath}
      /\ merge.merged = NoPath => merge.paths = paths
  BY <1>1, TailsOfMerge
<1>4. \/ /\ batch' = Append(batch, parent)
         /\ paths' = merge.paths /\ merged' = merge.merged
         /\ \/ gpc' = "send" /\ child' = child
            \/ merge.merged = NoPath /\ parent # Genesis /\ Walk(parent)
      \/ gpc' = "exit" /\ UNCHANGED <<batch, paths, merged, child>>
  BY DEF BuildAndMerge, Exit
<1> HIDE DEF merge
<1>5. batch' \in Seq(Tipset)
  <2>1. batch \in Seq(Tipset)
    BY DEF TypeOK
  <2>2. Append(batch, parent) \in Seq(Tipset)
    BY <1>1, <2>1, AppendProperties
  <2>3. QED
    BY <1>4, <2>1, <2>2
<1> USE <1>1, <1>2, <1>3, <1>4, <1>5 DEF environment, syncerVars, database
<1>6. /\ paths' \in Seq(Path) /\ paths' # <<>>
      /\ merged' \in Path \cup {NoPath} /\ child' \in MaybeTipset
      /\ gpc' \in {"send", "insert", "exit"}
  BY DEF TypeOK, MaybeTipset, Walk
<1>7. TypeOK'
  BY <1>6 DEF TypeOK, GenesisStep
<1>8. SyncerInv' /\ CacheInv'
  BY <1>6 DEF SyncerInv, CacheInv, IsBranch
<1>9. WalkInv'
  BY <1>6 DEF WalkInv, Walk
<1>10. QED
  BY <1>7, <1>8, <1>9

LEMMA SendStoreBatchStep ==
    ASSUME SyncInv, SendBatch \/ StoreBatch \/ SendNil
    PROVE  SyncInv'
<1> USE DEF SyncInv
<1>1. /\ safe = "second" /\ gpc \in {"send", "store", "send_nil"}
      /\ gpc' \in {"store", "persist", "exit", "done"}
      /\ gpc' \in {"store", "persist"} => gpc \in {"send", "store"}
      /\ Fail \/ UNCHANGED counters
      /\ UNCHANGED <<environment, proc, syncerVars, paths, child, parent, batch,
                     merged, docs>>
  <2>1. CASE SendBatch
    BY <2>1 DEF SendBatch, WalkInv
  <2>2. CASE StoreBatch
    BY <2>2 DEF StoreBatch, Exit, WalkInv
  <2>3. CASE SendNil
    BY <2>3 DEF SendNil, WalkInv, database
  <2>4. QED
    BY <2>1, <2>2, <2>3
<1>2. fails' \in Nat /\ starts' \in Nat
  BY <1>1, CountersType
<1>3. Range_(batch) \subseteq Tipset
  BY ElementOfSeq DEF TypeOK, Range_
<1>4. data' \subseteq Tipset /\ sent' \subseteq Tipset
  <2>1. Stored(Range_(batch)) \subseteq Tipset
    BY <1>3, StoredType
  <2>2. QED
    BY <1>3, <2>1 DEF SendBatch, StoreBatch, SendNil, TypeOK, database
<1> USE <1>1, <1>2, <1>4 DEF environment, syncerVars
<1>5. TypeOK'
  BY DEF TypeOK, GenesisStep
<1>6. SyncerInv' /\ CacheInv' /\ WalkInv'
  BY DEF SyncerInv, CacheInv, WalkInv, IsBranch
<1>7. QED
  BY <1>5, <1>6

LEMMA PersistTailStep ==
    ASSUME SyncInv, PersistTail
    PROVE  SyncInv'
<1> USE DEF SyncInv
<1>1. /\ gpc = "persist" /\ safe = "second" /\ proc = "up" /\ paths # <<>>
      /\ parent \in Tipset /\ merged \in Path \cup {NoPath}
      /\ merged = NoPath => paths[1].tail = parent
      /\ Fail \/ UNCHANGED counters
      /\ UNCHANGED <<environment, proc, syncerVars, parent, merged, data, sent>>
      /\ \/ /\ docs' = models_upsert(docs, paths[1])
            /\ paths' = refresh_front(paths)
            /\ \/ merged # NoPath /\ gpc' = "delete" /\ UNCHANGED <<child, batch>>
               \/ merged = NoPath /\ batch' = <<>> /\ Walk(parent)
         \/ gpc' = "exit" /\ UNCHANGED <<docs, paths, child, batch>>
  BY DEF PersistTail, Exit, SyncerInv, WalkInv, TypeOK
<1>2. fails' \in Nat /\ starts' \in Nat
  BY <1>1, CountersType
<1>3. /\ paths' \in Seq(Path) /\ paths' # <<>> /\ paths'[1].tail = paths[1].tail
      /\ docs' \in Seq(Doc)
  BY <1>1, PersistFront DEF TypeOK
<1>4. batch' \in Seq(Tipset) /\ child' \in MaybeTipset
  <2>1. batch \in Seq(Tipset) /\ child \in MaybeTipset /\ <<>> \in Seq(Tipset)
    BY EmptySeq DEF TypeOK
  <2>2. QED
    BY <1>1, <2>1 DEF MaybeTipset, Walk
<1> USE <1>1, <1>2, <1>3, <1>4 DEF environment, syncerVars
<1>5. gpc' \in {"delete", "insert", "send_nil", "exit"}
  BY DEF Walk
<1>6. TypeOK'
  BY <1>5 DEF TypeOK, GenesisStep
<1>7. SyncerInv' /\ CacheInv'
  BY DEF SyncerInv, CacheInv, IsBranch
<1>8. WalkInv'
  BY <1>5 DEF WalkInv, Walk
<1>9. QED
  BY <1>6, <1>7, <1>8

LEMMA DeleteMergedStep ==
    ASSUME SyncInv, DeleteMerged
    PROVE  SyncInv'
<1> USE DEF SyncInv
<1>1. /\ gpc = "delete" /\ safe = "second" /\ merged \in Path
      /\ Fail \/ UNCHANGED counters
      /\ UNCHANGED <<environment, proc, syncerVars, paths, child, parent, batch,
                     merged, data, sent>>
      /\ gpc' \in {"reload", "exit"}
  BY DEF DeleteMerged, Exit, WalkInv
<1>2. fails' \in Nat /\ starts' \in Nat
  BY <1>1, CountersType
<1>3. docs' \in Seq(Doc)
  BY DelType DEF DeleteMerged, TypeOK
<1> USE <1>1, <1>2, <1>3 DEF environment, syncerVars
<1>4. TypeOK'
  BY DEF TypeOK, GenesisStep
<1>5. SyncerInv' /\ CacheInv' /\ WalkInv'
  BY DEF SyncerInv, CacheInv, WalkInv, IsBranch
<1>6. QED
  BY <1>4, <1>5

LEMMA ReloadTailStep ==
    ASSUME SyncInv, ReloadTail
    PROVE  SyncInv'
<1> USE DEF SyncInv
<1>1. /\ gpc = "reload" /\ safe = "second" /\ proc = "up"
      /\ paths \in Seq(Path) /\ paths # <<>>
      /\ Fail \/ UNCHANGED counters
      /\ UNCHANGED <<environment, proc, syncerVars, paths, database>>
      /\ \/ /\ parent' = paths[1].tail /\ batch' = <<>> /\ merged' = NoPath
            /\ Walk(paths[1].tail)
         \/ gpc' = "exit" /\ UNCHANGED <<parent, batch, merged, child>>
  BY DEF ReloadTail, Exit, SyncerInv, WalkInv, TypeOK
<1>2. fails' \in Nat /\ starts' \in Nat
  BY <1>1, CountersType
<1>3. paths[1].tail \in Tipset
  BY <1>1, FrontPath
<1>4. /\ batch' \in Seq(Tipset) /\ merged' \in Path \cup {NoPath}
      /\ child' \in MaybeTipset /\ parent' \in MaybeTipset
      /\ gpc' \in {"insert", "send_nil", "exit"}
  <2>1. /\ batch \in Seq(Tipset) /\ child \in MaybeTipset /\ <<>> \in Seq(Tipset)
        /\ parent \in MaybeTipset /\ merged \in Path \cup {NoPath}
    BY EmptySeq DEF TypeOK
  <2>2. QED
    BY <1>1, <1>3, <2>1 DEF MaybeTipset, Walk
<1> USE <1>1, <1>2, <1>3, <1>4 DEF environment, syncerVars, database
<1>5. TypeOK'
  BY DEF TypeOK, GenesisStep
<1>6. SyncerInv' /\ CacheInv' /\ WalkInv'
  BY DEF SyncerInv, CacheInv, WalkInv, Walk, IsBranch
<1>7. QED
  BY <1>5, <1>6

(* A start, a crash and the end of a failed load forget all but the list   *)
(* of paths, which a start has just loaded.                                *)
LEMMA VolatileInv ==
    ASSUME SyncInv, NEW on \in {"down", "loading", "up", "panicked"},
           NEW path \in Path \cup {NoPath}, on = "loading" => path \in Path,
           Volatile(on, path),
           lotus' \in Tipset /\ missed' \in Nat /\ fails' \in Nat /\ starts' \in Nat,
           paths' \in Seq(Path), docs' \in Seq(Doc),
           UNCHANGED <<data, sent>>
    PROVE  SyncInv'
<1>1. /\ notifs' = <<>> /\ cache' = <<>> /\ last' = NoTipset /\ hand' = NoTipset
      /\ appl' = "first" /\ safe' = "first" /\ spc' = "idle" /\ proc' = on
      /\ gpc' = "off" /\ child' = NoTipset /\ parent' = NoTipset
      /\ batch' = <<>> /\ merged' = path
  BY DEF Volatile
<1>2. TypeOK'
  <2>1. /\ notifs' \in Seq(Tipset \ {Genesis}) /\ cache' \in Seq(Tipset)
        /\ batch' \in Seq(Tipset)
    BY <1>1, EmptySeq
  <2>2. data' \subseteq Tipset /\ sent' \subseteq Tipset
    BY DEF SyncInv, TypeOK
  <2>3. QED
    BY <1>1, <2>1, <2>2 DEF TypeOK, MaybeTipset, SyncerStep, GenesisStep
<1>3. SyncerInv'
  BY <1>1 DEF SyncerInv
<1>4. CacheInv'
  BY <1>1, EmptySeq DEF CacheInv, IsBranch
<1>5. WalkInv'
  BY <1>1 DEF WalkInv
<1>6. QED
  BY <1>2, <1>3, <1>4, <1>5 DEF SyncInv

LEMMA ProcessStep ==
    ASSUME SyncInv, Start \/ LoadDelete \/ Crash
    PROVE  SyncInv'
<1>1. /\ lotus \in Tipset /\ missed \in Nat /\ fails \in Nat /\ starts \in Nat
      /\ docs \in Seq(Doc) /\ paths \in Seq(Path) /\ <<>> \in Seq(Path)
  BY EmptySeq DEF SyncInv, TypeOK
<1>2. CASE Start
  <2>1. PICK order \in LoadOrders(docs) :
           LET loaded == LoadedPaths(docs, order)
           IN  IF CanMergeFront(loaded)
               THEN Volatile("loading", loaded[2]) /\ paths' = <<>>
               ELSE Volatile("up", NoPath) /\ paths' = loaded
    BY <1>2 DEF Start
  <2> DEFINE loaded == LoadedPaths(docs, order)
  <2>2. loaded \in Seq(Path)
    BY <1>1, LoadedType
  <2>3. /\ starts' = starts + 1
        /\ UNCHANGED <<lotus, missed, fails, docs, data, sent>>
    BY <1>2 DEF Start, database
  <2> HIDE DEF loaded
  <2>4. CASE CanMergeFront(loaded)
    <3>1. Volatile("loading", loaded[2]) /\ paths' = <<>>
      BY <2>1, <2>4 DEF loaded
    <3>2. loaded[2] \in Path
      BY <2>2, <2>4, ElementOfSeq, LenProperties DEF CanMergeFront
    <3>3. QED
      BY <1>1, <2>3, <3>1, <3>2, VolatileInv
  <2>5. CASE ~CanMergeFront(loaded)
    <3>1. Volatile("up", NoPath) /\ paths' = loaded
      BY <2>1, <2>5 DEF loaded
    <3>2. QED
      BY <1>1, <2>2, <2>3, <3>1, VolatileInv
  <2>6. QED
    BY <2>4, <2>5
<1>3. CASE LoadDelete
  <2>1. CASE /\ Found(docs, merged.selc) # {}
             /\ docs' = models_del(docs, merged.selc)
             /\ UNCHANGED <<proc, notifs, syncerVars, genesisVars>>
    <3>1. docs' \in Seq(Doc)
      BY <1>1, <2>1, DelType
    <3>2. /\ UNCHANGED <<lotus, missed, counters, paths, data, sent>>
          /\ UNCHANGED <<proc, notifs, syncerVars, genesisVars>>
      BY <1>3, <2>1 DEF LoadDelete
    <3> USE <3>1, <3>2 DEF SyncInv, counters, syncerVars, genesisVars
    <3>3. TypeOK'
      BY DEF TypeOK
    <3>4. SyncerInv' /\ CacheInv' /\ WalkInv'
      BY DEF SyncerInv, CacheInv, WalkInv, IsBranch
    <3>5. QED
      BY <3>3, <3>4
  <2>2. CASE Volatile("panicked", NoPath) /\ UNCHANGED docs
    <3>1. UNCHANGED <<lotus, missed, fails, starts, paths, data, sent>>
      BY <1>3 DEF LoadDelete, counters
    <3>2. QED
      BY <1>1, <2>2, <3>1, VolatileInv
  <2>3. QED
    BY <1>3, <2>1, <2>2 DEF LoadDelete
<1>4. CASE Crash
  <2>1. /\ Volatile("down", NoPath) /\ paths' = <<>>
        /\ UNCHANGED <<lotus, missed, fails, starts, docs, data, sent>>
    BY <1>4 DEF Crash, counters, database
  <2>2. QED
    BY <1>1, <2>1, VolatileInv
<1>5. QED
  BY <1>2, <1>3, <1>4

LEMMA SyncInvStep == SyncInv /\ [Next]_vars => SyncInv'
<1> SUFFICES ASSUME SyncInv, [Next]_vars PROVE SyncInv'
  OBVIOUS
<1>1. CASE HeadMoves \/ ChannelReopens
  BY <1>1, LotusStep
<1>2. CASE Syncer
  BY <1>2, FirstApplStep, FallThroughStep, SecondApplStep, FirstStoreStep,
     PushPathStep, InsertHeadStep, PersistHeadStep, SendStoreHeadStep
  DEF Syncer
<1>3. CASE SyncToGenesis
  BY <1>3, InsertTailStep, BuildAndMergeStep, SendStoreBatchStep,
     PersistTailStep, DeleteMergedStep, ReloadTailStep
  DEF SyncToGenesis
<1>4. CASE Start \/ LoadDelete \/ Crash
  BY <1>4, ProcessStep
<1>5. CASE UNCHANGED vars
  <2> USE <1>5 DEF SyncInv, vars, environment, counters, syncerVars, genesisVars, database
  <2>1. TypeOK'
    BY DEF TypeOK
  <2>2. SyncerInv' /\ CacheInv' /\ WalkInv'
    BY DEF SyncerInv, CacheInv, WalkInv, IsBranch
  <2>3. QED
    BY <2>1, <2>2
<1>6. QED
  BY <1>1, <1>2, <1>3, <1>4, <1>5 DEF Next

LEMMA SyncInvAlways == Spec => []SyncInv
BY SyncInvInit, SyncInvStep, PTL DEF Spec

-----------------------------------------------------------------------------
(* The theorems. *)

(* The type invariant. *)
THEOREM TypeCorrect == Spec => []TypeOK
<1>1. SyncInv => TypeOK
  BY DEF SyncInv
<1>2. QED
  BY SyncInvAlways, <1>1, PTL

(* The tipset cache is always a piece of one branch: no reorg, no lost     *)
(* notification and no failing call mixes two forks in it.                 *)
THEOREM CacheIsAlwaysChain == Spec => []CacheIsChain
<1>1. SyncInv => CacheIsChain
  BY DEF SyncInv, CacheInv, CacheIsChain, IsBranch
<1>2. QED
  BY SyncInvAlways, <1>1, PTL

(* The error sync_to_genesis calls impossible is: no step of run_syncer    *)
(* and no merge moves the tail of the front path away from the walk.       *)
THEOREM TailIsWhereTheWalkIs == Spec => []NeverImpossible
<1>1. SyncInv => NeverImpossible
  BY DEF SyncInv, WalkInv, NeverImpossible
<1>2. QED
  BY SyncInvAlways, <1>1, PTL

-----------------------------------------------------------------------------
(* Miners before data. *)

Unsent == data \ sent

(* A run that has not stored its first safe tipset yet may store one more  *)
(* without sending its miners. *)
Allowance == IF proc = "up" /\ safe = "first" /\ spc # "push_path" THEN 1 ELSE 0

MinersInv ==
    /\ IsFiniteSet(Unsent)
    /\ Cardinality(Unsent) + Allowance <= starts
    /\ spc = "store" => hand \in sent
    /\ gpc = "store" => Range_(batch) \subseteq sent

(* What is stored and not sent can only shrink with Unsent. *)
LEMMA UnsentShrinks ==
    ASSUME MinersInv, Unsent' \subseteq Unsent
    PROVE  /\ IsFiniteSet(Unsent') /\ Cardinality(Unsent') \in Nat
           /\ Cardinality(Unsent) \in Nat
           /\ Cardinality(Unsent') <= Cardinality(Unsent)
<1> DEFINE U == Unsent
           V == Unsent'
<1>1. IsFiniteSet(U) /\ V \in SUBSET U
  BY DEF MinersInv
<1> HIDE DEF U, V
<1>2. IsFiniteSet(V) /\ Cardinality(V) <= Cardinality(U)
  BY <1>1, FS_Subset
<1>3. Cardinality(V) \in Nat /\ Cardinality(U) \in Nat
  BY <1>1, <1>2, FS_CardinalityType
<1>4. QED
  BY <1>2, <1>3 DEF U, V

LEMMA MinersInvInit == Init => MinersInv
<1> SUFFICES ASSUME Init PROVE MinersInv
  OBVIOUS
<1>1. Unsent = {} /\ Allowance = 0 /\ starts = 0 /\ spc = "idle" /\ gpc = "off"
  BY DEF Init, Unsent, Allowance
<1>2. IsFiniteSet({}) /\ Cardinality({}) = 0
  BY FS_EmptySet
<1>3. QED
  BY <1>1, <1>2 DEF MinersInv

LEMMA MinersInvStep == SyncInv /\ MinersInv /\ [Next]_vars => MinersInv'
<1> SUFFICES ASSUME SyncInv, MinersInv, [Next]_vars PROVE MinersInv'
  OBVIOUS
<1>1. starts \in Nat /\ Allowance \in {0, 1} /\ Allowance' \in {0, 1}
  BY DEF SyncInv, TypeOK, Allowance
<1>2. CASE FirstStore /\ data' = Stored({hand}) /\ UNCHANGED counters /\ spc' = "push_path"
  <2>1. /\ sent' = sent /\ starts' = starts /\ proc = "up" /\ spc = "first_store"
        /\ gpc' = gpc /\ batch' = batch
    BY <1>2 DEF FirstStore, genesisVars, counters
  <2>2. Allowance = 1 /\ Allowance' = 0
    BY <1>2, <2>1 DEF Allowance, SyncInv, SyncerInv
  <2> DEFINE U == Unsent
             V == Unsent'
             W == U \cup {hand}
  <2>3. IsFiniteSet(U) /\ V \in SUBSET W
    BY <1>2, <2>1 DEF MinersInv, Unsent, Stored
  <2>4. Cardinality(U) + 1 <= starts
    BY <2>2 DEF MinersInv
  <2> HIDE DEF U, V
  <2>5. IsFiniteSet(W) /\ Cardinality(W) <= Cardinality(U) + 1 /\ Cardinality(U) \in Nat
    <3>1. Cardinality(U) \in Nat
      BY <2>3, FS_CardinalityType
    <3>2. /\ IsFiniteSet(W)
          /\ Cardinality(W) = IF hand \in U THEN Cardinality(U) ELSE Cardinality(U) + 1
      BY <2>3, FS_AddElement
    <3> HIDE DEF W
    <3>3. QED
      BY <3>1, <3>2
  <2> HIDE DEF W
  <2>6. /\ IsFiniteSet(V) /\ Cardinality(V) <= Cardinality(W)
        /\ Cardinality(V) \in Nat /\ Cardinality(W) \in Nat
    BY <2>3, <2>5, FS_Subset, FS_CardinalityType
  <2>7. IsFiniteSet(V) /\ Cardinality(V) <= starts
    BY <1>1, <2>4, <2>5, <2>6
  <2>8. Cardinality(V) + Allowance' <= starts'
    BY <2>1, <2>2, <2>6, <2>7
  <2>9. gpc' = "store" => Range_(batch') \subseteq sent'
    BY <2>1 DEF MinersInv
  <2>10. QED
    BY <1>2, <2>7, <2>8, <2>9 DEF MinersInv, V
<1>3. CASE Start
  <2>1. /\ data' = data /\ sent' = sent /\ starts' = starts + 1
        /\ proc # "up" /\ spc' = "idle" /\ gpc' = "off"
    BY <1>3 DEF Start, database, Volatile
  <2>2. Unsent' = Unsent /\ Allowance = 0
    BY <2>1 DEF Unsent, Allowance
  <2>3. IsFiniteSet(Unsent') /\ Cardinality(Unsent') <= starts /\ Cardinality(Unsent') \in Nat
    BY <2>2, UnsentShrinks DEF MinersInv
  <2>4. Cardinality(Unsent') + Allowance' <= starts'
    BY <1>1, <2>1, <2>3
  <2>5. QED
    BY <2>1, <2>3, <2>4 DEF MinersInv
<1>4. ASSUME Unsent' \subseteq Unsent, starts' = starts,
             Allowance' <= Allowance,
             spc' = "store" => hand' \in sent',
             gpc' = "store" => Range_(batch') \subseteq sent'
      PROVE  MinersInv'
  <2>1. /\ IsFiniteSet(Unsent') /\ Cardinality(Unsent') \in Nat
        /\ Cardinality(Unsent) \in Nat
        /\ Cardinality(Unsent') <= Cardinality(Unsent)
    BY <1>4, UnsentShrinks
  <2>2. Cardinality(Unsent') + Allowance' <= starts'
    BY <1>1, <1>4, <2>1 DEF MinersInv
  <2>3. QED
    BY <1>4, <2>1, <2>2 DEF MinersInv
<1>5. CASE HeadMoves \/ ChannelReopens
  <2>1. UNCHANGED <<counters, proc, syncerVars, genesisVars, database>>
    BY <1>5 DEF HeadMoves, ChannelReopens
  <2>2. QED
    BY <1>4, <2>1 DEF Unsent, Allowance, MinersInv, counters, syncerVars, genesisVars, database
<1>6. CASE FirstAppl \/ FallThrough \/ SecondAppl
  <2>1. /\ UNCHANGED <<starts, proc, safe, genesisVars, database>>
        /\ spc # "push_path" /\ spc' # "push_path" /\ spc' # "store"
    BY <1>6 DEF FirstAppl, FallThrough, SecondAppl, LeaveFill, Fail, counters
  <2>2. QED
    BY <1>4, <2>1 DEF Unsent, Allowance, MinersInv, genesisVars, database
<1>7. CASE FirstStore /\ data' = data
  <2>1. /\ UNCHANGED <<starts, proc, safe, genesisVars, data, sent>>
        /\ spc = "first_store" /\ spc' # "store"
    BY <1>7 DEF FirstStore, Fail, counters, SafeDone
  <2>2. QED
    BY <1>1, <1>4, <2>1 DEF Unsent, Allowance, MinersInv, genesisVars
<1>8. CASE PushPath
  <2>1. /\ UNCHANGED <<starts, proc, batch, data, sent>>
        /\ safe' = "second" /\ spc' = "idle" /\ gpc' # "store"
    BY <1>8 DEF PushPath, Fail, counters, SafeDone, Walk
  <2>2. QED
    BY <1>1, <1>4, <2>1 DEF Unsent, Allowance
<1>9. CASE InsertHead \/ PersistHead
  <2>1. /\ UNCHANGED <<starts, proc, safe, genesisVars, data, sent>>
        /\ spc \in {"insert", "persist"} /\ spc' # "store"
    BY <1>9 DEF InsertHead, PersistHead, Fail, counters, SafeDone, database
  <2>2. safe = "second"
    BY <2>1 DEF SyncInv, SyncerInv
  <2>3. QED
    BY <1>4, <2>1, <2>2 DEF Unsent, Allowance, MinersInv, genesisVars
<1>10. CASE SendHead
  <2>1. /\ UNCHANGED <<starts, proc, safe, genesisVars, data, hand>>
        /\ sent' = sent \cup {hand} /\ spc = "send"
    BY <1>10 DEF SendHead, counters
  <2>2. safe = "second"
    BY <2>1 DEF SyncInv, SyncerInv
  <2>3. QED
    BY <1>4, <2>1, <2>2 DEF Unsent, Allowance, MinersInv, genesisVars
<1>11. CASE StoreHead
  <2>1. /\ UNCHANGED <<starts, proc, safe, genesisVars, sent>>
        /\ data' \in {data, Stored({hand})} /\ spc = "store" /\ spc' = "idle"
    BY <1>11 DEF StoreHead, SafeDone, Fail, counters
  <2>2. safe = "second" /\ hand \in sent
    BY <2>1 DEF SyncInv, SyncerInv, MinersInv
  <2>3. QED
    BY <1>4, <2>1, <2>2 DEF Unsent, Stored, Allowance, MinersInv, genesisVars
<1>12. CASE SendBatch
  <2>1. /\ UNCHANGED <<starts, proc, syncerVars, batch, data>>
        /\ sent' = sent \cup Range_(batch)
    BY <1>12 DEF SendBatch, counters
  <2>2. QED
    BY <1>4, <2>1 DEF Unsent, Allowance, MinersInv, syncerVars
<1>13. CASE StoreBatch
  <2>1. /\ UNCHANGED <<starts, proc, syncerVars, batch, sent>>
        /\ data' \in {data, Stored(Range_(batch))} /\ gpc = "store" /\ gpc' # "store"
    BY <1>13 DEF StoreBatch, Exit, Fail, counters
  <2>2. Range_(batch) \subseteq sent
    BY <2>1 DEF MinersInv
  <2>3. QED
    BY <1>4, <2>1, <2>2 DEF Unsent, Stored, Allowance, MinersInv, syncerVars
<1>14. CASE InsertTail \/ BuildAndMerge \/ PersistTail \/ DeleteMerged \/ ReloadTail \/ SendNil
  <2>1. UNCHANGED <<starts, proc, syncerVars, data, sent>> /\ gpc' # "store"
    BY <1>14 DEF InsertTail, BuildAndMerge, PersistTail, DeleteMerged, ReloadTail,
       SendNil, Exit, Fail, Walk, counters, database
  <2>2. QED
    BY <1>4, <2>1 DEF Unsent, Allowance, MinersInv, syncerVars
<1>15. CASE LoadDelete \/ Crash
  <2>1. UNCHANGED <<starts, data, sent>> /\ proc' # "up"
    BY <1>15 DEF LoadDelete, Crash, Volatile, counters, database
  <2>2. /\ spc' = "store" => spc = "store" /\ hand' = hand
        /\ gpc' = "store" => gpc = "store" /\ batch' = batch
    BY <1>15 DEF LoadDelete, Crash, Volatile, syncerVars, genesisVars
  <2>3. QED
    BY <1>1, <1>4, <2>1, <2>2 DEF Unsent, Allowance, MinersInv
<1>16. CASE UNCHANGED vars
  BY <1>4, <1>16 DEF Unsent, Allowance, MinersInv, vars, counters, syncerVars,
     genesisVars, database
<1>17. FirstStore => \/ /\ data' = Stored({hand}) /\ UNCHANGED counters
                        /\ spc' = "push_path"
                     \/ data' = data
  BY DEF FirstStore
<1>18. QED
  BY <1>2, <1>3, <1>5, <1>6, <1>7, <1>8, <1>9, <1>10, <1>11, <1>12, <1>13, <1>14,
     <1>15, <1>16, <1>17
  DEF Next, Syncer, SyncToGenesis

(* Of the tipsets that are stored, at most one per start of the program    *)
(* has miners the miner handler was not told of: handle_first_safe_tipset  *)
(* is the only one to store without sending.                               *)
THEOREM MinersBeforeData == Spec => []MinersSentBeforeStored
<1>1. MinersInv /\ SyncInv => MinersSentBeforeStored
  <2> SUFFICES ASSUME MinersInv, SyncInv PROVE Cardinality(Unsent) <= starts
    BY DEF MinersSentBeforeStored, Unsent
  <2>1. Cardinality(Unsent) \in Nat /\ Allowance \in {0, 1} /\ starts \in Nat
    BY FS_CardinalityType DEF MinersInv, Allowance, SyncInv, TypeOK
  <2>2. QED
    BY <2>1 DEF MinersInv
<1>2. QED
  BY <1>1, MinersInvInit, MinersInvStep, SyncInvAlways, PTL DEF Spec

-----------------------------------------------------------------------------
(* The front path. *)

Widened ==
    /\ Height[paths'[1].head] >= Height[paths[1].head]
    /\ Height[paths'[1].tail] <= Height[paths[1].tail]

(* In an ordered list the merge takes a head that is no lower and a tail   *)
(* that is no higher, whichever of its cases applies.                      *)
LEMMA MergeWidens ==
    ASSUME NEW ps \in Seq(Path), ps # <<>>, CanMergeFront(ps),
           Height[ps[1].head] >= Height[ps[2].head],
           Height[ps[1].tail] >= Height[ps[2].tail]
    PROVE  LET front == try_merge_front_with_next(ps).paths[1]
           IN  /\ Height[front.head] >= Height[ps[1].head]
               /\ Height[front.tail] <= Height[ps[1].tail]
<1> DEFINE front == try_merge_with(ps[1], ps[2])
           rest == SubSeq(ps, 3, Len(ps))
<1>1. Len(ps) \in Nat /\ 1 \in 1..Len(ps) /\ 2 \in 1..Len(ps)
  BY LenProperties DEF CanMergeFront
<1>2. ps[1] \in Path /\ ps[2] \in Path
  BY <1>1, ElementOfSeq
<1>3. /\ Height[ps[1].head] \in Nat /\ Height[ps[2].head] \in Nat
      /\ Height[ps[1].tail] \in Nat /\ Height[ps[2].tail] \in Nat
  BY <1>2, ChainAssumption DEF Path
<1>4. /\ front \in Path
      /\ Height[front.head] >= Height[ps[1].head]
      /\ Height[front.tail] <= Height[ps[1].tail]
  <2>1. CASE Height[ps[1].head] > Height[ps[2].head]
    <3>1. front = [ps[1] EXCEPT !.tail = ps[2].tail]
      BY <2>1 DEF try_merge_with
    <3> HIDE DEF front
    <3>2. front \in Path /\ front.head = ps[1].head /\ front.tail = ps[2].tail
      BY <1>2, <3>1 DEF Path
    <3>3. QED
      BY <1>3, <3>2
  <2>2. CASE ~(Height[ps[1].head] > Height[ps[2].head])
    <3>1. ~(Height[ps[1].head] < Height[ps[2].head])
      BY <1>3
    <3>2. front = IF Height[ps[2].tail] < Height[ps[1].tail]
                  THEN [ps[1] EXCEPT !.tail = ps[2].tail] ELSE ps[1]
      BY <2>2, <3>1 DEF try_merge_with
    <3> HIDE DEF front
    <3>3. /\ front \in Path /\ front.head = ps[1].head
          /\ front.tail = IF Height[ps[2].tail] < Height[ps[1].tail]
                          THEN ps[2].tail ELSE ps[1].tail
      BY <1>2, <3>2 DEF Path
    <3>4. QED
      BY <1>3, <3>3
  <2>3. QED
    BY <2>1, <2>2
<1>5. try_merge_front_with_next(ps).paths = <<front>> \o rest
  BY DEF try_merge_front_with_next
<1>6. rest \in Seq(Path)
  <2>1. \A i \in 3..Len(ps) : ps[i] \in Path
    BY <1>1, ElementOfSeq
  <2>2. QED
    BY <1>1, <2>1, SubSeqProperties
<1> HIDE DEF front, rest
<1>7. (<<front>> \o rest)[1] = front
  <2>1. <<front>> \in Seq(Path) /\ Len(<<front>>) = 1 /\ <<front>>[1] = front
    BY <1>4
  <2>2. QED
    BY <1>6, <2>1, ConcatProperties, LenProperties
<1>8. QED
  BY <1>4, <1>5, <1>7

LEMMA FrontStep ==
    ASSUME SyncInv, Next, gpc # "off", proc' = "up", InOrder
    PROVE  Widened
<1>1. safe = "second" /\ paths \in Seq(Path) /\ paths # <<>>
  BY DEF SyncInv, TypeOK, SyncerInv, WalkInv
<1>2. paths[1] \in Path /\ paths[1].head \in Tipset /\ paths[1].tail \in Tipset
  BY <1>1, FrontPath
<1>3. Height[paths[1].head] \in Nat /\ Height[paths[1].tail] \in Nat
  BY <1>2, ChainAssumption
<1>4. ASSUME /\ paths'[1].head = paths[1].head
             /\ paths'[1].tail = paths[1].tail
      PROVE  Widened
  BY <1>3, <1>4 DEF Widened
<1>5. ASSUME paths' = paths PROVE Widened
  BY <1>4, <1>5
<1>6. CASE InsertHead
  <2>1. hand \in Tipset
    BY <1>6 DEF InsertHead, SyncInv, SyncerInv
  <2>2. CASE IsHeadChild(paths, hand)
    <3>1. paths' = insert_head_child(paths, hand)
      BY <1>6, <2>2 DEF InsertHead
    <3>2. paths'[1] = [paths[1] EXCEPT !.head = hand]
      BY <1>1, <2>1, <3>1, InsertHeadType
    <3>3. paths'[1].head = hand /\ paths'[1].tail = paths[1].tail
      BY <1>2, <3>2 DEF Path
    <3>4. Parent[hand] = paths[1].head /\ hand # Genesis
      BY <1>1, <1>2, <2>2, ChainAssumption DEF IsHeadChild
    <3>5. Height[paths[1].head] < Height[hand] /\ Height[hand] \in Nat
      BY <2>1, <3>4, ChainAssumption
    <3>6. QED
      BY <1>3, <3>3, <3>5 DEF Widened
  <2>3. CASE ~IsHeadChild(paths, hand)
    BY <1>5, <1>6, <2>3 DEF InsertHead
  <2>4. QED
    BY <2>2, <2>3
<1>7. CASE InsertTail
  <2>1. /\ child \in Tipset \ {Genesis} /\ paths[1].tail = child
        /\ Parent[child] \in Tipset
    BY <1>7, ChainAssumption DEF InsertTail, SyncInv, WalkInv
  <2>2. CASE paths' = insert_tail_parent(paths, Parent[child])
    <3>1. paths'[1] = [paths[1] EXCEPT !.tail = Parent[child]]
      BY <1>1, <2>1, <2>2, InsertTailType
    <3>2. paths'[1].head = paths[1].head /\ paths'[1].tail = Parent[child]
      BY <1>2, <3>1 DEF Path
    <3>3. Height[Parent[child]] < Height[child] /\ Height[Parent[child]] \in Nat
      BY <2>1, ChainAssumption
    <3>4. QED
      BY <1>3, <2>1, <3>2, <3>3 DEF Widened
  <2>3. CASE paths' = paths
    BY <1>5, <2>3
  <2>4. QED
    BY <1>7, <2>2, <2>3 DEF InsertTail
<1>8. CASE BuildAndMerge
  <2>1. CASE paths' = paths
    BY <1>5, <2>1
  <2>2. CASE CanMergeFront(paths) /\ paths' = try_merge_front_with_next(paths).paths
    <3>1. /\ Height[paths[1].head] >= Height[paths[2].head]
          /\ Height[paths[1].tail] >= Height[paths[2].tail]
      <4>1. 1 \in 1..Len(paths) /\ 2 \in 1..Len(paths) /\ 1 <= 2
        BY <1>1, <2>2, LenProperties DEF CanMergeFront
      <4>2. QED
        BY <4>1 DEF InOrder
    <3>2. QED
      BY <1>1, <2>2, <3>1, MergeWidens DEF Widened
  <2>3. QED
    BY <1>8, <2>1, <2>2 DEF BuildAndMerge, try_merge_front_with_next
<1>9. CASE PersistHead \/ PersistTail
  <2>1. paths' \in {paths, refresh_front(paths)}
    BY <1>9 DEF PersistHead, PersistTail
  <2>2. QED
    BY <1>1, <1>4, <1>5, <2>1, PersistFront
<1>10. CASE \/ HeadMoves \/ ChannelReopens \/ FirstAppl \/ FallThrough
            \/ SecondAppl \/ FirstStore \/ SendHead \/ StoreHead
  BY <1>5, <1>10 DEF HeadMoves, ChannelReopens, FirstAppl, FallThrough,
     SecondAppl, FirstStore, SendHead, StoreHead
<1>11. CASE SendBatch \/ StoreBatch \/ DeleteMerged \/ ReloadTail \/ SendNil
  BY <1>5, <1>11 DEF SendBatch, StoreBatch, DeleteMerged, ReloadTail, SendNil
<1>12. ~PushPath
  BY <1>1 DEF PushPath, SyncInv, SyncerInv
<1>13. ~Start /\ ~LoadDelete /\ ~Crash
  <2>1. ~Start
    <3>1. Start => proc # "up"
      BY DEF Start
    <3>2. proc # "up" => gpc = "off"
      BY DEF SyncInv, WalkInv
    <3>3. QED
      BY <3>1, <3>2
  <2>2. ~LoadDelete /\ ~Crash
    BY DEF LoadDelete, Crash, Volatile
  <2>3. QED
    BY <2>1, <2>2
<1>14. QED
  BY <1>6, <1>7, <1>8, <1>9, <1>10, <1>11, <1>12, <1>13 DEF Next, Syncer, SyncToGenesis

(* While the program runs, no step of either goroutine lowers the head of  *)
(* the front path of an ordered list or raises its tail.                   *)
THEOREM FrontWidens == Spec => FrontOnlyWidens
<1>1. SyncInv /\ [Next]_vars =>
        [gpc # "off" /\ proc' = "up" /\ InOrder => Widened]_vars
  BY FrontStep
<1>2. QED
  BY SyncInvAlways, <1>1, PTL DEF Spec, FrontOnlyWidens, Widened

-----------------------------------------------------------------------------
(* What lies below a tipset.  Ancestry is a recursive function: that there *)
(* is one is proved with the least set that holds a tipset and, with each  *)
(* of its members, the parent.                                             *)

Closed(S) == \A v \in S \ {Genesis} : Parent[v] \in S

Down(t) == {u \in Tipset : \A S \in SUBSET Tipset : t \in S /\ Closed(S) => u \in S}

LEMMA DownIsClosed ==
    ASSUME NEW t \in Tipset
    PROVE  t \in Down(t) /\ Closed(Down(t))
<1>1. t \in Down(t)
  BY DEF Down
<1>2. ASSUME NEW v \in Down(t) \ {Genesis} PROVE Parent[v] \in Down(t)
  <2>1. v \in Tipset /\ Parent[v] \in Tipset
    BY <1>2, ChainAssumption DEF Down
  <2>2. ASSUME NEW S \in SUBSET Tipset, t \in S, Closed(S) PROVE Parent[v] \in S
    BY <1>2, <2>2 DEF Down, Closed
  <2>3. QED
    BY <2>1, <2>2 DEF Down
<1>3. QED
  BY <1>1, <1>2 DEF Closed

LEMMA DownUnfolds ==
    ASSUME NEW t \in Tipset
    PROVE  Down(t) = IF t = Genesis THEN {t} ELSE {t} \cup Down(Parent[t])
<1>1. t \in Down(t) /\ Closed(Down(t))
  BY DownIsClosed
<1>2. CASE t = Genesis
  <2>1. {t} \in SUBSET Tipset /\ t \in {t} /\ Closed({t})
    BY <1>2 DEF Closed
  <2>2. Down(t) \subseteq {t}
    BY <2>1 DEF Down
  <2>3. QED
    BY <1>1, <1>2, <2>2
<1>3. CASE t # Genesis
  <2> DEFINE p == Parent[t]
  <2>1. p \in Tipset
    BY <1>3, ChainAssumption
  <2>2. p \in Down(p) /\ Closed(Down(p))
    BY <2>1, DownIsClosed
  <2>3. Down(t) \subseteq {t} \cup Down(p)
    <3> DEFINE S == {t} \cup Down(p)
    <3>1. S \in SUBSET Tipset
      BY DEF Down
    <3>2. t \in S /\ Closed(S)
      BY <2>2 DEF Closed
    <3>3. QED
      BY <3>1, <3>2 DEF Down
  <2>4. p \in Down(t)
    BY <1>1, <1>3 DEF Closed
  <2>5. ASSUME NEW u \in Down(p) PROVE u \in Down(t)
    <3>1. Down(t) \in SUBSET Tipset
      BY DEF Down
    <3>2. QED
      BY <1>1, <2>4, <2>5, <3>1 DEF Down
  <2>6. QED
    BY <1>1, <1>3, <2>3, <2>5
<1>4. QED
  BY <1>2, <1>3

LEMMA AncestryUnfolds ==
    ASSUME NEW t \in Tipset
    PROVE  Ancestry[t] = IF t = Genesis THEN {t} ELSE {t} \cup Ancestry[Parent[t]]
<1> DEFINE Is(f) == f = [u \in Tipset |->
                          IF u = Genesis THEN {u} ELSE {u} \cup f[Parent[u]]]
           down == [u \in Tipset |-> Down(u)]
<1>1. Is(down)
  <2>1. ASSUME NEW u \in Tipset
        PROVE  Down(u) = IF u = Genesis THEN {u} ELSE {u} \cup down[Parent[u]]
    <3>1. u # Genesis => Parent[u] \in Tipset
      BY ChainAssumption
    <3>2. u # Genesis => down[Parent[u]] = Down(Parent[u])
      BY <3>1
    <3> HIDE DEF down
    <3>3. QED
      BY <3>2, DownUnfolds
  <2>2. QED
    BY <2>1
<1>2. Ancestry = CHOOSE f : Is(f)
  BY DEF Ancestry
<1>3. Is(Ancestry)
  <2> HIDE DEF down
  <2>1. \E f : Is(f)
    BY <1>1
  <2> HIDE DEF Is
  <2>2. QED
    BY <1>2, <2>1
<1>4. QED
  BY <1>3

LEMMA GenesisIsLast == Genesis \in Tipset /\ Ancestry[Genesis] = {Genesis}
<1>1. Genesis \in Tipset
  BY ChainAssumption
<1>2. QED
  BY <1>1, AncestryUnfolds

(* What holds of genesis and passes from every parent to its children. *)
LEMMA FromGenesisUp ==
    ASSUME NEW S \in SUBSET Tipset, Genesis \in S,
           \A t \in Tipset \ {Genesis} : Parent[t] \in S => t \in S
    PROVE  S = Tipset
<1> SUFFICES ASSUME S # Tipset PROVE FALSE
  OBVIOUS
<1> DEFINE heights == {Height[t] : t \in Tipset \ S}
<1>1. heights \in SUBSET Nat /\ heights # {}
  BY ChainAssumption
<1>2. PICK h \in heights : \A k \in heights : h <= k
  <2> HIDE DEF heights
  <2>1. QED
    BY <1>1, FirstOfNats
<1>3. PICK t \in Tipset \ S : Height[t] = h
  BY <1>2
<1>4. t # Genesis /\ Parent[t] \in Tipset \ S
  BY <1>3, ChainAssumption
<1>5. Height[Parent[t]] \in heights /\ Height[Parent[t]] < Height[t]
  BY <1>4, ChainAssumption
<1>6. /\ h <= Height[Parent[t]]
      /\ Height[Parent[t]] \in Nat /\ Height[t] \in Nat
  BY <1>2, <1>4, <1>5, ChainAssumption
<1>7. QED
  BY <1>3, <1>5, <1>6

(* The tipsets below t are of lesser heights, the parent of each but of    *)
(* genesis is below t too, and of two the higher one has the lower below.  *)
LEMMA BelowIsLower ==
    ASSUME NEW t \in Tipset
    PROVE  /\ Ancestry[t] \subseteq Tipset /\ t \in Ancestry[t]
           /\ \A u \in Ancestry[t] : Height[u] < Height[t] \/ u = t
<1> DEFINE Good(s) == /\ Ancestry[s] \subseteq Tipset /\ s \in Ancestry[s]
                      /\ \A u \in Ancestry[s] : Height[u] < Height[s] \/ u = s
           S == {s \in Tipset : Good(s)}
<1>1. Good(Genesis)
  BY GenesisIsLast
<1>2. ASSUME NEW s \in Tipset \ {Genesis}, Good(Parent[s]) PROVE Good(s)
  <2>1. Parent[s] \in Tipset /\ Height[Parent[s]] < Height[s]
    BY ChainAssumption
  <2>2. Ancestry[s] = {s} \cup Ancestry[Parent[s]]
    BY AncestryUnfolds
  <2>3. ASSUME NEW u \in Ancestry[Parent[s]] PROVE Height[u] < Height[s]
    <3>1. /\ u \in Tipset
          /\ Height[u] < Height[Parent[s]] \/ u = Parent[s]
      BY <1>2, <2>3
    <3>2. Height[u] \in Nat /\ Height[s] \in Nat /\ Height[Parent[s]] \in Nat
      BY <2>1, <3>1, ChainAssumption
    <3>3. QED
      BY <2>1, <3>1, <3>2
  <2>4. QED
    BY <1>2, <2>1, <2>2, <2>3
<1> HIDE DEF Good
<1>3. S = Tipset
  <2>1. Genesis \in S /\ \A s \in Tipset \ {Genesis} : Parent[s] \in S => s \in S
    BY <1>1, <1>2, ChainAssumption
  <2>2. QED
    BY <2>1, FromGenesisUp
<1>4. QED
  BY <1>3 DEF Good

LEMMA AncestryIsClosed ==
    ASSUME NEW t \in Tipset
    PROVE  \A u \in Ancestry[t] : Ancestry[u] \subseteq Ancestry[t]
<1> DEFINE Good(s) == \A u \in Ancestry[s] : Ancestry[u] \subseteq Ancestry[s]
           S == {s \in Tipset : Good(s)}
<1>1. Good(Genesis)
  BY GenesisIsLast
<1>2. ASSUME NEW s \in Tipset \ {Genesis}, Good(Parent[s]) PROVE Good(s)
  <2>1. Ancestry[s] = {s} \cup Ancestry[Parent[s]]
    BY AncestryUnfolds
  <2>2. QED
    BY <1>2, <2>1
<1> HIDE DEF Good
<1>3. S = Tipset
  <2>1. Genesis \in S /\ \A s \in Tipset \ {Genesis} : Parent[s] \in S => s \in S
    BY <1>1, <1>2, ChainAssumption
  <2>2. QED
    BY <2>1, FromGenesisUp
<1>4. QED
  BY <1>3 DEF Good

LEMMA ParentIsBelow ==
    ASSUME NEW t \in Tipset, NEW u \in Ancestry[t], u # Genesis
    PROVE  Parent[u] \in Ancestry[t]
<1>1. u \in Tipset /\ Parent[u] \in Tipset
  BY BelowIsLower, ChainAssumption
<1>2. Parent[u] \in Ancestry[u]
  <2>1. Ancestry[u] = {u} \cup Ancestry[Parent[u]]
    BY <1>1, AncestryUnfolds
  <2>2. Parent[u] \in Ancestry[Parent[u]]
    BY <1>1, BelowIsLower
  <2>3. QED
    BY <2>1, <2>2
<1>3. QED
  BY <1>2, AncestryIsClosed

LEMMA OneBranch ==
    ASSUME NEW t \in Tipset, NEW u \in Ancestry[t], NEW v \in Ancestry[t],
           Height[v] <= Height[u]
    PROVE  v \in Ancestry[u]
<1> DEFINE Good(s) == \A x, y \in Ancestry[s] : Height[y] <= Height[x] => y \in Ancestry[x]
           S == {s \in Tipset : Good(s)}
<1>1. Good(Genesis)
  BY GenesisIsLast
<1>2. ASSUME NEW s \in Tipset \ {Genesis}, Good(Parent[s]) PROVE Good(s)
  <2>1. Parent[s] \in Tipset /\ Ancestry[s] = {s} \cup Ancestry[Parent[s]]
    BY AncestryUnfolds, ChainAssumption
  <2>2. ASSUME NEW x \in Ancestry[s], NEW y \in Ancestry[s], Height[y] <= Height[x]
        PROVE  y \in Ancestry[x]
    <3>1. CASE x = s
      BY <3>1
    <3>2. CASE x # s
      <4>1. x \in Ancestry[Parent[s]] /\ x \in Tipset /\ y \in Tipset
        BY <2>1, <3>2, BelowIsLower
      <4>2. Height[x] < Height[s]
        BY <3>2, BelowIsLower
      <4>3. y # s
        <5>1. Height[x] \in Nat /\ Height[s] \in Nat
          BY <4>1, ChainAssumption
        <5>2. QED
          BY <2>2, <4>2, <5>1
      <4>4. QED
        BY <1>2, <2>1, <2>2, <4>1, <4>3
    <3>3. QED
      BY <3>1, <3>2
  <2>3. QED
    BY <2>2
<1> HIDE DEF Good
<1>3. S = Tipset
  <2>1. Genesis \in S /\ \A s \in Tipset \ {Genesis} : Parent[s] \in S => s \in S
    BY <1>1, <1>2, ChainAssumption
  <2>2. QED
    BY <2>1, FromGenesisUp
<1>4. Good(t)
  BY <1>3
<1>5. QED
  BY <1>4 DEF Good

-----------------------------------------------------------------------------
(* The range a path covers, and how its ends and the collections move. *)

Covered(h, t) == {u \in Ancestry[h] : Height[u] >= Height[t]}

LEMMA CoveredType ==
    ASSUME NEW h \in Tipset, NEW t \in Tipset
    PROVE  /\ Covered(h, t) \subseteq Tipset
           /\ \A u \in Covered(h, t) : Height[u] \in Nat
BY BelowIsLower, ChainAssumption DEF Covered

(* A range of one branch has one tipset of each height. *)
LEMMA OnePerHeight ==
    ASSUME NEW h \in Tipset, NEW u \in Ancestry[h], NEW v \in Ancestry[h],
           Height[u] = Height[v]
    PROVE  u = v
<1>1. u \in Tipset /\ v \in Tipset
  BY BelowIsLower
<1>2. Height[u] \in Nat /\ Height[v] \in Nat
  BY <1>1, ChainAssumption
<1>3. Height[u] <= Height[v]
  BY <1>2
<1>4. u \in Ancestry[v]
  BY <1>3, OneBranch
<1>5. ~(Height[u] < Height[v])
  BY <1>2
<1>6. QED
  BY <1>1, <1>4, <1>5, BelowIsLower

LEMMA CoveredOne ==
    ASSUME NEW h \in Tipset
    PROVE  Covered(h, h) = {h}
<1>1. Height[h] \in Nat
  BY ChainAssumption
<1>2. ASSUME NEW u \in Covered(h, h) PROVE u = h
  <2>1. u \in Ancestry[h] /\ ~(Height[u] < Height[h])
    BY <1>1, CoveredType DEF Covered
  <2>2. QED
    BY <2>1, BelowIsLower
<1>3. h \in Covered(h, h)
  BY <1>1, BelowIsLower DEF Covered
<1>4. QED
  BY <1>2, <1>3

LEMMA CoveredEnds ==
    ASSUME NEW h \in Tipset, NEW t \in Ancestry[h]
    PROVE  /\ t \in Tipset /\ h \in Covered(h, t) /\ t \in Covered(h, t)
           /\ \A u \in Covered(h, t) : Height[t] <= Height[u] /\ Height[u] <= Height[h]
<1>1. t \in Tipset /\ h \in Ancestry[h]
  BY BelowIsLower
<1>2. Height[t] \in Nat /\ Height[h] \in Nat
  BY <1>1, ChainAssumption
<1>3. Height[t] <= Height[h]
  BY <1>2, BelowIsLower
<1>4. ASSUME NEW u \in Covered(h, t)
      PROVE  Height[t] <= Height[u] /\ Height[u] <= Height[h]
  <2>1. u \in Ancestry[h] /\ Height[u] \in Nat /\ Height[u] >= Height[t]
    BY <1>1, CoveredType DEF Covered
  <2>2. Height[u] < Height[h] \/ u = h
    BY <2>1, BelowIsLower
  <2>3. QED
    BY <1>2, <2>1, <2>2
<1>5. QED
  BY <1>1, <1>2, <1>3, <1>4 DEF Covered

(* insert_head_child: a child of the head is one more at the top. *)
LEMMA CoveredUp ==
    ASSUME NEW h \in Tipset, NEW t \in Ancestry[h], NEW x \in Tipset, Parent[x] = h
    PROVE  t \in Ancestry[x] /\ Covered(x, t) = Covered(h, t) \cup {x}
<1>1. x # Genesis
  BY ChainAssumption
<1>2. Ancestry[x] = {x} \cup Ancestry[h] /\ Height[h] < Height[x]
  BY <1>1, AncestryUnfolds, ChainAssumption
<1>3. t \in Tipset /\ Height[t] <= Height[h]
  BY CoveredEnds
<1>4. Height[x] >= Height[t]
  <2>1. Height[t] \in Nat /\ Height[h] \in Nat /\ Height[x] \in Nat
    BY <1>3, ChainAssumption
  <2>2. QED
    BY <1>2, <1>3, <2>1
<1>5. QED
  BY <1>2, <1>4 DEF Covered

(* insert_tail_parent: the parent of the tail is one more at the bottom. *)
LEMMA CoveredDown ==
    ASSUME NEW h \in Tipset, NEW t \in Ancestry[h], t # Genesis
    PROVE  /\ Parent[t] \in Ancestry[h]
           /\ Covered(h, Parent[t]) = Covered(h, t) \cup {Parent[t]}
<1> DEFINE p == Parent[t]
<1>1. t \in Tipset /\ p \in Tipset /\ Height[p] < Height[t]
  BY BelowIsLower, ChainAssumption
<1>2. p \in Ancestry[h]
  BY ParentIsBelow
<1>3. Ancestry[t] = {t} \cup Ancestry[p]
  BY <1>1, AncestryUnfolds
<1> HIDE DEF p
<1>4. Height[p] \in Nat /\ Height[t] \in Nat
  BY <1>1, ChainAssumption
<1>5. ASSUME NEW u \in Covered(h, p), u \notin Covered(h, t) PROVE u = p
  <2>1. /\ u \in Ancestry[h] /\ u \in Tipset /\ Height[u] \in Nat
        /\ Height[u] >= Height[p] /\ Height[u] < Height[t]
    BY <1>1, <1>4, <1>5, CoveredType DEF Covered
  <2>2. Height[u] <= Height[t]
    BY <1>4, <2>1
  <2>3. u \in Ancestry[t]
    BY <2>1, <2>2, OneBranch
  <2>4. u \in Ancestry[p]
    BY <1>3, <1>4, <2>1, <2>3
  <2>5. ~(Height[u] < Height[p])
    BY <1>4, <2>1
  <2>6. QED
    BY <1>1, <2>4, <2>5, BelowIsLower
<1>6. ASSUME NEW u \in Covered(h, t) PROVE u \in Covered(h, p)
  <2>1. u \in Ancestry[h] /\ Height[u] \in Nat /\ Height[u] >= Height[t]
    BY <1>1, <1>6, CoveredType DEF Covered
  <2>2. QED
    BY <1>1, <1>4, <2>1 DEF Covered
<1>7. p \in Covered(h, p)
  BY <1>2, <1>4 DEF Covered
<1>8. QED
  BY <1>2, <1>5, <1>6, <1>7 DEF p

(* Within one range nothing stored is replaced. *)
LEMMA StoredAdds ==
    ASSUME NEW h \in Tipset, NEW t \in Tipset, NEW S \in SUBSET Covered(h, t),
           data \subseteq Covered(h, t)
    PROVE  Stored(S) = data \cup S
<1>1. ASSUME NEW d \in data, NEW u \in S, Height[d] = Height[u] PROVE d \in S
  <2>1. d \in Ancestry[h] /\ u \in Ancestry[h]
    BY DEF Covered
  <2>2. QED
    BY <1>1, <2>1, OnePerHeight
<1>2. QED
  BY <1>1 DEF Stored

LEMMA ClaimedIsCovered ==
    ASSUME NEW d
    PROVE  Claimed(d) = Covered(d.head, d.tail)
BY DEF Claimed, Covered

(* Upsert of a path into a collection of one document: its selector finds  *)
(* that document. *)
LEMMA UpsertOnly ==
    ASSUME NEW ds \in Seq(Doc), Len(ds) = 1, NEW p \in Path,
           SelectorOf(ds[1]) = p.selc
    PROVE  Len(models_upsert(ds, p)) = 1 /\ models_upsert(ds, p)[1] = ToDoc(p)
<1> DEFINE found == Found(ds, p.selc)
<1>1. found = {1}
  BY DEF Found
<1> HIDE DEF found
<1>2. (CHOOSE i \in found : IsFirst(i, found)) = 1
  <2>1. IsFirst(1, found)
    BY <1>1 DEF IsFirst
  <2>2. QED
    BY <1>1, <2>1
<1>3. models_upsert(ds, p) = [ds EXCEPT ![1] = ToDoc(p)]
  BY <1>1, <1>2 DEF models_upsert, found
<1>4. QED
  BY <1>3, ToDocType, ExceptSeq

LEMMA UpsertFirst ==
    ASSUME NEW p \in Path
    PROVE  Len(models_upsert(<<>>, p)) = 1 /\ models_upsert(<<>>, p)[1] = ToDoc(p)
<1>1. Found(<<>>, p.selc) = {}
  BY DEF Found
<1>2. models_upsert(<<>>, p) = Append(<<>>, ToDoc(p))
  BY <1>1 DEF models_upsert
<1>3. QED
  BY <1>2, ToDocType

-----------------------------------------------------------------------------
(* The first run of the program, up to its first failing call or crash: it *)
(* has one path, and that is the range the two goroutines index.           *)

FirstRun == fails = 0 /\ starts <= 1 /\ (starts = 1 => proc = "up")

AtHead == spc \in {"persist", "send", "store"}

NothingYet ==
    /\ paths = <<>> /\ docs = <<>> /\ batch = <<>> /\ gpc = "off"
    /\ data = IF spc = "push_path" THEN {hand} ELSE {}

(* Everything stored or about to be lies on the front path, and everything *)
(* on the front path is stored or about to be; the collection's one        *)
(* document is found under the selector of that path.                      *)
OneRange ==
    /\ Len(paths) = 1
    /\ paths[1].tail \in Ancestry[paths[1].head]
    /\ IF AtHead THEN hand = paths[1].head ELSE paths[1].head \in data
    /\ data \cup Range_(batch) \subseteq Claimed(paths[1])
    /\ Claimed(paths[1]) \subseteq data \cup InFlight
    /\ Len(docs) = 1
    /\ SelectorOf(docs[1]) = paths[1].selc
    /\ Claimed(docs[1]) \subseteq Claimed(paths[1])
    /\ gpc \in {"insert", "build", "send", "store", "persist", "send_nil", "done"}
    /\ gpc = "persist" => Range_(batch) \subseteq data
    /\ gpc \in {"send_nil", "done"} => paths[1].tail = Genesis /\ batch = <<>>

RunInv ==
    /\ merged = NoPath
    /\ proc # "up" => safe = "first" /\ spc = "idle"
    /\ IF safe = "first" THEN NothingYet ELSE OneRange

IndexStep == [Index!Next]_(Index!vars)

Started == proc # "down" => starts > 0

LEMMA StartedStep == SyncInv /\ Started /\ [Next]_vars => Started'
<1> SUFFICES ASSUME SyncInv, Started, [Next]_vars PROVE Started'
  OBVIOUS
<1>1. starts \in Nat
  BY DEF SyncInv, TypeOK
<1>2. CASE Start
  BY <1>1, <1>2 DEF Start, Started
<1>3. ASSUME proc' = proc \/ proc # "down", starts' = starts PROVE Started'
  BY <1>3 DEF Started
<1>4. CASE HeadMoves \/ ChannelReopens \/ LoadDelete \/ Crash
  BY <1>3, <1>4 DEF HeadMoves, ChannelReopens, LoadDelete, Crash, counters
<1>5. CASE Syncer
  BY <1>3, <1>5 DEF Syncer, FirstAppl, FallThrough, SecondAppl, FirstStore, PushPath,
     InsertHead, PersistHead, SendHead, StoreHead, Fail, counters
<1>6. CASE SyncToGenesis
  BY <1>3, <1>6 DEF SyncToGenesis, InsertTail, BuildAndMerge, SendBatch, StoreBatch,
     PersistTail, DeleteMerged, ReloadTail, SendNil, Exit, Fail, counters
<1>7. CASE UNCHANGED vars
  BY <1>3, <1>7 DEF vars, counters
<1>8. QED
  BY <1>2, <1>4, <1>5, <1>6, <1>7 DEF Next

LEMMA StartedAlways == Spec => []Started
<1>1. Init => Started
  BY DEF Init, Started
<1>2. QED
  BY <1>1, StartedStep, SyncInvAlways, PTL DEF Spec

(* A run that has not failed or crashed yet never had. *)
LEMMA FirstRunBack ==
    ASSUME SyncInv, [Next]_vars, FirstRun'
    PROVE  FirstRun
<1>1. fails \in Nat /\ starts \in Nat
  BY DEF SyncInv, TypeOK
<1>2. CASE Start
  BY <1>1, <1>2 DEF Start, FirstRun
<1>3. CASE LoadDelete \/ Crash
  <2>1. UNCHANGED counters /\ (proc' = proc \/ proc' \in {"panicked", "down"})
    BY <1>3 DEF LoadDelete, Crash, Volatile
  <2>2. QED
    BY <1>1, <2>1 DEF FirstRun, counters
<1>4. ASSUME proc' = proc, Fail \/ UNCHANGED counters PROVE FirstRun
  BY <1>1, <1>4 DEF Fail, counters, FirstRun
<1>5. CASE HeadMoves \/ ChannelReopens
  BY <1>4, <1>5 DEF HeadMoves, ChannelReopens
<1>6. CASE Syncer
  BY <1>4, <1>6 DEF Syncer, FirstAppl, FallThrough, SecondAppl, FirstStore, PushPath,
     InsertHead, PersistHead, SendHead, StoreHead
<1>7. CASE SyncToGenesis
  BY <1>4, <1>7 DEF SyncToGenesis, InsertTail, BuildAndMerge, SendBatch, StoreBatch,
     PersistTail, DeleteMerged, ReloadTail, SendNil, Exit
<1>8. CASE UNCHANGED vars
  BY <1>4, <1>8 DEF vars
<1>9. QED
  BY <1>2, <1>3, <1>5, <1>6, <1>7, <1>8 DEF Next

LEMMA NoFail ==
    ASSUME SyncInv, FirstRun, FirstRun'
    PROVE  ~Fail
BY DEF SyncInv, TypeOK, FirstRun, Fail

(* A step that touches neither the range nor what is stored. *)
LEMMA IndexStutter ==
    ASSUME responsible' = responsible, data' = data,
           gpc' \in {"send_nil", "done"} <=> gpc \in {"send_nil", "done"}
    PROVE  IndexStep
BY DEF IndexStep, Index!vars

(* The front path of a list in memory. *)
LEMMA FrontOfRun ==
    ASSUME SyncInv, RunInv, safe = "second"
    PROVE  /\ OneRange
           /\ paths \in Seq(Path) /\ paths # <<>> /\ paths[1] \in Path
           /\ paths[1].head \in Tipset /\ paths[1].tail \in Ancestry[paths[1].head]
           /\ paths[1].tail \in Tipset
           /\ spc # "push_path"
           /\ responsible = Covered(paths[1].head, paths[1].tail)
           /\ Claimed(paths[1]) = Covered(paths[1].head, paths[1].tail)
<1>1. OneRange /\ paths \in Seq(Path) /\ paths # <<>> /\ spc # "push_path"
  BY DEF RunInv, SyncInv, SyncerInv, TypeOK
<1>2. paths[1] \in Path
  BY <1>1, FrontPath
<1>3. QED
  BY <1>1, <1>2, FrontPath, ClaimedIsCovered DEF OneRange, responsible

LEMMA RunInvInit == Init => RunInv /\ Index!Init
<1> SUFFICES ASSUME Init PROVE RunInv /\ Index!Init
  OBVIOUS
<1>1. RunInv
  BY DEF Init, RunInv, NothingYet
<1>2. Index!Init
  BY DEF Init, Index!Init, responsible
<1>3. QED
  BY <1>1, <1>2

(* Steps that move no tipset: the node's, and run_syncer's up to the       *)
(* choice of the tipset that is safe.                                      *)
LEMMA QuietRun ==
    ASSUME RunInv,
           UNCHANGED <<safe, paths, genesisVars, database>>,
           proc' = proc, proc # "up" => spc' = "idle",
           spc \notin {"push_path", "persist", "send", "store"},
           spc' \notin {"push_path", "persist", "send", "store"}
    PROVE  RunInv' /\ IndexStep
<1> USE DEF genesisVars, database
<1>1. InFlight' = InFlight /\ AtHead' = AtHead
  BY DEF InFlight, HeadInFlight, AtHead
<1>2. RunInv'
  BY <1>1 DEF RunInv, NothingYet, OneRange, AtHead, Claimed
<1>3. responsible' = responsible
  BY DEF responsible, Claimed
<1>4. QED
  BY <1>2, <1>3, IndexStutter

LEMMA LotusRun ==
    ASSUME RunInv, HeadMoves \/ ChannelReopens
    PROVE  RunInv' /\ IndexStep
<1> USE DEF syncerVars, genesisVars, database
<1>1. UNCHANGED <<proc, syncerVars, paths, genesisVars, database>>
  BY DEF HeadMoves, ChannelReopens
<1>2. InFlight' = InFlight /\ AtHead' = AtHead
  BY <1>1 DEF InFlight, HeadInFlight, AtHead
<1>3. RunInv'
  BY <1>1, <1>2 DEF RunInv, NothingYet, OneRange, AtHead, Claimed
<1>4. responsible' = responsible
  BY <1>1 DEF responsible, Claimed
<1>5. QED
  BY <1>1, <1>3, <1>4, IndexStutter

LEMMA CacheRun ==
    ASSUME SyncInv, RunInv, FirstAppl \/ FallThrough \/ SecondAppl
    PROVE  RunInv' /\ IndexStep
<1>1. /\ UNCHANGED <<safe, proc, paths, genesisVars, database>> /\ proc = "up"
      /\ spc \in {"idle", "fill"}
      /\ spc' \in {"idle", "fill", "first_store", "insert"}
  BY DEF FirstAppl, FallThrough, SecondAppl, LeaveFill
<1>2. QED
  BY <1>1, QuietRun

(* handle_first_safe_tipset and task_sync_to_genesis: the first tipset is  *)
(* stored, then its path is there.                                         *)
LEMMA FirstStoreRun ==
    ASSUME SyncInv, RunInv, FirstStore, ~Fail
    PROVE  RunInv' /\ IndexStep
<1>1. /\ spc = "first_store" /\ spc' = "push_path" /\ safe = "first" /\ safe' = "first"
      /\ hand' = hand /\ hand \in Tipset /\ proc = "up"
      /\ data' = Stored({hand})
      /\ UNCHANGED <<proc, paths, genesisVars, docs>>
  BY DEF FirstStore, SafeDone, SyncInv, SyncerInv
<1>2. data = {} /\ paths = <<>> /\ docs = <<>> /\ batch = <<>> /\ gpc = "off"
  BY <1>1 DEF RunInv, NothingYet
<1>3. data' = {hand}
  BY <1>1, <1>2 DEF Stored
<1>4. RunInv'
  BY <1>1, <1>2, <1>3 DEF RunInv, NothingYet, genesisVars
<1>5. responsible = {} /\ responsible' = {hand}
  BY <1>1, <1>2 DEF responsible
<1>6. gpc' = "off"
  BY <1>1, <1>2 DEF genesisVars
<1>7. Index!Begin(hand)
  BY <1>2, <1>3, <1>5, <1>6 DEF Index!Begin
<1>8. QED
  BY <1>1, <1>4, <1>7 DEF IndexStep, Index!Next

LEMMA PushPathRun ==
    ASSUME SyncInv, RunInv, PushPath, ~Fail
    PROVE  RunInv' /\ IndexStep
<1> DEFINE p == NewPath(hand)
<1>1. /\ spc = "push_path" /\ spc' = "idle" /\ safe = "first" /\ safe' = "second"
      /\ hand \in Tipset /\ proc = "up" /\ proc' = "up"
      /\ docs' = models_upsert(docs, p)
      /\ paths' = <<p>> \o paths
      /\ child' = hand /\ gpc' = IF hand = Genesis THEN "send_nil" ELSE "insert"
      /\ UNCHANGED <<batch, merged, data>>
  BY DEF PushPath, SafeDone, Walk, SyncInv, SyncerInv
<1>2. /\ data = {hand} /\ paths = <<>> /\ docs = <<>> /\ batch = <<>> /\ gpc = "off"
      /\ merged = NoPath
  BY <1>1 DEF RunInv, NothingYet
<1>3. p \in Path /\ p.head = hand /\ p.tail = hand /\ p.selc = SelectorOf(p)
  BY <1>1, NewPathType DEF NewPath, SelectorOf
<1> HIDE DEF p
<1>4. paths' = <<p>> /\ Len(paths') = 1 /\ paths'[1] = p /\ paths' # <<>>
  <2>1. <<p>> \o <<>> = <<p>>
    BY <1>3, ConcatEmptySeq
  <2>2. QED
    BY <1>1, <1>2, <2>1
<1>5. Len(docs') = 1 /\ docs'[1] = ToDoc(p)
  BY <1>1, <1>2, <1>3, UpsertFirst
<1>6. Claimed(p) = {hand} /\ Claimed(ToDoc(p)) = {hand} /\ SelectorOf(ToDoc(p)) = p.selc
  BY <1>1, <1>3, CoveredOne, ClaimedIsCovered DEF ToDoc, SelectorOf
<1>7. hand \in Ancestry[hand]
  BY <1>1, BelowIsLower
<1>8. Range_(batch') = {}
  BY <1>1, <1>2 DEF Range_
<1>9. OneRange'
  BY <1>1, <1>2, <1>3, <1>4, <1>5, <1>6, <1>7, <1>8 DEF OneRange, Claimed, AtHead
<1>10. RunInv'
  BY <1>1, <1>2, <1>9 DEF RunInv
<1>11. responsible = {hand} /\ responsible' = {hand}
  BY <1>1, <1>4, <1>6 DEF responsible, Claimed
<1>12. CASE hand # Genesis
  <2>1. gpc' = "insert"
    BY <1>1, <1>12
  <2>2. IndexStep
    BY <1>1, <1>2, <1>11, <2>1, IndexStutter
  <2>3. QED
    BY <1>10, <2>2
<1>13. CASE hand = Genesis
  <2>1. gpc' = "send_nil"
    BY <1>1, <1>13
  <2>2. Index!Finish
    BY <1>1, <1>2, <1>11, <1>13, <2>1 DEF Index!Finish
  <2>3. QED
    BY <1>10, <2>2 DEF IndexStep, Index!Next
<1>14. QED
  BY <1>12, <1>13

(* handle_secod_safe_tipset. *)
LEMMA InsertHeadRun ==
    ASSUME SyncInv, RunInv, InsertHead
    PROVE  RunInv' /\ IndexStep
<1> DEFINE front == paths[1]
           wider == [front EXCEPT !.head = hand]
<1>1. /\ spc = "insert" /\ safe = "second" /\ hand \in Tipset /\ proc = "up"
      /\ UNCHANGED <<proc, safe, genesisVars, database>>
  BY DEF InsertHead, SyncInv, SyncerInv
<1>2. CASE ~IsHeadChild(paths, hand)
  <2>1. spc' = "idle" /\ paths' = paths
    BY <1>2 DEF InsertHead, SafeDone
  <2>2. QED
    BY <1>1, <2>1, QuietRun
<1>3. CASE IsHeadChild(paths, hand)
  <2>1. /\ OneRange /\ paths \in Seq(Path) /\ paths # <<>> /\ front \in Path
        /\ front.head \in Tipset /\ front.tail \in Ancestry[front.head]
        /\ front.tail \in Tipset
        /\ responsible = Covered(front.head, front.tail)
        /\ Claimed(front) = Covered(front.head, front.tail)
    BY <1>1, FrontOfRun
  <2>2. spc' = "persist" /\ hand' = hand /\ paths' = insert_head_child(paths, hand)
    BY <1>3 DEF InsertHead
  <2>3. Parent[hand] = front.head
    BY <1>3, <2>1 DEF IsHeadChild
  <2>4. wider \in Path /\ wider.head = hand /\ wider.tail = front.tail /\ wider.selc = front.selc
    BY <1>1, <2>1 DEF Path
  <2>5. paths' # <<>> /\ Len(paths') = 1 /\ paths'[1] = wider
    <3>1. insert_head_child(paths, hand) = [paths EXCEPT ![1] = wider]
      BY <2>1 DEF insert_head_child
    <3>2. Len(paths) = 1
      BY <2>1 DEF OneRange
    <3> HIDE DEF wider
    <3>3. QED
      BY <2>1, <2>2, <2>4, <3>1, <3>2, ExceptSeq, FrontExcept
  <2> HIDE DEF wider, front
  <2>6. /\ front.tail \in Ancestry[hand]
        /\ Covered(hand, front.tail) = Covered(front.head, front.tail) \cup {hand}
    BY <1>1, <2>1, <2>3, CoveredUp
  <2>7. responsible' = responsible \cup {hand} /\ Claimed(wider) = responsible'
    <3>1. responsible' = Claimed(paths'[1])
      BY <2>2, <2>5 DEF responsible, Claimed
    <3>2. Claimed(wider) = Covered(hand, front.tail)
      BY <2>4, ClaimedIsCovered
    <3>3. QED
      BY <2>1, <2>5, <2>6, <3>1, <3>2
  <2>8. front.head \in data
    BY <1>1, <2>1 DEF OneRange, AtHead, front
  <2>9. InFlight' = InFlight \cup {hand}
    BY <1>1, <2>2 DEF InFlight, HeadInFlight, genesisVars
  <2>10. OneRange'
    <3> USE <1>1, <2>1, <2>2, <2>4, <2>5 DEF genesisVars, database
    <3>1. /\ Len(paths') = 1 /\ paths'[1].tail \in Ancestry[paths'[1].head]
          /\ AtHead' /\ hand' = paths'[1].head
      BY <2>6 DEF AtHead
    <3>2. data' \cup Range_(batch') \subseteq Claimed(paths'[1])
      BY <2>7 DEF OneRange, front
    <3>3. Claimed(paths'[1]) \subseteq data' \cup InFlight'
      BY <2>7, <2>9 DEF OneRange, front
    <3>4. /\ Len(docs') = 1 /\ SelectorOf(docs'[1]) = paths'[1].selc
          /\ Claimed(docs'[1]) \subseteq Claimed(paths'[1])
      BY <2>7 DEF OneRange, front
    <3>5. /\ gpc' \in {"insert", "build", "send", "store", "persist", "send_nil", "done"}
          /\ gpc' = "persist" => Range_(batch') \subseteq data'
          /\ gpc' \in {"send_nil", "done"} => paths'[1].tail = Genesis /\ batch' = <<>>
      BY DEF OneRange, front
    <3>6. QED
      BY <3>1, <3>2, <3>3, <3>4, <3>5 DEF OneRange, Claimed
  <2>11. RunInv'
    BY <1>1, <2>10 DEF RunInv, genesisVars
  <2>12. Index!IsNewest(front.head)
    BY <2>1, CoveredEnds DEF Index!IsNewest
  <2>13. Index!GrowUp(hand)
    <3>1. data' = data /\ gpc' = gpc
      BY <1>1 DEF genesisVars, database
    <3>2. QED
      BY <2>3, <2>7, <2>8, <2>12, <3>1 DEF Index!GrowUp
  <2>14. QED
    BY <1>1, <2>11, <2>13 DEF IndexStep, Index!Next
<1>4. QED
  BY <1>2, <1>3

(* The only path after its upsert: its ends stay, and the selector finds   *)
(* the document it left.                                                   *)
LEMMA PersistOnly ==
    ASSUME SyncInv, RunInv, safe = "second", spc' # "push_path",
           docs' = models_upsert(docs, paths[1]), paths' = refresh_front(paths)
    PROVE  /\ Len(paths') = 1 /\ paths' # <<>>
           /\ paths'[1].head = paths[1].head /\ paths'[1].tail = paths[1].tail
           /\ Len(docs') = 1 /\ SelectorOf(docs'[1]) = paths'[1].selc
           /\ docs'[1].head = paths[1].head /\ docs'[1].tail = paths[1].tail
           /\ responsible' = responsible
           /\ Claimed(paths'[1]) = Claimed(paths[1])
           /\ Claimed(docs'[1]) = Claimed(paths[1])
<1> DEFINE front == paths[1]
           fresh == refresh_selc(front)
<1>1. /\ paths \in Seq(Path) /\ paths # <<>> /\ front \in Path /\ Len(paths) = 1
      /\ docs \in Seq(Doc) /\ Len(docs) = 1 /\ SelectorOf(docs[1]) = front.selc
      /\ spc # "push_path"
  BY FrontOfRun DEF OneRange, SyncInv, TypeOK
<1>2. SelectorOf(front) \in Selector
  BY <1>1, FrontPath, SelectorType
<1>3. /\ fresh \in Path /\ fresh.head = front.head /\ fresh.tail = front.tail
      /\ fresh.selc = SelectorOf(front)
  BY <1>1, <1>2 DEF refresh_selc, Path
<1>4. paths' = [paths EXCEPT ![1] = fresh]
  BY DEF refresh_front
<1> HIDE DEF fresh
<1>5. Len(paths') = 1 /\ paths' # <<>> /\ paths'[1] = fresh
  BY <1>1, <1>3, <1>4, ExceptSeq, FrontExcept
<1>6. Len(docs') = 1 /\ docs'[1] = ToDoc(front)
  BY <1>1, UpsertOnly
<1>7. docs'[1].head = front.head /\ docs'[1].tail = front.tail
  BY <1>6 DEF ToDoc
<1>8. SelectorOf(docs'[1]) = paths'[1].selc
  BY <1>3, <1>5, <1>7 DEF SelectorOf
<1>9. /\ Claimed(paths'[1]) = Claimed(front) /\ Claimed(docs'[1]) = Claimed(front)
  BY <1>3, <1>5, <1>7, ClaimedIsCovered
<1>10. responsible' = Claimed(front) /\ responsible = Claimed(front)
  <2>1. responsible' = IF spc' = "push_path" THEN {hand'} ELSE Claimed(paths'[1])
    BY <1>5 DEF responsible, Claimed
  <2>2. QED
    BY <1>1, <1>9, <2>1 DEF responsible
<1>11. QED
  BY <1>3, <1>5, <1>6, <1>7, <1>8, <1>9, <1>10

LEMMA PersistHeadRun ==
    ASSUME SyncInv, RunInv, PersistHead, ~Fail
    PROVE  RunInv' /\ IndexStep
<1>1. /\ spc = "persist" /\ spc' = "send" /\ hand' = hand
      /\ docs' = models_upsert(docs, paths[1]) /\ paths' = refresh_front(paths)
      /\ safe = "second" /\ UNCHANGED <<proc, safe, genesisVars, data>> /\ proc = "up"
  BY DEF PersistHead, SyncInv, SyncerInv
<1>2. OneRange /\ spc' # "push_path"
  BY <1>1, FrontOfRun
<1>3. InFlight' = InFlight /\ AtHead /\ AtHead'
  BY <1>1 DEF InFlight, HeadInFlight, AtHead, genesisVars
<1>4. OneRange'
  BY <1>1, <1>2, <1>3, PersistOnly DEF OneRange, Claimed, genesisVars
<1>5. RunInv'
  BY <1>1, <1>4 DEF RunInv, genesisVars
<1>6. responsible' = responsible
  BY <1>1, <1>2, PersistOnly
<1>7. QED
  BY <1>1, <1>5, <1>6, IndexStutter DEF genesisVars

LEMMA SendHeadRun ==
    ASSUME SyncInv, RunInv, SendHead
    PROVE  RunInv' /\ IndexStep
<1>1. /\ spc = "send" /\ spc' = "store" /\ hand' = hand
      /\ safe = "second" /\ UNCHANGED <<proc, safe, paths, genesisVars, docs, data>>
  BY DEF SendHead, SyncInv, SyncerInv
<1>2. InFlight' = InFlight /\ AtHead' = AtHead
  BY <1>1 DEF InFlight, HeadInFlight, AtHead, genesisVars
<1>3. RunInv'
  BY <1>1, <1>2, FrontOfRun DEF RunInv, OneRange, AtHead, Claimed, genesisVars
<1>4. responsible' = responsible
  BY <1>1 DEF responsible, Claimed
<1>5. QED
  BY <1>1, <1>3, <1>4, IndexStutter DEF genesisVars

LEMMA StoreHeadRun ==
    ASSUME SyncInv, RunInv, StoreHead, ~Fail
    PROVE  RunInv' /\ IndexStep
<1>1. /\ spc = "store" /\ spc' = "idle" /\ data' = Stored({hand})
      /\ safe = "second" /\ UNCHANGED <<proc, safe, paths, genesisVars, docs>> /\ proc = "up"
  BY DEF StoreHead, SafeDone, SyncInv, SyncerInv
<1>2. /\ OneRange /\ paths[1].head \in Tipset /\ paths[1].tail \in Tipset
      /\ paths[1].tail \in Ancestry[paths[1].head]
      /\ responsible = Covered(paths[1].head, paths[1].tail)
      /\ Claimed(paths[1]) = Covered(paths[1].head, paths[1].tail)
  BY <1>1, FrontOfRun
<1>3. hand = paths[1].head /\ {hand} \subseteq responsible
  BY <1>1, <1>2, CoveredEnds DEF OneRange, AtHead
<1>4. data' = data \cup {hand}
  BY <1>1, <1>2, <1>3, StoredAdds DEF OneRange
<1>5. InFlight = InFlight' \cup {hand}
  BY <1>1 DEF InFlight, HeadInFlight, genesisVars
<1>6. OneRange'
  <2> USE <1>1, <1>2, <1>3 DEF genesisVars
  <2>1. paths'[1].head \in data' /\ ~AtHead'
    BY <1>4 DEF AtHead
  <2>2. data' \cup Range_(batch') \subseteq Claimed(paths'[1])
    BY <1>4 DEF OneRange
  <2>3. Claimed(paths'[1]) \subseteq data' \cup InFlight'
    BY <1>4, <1>5 DEF OneRange
  <2>4. QED
    BY <1>4, <2>1, <2>2, <2>3 DEF OneRange, Claimed
<1>7. RunInv'
  BY <1>1, <1>6 DEF RunInv, genesisVars
<1>8. responsible' = responsible
  BY <1>1 DEF responsible, Claimed
<1>9. Index!Store({hand})
  BY <1>1, <1>4, <1>8 DEF Index!Store, genesisVars
<1>10. QED
  BY <1>3, <1>7, <1>9 DEF IndexStep, Index!Next

(* sync_to_genesis. *)
LEMMA InsertTailRun ==
    ASSUME SyncInv, RunInv, InsertTail, ~Fail
    PROVE  RunInv' /\ IndexStep
<1> DEFINE front == paths[1]
           longer == [front EXCEPT !.tail = Parent[child]]
<1>1. /\ gpc = "insert" /\ safe = "second" /\ child # Genesis /\ front.tail = child
      /\ UNCHANGED <<proc, syncerVars, child, batch, merged, database>> /\ proc = "up"
  BY DEF InsertTail, SyncInv, WalkInv
<1>2. /\ OneRange /\ paths \in Seq(Path) /\ paths # <<>> /\ front \in Path
      /\ front.head \in Tipset /\ front.tail \in Ancestry[front.head]
      /\ front.tail \in Tipset /\ spc # "push_path"
      /\ responsible = Covered(front.head, front.tail)
      /\ Claimed(front) = Covered(front.head, front.tail)
      /\ Len(paths) = 1
  BY <1>1, FrontOfRun DEF OneRange
<1>3. IsTailParent(paths, Parent[child]) /\ Parent[child] \in Tipset
  BY <1>1, <1>2, ChainAssumption DEF IsTailParent
<1>4. parent' = Parent[child] /\ gpc' = "build" /\ paths' = insert_tail_parent(paths, parent')
  BY <1>3 DEF InsertTail, Exit
<1>5. /\ longer \in Path /\ longer.head = front.head /\ longer.tail = parent'
      /\ longer.selc = front.selc
  BY <1>2, <1>3, <1>4 DEF Path
<1>6. paths' # <<>> /\ Len(paths') = 1 /\ paths'[1] = longer
  <2>1. insert_tail_parent(paths, Parent[child]) = [paths EXCEPT ![1] = longer]
    BY <1>2 DEF insert_tail_parent
  <2> HIDE DEF longer
  <2>2. QED
    BY <1>2, <1>4, <1>5, <2>1, ExceptSeq, FrontExcept
<1> HIDE DEF longer, front
<1>7. /\ parent' \in Ancestry[front.head]
      /\ Covered(front.head, parent') = Covered(front.head, front.tail) \cup {parent'}
  BY <1>1, <1>2, <1>4, CoveredDown
<1>8. responsible' = responsible \cup {parent'} /\ Claimed(longer) = responsible'
  <2>1. responsible' = Claimed(paths'[1])
    BY <1>1, <1>2, <1>6 DEF responsible, Claimed, syncerVars
  <2>2. Claimed(longer) = Covered(front.head, parent')
    BY <1>5, ClaimedIsCovered
  <2>3. QED
    BY <1>2, <1>6, <1>7, <2>1, <2>2
<1>9. InFlight' = InFlight \cup {parent'}
  BY <1>1, <1>4 DEF InFlight, HeadInFlight, syncerVars
<1>10. OneRange'
  <2> USE <1>1, <1>2, <1>4, <1>5, <1>6 DEF syncerVars, database
  <2>1. /\ Len(paths') = 1 /\ paths'[1].tail \in Ancestry[paths'[1].head]
        /\ IF AtHead' THEN hand' = paths'[1].head ELSE paths'[1].head \in data'
    BY <1>7 DEF OneRange, AtHead, front
  <2>2. data' \cup Range_(batch') \subseteq Claimed(paths'[1])
    BY <1>8 DEF OneRange, front
  <2>3. Claimed(paths'[1]) \subseteq data' \cup InFlight'
    BY <1>8, <1>9 DEF OneRange, front
  <2>4. /\ Len(docs') = 1 /\ SelectorOf(docs'[1]) = paths'[1].selc
        /\ Claimed(docs'[1]) \subseteq Claimed(paths'[1])
    BY <1>8 DEF OneRange, front
  <2>5. QED
    BY <2>1, <2>2, <2>3, <2>4 DEF OneRange, Claimed
<1>11. RunInv'
  BY <1>1, <1>10 DEF RunInv, syncerVars
<1>12. Index!IsOldest(child)
  BY <1>1, <1>2, CoveredEnds DEF Index!IsOldest
<1>13. Index!GrowDown(child)
  <2>1. data' = data /\ ~(gpc \in {"send_nil", "done"}) /\ ~(gpc' \in {"send_nil", "done"})
    BY <1>1, <1>4 DEF database
  <2>2. QED
    BY <1>1, <1>4, <1>8, <1>12, <2>1 DEF Index!GrowDown
<1>14. child \in Tipset
  BY <1>1, <1>2
<1>15. QED
  BY <1>11, <1>13, <1>14 DEF IndexStep, Index!Next

LEMMA BuildAndMergeRun ==
    ASSUME SyncInv, RunInv, BuildAndMerge, ~Fail
    PROVE  RunInv' /\ IndexStep
<1>1. /\ gpc = "build" /\ safe = "second" /\ parent \in Tipset /\ paths[1].tail = parent
      /\ UNCHANGED <<proc, syncerVars, parent, database>> /\ proc = "up"
      /\ batch \in Seq(Tipset)
  BY DEF BuildAndMerge, SyncInv, WalkInv, TypeOK
<1>2. /\ OneRange /\ Len(paths) = 1 /\ merged = NoPath
      /\ paths[1].head \in Tipset /\ paths[1].tail \in Ancestry[paths[1].head]
      /\ Claimed(paths[1]) = Covered(paths[1].head, paths[1].tail)
  BY <1>1, FrontOfRun DEF OneRange, RunInv
<1>3. /\ try_merge_front_with_next(paths).paths = paths
      /\ try_merge_front_with_next(paths).merged = NoPath
  BY <1>2 DEF try_merge_front_with_next, CanMergeFront
<1>4. /\ batch' = Append(batch, parent) /\ paths' = paths /\ merged' = NoPath
      /\ gpc' \in {"send", "insert"}
  BY <1>3 DEF BuildAndMerge, Exit, Walk
<1>5. Range_(batch') = Range_(batch) \cup {parent}
  <2>1. /\ Len(batch') = Len(batch) + 1 /\ Len(batch) \in Nat
        /\ \A i \in 1..Len(batch) : batch'[i] = batch[i]
        /\ batch'[Len(batch) + 1] = parent
    BY <1>1, <1>4, AppendProperties, LenProperties
  <2>2. QED
    BY <2>1 DEF Range_
<1>6. InFlight' = InFlight
  BY <1>1, <1>4, <1>5 DEF InFlight, HeadInFlight, syncerVars
<1>7. parent \in Claimed(paths[1])
  BY <1>1, <1>2, CoveredEnds
<1>8. OneRange'
  <2> USE <1>1, <1>2, <1>4, <1>5, <1>6, <1>7 DEF syncerVars, database
  <2>1. data' \cup Range_(batch') \subseteq Claimed(paths'[1])
    BY DEF OneRange
  <2>2. Claimed(paths'[1]) \subseteq data' \cup InFlight'
    BY DEF OneRange
  <2>3. QED
    BY <2>1, <2>2 DEF OneRange, AtHead, Claimed
<1>9. RunInv'
  BY <1>1, <1>4, <1>8 DEF RunInv, syncerVars
<1>10. responsible' = responsible /\ data' = data
  BY <1>1, <1>4 DEF responsible, Claimed, syncerVars, database
<1>11. QED
  BY <1>1, <1>4, <1>9, <1>10, IndexStutter

LEMMA SendRun ==
    ASSUME SyncInv, RunInv, SendBatch \/ SendNil
    PROVE  RunInv' /\ IndexStep
<1>1. /\ (gpc = "send" /\ gpc' = "store") \/ (gpc = "send_nil" /\ gpc' = "done")
      /\ safe = "second" /\ UNCHANGED <<proc, syncerVars, paths, child, parent, batch,
                                        merged, docs, data>>
  BY DEF SendBatch, SendNil, SyncInv, WalkInv, database
<1>2. OneRange
  BY <1>1, FrontOfRun
<1>3. InFlight' = InFlight
  BY <1>1 DEF InFlight, HeadInFlight, syncerVars
<1>4. RunInv'
  BY <1>1, <1>2, <1>3 DEF RunInv, OneRange, AtHead, Claimed, syncerVars
<1>5. responsible' = responsible
  BY <1>1 DEF responsible, Claimed, syncerVars
<1>6. QED
  BY <1>1, <1>4, <1>5, IndexStutter

LEMMA StoreBatchRun ==
    ASSUME SyncInv, RunInv, StoreBatch, ~Fail
    PROVE  RunInv' /\ IndexStep
<1> DEFINE S == Range_(batch)
<1>1. /\ gpc = "store" /\ gpc' = "persist" /\ safe = "second" /\ data' = Stored(S)
      /\ UNCHANGED <<proc, syncerVars, paths, child, parent, batch, merged, docs>>
  BY DEF StoreBatch, Exit, SyncInv, WalkInv
<1>2. /\ OneRange /\ paths[1].head \in Tipset /\ paths[1].tail \in Tipset
      /\ responsible = Covered(paths[1].head, paths[1].tail)
      /\ Claimed(paths[1]) = Covered(paths[1].head, paths[1].tail)
  BY <1>1, FrontOfRun
<1>3. data' = data \cup S /\ S \subseteq responsible
  BY <1>1, <1>2, StoredAdds DEF OneRange
<1>4. InFlight' = InFlight
  BY <1>1 DEF InFlight, HeadInFlight, syncerVars
<1>5. OneRange'
  <2> USE <1>1, <1>2, <1>3, <1>4 DEF syncerVars
  <2>1. data' \cup Range_(batch') \subseteq Claimed(paths'[1])
    BY DEF OneRange
  <2>2. /\ Claimed(paths'[1]) \subseteq data' \cup InFlight'
        /\ Range_(batch') \subseteq data'
    BY DEF OneRange
  <2>3. QED
    BY <2>1, <2>2 DEF OneRange, AtHead, Claimed
<1>6. RunInv'
  BY <1>1, <1>5 DEF RunInv, syncerVars
<1>7. responsible' = responsible
  BY <1>1 DEF responsible, Claimed, syncerVars
<1>8. Index!Store(S)
  <2>1. ~(gpc \in {"send_nil", "done"}) /\ ~(gpc' \in {"send_nil", "done"})
    BY <1>1
  <2> HIDE DEF S
  <2>2. QED
    BY <1>3, <1>7, <2>1 DEF Index!Store
<1>9. QED
  BY <1>3, <1>6, <1>8 DEF IndexStep, Index!Next

(* A batch is over.  At genesis the range is complete: only the head can   *)
(* be outstanding then.                                                    *)
LEMMA PersistTailRun ==
    ASSUME SyncInv, RunInv, PersistTail, ~Fail
    PROVE  RunInv' /\ IndexStep
<1>1. /\ gpc = "persist" /\ safe = "second" /\ merged = NoPath
      /\ paths[1].tail = parent
      /\ docs' = models_upsert(docs, paths[1]) /\ paths' = refresh_front(paths)
      /\ batch' = <<>> /\ gpc' = IF parent = Genesis THEN "send_nil" ELSE "insert"
      /\ UNCHANGED <<proc, syncerVars, parent, merged, data>> /\ proc = "up"
  BY DEF PersistTail, Exit, Walk, SyncInv, WalkInv, RunInv
<1>2. /\ OneRange /\ paths[1].head \in Tipset /\ paths[1].tail \in Ancestry[paths[1].head]
      /\ spc # "push_path" /\ responsible = Covered(paths[1].head, paths[1].tail)
      /\ Claimed(paths[1]) = responsible
  BY <1>1, FrontOfRun
<1>3. Range_(batch') = {}
  BY <1>1 DEF Range_
<1>4. /\ HeadInFlight' = HeadInFlight /\ InFlight' = HeadInFlight
      /\ InFlight \subseteq HeadInFlight \cup data
  BY <1>1, <1>2, <1>3 DEF InFlight, HeadInFlight, OneRange, syncerVars
<1>5. /\ Len(paths') = 1 /\ paths' # <<>>
      /\ paths'[1].head = paths[1].head /\ paths'[1].tail = paths[1].tail
      /\ Len(docs') = 1 /\ SelectorOf(docs'[1]) = paths'[1].selc
      /\ responsible' = responsible
      /\ Claimed(paths'[1]) = Claimed(paths[1])
      /\ Claimed(docs'[1]) = Claimed(paths[1])
  BY <1>1, <1>2, PersistOnly DEF syncerVars
<1>6. OneRange'
  <2> USE <1>1, <1>2, <1>3, <1>4, <1>5 DEF syncerVars
  <2>1. data' \cup Range_(batch') \subseteq Claimed(paths'[1])
    BY DEF OneRange
  <2>2. Claimed(paths'[1]) \subseteq data' \cup InFlight'
    BY DEF OneRange
  <2>3. QED
    BY <2>1, <2>2 DEF OneRange, AtHead, Claimed
<1>7. RunInv'
  BY <1>1, <1>6 DEF RunInv, syncerVars
<1>8. CASE parent # Genesis
  BY <1>1, <1>5, <1>7, <1>8, IndexStutter
<1>9. CASE parent = Genesis
  <2>1. Genesis \in responsible
    BY <1>1, <1>2, <1>9, CoveredEnds
  <2>2. ASSUME NEW t \in responsible \ data PROVE Index!IsNewest(t)
    <3>1. t \in HeadInFlight
      BY <1>2, <1>4, <2>2 DEF OneRange
    <3>2. t = paths[1].head
      BY <1>2, <3>1 DEF HeadInFlight, OneRange, AtHead
    <3>3. QED
      BY <1>2, <3>2, CoveredEnds DEF Index!IsNewest
  <2>3. gpc' \in {"send_nil", "done"}
    BY <1>1, <1>9
  <2>4. Index!Finish
    BY <1>1, <1>5, <2>1, <2>2, <2>3 DEF Index!Finish
  <2>5. QED
    BY <1>7, <2>4 DEF IndexStep, Index!Next
<1>10. QED
  BY <1>8, <1>9

(* There is no other path to merge with, and none to load. *)
LEMMA NoMerge ==
    ASSUME SyncInv, RunInv
    PROVE  ~DeleteMerged /\ ~ReloadTail /\ ~LoadDelete
<1>1. gpc # "delete" /\ gpc # "reload"
  BY DEF RunInv, NothingYet, OneRange
<1>2. proc # "loading"
  BY NoPathAssumption DEF SyncInv, WalkInv, RunInv
<1>3. QED
  BY <1>1, <1>2 DEF DeleteMerged, ReloadTail, LoadDelete

LEMMA ProcessRun ==
    ASSUME SyncInv, Started, RunInv, FirstRun, FirstRun', Start \/ Crash
    PROVE  RunInv' /\ IndexStep
<1>1. ASSUME safe = "first", NothingYet, spc # "push_path",
             NEW on, Volatile(on, NoPath), paths' = <<>>, UNCHANGED database
      PROVE  RunInv' /\ IndexStep
  <2>1. /\ spc' = "idle" /\ safe' = "first" /\ batch' = <<>> /\ gpc' = "off"
        /\ merged' = NoPath /\ docs' = docs /\ data' = data
    BY <1>1 DEF Volatile, database
  <2>2. RunInv'
    BY <1>1, <2>1 DEF RunInv, NothingYet
  <2>3. responsible = {} /\ responsible' = {} /\ gpc = "off"
    BY <1>1, <2>1 DEF responsible, NothingYet
  <2>4. QED
    BY <2>1, <2>2, <2>3, IndexStutter
<1>2. CASE Start
  <2>1. proc # "up" /\ safe = "first" /\ spc = "idle" /\ docs = <<>> /\ NothingYet
    BY <1>2 DEF Start, RunInv, NothingYet
  <2>2. ASSUME NEW order \in LoadOrders(docs)
        PROVE  ~CanMergeFront(LoadedPaths(docs, order)) /\ LoadedPaths(docs, order) = <<>>
    <3>1. order \in [1..0 -> 1..0]
      BY <2>1, <2>2, LoadLimitAssumption DEF LoadOrders
    <3>2. LoadedPaths(docs, order) = <<>>
      BY <3>1 DEF LoadedPaths
    <3>3. QED
      BY <3>2 DEF CanMergeFront
  <2>3. Volatile("up", NoPath) /\ paths' = <<>> /\ UNCHANGED database
    BY <1>2, <2>2 DEF Start
  <2>4. QED
    BY <1>1, <2>1, <2>3
<1>3. CASE Crash
  <2>1. proc' = "down" /\ starts' = starts /\ proc \in {"up", "loading"}
    BY <1>3 DEF Crash, Volatile, counters
  <2>2. starts \in Nat /\ starts > 0 /\ starts # 1 /\ starts <= 1
    BY <2>1 DEF SyncInv, TypeOK, FirstRun, Started
  <2>3. QED
    BY <2>2
<1>4. QED
  BY <1>2, <1>3

LEMMA RunInvStep ==
    ASSUME SyncInv, Started, FirstRun => RunInv, [Next]_vars, FirstRun'
    PROVE  RunInv' /\ IndexStep
<1>1. FirstRun /\ RunInv /\ ~Fail
  BY FirstRunBack, NoFail
<1>2. CASE HeadMoves \/ ChannelReopens
  BY <1>1, <1>2, LotusRun
<1>3. CASE Syncer
  BY <1>1, <1>3, CacheRun, FirstStoreRun, PushPathRun, InsertHeadRun, PersistHeadRun,
     SendHeadRun, StoreHeadRun
  DEF Syncer
<1>4. CASE SyncToGenesis
  BY <1>1, <1>4, InsertTailRun, BuildAndMergeRun, SendRun, StoreBatchRun, PersistTailRun,
     NoMerge
  DEF SyncToGenesis
<1>5. CASE Start \/ LoadDelete \/ Crash
  BY <1>1, <1>5, ProcessRun, NoMerge
<1>6. CASE UNCHANGED vars
  <2> USE <1>6 DEF vars, syncerVars, genesisVars, database
  <2>1. InFlight' = InFlight /\ AtHead' = AtHead
    BY DEF InFlight, HeadInFlight, AtHead
  <2>2. RunInv'
    BY <1>1, <2>1 DEF RunInv, NothingYet, OneRange, AtHead, Claimed
  <2>3. responsible' = responsible
    BY DEF responsible, Claimed
  <2>4. QED
    BY <2>2, <2>3, IndexStutter
<1>7. QED
  BY <1>2, <1>3, <1>4, <1>5, <1>6 DEF Next

(* Whatever "synced_tipset" claims is in the collections or in the hands   *)
(* of a goroutine about to put it there, for as long as no call has failed *)
(* and the program has not crashed.                                        *)
THEOREM ClaimsAreCovered == Spec => [](FirstRun => ClaimedIsStoredOrInFlight)
<1>1. ASSUME SyncInv, RunInv PROVE ClaimedIsStoredOrInFlight
  <2>1. CASE safe = "first"
    <3>1. docs = <<>>
      BY <1>1, <2>1 DEF RunInv, NothingYet
    <3>2. QED
      BY <3>1 DEF ClaimedIsStoredOrInFlight, Range_
  <2>2. CASE safe # "first"
    <3>1. OneRange
      BY <1>1, <2>2 DEF RunInv
    <3>2. Range_(docs) = {docs[1]}
      BY <3>1 DEF OneRange, Range_
    <3>3. Claimed(docs[1]) \subseteq data \cup InFlight
      BY <3>1 DEF OneRange
    <3>4. QED
      BY <3>2, <3>3 DEF ClaimedIsStoredOrInFlight
  <2>3. QED
    BY <2>1, <2>2
<1>2. SyncInv /\ Started /\ (FirstRun => RunInv) /\ [Next]_vars => (FirstRun => RunInv)'
  BY RunInvStep
<1>3. Init => (FirstRun => RunInv)
  BY RunInvInit
<1>4. SyncInv /\ (FirstRun => RunInv) => (FirstRun => ClaimedIsStoredOrInFlight)
  BY <1>1
<1>5. QED
  BY <1>2, <1>3, <1>4, SyncInvAlways, StartedAlways, PTL DEF Spec

(* A run in which no call fails and the program does not crash follows the *)
(* chain as ChainIndex says.                                               *)
THEOREM FollowsTheChain == Spec /\ []FirstRun => ImplementsIndex
<1>1. SyncInv /\ Started /\ RunInv /\ [Next]_vars /\ FirstRun' => RunInv'
  BY RunInvStep
<1>2. SyncInv /\ Started /\ RunInv /\ [Next]_vars /\ FirstRun' => [Index!Next]_(Index!vars)
  BY RunInvStep DEF IndexStep
<1>3. Init => RunInv /\ Index!Init
  BY RunInvInit
<1>4. QED
  BY <1>1, <1>2, <1>3, SyncInvAlways, StartedAlways, PTL DEF Spec, ImplementsIndex, Index!Spec

-----------------------------------------------------------------------------
(* What the cache holds: what run_syncer needs to go on from the head.     *)

Cached(c, t) == \E i \in 1..Len(c) : c[i] = t

(* A branch goes on below its last tipset. *)
LEMMA BranchGoesDown ==
    ASSUME NEW c \in Seq(Tipset), c # <<>>, IsBranch(c),
           NEW q \in Ancestry[c[1]], ~Cached(c, q)
    PROVE  /\ c[Len(c)] \in Tipset \ {Genesis}
           /\ q \in Ancestry[Parent[c[Len(c)]]]
<1> DEFINE n == Len(c)
           left == {n - i : i \in {j \in 1..n : q \in Ancestry[c[j]]}}
<1>1. n \in Nat /\ 1 \in 1..n /\ \A i \in 1..n : c[i] \in Tipset
  BY LenProperties, EmptySeq, ElementOfSeq
<1>2. left \in SUBSET Nat /\ left # {}
  BY <1>1
<1>3. PICK k \in left : \A j \in left : k <= j
  <2> HIDE DEF left
  <2>1. QED
    BY <1>2, FirstOfNats
<1>4. PICK i \in 1..n : q \in Ancestry[c[i]] /\ k = n - i
  BY <1>3
<1>5. c[i] \in Tipset /\ q # c[i]
  BY <1>1, <1>4 DEF Cached
<1>6. c[i] # Genesis /\ q \in Ancestry[Parent[c[i]]]
  <2>1. Ancestry[c[i]] = IF c[i] = Genesis THEN {c[i]} ELSE {c[i]} \cup Ancestry[Parent[c[i]]]
    BY <1>5, AncestryUnfolds
  <2>2. QED
    BY <1>4, <1>5, <2>1
<1>7. i = n
  <2> SUFFICES ASSUME i # n PROVE FALSE
    OBVIOUS
  <2>1. i + 1 \in 1..n /\ Parent[c[i]] = c[i + 1]
    BY <1>1, <1>4 DEF IsBranch
  <2>2. n - (i + 1) \in left
    BY <1>6, <2>1
  <2>3. k <= n - (i + 1)
    BY <1>3, <2>2
  <2>4. QED
    BY <1>1, <1>4, <2>3
<1>8. QED
  BY <1>5, <1>6, <1>7

(* The oldest tipset of the cache after a push, or the one that leaves it: *)
(* the oldest one of before, or the new one if its parent was not there.   *)
OldestOf(c, t, u) ==
    \/ c # <<>> /\ u = c[Len(c)]
    \/ u = t /\ ~Cached(c, Parent[t])

LEMMA GrownEnd ==
    ASSUME NEW c \in Seq(Tipset), NEW t \in Tipset
    PROVE  /\ Grown(c, t)[1] = t
           /\ OldestOf(c, t, Grown(c, t)[Len(Grown(c, t))])
<1> DEFINE trunk == Trunk(c, t)
           first == CHOOSE i \in 1..Len(c) :
                       c[i] = Parent[t] /\ \A j \in 1..(i - 1) : c[j] # Parent[t]
<1>1. Len(c) \in Nat
  BY LenProperties
<1>2. CASE Cached(c, Parent[t])
  <2>1. \E i \in 1..Len(c) : c[i] = Parent[t] /\ \A j \in 1..(i - 1) : c[j] # Parent[t]
    <3> DEFINE At == {i \in 1..Len(c) : c[i] = Parent[t]}
    <3>1. At \in SUBSET Nat /\ At # {}
      <4>1. PICK i \in 1..Len(c) : c[i] = Parent[t]
        BY <1>2 DEF Cached
      <4>2. i \in At
        BY <4>1
      <4>3. 1..Len(c) \subseteq Nat
        BY <1>1
      <4>4. QED
        BY <4>2, <4>3
    <3>2. PICK i \in At : \A j \in At : i <= j
      BY <3>1, FirstOfNats
    <3>3. QED
      BY <3>2, LenProperties
  <2>2. first \in 1..Len(c) /\ c[first] = Parent[t]
    BY <2>1
  <2>3. trunk = SubSeq(c, first, Len(c))
    BY <1>2 DEF Trunk, Cached
  <2> HIDE DEF first
  <2>4. \A i \in first..Len(c) : c[i] \in Tipset
    BY <1>1, <2>2, ElementOfSeq
  <2>5. /\ trunk \in Seq(Tipset) /\ Len(trunk) = Len(c) - first + 1
        /\ trunk[Len(trunk)] = c[Len(c)]
    <3>1. /\ trunk \in Seq(Tipset) /\ Len(trunk) = Len(c) - first + 1
          /\ \A i \in 1..(Len(c) - first + 1) : trunk[i] = c[first + i - 1]
      BY <1>1, <2>2, <2>3, <2>4, SubSeqProperties
    <3>2. Len(c) - first + 1 \in 1..(Len(c) - first + 1)
          /\ first + (Len(c) - first + 1) - 1 = Len(c)
      BY <1>1, <2>2
    <3> HIDE DEF trunk
    <3>3. QED
      BY <3>1, <3>2
  <2> HIDE DEF trunk
  <2>6. /\ Len(<<t>> \o trunk) = 1 + Len(trunk) /\ (<<t>> \o trunk)[1] = t
        /\ (<<t>> \o trunk)[1 + Len(trunk)] = trunk[Len(trunk)]
    <3>1. <<t>> \in Seq(Tipset) /\ Len(<<t>>) = 1 /\ <<t>>[1] = t
      OBVIOUS
    <3>2. /\ Len(<<t>> \o trunk) = 1 + Len(trunk)
          /\ \A i \in 1..(1 + Len(trunk)) :
                (<<t>> \o trunk)[i] = IF i <= 1 THEN t ELSE trunk[i - 1]
      BY <2>5, <3>1, ConcatProperties
    <3>3. Len(trunk) \in Nat \ {0}
      <4>1. PICK n : n = Len(c) /\ n \in Nat
        BY <1>1
      <4>2. first \in 1..n /\ Len(trunk) = n - first + 1
        BY <2>2, <2>5, <4>1
      <4>3. QED
        BY <4>1, <4>2
    <3>4. QED
      BY <3>2, <3>3
  <2>7. c # <<>>
    BY <2>2, EmptySeq
  <2>8. QED
    BY <2>5, <2>6, <2>7 DEF OldestOf, Grown, trunk
<1>3. CASE ~Cached(c, Parent[t])
  <2>1. Grown(c, t) = <<t>> \o <<>>
    BY <1>3 DEF Grown, Trunk, Cached
  <2>2. <<t>> \o <<>> = <<t>>
    BY ConcatEmptySeq
  <2>3. QED
    BY <1>3, <2>1, <2>2 DEF OldestOf
<1>4. QED
  BY <1>2, <1>3

LEMMA PushFrontEnds ==
    ASSUME NEW c \in Seq(Tipset), NEW t \in Tipset, IsBranch(c)
    PROVE  LET push == push_front(c, t)
               back == push.cache[Len(push.cache)]
           IN  /\ push.evicted = NoTipset =>
                     push.cache # <<>> /\ push.cache[1] = t /\ OldestOf(c, t, back)
               /\ push.evicted # NoTipset =>
                     /\ OldestOf(c, t, push.evicted)
                     /\ IF push.cache = <<>> THEN push.evicted = t
                        ELSE push.cache[1] = t /\ Parent[back] = push.evicted
<1> DEFINE grown == Grown(c, t)
           n == Len(grown)
           kept == SubSeq(grown, 1, n - 1)
           push == push_front(c, t)
<1>1. /\ grown \in Seq(Tipset) /\ grown # <<>> /\ IsBranch(grown)
      /\ grown[1] = t /\ OldestOf(c, t, grown[n])
  BY GrownBranch, GrownEnd
<1> HIDE DEF grown
<1>2. n \in Nat \ {0}
  BY <1>1, LenProperties, EmptySeq
<1>3. CASE IsFront(c, t)
  <2>1. push.cache = c /\ push.evicted = NoTipset /\ c # <<>> /\ c[1] = t
    BY <1>3 DEF push_front, IsFront
  <2> HIDE DEF push
  <2>2. QED
    BY <2>1 DEF OldestOf, push
<1>4. CASE ~IsFront(c, t) /\ n > MaxSize
  <2>1. push.cache = kept /\ push.evicted = grown[n]
    BY <1>4 DEF push_front, grown
  <2>2. grown[n] \in Tipset
    BY <1>1, <1>2, ElementOfSeq
  <2>3. /\ Len(kept) = n - 1 /\ kept \in Seq(Tipset)
        /\ \A i \in 1..(n - 1) : kept[i] = grown[i]
    <3>1. \A i \in 1..(n - 1) : grown[i] \in Tipset
      BY <1>1, <1>2, ElementOfSeq
    <3>2. /\ kept \in Seq(Tipset)
          /\ Len(kept) = IF 1 <= n - 1 THEN (n - 1) - 1 + 1 ELSE 0
          /\ \A i \in 1..((n - 1) - 1 + 1) : kept[i] = grown[1 + i - 1]
      BY <1>2, <3>1, SubSeqProperties
    <3> HIDE DEF kept, n
    <3>3. ASSUME NEW i \in 1..(n - 1) PROVE kept[i] = grown[i]
      <4>1. i \in 1..((n - 1) - 1 + 1) /\ 1 + i - 1 = i
        BY <1>2
      <4>2. QED
        BY <3>2, <4>1
    <3>4. Len(kept) = n - 1
      BY <1>2, <3>2
    <3>5. QED
      BY <3>2, <3>3, <3>4
  <2> HIDE DEF kept, push
  <2>4. CASE kept = <<>>
    <3>1. n = 1
      BY <1>2, <2>3, <2>4
    <3>2. QED
      BY <1>1, <2>1, <2>2, <2>4, <3>1, ChainAssumption DEF push
  <2>5. CASE kept # <<>>
    <3>1. n - 1 \in 1..(n - 1)
      BY <1>2, <2>3, <2>5, EmptySeq
    <3>2. Parent[grown[n - 1]] = grown[(n - 1) + 1]
      BY <1>1, <1>2, <3>1 DEF IsBranch
    <3>3. kept[1] = t /\ Parent[kept[Len(kept)]] = grown[n]
      BY <1>1, <1>2, <2>3, <3>1, <3>2
    <3>4. QED
      BY <1>1, <2>1, <2>2, <2>5, <3>3, ChainAssumption DEF push
  <2>6. QED
    BY <2>4, <2>5
<1>5. CASE ~IsFront(c, t) /\ ~(n > MaxSize)
  <2>1. push.cache = grown /\ push.evicted = NoTipset
    BY <1>5 DEF push_front, grown
  <2> HIDE DEF push
  <2>2. QED
    BY <1>1, <2>1 DEF push
<1>6. QED
  BY <1>3, <1>4, <1>5

(* No notification got lost: each tipset run_syncer is told of stands on   *)
(* one below the tipset it was told of before, and the last one is the     *)
(* head.                                                                   *)
QueueInv ==
    /\ proc # "up" => notifs = <<>> /\ last = NoTipset
    /\ last # Genesis
    /\ notifs # <<>> => lotus = notifs[Len(notifs)]
    /\ notifs = <<>> /\ last # NoTipset => lotus = last
    /\ \A i \in 1..(Len(notifs) - 1) : Parent[notifs[i + 1]] \in Ancestry[notifs[i]]
    /\ last # NoTipset /\ notifs # <<>> => Parent[notifs[1]] \in Ancestry[last]

(* The tipset the cache stands on: on its way out, or the head already. *)
Leaving == spc \in {"first_store", "push_path", "insert"}
Top == IF Leaving THEN hand ELSE paths[1].head

StandsOn(c, top) == c[Len(c)] = top \/ Parent[c[Len(c)]] = top

(* The cache reaches from the parent of the last tipset run_syncer was     *)
(* told of down to the head of the front path, so that the tipset leaving  *)
(* it is that head's child, or the head once more.                         *)
CoverInv ==
    /\ appl = "second" \/ spc = "fill" => last # NoTipset
    /\ spc = "fill" =>
          IF cache = <<>> THEN hand = Parent[last] ELSE cache[1] = Parent[last]
    /\ appl = "second" /\ cache # <<>> => Parent[last] \in Ancestry[cache[1]]
    /\ safe = "second" \/ Leaving =>
          /\ appl = "second"
          /\ IF cache = <<>> THEN Parent[last] \in Ancestry[Top] ELSE StandsOn(cache, Top)
    /\ spc = "insert" => hand = paths[1].head \/ Parent[hand] = paths[1].head

(* What the cache is for: the tipset run_syncer is told of next has the    *)
(* head of the front path below it.                                        *)
NothingSafeReverts ==
    safe = "second" /\ notifs # <<>> =>
        paths[1].head \in Ancestry[Parent[notifs[1]]]

Calm == FirstRun /\ missed = 0 /\ NothingSafeReverts

(* The parent of the tipset run_syncer is told of next is the last one, or *)
(* below that one's parent. *)
LEMMA NextParent ==
    ASSUME SyncInv, QueueInv, notifs # <<>>, last # NoTipset
    PROVE  /\ notifs[1] \in Tipset \ {Genesis} /\ Head(notifs) = notifs[1]
           /\ last \in Tipset \ {Genesis} /\ Parent[last] \in Tipset
           /\ Parent[notifs[1]] \in Tipset
           /\ \/ Parent[notifs[1]] = last
              \/ Parent[notifs[1]] \in Ancestry[Parent[last]]
<1>1. notifs \in Seq(Tipset \ {Genesis}) /\ last \in Tipset \ {Genesis}
  BY DEF SyncInv, TypeOK, MaybeTipset, QueueInv
<1>2. notifs[1] \in Tipset \ {Genesis} /\ Head(notifs) = notifs[1]
  BY <1>1, EmptySeq, ElementOfSeq, HeadTailProperties
<1>3. Ancestry[last] = {last} \cup Ancestry[Parent[last]]
  BY <1>1, AncestryUnfolds
<1>4. Parent[notifs[1]] \in Ancestry[last]
  BY DEF QueueInv
<1>5. QED
  BY <1>1, <1>2, <1>3, <1>4, ChainAssumption

LEMMA QueueInvInit == Init => QueueInv
BY ChainAssumption, EmptySeq DEF Init, QueueInv

LEMMA HeadMovesQueue ==
    ASSUME SyncInv, QueueInv, HeadMoves
    PROVE  QueueInv'
<1>1. PICK apply \in Bursts :
         /\ Branch(apply) /\ lotus' = apply[Len(apply)]
         /\ IF proc = "up" THEN notifs' = notifs \o apply ELSE notifs' = notifs
  BY DEF HeadMoves
<1>2. proc' = proc /\ last' = last /\ lotus \in Tipset
  BY DEF HeadMoves, syncerVars, SyncInv, TypeOK
<1>3. CASE proc # "up"
  BY <1>1, <1>2, <1>3, EmptySeq DEF QueueInv
<1>4. CASE proc = "up"
  <2> DEFINE m == Len(notifs)
             k == Len(apply)
             all == notifs \o apply
  <2>1. apply \in Seq(Tipset \ {Genesis}) /\ k \in Nat \ {0} /\ m \in Nat
        /\ notifs \in Seq(Tipset \ {Genesis})
    <3>1. PICK n \in 1..MaxBurst : apply \in [1..n -> Tipset \ {Genesis}]
      BY DEF Bursts
    <3>2. n \in Nat /\ n \in 1..n
      BY <3>1, BoundsAssumption
    <3>3. apply \in Seq(Tipset \ {Genesis})
      BY <3>1, <3>2, IntervalSeq
    <3>4. apply # <<>>
      BY <3>1, <3>2
    <3>5. QED
      BY <3>3, <3>4, LenProperties, EmptySeq DEF SyncInv, TypeOK
  <2>2. /\ Len(all) = m + k
        /\ \A i \in 1..(m + k) : all[i] = IF i <= m THEN notifs[i] ELSE apply[i - m]
    BY <2>1, ConcatProperties
  <2>3. notifs' = all /\ lotus' = apply[k]
    BY <1>1, <1>4
  <2>4. /\ \A i \in 1..(k - 1) : Parent[apply[i + 1]] = apply[i]
        /\ Parent[apply[1]] \in Ancestry[lotus]
    BY <1>1 DEF Branch
  <2>5. \A i \in 1..k : apply[i] \in Tipset
    BY <2>1, ElementOfSeq
  <2> HIDE DEF all, m, k
  <2>6. all # <<>> /\ all[Len(all)] = apply[k]
    <3>1. m + k \in 1..(m + k) /\ ~(m + k <= m) /\ (m + k) - m = k
      BY <2>1
    <3>2. QED
      BY <2>2, <3>1
  <2>7. ASSUME NEW i \in 1..(Len(all) - 1) PROVE Parent[all[i + 1]] \in Ancestry[all[i]]
    <3>1. CASE i < m
      <4>1. all[i] = notifs[i] /\ all[i + 1] = notifs[i + 1] /\ i \in 1..(m - 1)
        BY <2>1, <2>2, <3>1
      <4>2. QED
        BY <4>1 DEF QueueInv, m
    <3>2. CASE i = m
      <4>1. m \in 1..(m + k) /\ m + 1 \in 1..(m + k) /\ (m + 1) - m = 1 /\ ~(m + 1 <= m)
        BY <2>1, <2>2, <3>2
      <4>2. all[i] = notifs[m] /\ all[i + 1] = apply[1]
        BY <2>2, <3>2, <4>1
      <4>3. notifs # <<>>
        BY <2>1, <3>2, EmptySeq DEF m
      <4>4. QED
        BY <2>4, <4>2, <4>3 DEF QueueInv, m
    <3>3. CASE i > m
      <4>1. i - m \in 1..(k - 1) /\ (i + 1) - m = (i - m) + 1
        BY <2>1, <2>2, <3>3
      <4>2. all[i] = apply[i - m] /\ all[i + 1] = apply[(i - m) + 1]
        BY <2>1, <2>2, <3>3, <4>1
      <4>3. apply[i - m] \in Tipset
        BY <2>1, <2>5, <4>1
      <4>4. QED
        BY <2>4, <4>1, <4>2, <4>3, BelowIsLower
    <3>4. QED
      BY <2>1, <2>2, <3>1, <3>2, <3>3
  <2>8. last # NoTipset => Parent[all[1]] \in Ancestry[last]
    <3>1. CASE notifs = <<>>
      <4>1. m = 0 /\ all[1] = apply[1]
        BY <2>1, <2>2, <3>1 DEF m
      <4>2. QED
        BY <2>4, <3>1, <4>1 DEF QueueInv
    <3>2. CASE notifs # <<>>
      <4>1. m \in Nat \ {0}
        BY <2>1, <3>2, EmptySeq DEF m
      <4>2. all[1] = notifs[1]
        BY <2>1, <2>2, <4>1
      <4>3. QED
        BY <3>2, <4>2 DEF QueueInv
    <3>3. QED
      BY <3>1, <3>2
  <2>9. QED
    BY <1>2, <1>4, <2>3, <2>6, <2>7, <2>8 DEF QueueInv
<1>5. QED
  BY <1>3, <1>4

(* run_syncer takes a notification. *)
LEMMA TakeQueue ==
    ASSUME SyncInv, QueueInv, notifs # <<>>, proc = "up",
           notifs' = Tail(notifs), last' = Head(notifs), UNCHANGED <<lotus, proc>>
    PROVE  QueueInv'
<1> DEFINE m == Len(notifs)
<1>1. notifs \in Seq(Tipset \ {Genesis}) /\ m \in Nat \ {0}
  BY LenProperties, EmptySeq DEF SyncInv, TypeOK
<1>2. /\ Len(notifs') = m - 1
      /\ \A i \in 1..(m - 1) : notifs'[i] = notifs[i + 1]
      /\ last' = notifs[1] /\ notifs[1] \in Tipset \ {Genesis}
  BY <1>1, HeadTailProperties, ElementOfSeq
<1>3. notifs' \in Seq(Tipset \ {Genesis})
  BY <1>1, HeadTailProperties
<1>4. /\ notifs' = <<>> => m = 1
      /\ notifs' # <<>> => m > 1
  <2>1. notifs' = <<>> <=> Len(notifs') = 0
    BY <1>3, EmptySeq
  <2> HIDE DEF m
  <2>2. Len(notifs') = m - 1 /\ m \in Nat \ {0}
    BY <1>1, <1>2
  <2>3. (Len(notifs') = 0 => m = 1) /\ (Len(notifs') # 0 => m > 1)
    <3> DEFINE k == Len(notifs')
    <3>1. k = m - 1 /\ m \in Nat \ {0}
      BY <2>2
    <3> HIDE DEF k
    <3>2. (k = 0 => m = 1) /\ (k # 0 => m > 1)
      BY <3>1
    <3>3. QED
      BY <3>2 DEF k
  <2>4. QED
    BY <2>1, <2>3
<1>5. lotus' = notifs[m]
  BY DEF QueueInv
<1>6. \A i \in 1..(m - 1) : Parent[notifs[i + 1]] \in Ancestry[notifs[i]]
  BY DEF QueueInv
<1> HIDE DEF m
<1>7. notifs' # <<>> => lotus' = notifs'[Len(notifs')]
  <2> SUFFICES ASSUME notifs' # <<>> PROVE lotus' = notifs'[Len(notifs')]
    OBVIOUS
  <2>1. m - 1 \in 1..(m - 1) /\ (m - 1) + 1 = m
    BY <1>1, <1>4
  <2>2. QED
    BY <1>2, <1>5, <2>1
<1>8. notifs' = <<>> => lotus' = last'
  BY <1>2, <1>4, <1>5
<1>9. \A i \in 1..(Len(notifs') - 1) : Parent[notifs'[i + 1]] \in Ancestry[notifs'[i]]
  <2> SUFFICES ASSUME NEW i \in 1..(Len(notifs') - 1)
               PROVE  Parent[notifs'[i + 1]] \in Ancestry[notifs'[i]]
    OBVIOUS
  <2>1. i \in 1..(m - 1) /\ i + 1 \in 1..(m - 1)
    BY <1>1, <1>2
  <2>2. QED
    BY <1>2, <1>6, <2>1
<1>10. notifs' # <<>> => Parent[notifs'[1]] \in Ancestry[last']
  <2> SUFFICES ASSUME notifs' # <<>> PROVE Parent[notifs'[1]] \in Ancestry[last']
    OBVIOUS
  <2>1. 1 \in 1..(m - 1) /\ 1 + 1 = 2
    BY <1>1, <1>4
  <2>2. QED
    BY <1>2, <1>6, <2>1
<1>11. QED
  BY <1>2, <1>7, <1>8, <1>9, <1>10 DEF QueueInv

LEMMA QueueInvStep ==
    ASSUME SyncInv, QueueInv, [Next]_vars, missed' = 0
    PROVE  QueueInv'
<1>1. CASE HeadMoves
  BY <1>1, HeadMovesQueue
<1>2. ~ChannelReopens
  BY DEF ChannelReopens, SyncInv, TypeOK
<1>3. CASE FirstAppl \/ SecondAppl
  BY <1>3, TakeQueue DEF FirstAppl, SecondAppl
<1>4. ASSUME UNCHANGED <<lotus, notifs, last, proc>> PROVE QueueInv'
  BY <1>4 DEF QueueInv
<1>5. CASE FallThrough \/ FirstStore \/ PushPath \/ InsertHead \/ PersistHead \/ SendHead
           \/ StoreHead
  BY <1>4, <1>5 DEF FallThrough, FirstStore, PushPath, InsertHead, PersistHead, SendHead,
     StoreHead, environment
<1>6. CASE SyncToGenesis
  BY <1>4, <1>6 DEF SyncToGenesis, InsertTail, BuildAndMerge, SendBatch, StoreBatch,
     PersistTail, DeleteMerged, ReloadTail, SendNil, environment, syncerVars
<1>7. CASE Start \/ LoadDelete \/ Crash
  <2>1. ASSUME notifs' = <<>>, last' = NoTipset PROVE QueueInv'
    BY <2>1, ChainAssumption, EmptySeq DEF QueueInv
  <2>2. \/ notifs' = <<>> /\ last' = NoTipset
        \/ UNCHANGED <<lotus, notifs, last, proc>>
    BY <1>7 DEF Start, LoadDelete, Crash, Volatile, syncerVars
  <2>3. QED
    BY <1>4, <2>1, <2>2
<1>8. CASE UNCHANGED vars
  BY <1>4, <1>8 DEF vars, environment, syncerVars
<1>9. QED
  BY <1>1, <1>2, <1>3, <1>5, <1>6, <1>7, <1>8 DEF Next, Syncer

LEMMA CoverInvInit == Init => CoverInv
BY DEF Init, CoverInv, Leaving

(* Steps that leave the cache, the head and run_syncer's place alone. *)
LEMMA CoverStays ==
    ASSUME CoverInv, UNCHANGED <<cache, last, appl, safe, hand>>,
           spc' = spc \/ spc \notin {"fill", "first_store", "push_path", "insert"},
           spc' = spc \/ spc' \notin {"fill", "first_store", "push_path", "insert"},
           safe = "second" => paths'[1].head = paths[1].head,
           spc = "insert" => safe = "second"
    PROVE  CoverInv'
<1>1. Leaving' = Leaving
  BY DEF Leaving
<1>2. safe = "second" \/ Leaving => Top' = Top
  BY <1>1 DEF Top
<1>3. QED
  BY <1>1, <1>2 DEF CoverInv, StandsOn

LEMMA FirstApplCover ==
    ASSUME SyncInv, CoverInv, FirstAppl
    PROVE  CoverInv'
<1>1. /\ spc = "idle" /\ spc' = "fill" /\ appl = "first" /\ notifs # <<>>
      /\ last' = Head(notifs) /\ hand' = Parent[Head(notifs)]
      /\ UNCHANGED <<cache, appl, safe, paths>>
  BY DEF FirstAppl
<1>2. cache = <<>> /\ safe = "first"
  BY <1>1 DEF SyncInv, TypeOK, CacheInv, CoverInv
<1>3. last' # NoTipset
  BY <1>1, HeadTailProperties, ChainAssumption DEF SyncInv, TypeOK
<1>4. QED
  BY <1>1, <1>2, <1>3 DEF CoverInv, Leaving

LEMMA FallThroughCover ==
    ASSUME SyncInv, CoverInv, QueueInv, FallThrough, ~Fail
    PROVE  CoverInv'
<1> DEFINE longer == push_back(cache, hand)
<1>1. /\ spc = "fill" /\ safe = "first" /\ last \in Tipset \ {Genesis}
      /\ hand \in Tipset /\ cache \in Seq(Tipset)
      /\ UNCHANGED <<last, safe, paths>>
  BY DEF FallThrough, SyncInv, TypeOK, MaybeTipset, SyncerInv, CacheInv, CoverInv, QueueInv
<1>2. longer # <<>> /\ longer[1] = Parent[last]
  <2>1. cache # <<>> => 1 \in 1..Len(cache)
    BY <1>1, EmptySeq
  <2>2. /\ Append(cache, hand) # <<>>
        /\ Append(cache, hand)[1] = IF cache = <<>> THEN hand ELSE cache[1]
    BY <1>1, <2>1, AppendProperties, EmptySeq
  <2>3. cache # <<>> => cache[1] = Parent[last]
    BY <1>1 DEF CoverInv
  <2>4. cache = <<>> => hand = Parent[last]
    BY <1>1 DEF CoverInv
  <2>5. QED
    BY <2>2, <2>3, <2>4 DEF push_back
<1>3. Parent[last] \in Ancestry[Parent[last]]
  BY <1>1, ChainAssumption, BelowIsLower
<1>4. \/ LeaveFill /\ cache' \in {cache, longer}
      \/ cache' = longer /\ hand' = Parent[hand] /\ spc' = spc /\ appl' = appl
  BY DEF FallThrough
<1> HIDE DEF longer
<1>5. CASE LeaveFill /\ cache' \in {cache, longer}
  <2>1. spc' = "idle" /\ appl' = "second" /\ ~Leaving'
    BY <1>5 DEF LeaveFill, Leaving
  <2>2. cache' # <<>> => cache'[1] = Parent[last]
    BY <1>1, <1>2, <1>5 DEF CoverInv
  <2>3. last' # NoTipset
    BY <1>1, ChainAssumption
  <2>4. QED
    BY <1>1, <1>3, <2>1, <2>2, <2>3 DEF CoverInv
<1>6. CASE cache' = longer /\ hand' = Parent[hand] /\ spc' = spc /\ appl' = appl
  <2>1. appl = "first" /\ ~Leaving'
    BY <1>1, <1>6 DEF SyncInv, CacheInv, Leaving
  <2>2. last' # NoTipset
    BY <1>1, ChainAssumption
  <2>3. QED
    BY <1>1, <1>2, <1>6, <2>1, <2>2 DEF CoverInv
<1>7. QED
  BY <1>4, <1>5, <1>6

(* The parent of the next notification is the head, a child of it, or its  *)
(* own parent is still in the cache.                                       *)
LEMMA NextStands ==
    ASSUME SyncInv, QueueInv, CoverInv, NothingSafeReverts,
           safe = "second", spc = "idle", notifs # <<>>, paths[1].head \in Tipset
    PROVE  LET in == Parent[notifs[1]]
           IN  \/ in = paths[1].head
               \/ Parent[in] = paths[1].head
               \/ Cached(cache, Parent[in])
<1> DEFINE top == paths[1].head
           in == Parent[notifs[1]]
           q == Parent[in]
<1>1. appl = "second" /\ last # NoTipset /\ Top = top
  BY DEF CoverInv, Leaving, Top
<1>2. in \in Tipset /\ Parent[last] \in Tipset /\ last \in Tipset \ {Genesis}
      /\ (in = last \/ in \in Ancestry[Parent[last]])
  BY <1>1, NextParent
<1>3. top \in Ancestry[in]
  BY DEF NothingSafeReverts
<1> SUFFICES ASSUME in # top, q # top PROVE Cached(cache, q)
  OBVIOUS
<1>4. /\ in # Genesis /\ q \in Tipset
      /\ top \in Ancestry[q] /\ Height[top] < Height[q]
  <2>1. Ancestry[in] = IF in = Genesis THEN {in} ELSE {in} \cup Ancestry[q]
    BY <1>2, AncestryUnfolds
  <2>2. in # Genesis
    BY <1>3, <2>1
  <2>3. q \in Tipset
    BY <1>2, <2>2, ChainAssumption
  <2>4. top \in Ancestry[q]
    BY <1>3, <2>1, <2>2
  <2>5. QED
    BY <2>2, <2>3, <2>4, BelowIsLower
<1>5. q \in Ancestry[Parent[last]]
  <2>1. CASE in = last
    BY <1>2, <2>1, BelowIsLower
  <2>2. CASE in \in Ancestry[Parent[last]]
    BY <1>2, <1>4, <2>2, ParentIsBelow
  <2>3. QED
    BY <1>2, <2>1, <2>2
<1>6. q \notin Ancestry[top]
  <2> SUFFICES ASSUME q \in Ancestry[top] PROVE FALSE
    OBVIOUS
  <2>1. Height[q] < Height[top] \/ q = top
    BY BelowIsLower
  <2>2. Height[q] \in Nat /\ Height[top] \in Nat
    BY <1>4, ChainAssumption
  <2>3. QED
    BY <1>4, <2>1, <2>2
<1>7. CASE cache = <<>>
  <2>1. Parent[last] \in Ancestry[top]
    BY <1>1, <1>7 DEF CoverInv
  <2>2. QED
    BY <1>5, <1>6, <2>1, AncestryIsClosed
<1>8. CASE cache # <<>>
  <2>1. cache \in Seq(Tipset) /\ IsBranch(cache) /\ cache[1] \in Tipset
    BY <1>8, EmptySeq, ElementOfSeq DEF SyncInv, TypeOK, CacheInv
  <2>2. Parent[last] \in Ancestry[cache[1]]
    BY <1>1, <1>8 DEF CoverInv
  <2>3. q \in Ancestry[cache[1]]
    BY <1>5, <2>1, <2>2, AncestryIsClosed
  <2> DEFINE back == cache[Len(cache)]
  <2>4. back = top \/ Parent[back] = top
    BY <1>1, <1>8 DEF CoverInv, StandsOn
  <2> SUFFICES ASSUME ~Cached(cache, q) PROVE FALSE
    OBVIOUS
  <2>5. back \in Tipset \ {Genesis} /\ q \in Ancestry[Parent[back]]
    BY <1>8, <2>1, <2>3, BranchGoesDown
  <2> HIDE DEF back, q
  <2>6. CASE back = top
    <3>1. Ancestry[top] = {top} \cup Ancestry[Parent[top]]
      BY <2>5, <2>6, AncestryUnfolds
    <3>2. QED
      BY <1>6, <2>5, <2>6, <3>1
  <2>7. CASE Parent[back] = top
    BY <1>6, <2>5, <2>7
  <2>8. QED
    BY <2>4, <2>6, <2>7
<1>9. QED
  BY <1>7, <1>8

LEMMA SecondApplCover ==
    ASSUME SyncInv, QueueInv, CoverInv, NothingSafeReverts, SecondAppl, ~Fail
    PROVE  CoverInv'
<1> DEFINE in == Parent[notifs[1]]
           push == push_front(cache, in)
           top == paths[1].head
<1>1. /\ spc = "idle" /\ appl = "second" /\ notifs # <<>> /\ last # NoTipset
      /\ UNCHANGED <<appl, safe, paths>> /\ ~Leaving
      /\ safe = "second" => Top = top
  BY DEF SecondAppl, CoverInv, Leaving, Top
<1>2. /\ notifs[1] \in Tipset \ {Genesis} /\ Head(notifs) = notifs[1]
      /\ last \in Tipset \ {Genesis} /\ Parent[last] \in Tipset /\ in \in Tipset
      /\ in = last \/ in \in Ancestry[Parent[last]]
  BY <1>1, NextParent
<1>3. /\ last' = notifs[1] /\ last' # NoTipset
      /\ \/ Height[last] = Height[notifs[1]] /\ UNCHANGED <<cache, hand, spc>>
         \/ /\ cache' = push.cache /\ hand' = push.evicted
            /\ spc' = IF push.evicted = NoTipset THEN "idle"
                      ELSE IF safe = "first" THEN "first_store" ELSE "insert"
  BY <1>2, ChainAssumption DEF SecondAppl
<1>4. cache \in Seq(Tipset) /\ IsBranch(cache) /\ safe \in {"first", "second"}
  BY DEF SyncInv, TypeOK, CacheInv
<1>5. CASE Height[last] = Height[notifs[1]] /\ UNCHANGED <<cache, hand, spc>>
  <2>1. in \in Ancestry[Parent[last]]
    <3>1. /\ Height[in] < Height[notifs[1]]
          /\ Height[in] \in Nat /\ Height[notifs[1]] \in Nat
      BY <1>2, ChainAssumption
    <3>2. in # last
      BY <1>5, <3>1
    <3>3. QED
      BY <1>2, <3>2
  <2>2. cache # <<>> => in \in Ancestry[cache[1]]
    <3> SUFFICES ASSUME cache # <<>> PROVE in \in Ancestry[cache[1]]
      OBVIOUS
    <3>1. cache[1] \in Tipset /\ Parent[last] \in Ancestry[cache[1]]
      BY <1>1, <1>4, EmptySeq, ElementOfSeq DEF CoverInv
    <3>2. QED
      BY <2>1, <3>1, AncestryIsClosed
  <2>3. safe = "second" => IF cache = <<>> THEN in \in Ancestry[top] ELSE StandsOn(cache, top)
    <3> SUFFICES ASSUME safe = "second"
                 PROVE  IF cache = <<>> THEN in \in Ancestry[top] ELSE StandsOn(cache, top)
      OBVIOUS
    <3>1. IF cache = <<>> THEN Parent[last] \in Ancestry[top] ELSE StandsOn(cache, top)
      BY <1>1 DEF CoverInv
    <3>2. top \in Tipset
      BY FrontPath DEF SyncInv, SyncerInv, TypeOK
    <3>3. QED
      BY <2>1, <3>1, <3>2, AncestryIsClosed
  <2>4. ~Leaving' /\ Top' = top /\ StandsOn(cache, top)' = StandsOn(cache, top)
    BY <1>1, <1>5 DEF Leaving, Top, StandsOn
  <2>5. Parent[last'] = in
    BY <1>3
  <2> HIDE DEF in, top
  <2>6. QED
    BY <1>1, <1>3, <1>5, <2>2, <2>3, <2>4, <2>5 DEF CoverInv, StandsOn
<1>6. CASE /\ cache' = push.cache /\ hand' = push.evicted
           /\ spc' = IF push.evicted = NoTipset THEN "idle"
                     ELSE IF safe = "first" THEN "first_store" ELSE "insert"
  <2> DEFINE back == cache'[Len(cache')]
  <2>1. /\ hand' = NoTipset => cache' # <<>> /\ cache'[1] = in /\ OldestOf(cache, in, back)
        /\ hand' # NoTipset =>
              /\ OldestOf(cache, in, hand')
              /\ IF cache' = <<>> THEN hand' = in
                 ELSE cache'[1] = in /\ Parent[back] = hand'
    BY <1>2, <1>4, <1>6, PushFrontEnds
  <2>2. ASSUME NEW u, OldestOf(cache, in, u), safe = "second"
        PROVE  u = top \/ Parent[u] = top
    <3>1. CASE cache # <<>> /\ u = cache[Len(cache)]
      BY <1>1, <2>2, <3>1 DEF CoverInv, StandsOn
    <3>2. CASE u = in /\ ~Cached(cache, Parent[in])
      <4>1. top \in Tipset
        BY <2>2, FrontPath DEF SyncInv, SyncerInv, TypeOK
      <4>2. QED
        BY <1>1, <2>2, <3>2, <4>1, NextStands
    <3>3. QED
      BY <2>2, <3>1, <3>2 DEF OldestOf
  <2>3. Parent[last'] = in /\ in \in Ancestry[in]
    BY <1>2, <1>3, BelowIsLower
  <2>4. spc' # "fill" /\ (cache' # <<>> => cache'[1] = in)
    BY <1>6, <2>1
  <2>5. paths'[1].head = top
    BY <1>1
  <2>6. CASE hand' = NoTipset
    <3>1. spc' = "idle" /\ ~Leaving' /\ Top' = top
      BY <1>1, <1>6, <2>6 DEF Leaving, Top
    <3>2. safe = "second" => back = top \/ Parent[back] = top
      BY <2>1, <2>2, <2>6
    <3> HIDE DEF in, top
    <3>3. QED
      BY <1>1, <1>3, <2>1, <2>3, <2>4, <2>6, <3>1, <3>2 DEF CoverInv, StandsOn
  <2>7. CASE hand' # NoTipset
    <3>1. /\ spc' \in {"first_store", "insert"} /\ Leaving' /\ Top' = hand'
          /\ spc' = "insert" => safe = "second"
      BY <1>4, <1>6, <2>7 DEF Leaving, Top
    <3>2. spc' = "insert" => hand' = top \/ Parent[hand'] = top
      BY <2>1, <2>2, <2>7, <3>1
    <3> HIDE DEF in, top
    <3>3. QED
      BY <1>1, <1>3, <2>1, <2>3, <2>4, <2>5, <2>7, <3>1, <3>2 DEF CoverInv, StandsOn
  <2>8. QED
    BY <2>6, <2>7
<1>7. QED
  BY <1>3, <1>5, <1>6

(* The safe tipset on its way into the path. *)
LEMMA SafeCover ==
    ASSUME SyncInv, CoverInv, FirstStore \/ PushPath \/ InsertHead, ~Fail
    PROVE  CoverInv'
<1>1. UNCHANGED <<cache, last, appl>> /\ hand \in Tipset
  BY DEF FirstStore, PushPath, InsertHead, SyncInv, SyncerInv
<1>2. ASSUME Leaving, Top' = Top, spc' \notin {"fill", "insert"}
      PROVE  CoverInv'
  BY <1>1, <1>2 DEF CoverInv, StandsOn
<1>3. CASE FirstStore
  <2>1. spc = "first_store" /\ spc' = "push_path" /\ hand' = hand
    BY <1>3 DEF FirstStore
  <2>2. QED
    BY <1>2, <2>1 DEF Leaving, Top
<1>4. CASE PushPath
  <2>1. /\ spc = "push_path" /\ spc' = "idle" /\ paths' = <<NewPath(hand)>> \o paths
        /\ paths \in Seq(Path)
    BY <1>4 DEF PushPath, SafeDone, SyncInv, TypeOK
  <2>2. paths'[1].head = hand
    BY <1>1, <2>1, PushNewType
  <2>3. QED
    BY <1>2, <2>1, <2>2 DEF Leaving, Top
<1>5. CASE InsertHead
  <2>1. /\ spc = "insert" /\ paths \in Seq(Path) /\ paths # <<>>
        /\ hand = paths[1].head \/ Parent[hand] = paths[1].head
    BY <1>5 DEF InsertHead, SyncInv, SyncerInv, TypeOK, CoverInv
  <2>2. CASE IsHeadChild(paths, hand)
    <3>1. spc' = "persist" /\ paths' = insert_head_child(paths, hand)
      BY <1>5, <2>2 DEF InsertHead
    <3>2. paths'[1] = [paths[1] EXCEPT !.head = hand] /\ paths[1] \in Path
      BY <1>1, <2>1, <3>1, InsertHeadType, FrontPath
    <3>3. paths'[1].head = hand
      BY <3>2 DEF Path
    <3>4. QED
      BY <1>2, <2>1, <3>1, <3>3 DEF Leaving, Top
  <2>3. CASE ~IsHeadChild(paths, hand)
    <3>1. spc' = "idle" /\ paths' = paths
      BY <1>5, <2>3 DEF InsertHead, SafeDone
    <3>2. hand = paths[1].head
      BY <2>1, <2>3 DEF IsHeadChild
    <3>3. QED
      BY <1>2, <2>1, <3>1, <3>2 DEF Leaving, Top
  <2>4. QED
    BY <2>2, <2>3
<1>6. QED
  BY <1>3, <1>4, <1>5

(* sync_to_genesis moves the other end of the path. *)
LEMMA WalkKeepsHead ==
    ASSUME SyncInv, RunInv, SyncToGenesis, ~Fail
    PROVE  paths'[1].head = paths[1].head
<1>1. safe = "second"
  BY DEF SyncToGenesis, InsertTail, BuildAndMerge, SendBatch, StoreBatch, PersistTail,
     DeleteMerged, ReloadTail, SendNil, SyncInv, WalkInv
<1>2. OneRange /\ paths \in Seq(Path) /\ paths # <<>> /\ paths[1] \in Path
  BY <1>1, FrontOfRun
<1>3. CASE InsertTail
  <2>1. child \in Tipset \ {Genesis} /\ Parent[child] \in Tipset
    BY <1>3, ChainAssumption DEF InsertTail, SyncInv, WalkInv
  <2>2. paths' \in {paths, insert_tail_parent(paths, Parent[child])}
    BY <1>3 DEF InsertTail, Exit
  <2>3. insert_tail_parent(paths, Parent[child])[1] = [paths[1] EXCEPT !.tail = Parent[child]]
    BY <1>2, <2>1, InsertTailType
  <2>4. QED
    BY <1>2, <2>2, <2>3 DEF Path
<1>4. CASE BuildAndMerge
  <2>1. try_merge_front_with_next(paths).paths = paths
    BY <1>2 DEF try_merge_front_with_next, CanMergeFront, OneRange
  <2>2. QED
    BY <1>4, <2>1 DEF BuildAndMerge
<1>5. CASE PersistTail
  BY <1>1, <1>5, PersistFront DEF PersistTail
<1>6. CASE SendBatch \/ StoreBatch \/ SendNil
  BY <1>6 DEF SendBatch, StoreBatch, SendNil
<1>7. QED
  BY <1>3, <1>4, <1>5, <1>6, NoMerge DEF SyncToGenesis

LEMMA CoverInvStep ==
    ASSUME SyncInv, Started, RunInv, FirstRun, FirstRun', QueueInv, CoverInv,
           NothingSafeReverts, [Next]_vars
    PROVE  CoverInv'
<1>1. ~Fail /\ (spc = "insert" => safe = "second")
  BY NoFail DEF SyncInv, SyncerInv
<1>2. CASE HeadMoves \/ ChannelReopens
  BY <1>1, <1>2, CoverStays DEF HeadMoves, ChannelReopens, syncerVars
<1>3. CASE FirstAppl \/ FallThrough \/ SecondAppl
  BY <1>1, <1>3, FirstApplCover, FallThroughCover, SecondApplCover
<1>4. CASE FirstStore \/ PushPath \/ InsertHead
  BY <1>1, <1>4, SafeCover
<1>5. CASE PersistHead \/ SendHead \/ StoreHead
  <2>1. /\ UNCHANGED <<cache, last, appl, safe>> /\ safe = "second"
        /\ spc \in {"persist", "send", "store"} /\ spc' \in {"idle", "send", "store"}
    BY <1>5 DEF PersistHead, SendHead, StoreHead, SafeDone, SyncInv, SyncerInv
  <2>2. paths' \in {paths, refresh_front(paths)}
    BY <1>5 DEF PersistHead, SendHead, StoreHead
  <2>3. paths'[1].head = paths[1].head
    BY <2>1, <2>2, PersistFront
  <2>4. Top' = Top /\ ~Leaving /\ ~Leaving'
    BY <2>1, <2>3 DEF Top, Leaving
  <2>5. QED
    BY <2>1, <2>4 DEF CoverInv, StandsOn
<1>6. CASE SyncToGenesis
  <2>1. UNCHANGED syncerVars
    BY <1>6 DEF SyncToGenesis, InsertTail, BuildAndMerge, SendBatch, StoreBatch,
       PersistTail, DeleteMerged, ReloadTail, SendNil
  <2>2. QED
    BY <1>1, <1>6, <2>1, WalkKeepsHead, CoverStays DEF syncerVars
<1>7. CASE Start \/ LoadDelete \/ Crash
  <2>1. ~LoadDelete
    BY NoMerge
  <2>2. appl' = "first" /\ safe' = "first" /\ spc' = "idle"
    BY <1>7, <2>1 DEF Start, Crash, Volatile
  <2>3. QED
    BY <2>2 DEF CoverInv, Leaving
<1>8. CASE UNCHANGED vars
  BY <1>1, <1>8, CoverStays DEF vars, syncerVars
<1>9. QED
  BY <1>2, <1>3, <1>4, <1>5, <1>6, <1>7, <1>8 DEF Next, Syncer

(* A safe tipset is never dropped, as long as no notification is lost and  *)
(* no reorg reaches below the head of the front path: what leaves the      *)
(* cache continues that path, or is its head once more and stored already. *)
THEOREM SafeTipsetsKept == Spec /\ []Calm => []NoSafeTipsetLost
<1> DEFINE Inv == RunInv /\ QueueInv /\ CoverInv
<1>1. Init => Inv
  BY RunInvInit, QueueInvInit, CoverInvInit
<1>2. SyncInv /\ Started /\ Calm /\ Calm' /\ Inv /\ [Next]_vars => Inv'
  BY RunInvStep, QueueInvStep, CoverInvStep DEF Calm
<1>3. ASSUME SyncInv, Inv PROVE NoSafeTipsetLost
  <2> SUFFICES ASSUME spc = "insert" PROVE IsHeadChild(paths, hand) \/ hand \in data
    BY DEF NoSafeTipsetLost
  <2>1. safe = "second"
    BY <1>3 DEF SyncInv, SyncerInv
  <2>2. paths[1].head \in data
    BY <1>3, <2>1 DEF RunInv, OneRange, AtHead
  <2>3. hand = paths[1].head \/ Parent[hand] = paths[1].head
    BY <1>3 DEF CoverInv
  <2>4. QED
    BY <2>2, <2>3 DEF IsHeadChild
<1>4. SyncInv /\ Inv => NoSafeTipsetLost
  BY <1>3
<1> HIDE DEF Inv
<1>5. QED
  BY <1>1, <1>2, <1>4, SyncInvAlways, StartedAlways, PTL DEF Spec
=============================================================================
