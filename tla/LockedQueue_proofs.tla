------------------------- MODULE LockedQueue_proofs -------------------------
(***************************************************************************)
(* Theorems about HappiLock, for every set of goroutines, and about the    *)
(* legacy queue it guards: what holds of the lock however deep it is       *)
(* nested, what holds until it is, and what its readers make of the queue  *)
(* that an inner call has left open to others.                             *)
(***************************************************************************)
EXTENDS HappiLock, LegacyQueue, SequenceTheorems, WellFoundedInduction, TLAPS

-----------------------------------------------------------------------------
(* The lock. *)

(* A goroutine inside Lock may still deepen its hold by the call it is in. *)
Room == \A t \in Thread : pc[t] # "out" => depth[t] < MaxDepth

(* The goroutine that has taken mu and not written owner yet is alone, and *)
(* nobody is the owner: Unlock of another one finds no owner and leaves mu *)
(* as it is.                                                               *)
Handover ==
    /\ owner # NoThread => locked
    /\ \A t \in Thread : pc[t] = "own" => locked /\ owner = NoThread
    /\ \A t, u \in Thread : pc[t] = "own" /\ pc[u] = "own" => t = u

LockInv == TypeOK /\ Room /\ Handover

LEMMA LockInvInit == Init => LockInv
<1> SUFFICES ASSUME Init PROVE LockInv
  OBVIOUS
<1> USE LockAssumption DEF Init
<1>1. TypeOK
  <2>1. depth \in [Thread -> 0..MaxDepth]
    OBVIOUS
  <2>2. pc \in [Thread -> {"out", "wait", "own"}]
    OBVIOUS
  <2>3. QED
    BY <2>1, <2>2 DEF TypeOK
<1>2. Room
  BY DEF Room
<1>3. Handover
  BY DEF Handover
<1>4. QED
  BY <1>1, <1>2, <1>3 DEF LockInv

LEMMA LockInvStep == LockInv /\ [Next]_vars => LockInv'
<1> SUFFICES ASSUME LockInv, [Next]_vars PROVE LockInv'
  OBVIOUS
<1> USE LockAssumption DEF LockInv, TypeOK, Room, Handover
<1>1. ASSUME NEW t \in Thread, LockCall(t) PROVE LockInv'
  BY <1>1 DEF LockCall
<1>2. ASSUME NEW t \in Thread, Acquire(t) PROVE LockInv'
  BY <1>2 DEF Acquire
<1>3. ASSUME NEW t \in Thread, SetOwner(t) PROVE LockInv'
  BY <1>3 DEF SetOwner
<1>4. ASSUME NEW t \in Thread, Unlock(t) PROVE LockInv'
  <2>1. pc' = pc /\ depth' = [depth EXCEPT ![t] = @ - 1] /\ depth[t] > 0
    BY <1>4 DEF Unlock
  <2>2. TypeOK'
    <3>1. locked' \in BOOLEAN /\ owner' \in Thread \cup {NoThread} /\ nested' = nested
      BY <1>4 DEF Unlock
    <3>2. depth' \in [Thread -> 0..MaxDepth]
      BY <2>1
    <3>3. QED
      BY <2>1, <3>1, <3>2
  <2>3. Room'
    BY <2>1
  <2>4. Handover'
    BY <1>4, <2>1 DEF Unlock
  <2>5. QED
    BY <2>2, <2>3, <2>4
<1>5. CASE UNCHANGED vars
  BY <1>5 DEF vars
<1>6. QED
  BY <1>1, <1>2, <1>3, <1>4, <1>5 DEF Next

(* The type invariant. *)
THEOREM TypeCorrect == Spec => []TypeOK
<1>1. LockInv => TypeOK
  BY DEF LockInv
<1>2. QED
  BY LockInvInit, LockInvStep, <1>1, PTL DEF Spec

(* Unlock never unlocks a mutex that is not locked, however deep the calls *)
(* of Lock are nested and whoever calls Unlock.                            *)
THEOREM UnlockIsSafe == Spec => []NeverUnlocksUnlocked
<1>1. LockInv => NeverUnlocksUnlocked
  BY DEF LockInv, Handover, NeverUnlocksUnlocked
<1>2. QED
  BY LockInvInit, LockInvStep, <1>1, PTL DEF Spec

-----------------------------------------------------------------------------
(* Up to the first nested call. *)

(* The owner is the goroutine that holds the lock.                         *)
OwnerHolds == ~nested => \A t \in Thread : Holds(t) <=> owner = t

FlatInv == LockInv /\ OwnerHolds

LEMMA FlatInvInit == Init => FlatInv
<1> SUFFICES ASSUME Init PROVE FlatInv
  OBVIOUS
<1>1. \A t \in Thread : Holds(t) <=> owner = t
  <2> TAKE t \in Thread
  <2>1. ~Holds(t)
    BY DEF Init, Holds
  <2>2. owner # t
    BY LockAssumption DEF Init
  <2>3. QED
    BY <2>1, <2>2
<1>2. QED
  BY <1>1, LockInvInit DEF FlatInv, OwnerHolds

(* nested stays true, and a goroutine that holds the lock sets it.         *)
LEMMA NestedIsKept == FlatInv /\ [Next]_vars => (nested => nested')
  BY DEF FlatInv, LockInv, TypeOK, Next, vars, LockCall, Acquire, SetOwner, Unlock

(* Without a nested call so far, a goroutine inside Lock holds nothing.    *)
WaitersHoldNothing == ~nested => \A t \in Thread : pc[t] # "out" => ~Holds(t)

LEMMA OutsideInit == Init => WaitersHoldNothing
  BY DEF Init, WaitersHoldNothing

LEMMA OutsideStep == FlatInv /\ WaitersHoldNothing /\ [Next]_vars => WaitersHoldNothing'
<1> SUFFICES ASSUME FlatInv, WaitersHoldNothing, [Next]_vars, ~nested'
             PROVE  (\A t \in Thread : pc[t] # "out" => ~Holds(t))'
  BY DEF WaitersHoldNothing
<1>1. ~nested
  BY NestedIsKept
<1> USE DEF FlatInv, LockInv, TypeOK, WaitersHoldNothing, Holds
<1>2. ASSUME NEW t \in Thread, LockCall(t)
      PROVE  (\A u \in Thread : pc[u] # "out" => ~Holds(u))'
  BY <1>1, <1>2 DEF LockCall
<1>3. ASSUME NEW t \in Thread, Acquire(t)
      PROVE  (\A u \in Thread : pc[u] # "out" => ~Holds(u))'
  BY <1>1, <1>3 DEF Acquire
<1>4. ASSUME NEW t \in Thread, SetOwner(t)
      PROVE  (\A u \in Thread : pc[u] # "out" => ~Holds(u))'
  BY <1>1, <1>4 DEF SetOwner
<1>5. ASSUME NEW t \in Thread, Unlock(t)
      PROVE  (\A u \in Thread : pc[u] # "out" => ~Holds(u))'
  BY <1>1, <1>5 DEF Unlock
<1>6. CASE UNCHANGED vars
  BY <1>1, <1>6 DEF vars
<1>7. QED
  BY <1>2, <1>3, <1>4, <1>5, <1>6 DEF Next

(* Where nothing is nested, a goroutine that holds the lock holds it once. *)
Once == ~nested => \A t \in Thread : depth[t] <= 1

LEMMA OnceInit == Init => Once
<1> SUFFICES ASSUME Init, NEW t \in Thread PROVE depth[t] <= 1
  BY DEF Once
<1>1. depth[t] = 0
  BY DEF Init
<1>2. QED
  BY <1>1

LEMMA OnceStep == FlatInv /\ WaitersHoldNothing /\ Once /\ [Next]_vars => Once'
<1> SUFFICES ASSUME FlatInv, WaitersHoldNothing, Once, [Next]_vars, ~nested'
             PROVE  (\A t \in Thread : depth[t] <= 1)'
  BY DEF Once
<1>1. ~nested
  BY NestedIsKept
<1> USE LockAssumption DEF FlatInv, LockInv, TypeOK, WaitersHoldNothing, Once, Holds
<1>2. ASSUME NEW t \in Thread, LockCall(t) PROVE (\A u \in Thread : depth[u] <= 1)'
  <2>1. ~Holds(t)
    BY <1>2 DEF LockCall
  <2>2. depth[t] = 0 /\ \A u \in Thread : depth[u] <= 1
    BY <1>1, <2>1
  <2>3. depth' = [depth EXCEPT ![t] = @ + 1] \/ depth' = depth
    BY <1>2 DEF LockCall
  <2>4. QED
    BY <2>2, <2>3
<1>3. ASSUME NEW t \in Thread, Acquire(t) PROVE (\A u \in Thread : depth[u] <= 1)'
  BY <1>1, <1>3 DEF Acquire
<1>4. ASSUME NEW t \in Thread, SetOwner(t) PROVE (\A u \in Thread : depth[u] <= 1)'
  BY <1>1, <1>4 DEF SetOwner
<1>5. ASSUME NEW t \in Thread, Unlock(t) PROVE (\A u \in Thread : depth[u] <= 1)'
  BY <1>1, <1>5 DEF Unlock
<1>6. CASE UNCHANGED vars
  BY <1>1, <1>6 DEF vars
<1>7. QED
  BY <1>2, <1>3, <1>4, <1>5, <1>6 DEF Next

MutexInv == FlatInv /\ WaitersHoldNothing /\ Once

LEMMA OwnerHoldsStep == MutexInv /\ [Next]_vars => OwnerHolds'
<1> SUFFICES ASSUME MutexInv, [Next]_vars, ~nested'
             PROVE  (\A t \in Thread : Holds(t) <=> owner = t)'
  BY DEF OwnerHolds
<1>1. ~nested
  BY NestedIsKept DEF MutexInv
<1> USE LockAssumption DEF MutexInv, WaitersHoldNothing, Once, FlatInv, LockInv, TypeOK, Room,
                           Handover, OwnerHolds, Holds
<1>2. ASSUME NEW t \in Thread, LockCall(t)
      PROVE  (\A u \in Thread : Holds(u) <=> owner = u)'
  BY <1>1, <1>2 DEF LockCall
<1>3. ASSUME NEW t \in Thread, Acquire(t)
      PROVE  (\A u \in Thread : Holds(u) <=> owner = u)'
  BY <1>1, <1>3 DEF Acquire
<1>4. ASSUME NEW t \in Thread, SetOwner(t)
      PROVE  (\A u \in Thread : Holds(u) <=> owner = u)'
  BY <1>1, <1>4 DEF SetOwner
<1>5. ASSUME NEW t \in Thread, Unlock(t)
      PROVE  (\A u \in Thread : Holds(u) <=> owner = u)'
  BY <1>1, <1>5 DEF Unlock
<1>6. CASE UNCHANGED vars
  BY <1>1, <1>6 DEF vars
<1>7. QED
  BY <1>2, <1>3, <1>4, <1>5, <1>6 DEF Next

LEMMA MutexInvInit == Init => MutexInv
  BY FlatInvInit, OutsideInit, OnceInit DEF MutexInv

LEMMA MutexInvStep == MutexInv /\ [Next]_vars => MutexInv'
  BY LockInvStep, OwnerHoldsStep, OutsideStep, OnceStep DEF MutexInv, FlatInv

(* Until a goroutine nests its calls the lock is exclusive, for any number *)
(* of goroutines.                                                          *)
THEOREM LockIsExclusive == Spec => []MutualExclusion
<1>1. MutexInv => MutualExclusion
  BY DEF MutexInv, FlatInv, OwnerHolds, MutualExclusion
<1>2. QED
  BY MutexInvInit, MutexInvStep, <1>1, PTL DEF Spec

(* The refinement mapping picks the owner. *)
LEMMA HolderIsOwner == FlatInv => lockHolder = IF nested THEN NoThread ELSE owner
<1> SUFFICES ASSUME FlatInv PROVE lockHolder = IF nested THEN NoThread ELSE owner
  OBVIOUS
<1> USE DEF FlatInv, OwnerHolds, LockInv, TypeOK
<1>1. CASE ~nested /\ \E t \in Thread : Holds(t)
  BY <1>1 DEF lockHolder
<1>2. CASE ~nested /\ ~\E t \in Thread : Holds(t)
  BY <1>2 DEF lockHolder
<1>3. CASE nested
  BY <1>3 DEF lockHolder
<1>4. QED
  BY <1>1, <1>2, <1>3

(* Up to the first nested call Sexylock implements the abstract mutex:     *)
(* taking mu and writing owner is one Acquire, and only the holder         *)
(* releases it.                                                            *)
THEOREM LockIsMutex == Spec => ImplementsMutex
<1>1. Init => Abstract!Init
  <2> SUFFICES ASSUME Init PROVE lockHolder = NoThread
    BY DEF Abstract!Init
  <2>1. owner = NoThread
    BY DEF Init
  <2>2. QED
    BY <2>1, FlatInvInit, HolderIsOwner
<1>2. MutexInv /\ MutexInv' /\ [Next]_vars => [Abstract!Next]_lockHolder
  <2> SUFFICES ASSUME MutexInv, MutexInv', [Next]_vars
               PROVE  Abstract!Next \/ lockHolder' = lockHolder
    OBVIOUS
  <2>1. /\ lockHolder = IF nested THEN NoThread ELSE owner
        /\ lockHolder' = IF nested' THEN NoThread ELSE owner'
    <3> USE DEF MutexInv, FlatInv, OwnerHolds, LockInv, TypeOK
    <3>1. CASE ~nested' /\ \E t \in Thread : Holds(t)'
      BY <3>1, HolderIsOwner DEF lockHolder
    <3>2. CASE ~nested' /\ ~\E t \in Thread : Holds(t)'
      BY <3>2, HolderIsOwner DEF lockHolder
    <3>3. CASE nested'
      BY <3>3, HolderIsOwner DEF lockHolder
    <3>4. QED
      BY <3>1, <3>2, <3>3
  <2>2. CASE nested
    <3>1. nested'
      BY <2>2, NestedIsKept DEF MutexInv
    <3>2. lockHolder = NoThread
      BY <2>1, <2>2
    <3>3. lockHolder' = NoThread
      BY <2>1, <3>1
    <3>4. QED
      BY <3>2, <3>3
  <2>3. ASSUME ~nested, NEW t \in Thread, LockCall(t)
        PROVE  Abstract!Release(t) \/ lockHolder' = lockHolder
    <3>1. owner' = owner /\ (nested' <=> Holds(t))
      BY <2>3 DEF LockCall
    <3>2. Holds(t) => owner = t
      BY <2>3 DEF MutexInv, FlatInv, OwnerHolds
    <3>3. QED
      BY <2>1, <2>3, <3>1, <3>2 DEF Abstract!Release
  <2>4. ASSUME ~nested, NEW t \in Thread, SetOwner(t) PROVE Abstract!Acquire(t)
    <3>1. owner = NoThread /\ owner' = t /\ nested' = nested
      BY <2>4 DEF SetOwner, MutexInv, FlatInv, LockInv, Handover
    <3>2. QED
      BY <2>1, <2>4, <3>1 DEF Abstract!Acquire
  <2>5. ASSUME ~nested, NEW t \in Thread, Unlock(t) PROVE Abstract!Release(t)
    <3>1. owner = t
      BY <2>5 DEF Unlock, MutexInv, FlatInv, OwnerHolds, Holds
    <3>2. owner' = NoThread /\ nested' = nested
      BY <2>5, <3>1, LockAssumption DEF Unlock
    <3>3. QED
      BY <2>1, <2>5, <3>1, <3>2 DEF Abstract!Release
  <2>6. ASSUME NEW t \in Thread, Acquire(t) PROVE lockHolder' = lockHolder
    BY <2>1, <2>6 DEF Acquire
  <2>7. CASE UNCHANGED vars
    BY <2>1, <2>7 DEF vars
  <2>8. CASE ~nested /\ Next
    BY <2>3, <2>4, <2>5, <2>6, <2>8 DEF Next, Abstract!Next
  <2>9. QED
    BY <2>2, <2>7, <2>8
<1>3. QED
  BY <1>1, <1>2, MutexInvInit, MutexInvStep, PTL DEF Spec, ImplementsMutex, Abstract!Spec

-----------------------------------------------------------------------------
(* Facts about numbers, recursive functions and sums. *)

(* A set of numbers that is not empty has a least one.                     *)
LEMMA FirstOfNats ==
    ASSUME NEW S \in SUBSET Nat, S # {}
    PROVE  \E i \in S : \A j \in S : i <= j
<1>1. PICK i \in S : \A j \in S : <<j, i>> \notin OpToRel(<, Nat)
  BY NatLessThanWellFounded, WFMin
<1>2. \A j \in S : i \in Nat /\ j \in Nat /\ ~(j < i)
  BY <1>1 DEF OpToRel
<1>3. \A j \in S : i <= j
  BY <1>2
<1>4. QED
  BY <1>3

(* From one number on, up to another, if each is followed by the next. *)
LEMMA Upwards ==
    ASSUME NEW n \in Nat, NEW G, 0 \in G, \A i \in 1..n : i - 1 \in G => i \in G
    PROVE  \A i \in 0..n : i \in G
<1> DEFINE Bad == {i \in 0..n : i \notin G}
<1> SUFFICES ASSUME Bad # {} PROVE FALSE
  OBVIOUS
<1>1. PICK i \in Bad : \A j \in Bad : i <= j
  <2>1. Bad \in SUBSET Nat
    OBVIOUS
  <2> HIDE DEF Bad
  <2>2. QED
    BY <2>1, FirstOfNats
<1>2. i \in 0..n /\ i \notin G
  BY <1>1
<1>3. i \in 1..n /\ i - 1 \in 0..n /\ ~(i <= i - 1)
  BY <1>2
<1>4. i - 1 \in G
  BY <1>1, <1>3
<1>5. QED
  BY <1>2, <1>3, <1>4

(* A recursion over an interval has a solution. *)
Solves(w, n, V, base, step) ==
    /\ w \in [0..n -> V] /\ w[0] = base
    /\ \A i \in 1..n : w[i] = step[<<i, w[i - 1]>>]

LEMMA Recursion ==
    ASSUME NEW n \in Nat, NEW V, NEW base \in V, NEW step \in [(1..n) \X V -> V]
    PROVE  \E w : Solves(w, n, V, base, step)
<1> DEFINE Upto(w, k) == w[0] = base /\ \A i \in 1..k : w[i] = step[<<i, w[i - 1]>>]
           G == {k \in 0..n : \E w \in [0..n -> V] : Upto(w, k)}
<1>1. 0 \in G
  <2>1. PICK w : w = [i \in 0..n |-> base]
    OBVIOUS
  <2>2. w \in [0..n -> V] /\ Upto(w, 0)
    BY <2>1
  <2>3. QED
    BY <2>2
<1>2. ASSUME NEW k \in 1..n, k - 1 \in G PROVE k \in G
  <2>1. PICK w \in [0..n -> V] : Upto(w, k - 1)
    BY <1>2
  <2>2. PICK v : v = [i \in 0..n |-> IF i = k THEN step[<<k, w[k - 1]>>] ELSE w[i]]
    OBVIOUS
  <2>3. k - 1 \in 0..n /\ k \in 0..n /\ k # 0 /\ k - 1 # k
    OBVIOUS
  <2>4. step[<<k, w[k - 1]>>] \in V
    BY <2>3
  <2>5. v \in [0..n -> V]
    BY <2>2, <2>4
  <2>6. ASSUME NEW i \in 1..k PROVE v[i] = step[<<i, v[i - 1]>>]
    <3>1. i - 1 \in 0..n /\ i - 1 # k /\ i \in 0..n
      OBVIOUS
    <3>2. v[i - 1] = w[i - 1]
      BY <2>2, <3>1
    <3>3. CASE i = k
      BY <2>2, <2>3, <3>2, <3>3
    <3>4. CASE i # k
      <4>1. i \in 1..(k - 1) /\ v[i] = w[i]
        BY <2>2, <3>1, <3>4
      <4>2. QED
        BY <2>1, <3>2, <4>1
    <3>5. QED
      BY <3>3, <3>4
  <2>7. Upto(v, k)
    <3>1. v[0] = base
      BY <2>1, <2>2, <2>3
    <3>2. QED
      BY <2>6, <3>1
  <2>8. QED
    BY <2>3, <2>5, <2>7
<1>3. n \in G
  <2>1. n \in 0..n
    OBVIOUS
  <2> HIDE DEF G
  <2>2. QED
    BY <1>1, <1>2, <2>1, Upwards
<1>4. QED
  BY <1>3 DEF Solves

(* SumOf: the sum of the first k values. *)
SumStep(w, f, i) == IF i = 0 THEN 0 ELSE w[i - 1] + f[i]
Sums(w, f, k) == w = [i \in 0..k |-> SumStep(w, f, i)]
SumOf(k, f) == LET sum[i \in 0..k] == IF i = 0 THEN 0 ELSE sum[i - 1] + f[i] IN sum[k]

LEMMA SumsAre ==
    ASSUME NEW k \in Nat, NEW f, \A i \in 1..k : f[i] \in Nat
    PROVE  /\ \E w : Sums(w, f, k)
           /\ \A w : Sums(w, f, k) => \A i \in 0..k : w[i] \in Nat
<1>1. \E w : Sums(w, f, k)
  <2>1. PICK step : step = [p \in (1..k) \X Nat |-> p[2] + f[p[1]]]
    OBVIOUS
  <2>2. step \in [(1..k) \X Nat -> Nat]
    BY <2>1
  <2>3. PICK w \in [0..k -> Nat] : w[0] = 0 /\ \A i \in 1..k : w[i] = step[<<i, w[i - 1]>>]
    <3>1. \E w : Solves(w, k, Nat, 0, step)
      BY <2>2, Recursion
    <3>2. QED
      BY <3>1 DEF Solves
  <2>4. ASSUME NEW i \in 0..k PROVE w[i] = SumStep(w, f, i)
    <3>1. CASE i = 0
      BY <2>3, <3>1 DEF SumStep
    <3>2. CASE i # 0
      <4>1. i \in 1..k /\ i - 1 \in 0..k
        BY <3>2
      <4>2. w[i - 1] \in Nat
        BY <4>1
      <4>3. <<i, w[i - 1]>> \in (1..k) \X Nat
        BY <4>1, <4>2
      <4>4. w[i] = w[i - 1] + f[i]
        BY <2>1, <2>3, <4>1, <4>3
      <4>5. QED
        BY <3>2, <4>4 DEF SumStep
    <3>3. QED
      BY <3>1, <3>2
  <2>5. QED
    BY <2>4 DEF Sums
<1>2. ASSUME NEW w, Sums(w, f, k) PROVE \A i \in 0..k : w[i] \in Nat
  <2> DEFINE G == {i \in 0..k : w[i] \in Nat}
  <2>1. \A i \in 0..k : w[i] = SumStep(w, f, i)
    BY <1>2 DEF Sums
  <2>2. 0 \in G
    BY <2>1 DEF SumStep
  <2>3. ASSUME NEW i \in 1..k, i - 1 \in G PROVE i \in G
    <3>1. i \in 0..k /\ i # 0 /\ w[i] = w[i - 1] + f[i]
      BY <2>1 DEF SumStep
    <3>2. QED
      BY <2>3, <3>1
  <2> HIDE DEF G
  <2>4. \A i \in 0..k : i \in G
    BY <2>2, <2>3, Upwards
  <2>5. QED
    BY <2>4 DEF G
<1>3. QED
  BY <1>1, <1>2

LEMMA SumIs ==
    ASSUME NEW k \in Nat, NEW f, \A i \in 1..k : f[i] \in Nat
    PROVE  \E w : Sums(w, f, k) /\ SumOf(k, f) = w[k]
<1> DEFINE w == CHOOSE v : Sums(v, f, k)
<1>1. Sums(w, f, k)
  BY SumsAre
<1>2. SumOf(k, f) = w[k]
  BY DEF SumOf, Sums, SumStep
<1> HIDE DEF w
<1>3. QED
  BY <1>1, <1>2

(* Sums of the same numbers are the same. *)
LEMMA SumsAgree ==
    ASSUME NEW k \in Nat, NEW m \in Nat, k <= m, NEW f, NEW g,
           \A i \in 1..k : f[i] = g[i],
           NEW w, Sums(w, f, k), NEW v, Sums(v, g, m)
    PROVE  w[k] = v[k]
<1> DEFINE G == {i \in 0..k : w[i] = v[i]}
<1>1. /\ \A i \in 0..k : w[i] = SumStep(w, f, i)
      /\ \A i \in 0..m : v[i] = SumStep(v, g, i)
  BY DEF Sums
<1>2. 0 \in G
  BY <1>1 DEF SumStep
<1>3. ASSUME NEW i \in 1..k, i - 1 \in G PROVE i \in G
  <2>1. i \in 0..k /\ i \in 0..m /\ i # 0 /\ w[i - 1] = v[i - 1] /\ f[i] = g[i]
    BY <1>3
  <2>2. QED
    BY <1>1, <2>1 DEF SumStep
<1>4. k \in 0..k
  OBVIOUS
<1>5. k \in G
  <2> HIDE DEF G
  <2>1. QED
    BY <1>2, <1>3, <1>4, Upwards
<1>6. QED
  BY <1>5

LEMMA SumsUnique ==
    ASSUME NEW k \in Nat, NEW f, NEW w, Sums(w, f, k), NEW v, Sums(v, f, k)
    PROVE  w[k] = v[k]
<1>1. PICK g : g = f
  OBVIOUS
<1>2. Sums(v, g, k) /\ k <= k /\ \A i \in 1..k : f[i] = g[i]
  BY <1>1
<1>3. QED
  BY <1>2, SumsAgree

LEMMA SumNext ==
    ASSUME NEW n \in Nat, NEW f, \A i \in 1..n : f[i] \in Nat
    PROVE  /\ SumOf(0, f) = 0
           /\ \A k \in 0..n : SumOf(k, f) \in Nat
           /\ \A k \in 1..n : SumOf(k, f) = SumOf(k - 1, f) + f[k]
<1>1. SumOf(0, f) = 0
  <2>1. PICK w : Sums(w, f, 0) /\ SumOf(0, f) = w[0]
    BY SumIs
  <2>2. QED
    BY <2>1 DEF Sums, SumStep
<1>2. ASSUME NEW k \in 0..n PROVE SumOf(k, f) \in Nat
  <2>1. k \in Nat /\ (\A i \in 1..k : f[i] \in Nat) /\ k \in 0..k
    OBVIOUS
  <2>2. PICK w : Sums(w, f, k) /\ SumOf(k, f) = w[k]
    BY <2>1, SumIs
  <2>3. QED
    BY <2>1, <2>2, SumsAre
<1>3. ASSUME NEW k \in 1..n PROVE SumOf(k, f) = SumOf(k - 1, f) + f[k]
  <2>0. PICK j : j = k - 1
    OBVIOUS
  <2>1. /\ k \in Nat /\ j \in Nat /\ j <= k /\ k \in 0..k /\ k # 0
        /\ (\A i \in 1..k : f[i] \in Nat) /\ (\A i \in 1..j : f[i] \in Nat)
    BY <2>0
  <2>2. PICK w : Sums(w, f, k) /\ SumOf(k, f) = w[k]
    BY <2>1, SumIs
  <2>3. PICK v : Sums(v, f, j) /\ SumOf(j, f) = v[j]
    BY <2>1, SumIs
  <2>4. v[j] = w[j]
    BY <2>1, <2>2, <2>3, SumsAgree
  <2>5. w[k] = w[k - 1] + f[k]
    BY <2>1, <2>2 DEF Sums, SumStep
  <2>6. QED
    BY <2>0, <2>2, <2>3, <2>4, <2>5
<1>4. QED
  BY <1>1, <1>2, <1>3

LEMMA SumAt ==
    ASSUME NEW n \in Nat, NEW f, \A i \in 1..n : f[i] \in Nat, NEW k \in 1..n
    PROVE  SumOf(k, f) = SumOf(k - 1, f) + f[k]
BY SumNext

LEMMA SameSums ==
    ASSUME NEW k \in Nat, NEW f, NEW g, \A i \in 1..k : f[i] \in Nat /\ f[i] = g[i]
    PROVE  SumOf(k, f) = SumOf(k, g)
<1>1. PICK w : Sums(w, f, k) /\ SumOf(k, f) = w[k]
  BY SumIs
<1>2. PICK v : Sums(v, g, k) /\ SumOf(k, g) = v[k]
  BY SumIs
<1>3. QED
  BY <1>1, <1>2, SumsAgree

(* A sum backwards is the same. *)
LEMMA SumReversed ==
    ASSUME NEW n \in Nat, NEW f, NEW g,
           \A i \in 1..n : f[i] \in Nat /\ g[i] = f[n + 1 - i]
    PROVE  SumOf(n, g) = SumOf(n, f)
<1>0. \A i \in 1..n : f[i] \in Nat /\ n + 1 - i \in 1..n /\ g[i] \in Nat
  OBVIOUS
<1> DEFINE G == {i \in 0..n : SumOf(i, g) + SumOf(n - i, f) = SumOf(n, f)}
<1>1. /\ SumOf(0, f) = 0 /\ SumOf(0, g) = 0
      /\ \A k \in 0..n : SumOf(k, f) \in Nat /\ SumOf(k, g) \in Nat
      /\ \A k \in 1..n : SumOf(k, f) = SumOf(k - 1, f) + f[k]
      /\ \A k \in 1..n : SumOf(k, g) = SumOf(k - 1, g) + g[k]
  BY <1>0, SumNext
<1>2. 0 \in G
  <2>1. n - 0 = n /\ n \in 0..n /\ SumOf(n, f) \in Nat
    BY <1>1
  <2>2. QED
    BY <1>1, <2>1
<1>3. ASSUME NEW i \in 1..n, i - 1 \in G PROVE i \in G
  <2>0. PICK j, k : j = i - 1 /\ k = n - i
    OBVIOUS
  <2>1. /\ j \in 0..n /\ k \in 0..n /\ k + 1 \in 1..n /\ n - j = k + 1 /\ n + 1 - i = k + 1
        /\ k + 1 - 1 = k
    BY <2>0
  <2>2. SumOf(j, g) + SumOf(k + 1, f) = SumOf(n, f)
    BY <1>3, <2>0, <2>1
  <2>3. SumOf(k + 1, f) = SumOf(k, f) + f[k + 1] /\ SumOf(i, g) = SumOf(j, g) + f[k + 1]
    BY <1>1, <2>0, <2>1
  <2>4. /\ SumOf(k, f) \in Nat /\ SumOf(j, g) \in Nat /\ f[k + 1] \in Nat
    BY <1>0, <1>1, <2>1
  <2>5. SumOf(i, g) + SumOf(k, f) = SumOf(n, f)
    BY <2>2, <2>3, <2>4
  <2>6. QED
    BY <2>0, <2>5
<1>4. n \in 0..n /\ n - n = 0
  OBVIOUS
<1>5. n \in G
  <2> HIDE DEF G
  <2>1. QED
    BY <1>2, <1>3, <1>4, Upwards
<1>6. QED
  BY <1>1, <1>4, <1>5

-----------------------------------------------------------------------------
(* Sequences *)

LEMMA IntervalSeq ==
    ASSUME NEW S, NEW n \in Nat, NEW f \in [1..n -> S]
    PROVE  f \in Seq(S) /\ Len(f) = n
<1>1. f \in Seq(S)
  BY SeqDef
<1>2. DOMAIN f = 1..n /\ DOMAIN f = 1..Len(f) /\ Len(f) \in Nat
  BY <1>1, LenProperties
<1>3. QED
  BY <1>1, <1>2

LEMMA ToSetIs ==
    ASSUME NEW S, NEW s \in Seq(S)
    PROVE  ToSet(s) = {s[i] : i \in 1..Len(s)} /\ ToSet(s) \subseteq S
<1>1. DOMAIN s = 1..Len(s)
  BY LenProperties
<1>2. QED
  BY <1>1, ElementOfSeq DEF ToSet

(* FlattenSeq joins the sequences one by one; the way it is defined starts *)
(* with the first, this one with none.                                     *)
Joins(f, seqs, k) ==
    f = [i \in 1..k |-> IF i = 1 THEN seqs[i] ELSE f[i - 1] \o seqs[i]]

Flattens(w, seqs, S) ==
    /\ w \in [0..Len(seqs) -> Seq(S)] /\ w[0] = <<>>
    /\ \A i \in 1..Len(seqs) : w[i] = w[i - 1] \o seqs[i]
    /\ FlattenSeq(seqs) = w[Len(seqs)]

LEMMA JoinsExist ==
    ASSUME NEW S, NEW seqs \in Seq(Seq(S)), Len(seqs) # 0
    PROVE  \E f : Joins(f, seqs, Len(seqs))
<1> DEFINE n == Len(seqs)
<1>1. n \in Nat /\ \A i \in 1..n : seqs[i] \in Seq(S)
  BY LenProperties, ElementOfSeq
<1> HIDE DEF n
<1>2. PICK step : step = [p \in (1..n) \X Seq(S) |-> p[2] \o seqs[p[1]]]
  OBVIOUS
<1>3. step \in [(1..n) \X Seq(S) -> Seq(S)]
  <2>1. ASSUME NEW p \in (1..n) \X Seq(S) PROVE p[2] \o seqs[p[1]] \in Seq(S)
    <3>1. p[1] \in 1..n /\ p[2] \in Seq(S)
      OBVIOUS
    <3>2. QED
      BY <1>1, <3>1, ConcatProperties
  <2>2. QED
    BY <1>2, <2>1
<1>4. <<>> \in Seq(S)
  BY EmptySeq
<1>5. PICK w : Solves(w, n, Seq(S), <<>>, step)
  BY <1>1, <1>3, <1>4, Recursion
<1>6. PICK f : f = [i \in 1..n |-> w[i]]
  OBVIOUS
<1>7. ASSUME NEW i \in 1..n PROVE f[i] = IF i = 1 THEN seqs[i] ELSE f[i - 1] \o seqs[i]
  <2>1. i - 1 \in 0..n /\ f[i] = w[i]
    BY <1>1, <1>6
  <2>2. w[i - 1] \in Seq(S)
    BY <1>5, <2>1 DEF Solves
  <2>3. w[i] = w[i - 1] \o seqs[i]
    <3>1. <<i, w[i - 1]>> \in (1..n) \X Seq(S)
      BY <2>2
    <3>2. w[i] = step[<<i, w[i - 1]>>]
      BY <1>5 DEF Solves
    <3>3. QED
      BY <1>2, <3>1, <3>2
  <2>4. CASE i = 1
    <3>1. i - 1 = 0 /\ w[0] = <<>> /\ seqs[i] \in Seq(S)
      BY <1>1, <1>5, <2>4 DEF Solves
    <3>2. w[i] = <<>> \o seqs[i]
      BY <2>3, <3>1
    <3>3. QED
      BY <2>1, <2>4, <3>1, <3>2, ConcatEmptySeq
  <2>5. CASE i # 1
    <3>1. i - 1 \in 1..n
      BY <1>1, <2>5
    <3>2. f[i - 1] = w[i - 1]
      BY <1>6, <3>1
    <3>3. QED
      BY <2>1, <2>3, <2>5, <3>2
  <2>6. QED
    BY <2>4, <2>5
<1>8. Joins(f, seqs, n)
  BY <1>6, <1>7 DEF Joins
<1>9. QED
  BY <1>8 DEF n

LEMMA FlatIs ==
    ASSUME NEW S, NEW seqs \in Seq(Seq(S))
    PROVE  \E w : Flattens(w, seqs, S)
<1> DEFINE n == Len(seqs)
<1>1. n \in Nat /\ \A i \in 1..n : seqs[i] \in Seq(S)
  BY LenProperties, ElementOfSeq
<1>2. CASE n = 0
  <2>1. seqs = <<>> /\ FlattenSeq(seqs) = <<>> /\ <<>> \in Seq(S)
    BY <1>2, EmptySeq DEF FlattenSeq
  <2>2. PICK w : w = [i \in 0..0 |-> <<>>]
    OBVIOUS
  <2>3. w \in [0..0 -> Seq(S)] /\ w[0] = <<>>
    BY <2>1, <2>2
  <2>4. Flattens(w, seqs, S)
    BY <1>2, <2>1, <2>3 DEF Flattens
  <2>5. QED
    BY <2>4
<1>3. CASE n # 0
  <2>1. PICK f : Joins(f, seqs, n) /\ FlattenSeq(seqs) = f[n]
    <3> DEFINE f == CHOOSE g : Joins(g, seqs, n)
    <3>1. Joins(f, seqs, n)
      BY <1>3, JoinsExist
    <3>2. FlattenSeq(seqs) = f[n]
      BY <1>3 DEF FlattenSeq, Joins
    <3> HIDE DEF f
    <3>3. QED
      BY <3>1, <3>2
  <2> HIDE DEF n
  <2>2. PICK w : w = [i \in 0..n |-> IF i = 0 THEN <<>> ELSE f[i]]
    OBVIOUS
  <2>3. <<>> \in Seq(S) /\ w[0] = <<>>
    BY <1>1, <2>2, EmptySeq
  <2>4. ASSUME NEW i \in 1..n PROVE w[i] = w[i - 1] \o seqs[i]
    <3>1. i - 1 \in 0..n /\ i \in 0..n /\ i # 0
      BY <1>1
    <3>2. f[i] = IF i = 1 THEN seqs[i] ELSE f[i - 1] \o seqs[i]
      BY <2>1 DEF Joins
    <3>3. CASE i = 1
      <4>1. w[i - 1] = <<>> /\ seqs[i] \in Seq(S)
        BY <1>1, <2>2, <3>1, <3>3
      <4>2. QED
        BY <2>2, <3>1, <3>2, <3>3, <4>1, ConcatEmptySeq
    <3>4. CASE i # 1
      <4>1. i - 1 # 0 /\ w[i] = f[i]
        BY <1>1, <2>2, <3>1, <3>4
      <4>2. w[i - 1] = f[i - 1]
        BY <2>2, <3>1, <4>1
      <4>3. QED
        BY <3>2, <3>4, <4>1, <4>2
    <3>5. QED
      BY <3>3, <3>4
  <2>5. \A i \in 0..n : w[i] \in Seq(S)
    <3> DEFINE G == {i \in 0..n : w[i] \in Seq(S)}
    <3>1. 0 \in G
      <4>1. 0 \in 0..n /\ w[0] \in Seq(S)
        BY <1>1, <2>3
      <4>2. QED
        BY <4>1
    <3>2. ASSUME NEW i \in 1..n, i - 1 \in G PROVE i \in G
      <4>1. i \in 0..n /\ w[i - 1] \in Seq(S) /\ seqs[i] \in Seq(S)
        BY <1>1, <3>2
      <4>2. QED
        BY <2>4, <4>1, ConcatProperties
    <3> HIDE DEF G
    <3>3. \A i \in 0..n : i \in G
      BY <1>1, <3>1, <3>2, Upwards
    <3>4. QED
      BY <3>3 DEF G
  <2>6. w \in [0..n -> Seq(S)]
    BY <2>2, <2>5
  <2>7. FlattenSeq(seqs) = w[n]
    BY <1>1, <1>3, <2>1, <2>2
  <2>8. Flattens(w, seqs, S)
    BY <2>3, <2>4, <2>6, <2>7 DEF Flattens, n
  <2>9. QED
    BY <2>8
<1>4. QED
  BY <1>2, <1>3

LEMMA ConcatToSet ==
    ASSUME NEW S, NEW s \in Seq(S), NEW t \in Seq(S)
    PROVE  s \o t \in Seq(S) /\ ToSet(s \o t) = ToSet(s) \cup ToSet(t)
<1> DEFINE u == s \o t
<1>1. /\ u \in Seq(S) /\ Len(u) = Len(s) + Len(t)
      /\ \A i \in 1..(Len(s) + Len(t)) : u[i] = IF i <= Len(s) THEN s[i] ELSE t[i - Len(s)]
  BY ConcatProperties
<1> HIDE DEF u
<1>2. Len(s) \in Nat /\ Len(t) \in Nat
  BY LenProperties
<1>3. /\ ToSet(s) = {s[i] : i \in 1..Len(s)} /\ ToSet(t) = {t[i] : i \in 1..Len(t)}
      /\ ToSet(u) = {u[i] : i \in 1..Len(u)}
  BY <1>1, ToSetIs
<1>4. ToSet(u) \subseteq ToSet(s) \cup ToSet(t)
  <2> SUFFICES ASSUME NEW i \in 1..Len(u) PROVE u[i] \in ToSet(s) \cup ToSet(t)
    BY <1>3
  <2>1. CASE i <= Len(s)
    BY <1>1, <1>2, <1>3, <2>1
  <2>2. CASE ~(i <= Len(s))
    <3>1. i - Len(s) \in 1..Len(t) /\ u[i] = t[i - Len(s)]
      BY <1>1, <1>2, <2>2
    <3>2. QED
      BY <1>3, <3>1
  <2>3. QED
    BY <2>1, <2>2
<1>5. ToSet(s) \subseteq ToSet(u)
  <2> SUFFICES ASSUME NEW i \in 1..Len(s) PROVE s[i] \in ToSet(u)
    BY <1>3
  <2>1. i \in 1..Len(u) /\ u[i] = s[i]
    BY <1>1, <1>2
  <2>2. QED
    BY <1>3, <2>1
<1>6. ToSet(t) \subseteq ToSet(u)
  <2> SUFFICES ASSUME NEW i \in 1..Len(t) PROVE t[i] \in ToSet(u)
    BY <1>3
  <2>1. PICK j : j = i + Len(s)
    OBVIOUS
  <2>2. /\ j \in 1..(Len(s) + Len(t)) /\ ~(j <= Len(s)) /\ j - Len(s) = i
    BY <1>2, <2>1
  <2>3. u[j] = t[i] /\ j \in 1..Len(u)
    BY <1>1, <2>2
  <2>4. QED
    BY <1>3, <2>3
<1>7. QED
  BY <1>1, <1>4, <1>5, <1>6 DEF u

(* The elements of the joined sequence are those of the sequences. *)
LEMMA FlatToSet ==
    ASSUME NEW S, NEW seqs \in Seq(Seq(S))
    PROVE  /\ FlattenSeq(seqs) \in Seq(S)
           /\ ToSet(FlattenSeq(seqs)) = UNION {ToSet(seqs[i]) : i \in 1..Len(seqs)}
<1> DEFINE n == Len(seqs)
           Within(k) == UNION {ToSet(seqs[i]) : i \in 1..k}
<1>1. n \in Nat /\ \A i \in 1..n : seqs[i] \in Seq(S)
  BY LenProperties, ElementOfSeq
<1>2. PICK w : Flattens(w, seqs, S)
  BY FlatIs
<1>3. /\ w \in [0..n -> Seq(S)] /\ w[0] = <<>> /\ FlattenSeq(seqs) = w[n]
      /\ \A i \in 1..n : w[i] = w[i - 1] \o seqs[i]
  BY <1>2 DEF Flattens
<1> HIDE DEF n
<1> DEFINE G == {i \in 0..n : ToSet(w[i]) = Within(i)}
<1>4. 0 \in G
  <2>1. DOMAIN <<>> = {} /\ 0 \in 0..n /\ Within(0) = {}
    BY <1>1
  <2>2. ToSet(w[0]) = {}
    BY <1>3, <2>1 DEF ToSet
  <2> HIDE DEF Within
  <2>3. QED
    BY <2>1, <2>2
<1>5. ASSUME NEW i \in 1..n, i - 1 \in G PROVE i \in G
  <2>1. i \in 0..n /\ i - 1 \in 0..n /\ w[i - 1] \in Seq(S) /\ seqs[i] \in Seq(S)
    BY <1>1, <1>3
  <2>2. ToSet(w[i]) = ToSet(w[i - 1]) \cup ToSet(seqs[i])
    <3>1. w[i] = w[i - 1] \o seqs[i]
      BY <1>3
    <3>2. ToSet(w[i - 1] \o seqs[i]) = ToSet(w[i - 1]) \cup ToSet(seqs[i])
      BY <2>1, ConcatToSet
    <3>3. QED
      BY <3>1, <3>2
  <2>3. Within(i) = Within(i - 1) \cup ToSet(seqs[i])
    <3>1. 1..i = 1..(i - 1) \cup {i}
      BY <1>1
    <3>2. QED
      BY <3>1
  <2>4. ToSet(w[i - 1]) = Within(i - 1)
    BY <1>5
  <2> HIDE DEF Within
  <2>5. QED
    BY <2>1, <2>2, <2>3, <2>4
<1>6. n \in 0..n
  BY <1>1
<1>7. n \in G
  <2> HIDE DEF G
  <2>1. QED
    BY <1>1, <1>4, <1>5, <1>6, Upwards
<1>8. w[n] \in Seq(S)
  BY <1>3, <1>6
<1>9. QED
  BY <1>3, <1>7, <1>8 DEF n

(* What adds up over joined sequences does so over a flattened one. *)
Additive(size, S) ==
    /\ size \in [Seq(S) -> Nat] /\ size[<<>>] = 0
    /\ \A s, t \in Seq(S) : size[s \o t] = size[s] + size[t]

LEMMA FlatAdds ==
    ASSUME NEW S, NEW seqs \in Seq(Seq(S)), NEW size, Additive(size, S)
    PROVE  size[FlattenSeq(seqs)] = SumOf(Len(seqs), [i \in 1..Len(seqs) |-> size[seqs[i]]])
<1> DEFINE n == Len(seqs)
<1>1. n \in Nat /\ \A i \in 1..n : seqs[i] \in Seq(S)
  BY LenProperties, ElementOfSeq
<1>2. PICK w : Flattens(w, seqs, S)
  BY FlatIs
<1>3. /\ w \in [0..n -> Seq(S)] /\ w[0] = <<>> /\ FlattenSeq(seqs) = w[n]
      /\ \A i \in 1..n : w[i] = w[i - 1] \o seqs[i]
  BY <1>2 DEF Flattens
<1>4. PICK f : f = [i \in 1..Len(seqs) |-> size[seqs[i]]]
  OBVIOUS
<1> HIDE DEF n
<1>5. \A i \in 1..n : f[i] \in Nat /\ f[i] = size[seqs[i]]
  <2> SUFFICES ASSUME NEW i \in 1..n PROVE f[i] \in Nat /\ f[i] = size[seqs[i]]
    OBVIOUS
  <2>1. f[i] = size[seqs[i]]
    BY <1>4 DEF n
  <2>2. size[seqs[i]] \in Nat
    BY <1>1 DEF Additive
  <2>3. QED
    BY <2>1, <2>2
<1>6. /\ SumOf(0, f) = 0 /\ \A k \in 1..n : SumOf(k, f) = SumOf(k - 1, f) + f[k]
  BY <1>1, <1>5, SumNext
<1> DEFINE G == {i \in 0..n : size[w[i]] = SumOf(i, f)}
<1>7. 0 \in G
  <2>1. 0 \in 0..n /\ size[w[0]] = 0
    BY <1>1, <1>3 DEF Additive
  <2>2. QED
    BY <1>6, <2>1
<1>8. ASSUME NEW i \in 1..n, i - 1 \in G PROVE i \in G
  <2>1. i \in 0..n /\ i - 1 \in 0..n /\ w[i - 1] \in Seq(S) /\ seqs[i] \in Seq(S)
    BY <1>1, <1>3
  <2>2. size[w[i]] = size[w[i - 1]] + size[seqs[i]]
    <3>1. w[i] = w[i - 1] \o seqs[i]
      BY <1>3
    <3>2. size[w[i - 1] \o seqs[i]] = size[w[i - 1]] + size[seqs[i]]
      BY <2>1 DEF Additive
    <3>3. QED
      BY <3>1, <3>2
  <2>3. size[w[i - 1]] = SumOf(i - 1, f)
    BY <1>8
  <2>4. QED
    BY <1>5, <1>6, <2>1, <2>2, <2>3
<1>9. n \in 0..n
  BY <1>1
<1>10. n \in G
  <2> HIDE DEF G
  <2>1. QED
    BY <1>1, <1>7, <1>8, <1>9, Upwards
<1>11. QED
  BY <1>3, <1>4, <1>10 DEF n

(* The sum of a number each member has. *)
Weight(s, f) == SumOf(Len(s), [i \in 1..Len(s) |-> f[s[i]]])

LEMMA WeightIsNat ==
    ASSUME NEW S, NEW f \in [S -> Nat], NEW s \in Seq(S)
    PROVE  Weight(s, f) \in Nat
<1>1. Len(s) \in Nat /\ \A i \in 1..Len(s) : s[i] \in S
  BY LenProperties, ElementOfSeq
<1>2. PICK h : h = [i \in 1..Len(s) |-> f[s[i]]]
  OBVIOUS
<1>3. \A i \in 1..Len(s) : h[i] \in Nat /\ h[i] = f[s[i]]
  BY <1>1, <1>2
<1>4. Weight(s, f) = SumOf(Len(s), h)
  BY <1>2 DEF Weight
<1>5. SumOf(Len(s), h) \in Nat
  <2>1. Len(s) \in 0..Len(s)
    BY <1>1
  <2>2. QED
    BY <1>1, <1>3, <2>1, SumNext
<1>6. QED
  BY <1>1, <1>4, <1>5

Weighs(g, f, s) == \A i \in 1..Len(s) : g[i] = f[s[i]]

LEMMA WeightIs ==
    ASSUME NEW S, NEW f \in [S -> Nat], NEW s \in Seq(S), NEW g, Weighs(g, f, s)
    PROVE  Weight(s, f) = SumOf(Len(s), g)
<1> DEFINE n == Len(s)
<1>0. \A i \in 1..n : g[i] = f[s[i]]
  BY DEF Weighs
<1>1. n \in Nat /\ \A i \in 1..n : s[i] \in S
  BY LenProperties, ElementOfSeq
<1>2. PICK h : h = [i \in 1..n |-> f[s[i]]]
  OBVIOUS
<1>3. \A i \in 1..n : h[i] \in Nat /\ h[i] = g[i]
  BY <1>0, <1>1, <1>2
<1>4. Weight(s, f) = SumOf(n, h)
  BY <1>2 DEF Weight
<1> HIDE DEF n
<1>5. SumOf(n, h) = SumOf(n, g)
  BY <1>1, <1>3, SameSums
<1>6. QED
  BY <1>4, <1>5 DEF n

LEMMA WeightOfConcat ==
    ASSUME NEW S, NEW f \in [S -> Nat], NEW s \in Seq(S), NEW t \in Seq(S)
    PROVE  Weight(s \o t, f) = Weight(s, f) + Weight(t, f)
<1>1. PICK u : u = s \o t
  OBVIOUS
<1>2. /\ u \in Seq(S) /\ Len(u) = Len(s) + Len(t)
      /\ \A i \in 1..(Len(s) + Len(t)) : u[i] = IF i <= Len(s) THEN s[i] ELSE t[i - Len(s)]
  BY <1>1, ConcatProperties
<1>3. Len(s) \in Nat /\ Len(t) \in Nat
  BY LenProperties
<1>4. PICK a, b : Len(s) = a /\ Len(t) = b
  OBVIOUS
<1>5. PICK fs, ft, fu : /\ fs = [i \in 1..a |-> f[s[i]]] /\ ft = [i \in 1..b |-> f[t[i]]]
                        /\ fu = [i \in 1..(a + b) |-> f[u[i]]]
  OBVIOUS
<1>6. /\ a \in Nat /\ b \in Nat /\ a + b \in Nat
      /\ \A i \in 1..a : fs[i] = f[s[i]] /\ fs[i] \in Nat
      /\ \A i \in 1..b : ft[i] = f[t[i]] /\ ft[i] \in Nat
      /\ \A i \in 1..(a + b) : fu[i] = f[u[i]] /\ fu[i] \in Nat
  BY <1>2, <1>3, <1>4, <1>5, ElementOfSeq
<1>7. /\ Weight(s, f) = SumOf(a, fs) /\ Weight(t, f) = SumOf(b, ft)
      /\ Weight(u, f) = SumOf(a + b, fu)
  <2>1. Len(u) = a + b
    BY <1>2, <1>4
  <2>2. Weighs(fs, f, s) /\ Weighs(ft, f, t) /\ Weighs(fu, f, u)
    BY <1>4, <1>6, <2>1 DEF Weighs
  <2>3. Weight(s, f) = SumOf(Len(s), fs)
    BY <2>2, WeightIs
  <2>4. Weight(t, f) = SumOf(Len(t), ft)
    BY <2>2, WeightIs
  <2>5. Weight(u, f) = SumOf(Len(u), fu)
    BY <1>2, <2>2, WeightIs
  <2>6. QED
    BY <1>4, <2>1, <2>3, <2>4, <2>5
<1> DEFINE G == {j \in 0..b : SumOf(a + j, fu) = SumOf(a, fs) + SumOf(j, ft)}
<1>8. 0 \in G
  <2>1. \A i \in 1..a : fs[i] \in Nat /\ fs[i] = fu[i]
    <3> SUFFICES ASSUME NEW i \in 1..a PROVE fs[i] \in Nat /\ fs[i] = fu[i]
      OBVIOUS
    <3>1. i \in 1..(a + b) /\ i <= a
      BY <1>6
    <3>2. u[i] = s[i]
      BY <1>2, <1>4, <3>1
    <3>3. QED
      BY <1>6, <3>1, <3>2
  <2>2. SumOf(a, fs) = SumOf(a, fu)
    BY <1>6, <2>1, SameSums
  <2>3. SumOf(0, ft) = 0
    BY <1>6, SumNext
  <2>4. SumOf(a, fs) \in Nat
    <3>1. a \in 0..a
      BY <1>6
    <3>2. QED
      BY <1>6, <3>1, SumNext
  <2>5. a + 0 = a /\ 0 \in 0..b
    BY <1>6
  <2>6. QED
    BY <2>2, <2>3, <2>4, <2>5
<1>9. ASSUME NEW j \in 1..b, j - 1 \in G PROVE j \in G
  <2>1. PICK k, m : k = j - 1 /\ m = a + j
    OBVIOUS
  <2>2. /\ k \in 0..b /\ j \in 0..b /\ m \in 1..(a + b) /\ m - 1 = a + k
        /\ ~(m <= a) /\ m - a = j
    BY <1>6, <2>1
  <2>3. u[m] = t[j]
    BY <1>2, <1>4, <2>2
  <2>4. fu[m] = ft[j]
    BY <1>6, <2>2, <2>3
  <2>5. SumOf(m, fu) = SumOf(a + k, fu) + fu[m]
    <3>1. \A i \in 1..(a + b) : fu[i] \in Nat
      BY <1>6
    <3>2. a + b \in Nat /\ m \in 1..(a + b)
      BY <1>6, <2>2
    <3>3. SumOf(m, fu) = SumOf(m - 1, fu) + fu[m]
      BY <3>1, <3>2, SumAt
    <3>4. QED
      BY <2>2, <3>3
  <2>6. SumOf(j, ft) = SumOf(k, ft) + ft[j]
    <3>1. b \in Nat /\ \A i \in 1..b : ft[i] \in Nat
      BY <1>6
    <3>2. SumOf(j, ft) = SumOf(j - 1, ft) + ft[j]
      BY <3>1, SumAt
    <3>3. QED
      BY <2>1, <3>2
  <2>7. SumOf(a + k, fu) = SumOf(a, fs) + SumOf(k, ft)
    BY <1>9, <2>1
  <2>8. SumOf(a, fs) \in Nat /\ SumOf(k, ft) \in Nat /\ ft[j] \in Nat
    <3>1. a \in 0..a
      BY <1>6
    <3>2. SumOf(a, fs) \in Nat
      BY <1>6, <3>1, SumNext
    <3>3. SumOf(k, ft) \in Nat
      BY <1>6, <2>2, SumNext
    <3>4. QED
      BY <1>6, <3>2, <3>3
  <2>9. SumOf(m, fu) = SumOf(a, fs) + SumOf(j, ft)
    BY <2>4, <2>5, <2>6, <2>7, <2>8
  <2>10. QED
    BY <2>1, <2>2, <2>9
<1>10. b \in 0..b
  BY <1>6
<1>11. b \in G
  <2> HIDE DEF G
  <2>1. QED
    BY <1>6, <1>8, <1>9, <1>10, Upwards
<1>12. QED
  BY <1>1, <1>7, <1>11

LEMMA WeightAdds ==
    ASSUME NEW S, NEW f \in [S -> Nat]
    PROVE  Additive([s \in Seq(S) |-> Weight(s, f)], S)
<1>1. PICK size : size = [s \in Seq(S) |-> Weight(s, f)]
  OBVIOUS
<1>2. \A s \in Seq(S) : size[s] = Weight(s, f) /\ size[s] \in Nat
  BY <1>1, WeightIsNat
<1>3. size \in [Seq(S) -> Nat]
  BY <1>1, <1>2
<1>4. size[<<>>] = 0
  <2>1. <<>> \in Seq(S) /\ Len(<<>>) = 0
    BY EmptySeq
  <2>2. PICK g : g = [i \in {} |-> 0]
    OBVIOUS
  <2>3. Weight(<<>>, f) = SumOf(0, g)
    <3>1. Weighs(g, f, <<>>)
      BY <2>1 DEF Weighs
    <3>2. QED
      BY <2>1, <3>1, WeightIs
  <2>4. \A i \in 1..0 : g[i] \in Nat
    OBVIOUS
  <2>5. SumOf(0, g) = 0
    BY <2>4, SumNext
  <2>6. QED
    BY <1>2, <2>1, <2>3, <2>5
<1>5. \A s, t \in Seq(S) : size[s \o t] = size[s] + size[t]
  <2> SUFFICES ASSUME NEW s \in Seq(S), NEW t \in Seq(S)
               PROVE  size[s \o t] = size[s] + size[t]
    OBVIOUS
  <2>1. s \o t \in Seq(S)
    BY ConcatProperties
  <2>2. Weight(s \o t, f) = Weight(s, f) + Weight(t, f)
    BY WeightOfConcat
  <2>3. QED
    BY <1>2, <2>1, <2>2
<1>6. QED
  BY <1>1, <1>3, <1>4, <1>5 DEF Additive

LEMMA LenAdds ==
    ASSUME NEW S
    PROVE  Additive([s \in Seq(S) |-> Len(s)], S)
<1>1. PICK size : size = [s \in Seq(S) |-> Len(s)]
  OBVIOUS
<1>2. \A s \in Seq(S) : size[s] = Len(s) /\ size[s] \in Nat
  BY <1>1, LenProperties
<1>3. size \in [Seq(S) -> Nat]
  BY <1>1, <1>2
<1>4. size[<<>>] = 0
  BY <1>2, EmptySeq
<1>5. \A s, t \in Seq(S) : size[s \o t] = size[s] + size[t]
  <2> SUFFICES ASSUME NEW s \in Seq(S), NEW t \in Seq(S)
               PROVE  size[s \o t] = size[s] + size[t]
    OBVIOUS
  <2>1. s \o t \in Seq(S) /\ Len(s \o t) = Len(s) + Len(t)
    BY ConcatProperties
  <2>2. QED
    BY <1>2, <2>1
<1>6. QED
  BY <1>1, <1>3, <1>4, <1>5 DEF Additive

(* The lengths of joined sequences. *)
Lengths(g, seqs) == g = [i \in 1..Len(seqs) |-> Len(seqs[i])]

LEMMA FlatLen ==
    ASSUME NEW S, NEW seqs \in Seq(Seq(S)),
           NEW g, Lengths(g, seqs)
    PROVE  Len(FlattenSeq(seqs)) = SumOf(Len(seqs), g)
<1>1. PICK size : size = [s \in Seq(S) |-> Len(s)]
  OBVIOUS
<1>2. Additive(size, S)
  BY <1>1, LenAdds
<1>3. size[FlattenSeq(seqs)] = SumOf(Len(seqs), [i \in 1..Len(seqs) |-> size[seqs[i]]])
  BY <1>2, FlatAdds
<1>4. FlattenSeq(seqs) \in Seq(S)
  BY FlatToSet
<1>5. \A i \in 1..Len(seqs) : size[seqs[i]] = Len(seqs[i])
  BY <1>1, ElementOfSeq
<1>6. [i \in 1..Len(seqs) |-> size[seqs[i]]] = [i \in 1..Len(seqs) |-> Len(seqs[i])]
  BY <1>5
<1>7. size[FlattenSeq(seqs)] = Len(FlattenSeq(seqs))
  BY <1>1, <1>4
<1>8. QED
  BY <1>3, <1>6, <1>7 DEF Lengths

(* The lists of the members of a sequence, one after the other. *)
Lists(s, L) == [i \in DOMAIN s |-> L[s[i]]]

Members(s, L) == UNION {ToSet(L[s[i]]) : i \in 1..Len(s)}

LensOf(L, S) == [x \in S |-> Len(L[x])]

FlatMapped(s, L, S, T) ==
    /\ Lists(s, L) \in Seq(Seq(T)) /\ Len(Lists(s, L)) = Len(s)
    /\ FlattenSeq(Lists(s, L)) \in Seq(T)
    /\ ToSet(FlattenSeq(Lists(s, L))) = Members(s, L)
    /\ Len(FlattenSeq(Lists(s, L))) = Weight(s, LensOf(L, S))

LEMMA FlatMap ==
    ASSUME NEW S, NEW T, NEW s \in Seq(S), NEW L \in [S -> Seq(T)]
    PROVE  FlatMapped(s, L, S, T)
<1> DEFINE n == Len(s)
<1>0. PICK seqs : seqs = Lists(s, L) /\ seqs = [i \in DOMAIN s |-> L[s[i]]]
  BY DEF Lists
<1>1. n \in Nat /\ DOMAIN s = 1..n /\ \A i \in 1..n : s[i] \in S
  BY LenProperties, ElementOfSeq
<1> HIDE DEF n
<1>2. seqs \in [1..n -> Seq(T)]
  BY <1>0, <1>1
<1>3. seqs \in Seq(Seq(T)) /\ Len(seqs) = n
  BY <1>1, <1>2, IntervalSeq
<1>4. FlattenSeq(seqs) \in Seq(T)
  BY <1>3, FlatToSet
<1>5. ToSet(FlattenSeq(seqs)) = UNION {ToSet(L[s[i]]) : i \in 1..n}
  <2>1. ToSet(FlattenSeq(seqs)) = UNION {ToSet(seqs[i]) : i \in 1..n}
    BY <1>3, FlatToSet
  <2>2. \A i \in 1..n : seqs[i] = L[s[i]]
    BY <1>0, <1>1
  <2>3. QED
    BY <2>1, <2>2
<1>6. Len(FlattenSeq(seqs)) = Weight(s, [x \in S |-> Len(L[x])])
  <2>1. PICK f, g : f = [x \in S |-> Len(L[x])] /\ g = [i \in 1..n |-> Len(seqs[i])]
    OBVIOUS
  <2>2. Len(FlattenSeq(seqs)) = SumOf(n, g)
    <3>1. Lengths(g, seqs)
      BY <1>3, <2>1 DEF Lengths
    <3>2. Len(FlattenSeq(seqs)) = SumOf(Len(seqs), g)
      BY <1>3, <3>1, FlatLen
    <3>3. QED
      BY <1>3, <3>2
  <2>3. f \in [S -> Nat]
    BY <2>1, LenProperties
  <2>4. Weighs(g, f, s)
    BY <1>0, <1>1, <2>1 DEF Weighs, n
  <2>5. Weight(s, f) = SumOf(n, g)
    BY <2>3, <2>4, WeightIs DEF n
  <2>6. QED
    BY <2>1, <2>2, <2>5
<1>7. QED
  BY <1>0, <1>3, <1>4, <1>5, <1>6 DEF n, Members, LensOf, FlatMapped

(* What is picked of a list. *)
Singles(all, at) == [i \in DOMAIN all |-> IF i \in at THEN <<all[i]>> ELSE <<>>]

LEMMA SinglesAre ==
    ASSUME NEW S, NEW all \in Seq(S), NEW at
    PROVE  /\ Singles(all, at) \in Seq(Seq(S)) /\ Len(Singles(all, at)) = Len(all)
           /\ Picked(all, at) = FlattenSeq(Singles(all, at))
<1>1. Len(all) \in Nat /\ DOMAIN all = 1..Len(all) /\ \A i \in 1..Len(all) : all[i] \in S
  BY LenProperties, ElementOfSeq
<1>2. <<>> \in Seq(S) /\ \A i \in 1..Len(all) : <<all[i]>> \in Seq(S)
  BY <1>1, EmptySeq
<1>3. Singles(all, at) \in [1..Len(all) -> Seq(S)]
  BY <1>1, <1>2 DEF Singles
<1>4. QED
  BY <1>1, <1>3, IntervalSeq DEF Singles, Picked

LEMMA PickedToSet ==
    ASSUME NEW S, NEW all \in Seq(S), NEW at
    PROVE  /\ Picked(all, at) \in Seq(S)
           /\ ToSet(Picked(all, at)) = {all[i] : i \in at \cap (1..Len(all))}
<1>1. Len(all) \in Nat /\ DOMAIN all = 1..Len(all) /\ \A i \in 1..Len(all) : all[i] \in S
  BY LenProperties, ElementOfSeq
<1>2. PICK seqs : seqs = Singles(all, at)
  OBVIOUS
<1>3. seqs \in Seq(Seq(S)) /\ Len(seqs) = Len(all) /\ Picked(all, at) = FlattenSeq(seqs)
  BY <1>2, SinglesAre
<1>4. /\ Picked(all, at) \in Seq(S)
      /\ ToSet(Picked(all, at)) = UNION {ToSet(seqs[i]) : i \in 1..Len(all)}
  BY <1>3, FlatToSet
<1>5. \A i \in 1..Len(all) : ToSet(seqs[i]) = IF i \in at THEN {all[i]} ELSE {}
  <2> SUFFICES ASSUME NEW i \in 1..Len(all)
               PROVE  ToSet(seqs[i]) = IF i \in at THEN {all[i]} ELSE {}
    OBVIOUS
  <2>1. seqs[i] = IF i \in at THEN <<all[i]>> ELSE <<>>
    BY <1>1, <1>2 DEF Singles
  <2>2. ToSet(<<all[i]>>) = {all[i]} /\ ToSet(<<>>) = {}
    <3>1. <<all[i]>> \in Seq(S) /\ Len(<<all[i]>>) = 1 /\ <<all[i]>>[1] = all[i]
      BY <1>1
    <3>2. ToSet(<<all[i]>>) = {<<all[i]>>[j] : j \in 1..1}
      BY <3>1, ToSetIs
    <3>3. DOMAIN <<>> = {}
      OBVIOUS
    <3>4. QED
      BY <3>1, <3>2, <3>3 DEF ToSet
  <2>3. QED
    BY <2>1, <2>2
<1>6. UNION {ToSet(seqs[i]) : i \in 1..Len(all)} = {all[i] : i \in at \cap (1..Len(all))}
  <2>1. ASSUME NEW i \in 1..Len(all), NEW x \in ToSet(seqs[i])
        PROVE  x \in {all[j] : j \in at \cap (1..Len(all))}
    BY <1>5
  <2>2. ASSUME NEW i \in at \cap (1..Len(all))
        PROVE  all[i] \in UNION {ToSet(seqs[j]) : j \in 1..Len(all)}
    BY <1>5
  <2>3. QED
    BY <2>1, <2>2
<1>7. QED
  BY <1>4, <1>6

(* Everything is picked: the list itself. *)
LEMMA PickedAll ==
    ASSUME NEW S, NEW all \in Seq(S), NEW at, \A i \in 1..Len(all) : i \in at
    PROVE  Picked(all, at) = all
<1> DEFINE n == Len(all)
<1>1. n \in Nat /\ DOMAIN all = 1..n /\ \A i \in 1..n : all[i] \in S
  BY LenProperties, ElementOfSeq
<1>2. PICK seqs : seqs = Singles(all, at)
  OBVIOUS
<1>3. seqs \in Seq(Seq(S)) /\ Len(seqs) = n /\ Picked(all, at) = FlattenSeq(seqs)
  BY <1>2, SinglesAre
<1>4. \A i \in 1..n : seqs[i] = <<all[i]>>
  BY <1>1, <1>2 DEF Singles
<1>5. PICK w : Flattens(w, seqs, S)
  BY <1>3, FlatIs
<1> HIDE DEF n
<1>6. /\ w \in [0..n -> Seq(S)] /\ w[0] = <<>> /\ Picked(all, at) = w[n]
      /\ \A i \in 1..n : w[i] = w[i - 1] \o <<all[i]>>
  BY <1>3, <1>4, <1>5 DEF Flattens
<1> DEFINE G == {i \in 0..n : Len(w[i]) = i /\ \A j \in 1..i : w[i][j] = all[j]}
<1>7. 0 \in G
  <2>1. 0 \in 0..n /\ Len(w[0]) = 0
    BY <1>1, <1>6, EmptySeq
  <2>2. QED
    BY <2>1
<1>8. ASSUME NEW i \in 1..n, i - 1 \in G PROVE i \in G
  <2>1. PICK k, u, v : k = i - 1 /\ u = w[k] /\ v = <<all[i]>>
    OBVIOUS
  <2>2. /\ k \in 0..n /\ i \in 0..n /\ k + 1 = i /\ u \in Seq(S)
        /\ v \in Seq(S) /\ Len(v) = 1 /\ v[1] = all[i] /\ w[i] = u \o v
        /\ Len(u) = k /\ \A j \in 1..k : u[j] = all[j]
    <3>1. k \in 0..n /\ i \in 0..n /\ k + 1 = i
      BY <1>1, <2>1
    <3>2. u \in Seq(S) /\ w[i] = u \o v
      BY <1>6, <2>1, <3>1
    <3>3. v \in Seq(S) /\ Len(v) = 1 /\ v[1] = all[i]
      BY <1>1, <2>1
    <3>4. Len(u) = k /\ \A j \in 1..k : u[j] = all[j]
      BY <1>8, <2>1
    <3>5. QED
      BY <3>1, <3>2, <3>3, <3>4
  <2>3. /\ Len(u \o v) = k + 1
        /\ \A j \in 1..(k + 1) : (u \o v)[j] = IF j <= k THEN u[j] ELSE v[j - k]
    <3>1. u \in Seq(S) /\ v \in Seq(S)
      BY <2>2
    <3>2. /\ Len(u \o v) = Len(u) + Len(v)
          /\ \A j \in 1..(Len(u) + Len(v)) :
                (u \o v)[j] = IF j <= Len(u) THEN u[j] ELSE v[j - Len(u)]
      BY <3>1, ConcatProperties
    <3>3. Len(u) = k /\ Len(v) = 1
      BY <2>2
    <3>4. QED
      BY <3>2, <3>3
  <2>4. \A j \in 1..i : w[i][j] = all[j]
    <3> SUFFICES ASSUME NEW j \in 1..i PROVE w[i][j] = all[j]
      OBVIOUS
    <3>1. w[i][j] = IF j <= k THEN u[j] ELSE v[j - k]
      BY <2>2, <2>3
    <3>2. CASE j <= k
      <4>1. j \in 1..k
        BY <2>2, <3>2
      <4>2. QED
        BY <2>2, <3>1, <3>2, <4>1
    <3>3. CASE ~(j <= k)
      <4>1. j = i /\ j - k = 1
        BY <1>1, <2>2, <3>3
      <4>2. QED
        BY <2>2, <3>1, <3>3, <4>1
    <3>4. QED
      BY <3>2, <3>3
  <2>5. QED
    BY <2>2, <2>3, <2>4
<1>9. n \in 0..n
  BY <1>1
<1>10. n \in G
  <2> HIDE DEF G
  <2>1. QED
    BY <1>1, <1>7, <1>8, <1>9, Upwards
<1>11. w[n] \in Seq(S) /\ Len(w[n]) = n /\ \A j \in 1..n : w[n][j] = all[j]
  BY <1>6, <1>9, <1>10
<1>12. w[n] = all
  BY <1>11, SeqEqual DEF n
<1>13. QED
  BY <1>6, <1>12

(* The first of what is picked. *)
LEMMA PickedFirst ==
    ASSUME NEW S, NEW all \in Seq(S), NEW at, NEW k \in 1..Len(all), k \in at,
           \A i \in 1..Len(all) : i \in at => k <= i
    PROVE  Picked(all, at)[1] = all[k]
<1> DEFINE n == Len(all)
<1>1. /\ n \in Nat /\ DOMAIN all = 1..n /\ k \in 1..n /\ all[k] \in S
      /\ \A i \in 1..n : i \in at => k <= i
  BY LenProperties, ElementOfSeq
<1>2. PICK seqs : seqs = Singles(all, at)
  OBVIOUS
<1>3. seqs \in Seq(Seq(S)) /\ Len(seqs) = n /\ Picked(all, at) = FlattenSeq(seqs)
  BY <1>2, SinglesAre
<1>4. \A i \in 1..n : seqs[i] = IF i \in at THEN <<all[i]>> ELSE <<>>
  BY <1>1, <1>2 DEF Singles
<1>5. \A i \in 1..n : seqs[i] \in Seq(S)
  BY <1>3, ElementOfSeq
<1>6. PICK w : Flattens(w, seqs, S)
  BY <1>3, FlatIs
<1> HIDE DEF n
<1>7. /\ w \in [0..n -> Seq(S)] /\ w[0] = <<>> /\ Picked(all, at) = w[n]
      /\ \A i \in 1..n : w[i] = w[i - 1] \o seqs[i]
  BY <1>3, <1>6 DEF Flattens
<1> DEFINE G == {i \in 0..n : IF i < k THEN w[i] = <<>>
                              ELSE Len(w[i]) # 0 /\ w[i][1] = all[k]}
<1>8. 0 \in G
  <2>1. 0 \in 0..n /\ 0 < k
    BY <1>1
  <2>2. QED
    BY <1>7, <2>1
<1>9. ASSUME NEW i \in 1..n, i - 1 \in G PROVE i \in G
  <2>1. PICK j, u, v : j = i - 1 /\ u = w[j] /\ v = seqs[i]
    OBVIOUS
  <2>2. /\ j \in 0..n /\ i \in 0..n /\ j + 1 = i /\ u \in Seq(S) /\ v \in Seq(S)
        /\ w[i] = u \o v /\ v = IF i \in at THEN <<all[i]>> ELSE <<>>
    <3>1. j \in 0..n /\ i \in 0..n /\ j + 1 = i
      BY <1>1, <2>1
    <3>2. u \in Seq(S) /\ w[i] = u \o v
      BY <1>7, <2>1, <3>1
    <3>3. v \in Seq(S)
      BY <1>5, <2>1
    <3>4. v = IF i \in at THEN <<all[i]>> ELSE <<>>
      BY <1>4, <2>1
    <3>5. QED
      BY <3>1, <3>2, <3>3, <3>4
  <2>3. IF j < k THEN u = <<>> ELSE Len(u) # 0 /\ u[1] = all[k]
    BY <1>9, <2>1
  <2>4. CASE i < k
    <3>1. j < k /\ i \notin at
      BY <1>1, <2>2, <2>4
    <3>2. w[i] = <<>> \o <<>>
      BY <2>2, <2>3, <3>1
    <3>3. w[i] = <<>>
      BY <3>2
    <3>4. QED
      BY <2>2, <2>4, <3>3
  <2>5. CASE i = k
    <3>1. j < k
      BY <1>1, <2>2, <2>5
    <3>2. u = <<>> /\ v = <<all[k]>>
      BY <2>2, <2>3, <2>5, <3>1
    <3>3. w[i] = v
      BY <2>2, <3>2, ConcatEmptySeq
    <3>4. Len(w[i]) = 1 /\ w[i][1] = all[k]
      BY <3>2, <3>3
    <3>5. QED
      BY <1>1, <2>2, <2>5, <3>4
  <2>6. CASE i > k
    <3>1. ~(j < k) /\ ~(i < k)
      BY <1>1, <2>2, <2>6
    <3>2. Len(u) # 0 /\ u[1] = all[k]
      BY <2>3, <3>1
    <3>3. /\ Len(u) \in Nat /\ Len(v) \in Nat /\ Len(u \o v) = Len(u) + Len(v)
          /\ \A m \in 1..(Len(u) + Len(v)) :
                (u \o v)[m] = IF m <= Len(u) THEN u[m] ELSE v[m - Len(u)]
      BY <2>2, ConcatProperties, LenProperties
    <3>4. 1 \in 1..(Len(u) + Len(v)) /\ 1 <= Len(u) /\ Len(u) + Len(v) # 0
      BY <3>2, <3>3
    <3>5. (u \o v)[1] = u[1] /\ Len(u \o v) # 0
      BY <3>3, <3>4
    <3>6. QED
      BY <2>2, <3>1, <3>2, <3>5
  <2>7. i < k \/ i = k \/ i > k
    BY <1>1, <2>2
  <2>8. QED
    BY <2>4, <2>5, <2>6, <2>7
<1>10. n \in 0..n /\ ~(n < k)
  BY <1>1
<1>11. n \in G
  <2> HIDE DEF G
  <2>1. QED
    BY <1>1, <1>8, <1>9, <1>10, Upwards
<1>12. QED
  BY <1>7, <1>10, <1>11

(* Two pages make up a list. *)
LEMMA Halves ==
    ASSUME NEW S, NEW all \in Seq(S), NEW k \in 0..Len(all)
    PROVE  SubSeq(all, 1, k) \o SubSeq(all, k + 1, Len(all)) = all
<1>1. Len(all) \in Nat /\ \A i \in 1..Len(all) : all[i] \in S
  BY LenProperties, ElementOfSeq
<1>2. SubSeq(all, 1, k) \o SubSeq(all, k + 1, Len(all)) = SubSeq(all, 1, Len(all))
  <2>1. /\ 1 \in 1..(Len(all) + 1) /\ k \in (1 - 1)..Len(all)
        /\ Len(all) \in k..Len(all)
    BY <1>1
  <2>2. QED
    BY <2>1, ConcatAdjacentSubSeq
<1>3. SubSeq(all, 1, Len(all)) = all
  BY SubSeqFull
<1>4. QED
  BY <1>2, <1>3

-----------------------------------------------------------------------------
(* The queue: an element that is queued, waits to be saved or is being     *)
(* filled is one that was pushed.                                          *)

Entry == [tipset: Tipset, filled: SUBSET Msg]

Calls(n) ==
    [call: {"none"}] \cup [call: {"push"}, new: 1..n, index: Int]
        \cup [call: {"fork"}, new: 1..n, at: Int]
        \cup [call: {"take"}, num: 1..MaxTake, size: Nat]
        \cup [call: {"clear", "list"}, size: Nat]

Tries(n) ==
    [at: {"none", "db", "bulk", "done", "dropped"}]
        \cup [at: {"call", "look"}, loop: Nat] \cup [at: {"fill"}, loop: Nat, obj: 1..n]

QueueTypeOK ==
    /\ object \in Seq(Entry) /\ element \in Seq(1..Len(object))
    /\ local \in [Goroutine -> Calls(Len(object))]
    /\ receipts \in [Tipset -> Tries(Len(object))]
    /\ handed \subseteq 1..Len(object)
    /\ stored \in [Msg -> {"no", "bare", "odd", "full"}] /\ dead \in BOOLEAN

LEMMA ElementFacts ==
    ASSUME QueueTypeOK
    PROVE  /\ Len(object) \in Nat /\ Len(element) \in Nat /\ DOMAIN element = 1..Len(element)
           /\ \A i \in 1..Len(element) : element[i] \in 1..Len(object)
           /\ \A o \in 1..Len(object) : object[o].tipset \in Tipset /\ H(o) \in Nat
<1>1. /\ Len(element) \in Nat /\ DOMAIN element = 1..Len(element)
      /\ \A i \in 1..Len(element) : element[i] \in 1..Len(object)
  BY LenProperties, ElementOfSeq DEF QueueTypeOK
<1>2. Len(object) \in Nat /\ \A o \in 1..Len(object) : object[o] \in Entry
  BY LenProperties, ElementOfSeq DEF QueueTypeOK
<1>3. \A o \in 1..Len(object) : object[o].tipset \in Tipset
  BY <1>2 DEF Entry
<1>4. \A o \in 1..Len(object) : H(o) \in Nat
  BY <1>3, QueueAssumption DEF H
<1>5. QED
  BY <1>1, <1>2, <1>3, <1>4

(* The messages of a tipset, and of an element. *)
LEMMA GivenMsgs ==
    ASSUME NEW t \in Tipset
    PROVE  /\ Blocks[t] \in Seq(DOMAIN Miner) /\ Given(t) \in Seq(Msg)
           /\ Len(Given(t)) = Weight(Blocks[t], LensOf(Msgs, DOMAIN Miner))
           /\ ToSet(Given(t)) = Members(Blocks[t], Msgs)
<1>1. Blocks[t] \in Seq(DOMAIN Miner) /\ Msgs \in [DOMAIN Miner -> Seq(Msg)]
  BY QueueAssumption
<1>2. Given(t) = FlattenSeq(Lists(Blocks[t], Msgs))
  BY DEF Given, Lists
<1>3. FlatMapped(Blocks[t], Msgs, DOMAIN Miner, Msg)
  BY <1>1, FlatMap
<1>4. QED
  BY <1>1, <1>2, <1>3 DEF FlatMapped

(* Have gives the first place of the height, or none. *)
LEMMA HaveIs ==
    ASSUME QueueTypeOK, NEW h
    PROVE  \/ Have(h) = -1 /\ \A i \in 1..Len(element) : H(element[i]) # h
           \/ \E i \in 1..Len(element) : /\ Have(h) = i - 1 /\ H(element[i]) = h
                                         /\ \A j \in 1..Len(element) : H(element[j]) = h => i <= j
<1> DEFINE at == {i \in DOMAIN element : H(element[i]) = h}
<1>1. Len(element) \in Nat /\ DOMAIN element = 1..Len(element)
  BY ElementFacts
<1>2. CASE at = {}
  BY <1>1, <1>2 DEF Have
<1>3. CASE at # {}
  <2>1. \E i \in at : \A j \in at : i <= j
    <3>1. at \in SUBSET Nat
      BY <1>1
    <3> HIDE DEF at
    <3>2. QED
      BY <1>3, <3>1, FirstOfNats
  <2>2. PICK i : i = CHOOSE k \in at : \A j \in at : k <= j
    OBVIOUS
  <2>3. i \in at /\ \A j \in at : i <= j
    <3> HIDE DEF at
    <3>1. QED
      BY <2>1, <2>2
  <2>4. Have(h) = i - 1
    BY <1>3, <2>2 DEF Have
  <2>5. i \in 1..Len(element) /\ H(element[i]) = h
    BY <1>1, <2>3
  <2>6. \A j \in 1..Len(element) : H(element[j]) = h => i <= j
    BY <1>1, <2>3
  <2> HIDE DEF at
  <2>7. QED
    BY <2>4, <2>5, <2>6
<1>4. QED
  BY <1>2, <1>3

(* The loop of a removal leaves elements of the queue. *)
Left == [all: [1..Len(element) -> 1..Len(object)], len: 0..Len(element), panic: BOOLEAN]

Untouched == [all |-> element, len |-> Len(element), panic |-> FALSE]

Removes(v, h) ==
    v = [i \in 0..Len(element) |-> IF i = 0 THEN Untouched ELSE Visited(v[i - 1], i, h)]

LEMMA VisitedIsLeft ==
    ASSUME QueueTypeOK, NEW acc \in Left, NEW i \in 1..Len(element), NEW h
    PROVE  Visited(acc, i, h) \in Left
<1> DEFINE n == Len(element)
           Ids == 1..Len(object)
<1>1. n \in Nat /\ DOMAIN element = 1..n
  BY ElementFacts
<1> HIDE DEF n, Ids
<1>2. acc.all \in [1..n -> Ids] /\ acc.len \in 0..n /\ acc.panic \in BOOLEAN
  BY DEF Left, n, Ids
<1>3. CASE H(acc.all[i]) # h \/ acc.panic
  BY <1>3 DEF Visited
<1>4. CASE ~(H(acc.all[i]) # h \/ acc.panic) /\ i > acc.len
  <2>1. Visited(acc, i, h) = [acc EXCEPT !.panic = TRUE]
    BY <1>4 DEF Visited
  <2>2. QED
    BY <2>1 DEF Left
<1>5. CASE ~(H(acc.all[i]) # h \/ acc.panic) /\ ~(i > acc.len)
  <2>1. PICK all : all = [j \in DOMAIN element |->
                            IF j \in i..(acc.len - 1) THEN acc.all[j + 1] ELSE acc.all[j]]
    OBVIOUS
  <2>2. Visited(acc, i, h) = [all |-> all, len |-> acc.len - 1, panic |-> FALSE]
    BY <1>5, <2>1 DEF Visited
  <2>3. acc.len - 1 \in 0..n
    BY <1>1, <1>2, <1>5 DEF n
  <2>4. ASSUME NEW j \in 1..n
        PROVE  (IF j \in i..(acc.len - 1) THEN acc.all[j + 1] ELSE acc.all[j]) \in Ids
    <3>1. j \in i..(acc.len - 1) => j + 1 \in 1..n
      BY <1>1, <1>2
    <3>2. QED
      BY <1>2, <3>1
  <2>5. all \in [1..n -> Ids]
    BY <1>1, <2>1, <2>4
  <2>6. QED
    BY <2>2, <2>3, <2>5 DEF Left, n, Ids
<1>6. QED
  BY <1>3, <1>4, <1>5

LEMMA RemovedIsLeft ==
    ASSUME QueueTypeOK, NEW h
    PROVE  Removed(h) \in Left
<1> DEFINE n == Len(element)
<1>1. n \in Nat /\ Untouched \in Left
  <2>1. n \in Nat /\ element \in [1..n -> 1..Len(object)]
    BY LenProperties DEF QueueTypeOK
  <2>2. n \in 0..n
    BY <2>1
  <2>3. QED
    BY <2>1, <2>2 DEF Untouched, Left
<1>2. \E v : Removes(v, h)
  <2>1. PICK step : step = [p \in (1..n) \X Left |-> Visited(p[2], p[1], h)]
    OBVIOUS
  <2>2. step \in [(1..n) \X Left -> Left]
    <3>1. ASSUME NEW p \in (1..n) \X Left PROVE Visited(p[2], p[1], h) \in Left
      <4>1. p[1] \in 1..n /\ p[2] \in Left
        OBVIOUS
      <4>2. QED
        BY <4>1, VisitedIsLeft
    <3>2. QED
      BY <2>1, <3>1
  <2>3. PICK v : Solves(v, n, Left, Untouched, step)
    <3> HIDE DEF n
    <3>1. QED
      BY <1>1, <2>2, Recursion
  <2>4. ASSUME NEW i \in 0..n
        PROVE  v[i] = IF i = 0 THEN Untouched ELSE Visited(v[i - 1], i, h)
    <3>1. CASE i = 0
      BY <2>3, <3>1 DEF Solves
    <3>2. CASE i # 0
      <4>1. i \in 1..n /\ i - 1 \in 0..n
        BY <1>1, <3>2
      <4>2. v[i - 1] \in Left /\ v[i] = step[<<i, v[i - 1]>>]
        BY <2>3, <4>1 DEF Solves
      <4>3. <<i, v[i - 1]>> \in (1..n) \X Left
        BY <4>1, <4>2
      <4>4. v[i] = Visited(v[i - 1], i, h)
        BY <2>1, <4>2, <4>3
      <4>5. QED
        BY <3>2, <4>4
    <3>3. QED
      BY <3>1, <3>2
  <2>5. v = [i \in 0..n |-> v[i]]
    BY <2>3 DEF Solves
  <2>6. QED
    BY <2>4, <2>5 DEF Removes
<1>3. PICK v : v = (CHOOSE w : Removes(w, h)) /\ Removes(v, h)
  BY <1>2
<1>4. Removed(h) = v[n]
  BY <1>3 DEF Removed, Removes, Untouched
<1>5. \A i \in 0..n : v[i] = IF i = 0 THEN Untouched ELSE Visited(v[i - 1], i, h)
  BY <1>3 DEF Removes
<1> DEFINE G == {i \in 0..n : v[i] \in Left}
<1>6. 0 \in G
  <2>1. 0 \in 0..n /\ v[0] = Untouched
    BY <1>1, <1>5
  <2>2. QED
    BY <1>1, <2>1
<1>7. ASSUME NEW i \in 1..n, i - 1 \in G PROVE i \in G
  <2>1. i \in 0..n /\ i # 0 /\ v[i - 1] \in Left
    BY <1>7
  <2>2. v[i] = Visited(v[i - 1], i, h)
    BY <1>5, <2>1
  <2>3. QED
    BY <2>1, <2>2, VisitedIsLeft
<1>8. n \in 0..n
  BY <1>1
<1>9. n \in G
  <2> HIDE DEF G, n
  <2>1. QED
    BY <1>1, <1>6, <1>7, <1>8, Upwards
<1>10. QED
  BY <1>4, <1>9

LEMMA PartOfElement ==
    ASSUME NEW S, NEW all, NEW n \in Nat, all \in [1..n -> S],
           NEW a \in Nat \ {0}, NEW b \in Nat, b <= n
    PROVE  SubSeq(all, a, b) \in Seq(S)
<1>1. a \in Int /\ b \in Int /\ \A i \in a..b : all[i] \in S
  OBVIOUS
<1>2. QED
  BY <1>1, SubSeqProperties

LEMMA DelKeeps ==
    ASSUME QueueTypeOK, NEW h, DelTipsetByHeight(h)
    PROVE  element' \in Seq(1..Len(object)) /\ dead' \in BOOLEAN
<1>1. CASE Outside(h)
  BY <1>1 DEF DelTipsetByHeight, QueueTypeOK
<1>2. CASE ~Outside(h)
  <2>1. PICK r : r = Removed(h)
    OBVIOUS
  <2>2. element' = SubSeq(r.all, 1, r.len) /\ dead' = r.panic
    BY <1>2, <2>1 DEF DelTipsetByHeight
  <2>3. r \in Left /\ Len(element) \in Nat
    BY <2>1, ElementFacts, RemovedIsLeft
  <2>4. /\ r.all \in [1..Len(element) -> 1..Len(object)] /\ r.len \in 0..Len(element)
        /\ r.panic \in BOOLEAN
    BY <2>3 DEF Left
  <2>5. r.len \in Nat /\ r.len <= Len(element) /\ 1 \in Nat \ {0}
    BY <2>3, <2>4
  <2>6. SubSeq(r.all, 1, r.len) \in Seq(1..Len(object))
    BY <2>3, <2>4, <2>5, PartOfElement
  <2>7. QED
    BY <2>2, <2>4, <2>6
<1>3. QED
  BY <1>1, <1>2

LEMMA QueueTypeInit == QueueInit => QueueTypeOK
<1> SUFFICES ASSUME QueueInit PROVE QueueTypeOK
  OBVIOUS
<1>1. object \in Seq(Entry) /\ element \in Seq(1..Len(object))
  BY EmptySeq DEF QueueInit
<1>2. local \in [Goroutine -> Calls(Len(object))]
  BY DEF QueueInit, Idle, Calls
<1>3. receipts \in [Tipset -> Tries(Len(object))]
  BY DEF QueueInit, Tries
<1>4. QED
  BY <1>1, <1>2, <1>3 DEF QueueInit, QueueTypeOK

(* A call and a try that are typed stay so while elements are added. *)
LEMMA TypesGrow ==
    ASSUME NEW n \in Nat, NEW m \in Nat, n <= m
    PROVE  Calls(n) \subseteq Calls(m) /\ Tries(n) \subseteq Tries(m)
<1>1. 1..n \subseteq 1..m
  OBVIOUS
<1>2. [call: {"push"}, new: 1..n, index: Int] \subseteq [call: {"push"}, new: 1..m, index: Int]
  BY <1>1
<1>3. [call: {"fork"}, new: 1..n, at: Int] \subseteq [call: {"fork"}, new: 1..m, at: Int]
  BY <1>1
<1>4. [at: {"fill"}, loop: Nat, obj: 1..n] \subseteq [at: {"fill"}, loop: Nat, obj: 1..m]
  BY <1>1
<1>5. QED
  BY <1>2, <1>3, <1>4 DEF Calls, Tries

LEMMA PushTyped ==
    ASSUME QueueTypeOK, NEW g \in Pusher, NEW t \in Tipset, Push(g, t)
    PROVE  QueueTypeOK'
<1>1. PICK n, e : n = Len(object) /\ e = [tipset |-> t, filled |-> {}]
  OBVIOUS
<1>2. n \in Nat /\ object \in Seq(Entry) /\ e \in Entry /\ object' = Append(object, e)
  BY <1>1, ElementFacts DEF Push, QueueTypeOK, Entry
<1>3. object' \in Seq(Entry) /\ Len(object') = n + 1
  BY <1>1, <1>2, AppendProperties
<1>4. 1..n \subseteq 1..(n + 1) /\ n + 1 \in 1..(n + 1) /\ n + 1 \in Nat /\ n <= n + 1
  BY <1>2
<1>5. element' \in Seq(1..(n + 1))
  BY <1>1, <1>4, SeqMonotonic DEF Push, QueueTypeOK
<1>6. Calls(n) \subseteq Calls(n + 1) /\ Tries(n) \subseteq Tries(n + 1)
  BY <1>2, <1>4, TypesGrow
<1>7. Have(Height[t]) \in Int
  <2>1. \/ Have(Height[t]) = -1
        \/ \E i \in 1..Len(element) : Have(Height[t]) = i - 1
    BY HaveIs
  <2>2. Len(element) \in Nat
    BY ElementFacts
  <2>3. QED
    BY <2>1, <2>2
<1>8. [call |-> "push", new |-> n + 1, index |-> Have(Height[t])] \in Calls(n + 1)
  BY <1>4, <1>7 DEF Calls
<1>9. local' \in [Goroutine -> Calls(n + 1)]
  BY <1>1, <1>6, <1>8 DEF Push, QueueTypeOK
<1>10. receipts' \in [Tipset -> Tries(n + 1)] /\ handed' \subseteq 1..(n + 1)
  BY <1>1, <1>4, <1>6 DEF Push, QueueTypeOK
<1>11. QED
  BY <1>3, <1>5, <1>9, <1>10 DEF Push, QueueTypeOK

(* A step that only changes the queue, a call and what is handed out *)
LEMMA CallTyped ==
    ASSUME QueueTypeOK, UNCHANGED <<object, receipts, stored>>,
           element' \in Seq(1..Len(object)), dead' \in BOOLEAN,
           NEW g \in Goroutine, NEW c \in Calls(Len(object)), local' = [local EXCEPT ![g] = c],
           handed' \subseteq 1..Len(object)
    PROVE  QueueTypeOK'
BY DEF QueueTypeOK

LEMMA IdleTyped == Idle \in Calls(Len(object)) /\ Pusher \subseteq Goroutine /\ Taker \subseteq Goroutine
BY DEF Idle, Calls, Goroutine

LEMMA CallsAre ==
    ASSUME QueueTypeOK, NEW g \in Goroutine
    PROVE  /\ local[g].call = "push" => local[g].new \in 1..Len(object) /\ local[g].index \in Int
           /\ local[g].call = "fork" => local[g].new \in 1..Len(object) /\ local[g].at \in Int
                /\ local[g] = [call |-> "fork", new |-> local[g].new, at |-> local[g].at]
           /\ local[g].call = "take" => local[g].num \in 1..MaxTake
<1>1. local[g] \in Calls(Len(object))
  BY DEF QueueTypeOK
<1>2. QED
  BY <1>1 DEF Calls

LEMMA Append1Typed ==
    ASSUME QueueTypeOK, NEW g \in Pusher, Append1(g)
    PROVE  QueueTypeOK'
<1>1. PICK all : all = Append(element, local[g].new)
  OBVIOUS
<1>2. g \in Goroutine /\ local[g].new \in 1..Len(object)
  BY IdleTyped, CallsAre DEF Append1
<1>3. all \in Seq(1..Len(object)) /\ Len(all) \in Nat /\ DOMAIN all = 1..Len(all)
  BY <1>1, <1>2, AppendProperties, LenProperties DEF QueueTypeOK
<1>4. PICK p \in Bijection(DOMAIN all, DOMAIN all) : element' = [i \in DOMAIN all |-> all[p[i]]]
  BY <1>1 DEF Append1
<1>5. p \in [1..Len(all) -> 1..Len(all)]
  BY <1>3, <1>4 DEF Bijection, Injection
<1>6. \A i \in 1..Len(all) : all[p[i]] \in 1..Len(object)
  BY <1>3, <1>5, ElementOfSeq
<1>7. element' \in [1..Len(all) -> 1..Len(object)]
  BY <1>3, <1>4, <1>6
<1>8. element' \in Seq(1..Len(object))
  BY <1>3, <1>7, IntervalSeq
<1>9. H(local[g].new) - 1 \in Int
  BY <1>2, ElementFacts
<1>10. PICK c : c = [call |-> "fork", new |-> local[g].new, at |-> H(local[g].new) - 1]
  OBVIOUS
<1>11. c \in Calls(Len(object))
  BY <1>2, <1>9, <1>10 DEF Calls
<1>12. /\ UNCHANGED <<object, receipts, stored, handed, dead>>
       /\ local' = [local EXCEPT ![g] = c]
  BY <1>10 DEF Append1
<1>13. QED
  BY <1>2, <1>8, <1>11, <1>12, CallTyped DEF QueueTypeOK

LEMMA ReplaceTyped ==
    ASSUME QueueTypeOK, NEW g \in Pusher, Replace(g)
    PROVE  QueueTypeOK'
<1>1. g \in Goroutine /\ local[g].new \in 1..Len(object) /\ Idle \in Calls(Len(object))
  BY IdleTyped, CallsAre DEF Replace
<1>2. ASSUME NEW i \in DOMAIN element
      PROVE  [element EXCEPT ![i] = local[g].new] \in Seq(1..Len(object))
  <2>1. i \in 1..Len(element) /\ element \in Seq(1..Len(object))
    BY <1>2, ElementFacts DEF QueueTypeOK
  <2>2. QED
    BY <1>1, <2>1, ExceptSeq
<1>3. element' \in Seq(1..Len(object))
  <2>1. PICK i : i = local[g].index + 1
    OBVIOUS
  <2>2. \/ element' = element
        \/ ~(i > Len(element)) /\ element' = [element EXCEPT ![i] = local[g].new]
    BY <2>1 DEF Replace
  <2>3. CASE element' = element
    BY <2>3 DEF QueueTypeOK
  <2>4. CASE ~(i > Len(element)) /\ element' = [element EXCEPT ![i] = local[g].new]
    <3>1. i \in DOMAIN element
      <4>1. local[g].index \in Int /\ local[g].index > 0
        BY <1>1, CallsAre DEF Replace
      <4>2. Len(element) \in Nat /\ DOMAIN element = 1..Len(element)
        BY ElementFacts
      <4>3. QED
        BY <2>1, <2>4, <4>1, <4>2
    <3>2. QED
      BY <1>2, <2>4, <3>1
  <2>5. QED
    BY <2>2, <2>3, <2>4
<1>4. dead' \in BOOLEAN
  BY DEF Replace, QueueTypeOK
<1>5. UNCHANGED <<object, receipts, stored, handed>> /\ local' = [local EXCEPT ![g] = Idle]
  BY DEF Replace
<1>6. QED
  BY <1>1, <1>3, <1>4, <1>5, CallTyped DEF QueueTypeOK

LEMMA ForkTyped ==
    ASSUME QueueTypeOK, NEW g \in Pusher, Fork(g)
    PROVE  QueueTypeOK'
<1>1. g \in Goroutine /\ local[g] \in Calls(Len(object)) /\ Idle \in Calls(Len(object))
  BY IdleTyped DEF QueueTypeOK
<1>2. /\ local[g].new \in 1..Len(object) /\ local[g].at \in Int
      /\ local[g] = [call |-> "fork", new |-> local[g].new, at |-> local[g].at]
  BY <1>1, CallsAre DEF Fork
<1>3. UNCHANGED <<object, receipts, stored, handed>>
  BY DEF Fork
<1>4. CASE local[g].at > ParentHeight[object[local[g].new].tipset]
  <2>1. DelTipsetByHeight(local[g].at) /\ local' = [local EXCEPT ![g].at = local[g].at - 1]
    BY <1>4 DEF Fork
  <2>2. element' \in Seq(1..Len(object)) /\ dead' \in BOOLEAN
    BY <2>1, DelKeeps
  <2>3. PICK c : c = [local[g] EXCEPT !.at = local[g].at - 1]
    OBVIOUS
  <2>4. c = [call |-> "fork", new |-> local[g].new, at |-> local[g].at - 1]
    BY <1>2, <2>3
  <2>5. c \in Calls(Len(object))
    BY <1>2, <2>4 DEF Calls
  <2>6. local' = [local EXCEPT ![g] = c]
    BY <1>1, <2>1, <2>3 DEF QueueTypeOK
  <2>7. QED
    BY <1>1, <1>3, <2>2, <2>5, <2>6, CallTyped DEF QueueTypeOK
<1>5. CASE ~(local[g].at > ParentHeight[object[local[g].new].tipset])
  <2>1. local' = [local EXCEPT ![g] = Idle] /\ UNCHANGED <<element, dead>>
    BY <1>5 DEF Fork
  <2>2. QED
    BY <1>1, <1>3, <2>1, CallTyped DEF QueueTypeOK
<1>6. QED
  BY <1>4, <1>5

LEMMA SizeTyped ==
    ASSUME QueueTypeOK, NEW g \in Taker, Size(g)
    PROVE  QueueTypeOK'
<1>1. g \in Goroutine /\ Len(element) \in Nat
  BY IdleTyped, ElementFacts
<1>2. UNCHANGED <<element, object, receipts, handed, stored, dead>>
  BY DEF Size
<1>3. \E c \in Calls(Len(object)) : local' = [local EXCEPT ![g] = c]
  <2>1. \A num \in 1..MaxTake :
            [call |-> "take", num |-> num, size |-> Len(element)] \in Calls(Len(object))
    BY <1>1 DEF Calls
  <2>2. /\ [call |-> "clear", size |-> Len(element)] \in Calls(Len(object))
        /\ [call |-> "list", size |-> Len(element)] \in Calls(Len(object))
    BY <1>1 DEF Calls
  <2>3. QED
    BY <2>1, <2>2 DEF Size
<1>4. QED
  BY <1>1, <1>2, <1>3, CallTyped DEF QueueTypeOK

LEMMA QueuedSet ==
    ASSUME NEW S, NEW s \in Seq(S)
    PROVE  ToSet(s) \subseteq S
BY ToSetIs

LEMMA GetHeaderListTyped ==
    ASSUME QueueTypeOK, NEW g \in Taker, GetHeaderList(g)
    PROVE  QueueTypeOK'
<1>1. g \in Goroutine /\ local[g].num \in 1..MaxTake /\ Idle \in Calls(Len(object))
  BY IdleTyped, CallsAre DEF GetHeaderList
<1>2. PICK n : n = local[g].num + 1
  OBVIOUS
<1>3. n \in Nat \ {0} /\ n + 1 \in Nat \ {0} /\ Len(element) \in Nat
  BY <1>1, <1>2, ElementFacts, QueueAssumption
<1>4. element \in [1..Len(element) -> 1..Len(object)] /\ ToSet(element) \subseteq 1..Len(object)
  BY LenProperties, QueuedSet DEF QueueTypeOK
<1>5. /\ UNCHANGED <<object, receipts, stored>> /\ local' = [local EXCEPT ![g] = Idle]
      /\ handed \subseteq 1..Len(object)
  BY DEF GetHeaderList, QueueTypeOK
<1>6. CASE local[g].size < local[g].num
  <2>1. handed' = handed \cup ToSet(element) /\ UNCHANGED <<element, dead>>
    BY <1>6 DEF GetHeaderList
  <2>2. QED
    BY <1>1, <1>4, <1>5, <2>1, CallTyped DEF QueueTypeOK
<1>7. CASE ~(local[g].size < local[g].num) /\ n > Len(element)
  <2>1. dead' = TRUE /\ UNCHANGED <<element, handed>>
    BY <1>2, <1>7 DEF GetHeaderList
  <2>2. QED
    BY <1>1, <1>5, <2>1, CallTyped DEF QueueTypeOK
<1>8. CASE ~(local[g].size < local[g].num) /\ ~(n > Len(element))
  <2>1. /\ handed' = handed \cup ToSet(SubSeq(element, 1, n))
        /\ element' = SubSeq(element, n + 1, Len(element)) /\ UNCHANGED dead
    BY <1>2, <1>8 DEF GetHeaderList
  <2>2. SubSeq(element, 1, n) \in Seq(1..Len(object))
    BY <1>3, <1>4, <1>8, PartOfElement
  <2>3. SubSeq(element, n + 1, Len(element)) \in Seq(1..Len(object))
    BY <1>3, <1>4, PartOfElement
  <2>4. ToSet(SubSeq(element, 1, n)) \subseteq 1..Len(object)
    BY <2>2, QueuedSet
  <2>5. QED
    BY <1>1, <1>5, <2>1, <2>3, <2>4, CallTyped DEF QueueTypeOK
<1>9. QED
  BY <1>6, <1>7, <1>8

LEMMA ClearTyped ==
    ASSUME QueueTypeOK, NEW g \in Taker, Clear(g)
    PROVE  QueueTypeOK'
<1>1. g \in Goroutine /\ Idle \in Calls(Len(object))
  BY IdleTyped
<1>2. element' \in Seq(1..Len(object))
  BY EmptySeq DEF Clear, QueueTypeOK
<1>3. UNCHANGED <<object, receipts, stored, handed, dead>> /\ local' = [local EXCEPT ![g] = Idle]
  BY DEF Clear
<1>4. QED
  BY <1>1, <1>2, <1>3, CallTyped DEF QueueTypeOK

LEMMA ListTyped ==
    ASSUME QueueTypeOK, NEW g \in Taker, List(g)
    PROVE  QueueTypeOK'
<1>1. g \in Goroutine /\ Idle \in Calls(Len(object))
  BY IdleTyped
<1>2. dead' \in BOOLEAN
  <2>1. \/ dead' = ~Listable(local[g].size)
        \/ dead' = (local[g].size > Len(element))
        \/ dead' = TRUE \/ dead' \in BOOLEAN \/ UNCHANGED dead
    BY Zenon DEF List
  <2>2. CASE dead' = ~Listable(local[g].size)
    BY <2>2
  <2>3. CASE dead' = (local[g].size > Len(element))
    BY <2>3
  <2>4. CASE dead' = TRUE \/ dead' \in BOOLEAN \/ UNCHANGED dead
    BY <2>4 DEF QueueTypeOK
  <2>5. QED
    BY <2>1, <2>2, <2>3, <2>4
<1>3. /\ UNCHANGED <<element, object, receipts, stored, handed>>
      /\ local' = [local EXCEPT ![g] = Idle]
  BY DEF List
<1>4. QED
  BY <1>1, <1>2, <1>3, CallTyped DEF QueueTypeOK

LEMMA SaveTyped ==
    ASSUME QueueTypeOK, NEW o \in handed, Save(o)
    PROVE  QueueTypeOK'
<1>1. stored' \in [Msg -> {"no", "bare", "odd", "full"}]
  BY DEF Save, QueueTypeOK
<1>2. QED
  BY <1>1 DEF Save, QueueTypeOK

(* A step that only changes the try of the receipts of a tipset *)
LEMMA TryTyped ==
    ASSUME QueueTypeOK, UNCHANGED <<element, object, local, handed, dead>>,
           stored' \in [Msg -> {"no", "bare", "odd", "full"}],
           NEW t \in Tipset, NEW r \in Tries(Len(object)),
           receipts' = [receipts EXCEPT ![t] = r]
    PROVE  QueueTypeOK'
BY DEF QueueTypeOK

LEMMA TriesAre ==
    ASSUME QueueTypeOK, NEW t \in Tipset
    PROVE  /\ receipts[t].at \in {"call", "look", "fill"} => receipts[t].loop \in Nat
           /\ receipts[t].at = "fill" => receipts[t].obj \in 1..Len(object)
<1>1. receipts[t] \in Tries(Len(object))
  BY DEF QueueTypeOK
<1>2. QED
  BY <1>1 DEF Tries

LEMMA TryIs ==
    /\ \A at \in {"none", "db", "bulk", "done", "dropped"} : [at |-> at] \in Tries(Len(object))
    /\ \A at \in {"call", "look"}, loop \in Nat : [at |-> at, loop |-> loop] \in Tries(Len(object))
    /\ \A loop \in Nat, o \in 1..Len(object) :
          [at |-> "fill", loop |-> loop, obj |-> o] \in Tries(Len(object))
BY DEF Tries

LEMMA LookTyped ==
    ASSUME QueueTypeOK, NEW t \in Tipset, Look(t)
    PROVE  QueueTypeOK'
<1>1. PICK o, loop : o = TipsetByOneHeight(Height[t]) /\ loop = receipts[t].loop
  OBVIOUS
<1>2. loop \in Nat
  BY <1>1, TriesAre DEF Look
<1>3. o = 0 \/ o \in 1..Len(object)
  <2>1. CASE Outside(Height[t]) \/ Have(Height[t]) = -1
    BY <1>1, <2>1 DEF TipsetByOneHeight
  <2>2. CASE ~Outside(Height[t]) /\ Have(Height[t]) # -1
    <3>1. PICK i \in 1..Len(element) : Have(Height[t]) = i - 1
      BY <2>2, HaveIs
    <3>2. i - 1 + 1 = i
      BY ElementFacts
    <3>3. o = element[i]
      BY <1>1, <2>2, <3>1, <3>2 DEF TipsetByOneHeight
    <3>4. QED
      BY <3>3, ElementFacts
  <2>3. QED
    BY <2>1, <2>2
<1>4. PICK r : r = IF loop > 4 THEN [at |-> "db"]
                   ELSE IF o = 0 THEN Again(loop)
                   ELSE [at |-> "fill", loop |-> loop, obj |-> o]
  OBVIOUS
<1>5. r \in Tries(Len(object))
  <2>1. [at |-> "db"] \in Tries(Len(object)) /\ Again(loop) \in Tries(Len(object))
    BY <1>2, TryIs DEF Again
  <2>2. o # 0 => [at |-> "fill", loop |-> loop, obj |-> o] \in Tries(Len(object))
    BY <1>2, <1>3, TryIs
  <2>3. QED
    BY <1>4, <2>1, <2>2
<1>6. receipts' = [receipts EXCEPT ![t] = r]
  BY <1>1, <1>4 DEF Look
<1>7. QED
  BY <1>5, <1>6, TryTyped DEF Look, QueueTypeOK

LEMMA FillTyped ==
    ASSUME QueueTypeOK, NEW t \in Tipset, Fill(t)
    PROVE  QueueTypeOK'
<1>1. PICK o, ours : /\ o = receipts[t].obj
                     /\ ours = ToSet(Given(t)) \cap ToSet(MsgsOf(o))
  OBVIOUS
<1>2. o \in 1..Len(object) /\ receipts[t].loop \in Nat
  BY <1>1, TriesAre DEF Fill
<1>3. ours \subseteq Msg
  <2>1. Given(t) \in Seq(Msg)
    BY GivenMsgs
  <2>2. QED
    BY <1>1, <2>1, QueuedSet
<1>4. object' = [object EXCEPT ![o].filled = @ \cup ours]
  BY <1>1 DEF Fill
<1>5. object' \in Seq(Entry) /\ Len(object') = Len(object)
  <2>1. object \in Seq(Entry) /\ object[o] \in Entry
    BY <1>2, ElementOfSeq DEF QueueTypeOK
  <2>2. PICK e : e = [object[o] EXCEPT !.filled = @ \cup ours]
    OBVIOUS
  <2>3. e \in Entry
    BY <1>3, <2>1, <2>2 DEF Entry
  <2>4. object' = [object EXCEPT ![o] = e]
    BY <1>4, <2>2
  <2>5. QED
    BY <1>2, <2>1, <2>3, <2>4, ExceptSeq
<1>6. PICK r : r = IF ours = {} THEN Again(receipts[t].loop) ELSE [at |-> "done"]
  OBVIOUS
<1>7. r \in Tries(Len(object))
  BY <1>2, <1>6, TryIs DEF Again
<1>8. receipts' = [receipts EXCEPT ![t] = r]
  BY <1>1, <1>6 DEF Fill
<1>9. receipts' \in [Tipset -> Tries(Len(object))]
  BY <1>7, <1>8 DEF QueueTypeOK
<1>10. QED
  BY <1>5, <1>9 DEF Fill, QueueTypeOK

LEMMA ReceiptTyped ==
    ASSUME QueueTypeOK, NEW t \in Tipset,
           Give(t) \/ MsgUpdateReceipt(t) \/ UpdateFirst(t) \/ BulkUpdate(t)
    PROVE  QueueTypeOK'
<1>1. CASE Give(t)
  <2>1. [at |-> "call", loop |-> 0] \in Tries(Len(object))
    BY TryIs
  <2>2. QED
    BY <1>1, <2>1, TryTyped DEF Give, QueueTypeOK
<1>2. CASE MsgUpdateReceipt(t)
  <2>1. receipts[t].loop \in Nat
    BY <1>2, TriesAre DEF MsgUpdateReceipt
  <2>2. PICK r : r = IF Len(element) = 1 THEN [at |-> "dropped"]
                     ELSE [at |-> "look", loop |-> receipts[t].loop]
    OBVIOUS
  <2>3. r \in Tries(Len(object))
    BY <2>1, <2>2, TryIs
  <2>4. receipts' = [receipts EXCEPT ![t] = r]
    BY <1>2, <2>2 DEF MsgUpdateReceipt
  <2>5. QED
    BY <1>2, <2>3, <2>4, TryTyped DEF MsgUpdateReceipt, QueueTypeOK
<1>3. CASE UpdateFirst(t)
  <2>1. [at |-> "bulk"] \in Tries(Len(object))
    BY TryIs
  <2>2. stored' \in [Msg -> {"no", "bare", "odd", "full"}]
    BY <1>3 DEF UpdateFirst, QueueTypeOK
  <2>3. QED
    BY <1>3, <2>1, <2>2, TryTyped DEF UpdateFirst
<1>4. CASE BulkUpdate(t)
  <2>1. [at |-> "done"] \in Tries(Len(object))
    BY TryIs
  <2>2. stored' \in [Msg -> {"no", "bare", "odd", "full"}]
    BY <1>4 DEF BulkUpdate, QueueTypeOK
  <2>3. QED
    BY <1>4, <2>1, <2>2, TryTyped DEF BulkUpdate
<1>5. QED
  BY <1>1, <1>2, <1>3, <1>4

LEMMA QueueTypeStep == QueueTypeOK /\ [QueueNext]_queueVars => QueueTypeOK'
<1> SUFFICES ASSUME QueueTypeOK, [QueueNext]_queueVars PROVE QueueTypeOK'
  OBVIOUS
<1>1. ASSUME NEW g \in Pusher, NEW t \in Tipset, Push(g, t) PROVE QueueTypeOK'
  BY <1>1, PushTyped
<1>2. ASSUME NEW g \in Pusher, Append1(g) PROVE QueueTypeOK'
  BY <1>2, Append1Typed
<1>3. ASSUME NEW g \in Pusher, Replace(g) PROVE QueueTypeOK'
  BY <1>3, ReplaceTyped
<1>4. ASSUME NEW g \in Pusher, Fork(g) PROVE QueueTypeOK'
  BY <1>4, ForkTyped
<1>5. ASSUME NEW g \in Taker, Size(g) PROVE QueueTypeOK'
  BY <1>5, SizeTyped
<1>6. ASSUME NEW g \in Taker, GetHeaderList(g) PROVE QueueTypeOK'
  BY <1>6, GetHeaderListTyped
<1>7. ASSUME NEW g \in Taker, Clear(g) PROVE QueueTypeOK'
  BY <1>7, ClearTyped
<1>8. ASSUME NEW g \in Taker, List(g) PROVE QueueTypeOK'
  BY <1>8, ListTyped
<1>9. ASSUME NEW o \in handed, Save(o) PROVE QueueTypeOK'
  BY <1>9, SaveTyped
<1>10. ASSUME NEW t \in Tipset, Look(t) PROVE QueueTypeOK'
  BY <1>10, LookTyped
<1>11. ASSUME NEW t \in Tipset, Fill(t) PROVE QueueTypeOK'
  BY <1>11, FillTyped
<1>12. ASSUME NEW t \in Tipset,
              Give(t) \/ MsgUpdateReceipt(t) \/ UpdateFirst(t) \/ BulkUpdate(t)
       PROVE  QueueTypeOK'
  BY <1>12, ReceiptTyped
<1>13. CASE UNCHANGED queueVars
  BY <1>13 DEF queueVars, QueueTypeOK
<1>14. QED
  BY <1>1, <1>2, <1>3, <1>4, <1>5, <1>6, <1>7, <1>8, <1>9, <1>10, <1>11, <1>12, <1>13
  DEF QueueNext

(* Whatever the queue, the calls inside it, the goroutines that save and   *)
(* those that fill in receipts hold on to is an element that was pushed:   *)
(* the indices that are used after the lock was let go of reach past the   *)
(* list only where the method panics.  (SliceEntry, Push,                  *)
(* DelTipsetByHeight, GetHeaderList, MsgUpdateReceipt)                     *)
THEOREM ElementsWerePushed == QueueSpec => []QueueTypeOK
<1>1. QED
  BY QueueTypeInit, QueueTypeStep, PTL DEF QueueSpec

-----------------------------------------------------------------------------
(* What the readers make of the queue. *)

Ids == 1..Len(object)

Backwards == [k \in 1..Len(element) |-> element[Len(element) + 1 - k]]

BlockLists == [o \in Ids |-> BlocksOf(o)]

MsgLists == [o \in Ids |-> MsgsOf(o)]

LEMMA ListsTyped ==
    ASSUME QueueTypeOK
    PROVE  /\ element \in Seq(Ids) /\ Backwards \in Seq(Ids) /\ Len(Backwards) = Len(element)
           /\ BlockLists \in [Ids -> Seq(DOMAIN Miner)] /\ MsgLists \in [Ids -> Seq(Msg)]
<1>1. /\ Len(element) \in Nat /\ \A i \in 1..Len(element) : element[i] \in Ids
      /\ \A o \in Ids : object[o].tipset \in Tipset
  BY ElementFacts DEF Ids
<1>2. element \in Seq(Ids)
  BY DEF QueueTypeOK, Ids
<1>3. \A k \in 1..Len(element) : Len(element) + 1 - k \in 1..Len(element)
  BY <1>1
<1>4. Backwards \in [1..Len(element) -> Ids]
  BY <1>1, <1>3 DEF Backwards
<1>5. Backwards \in Seq(Ids) /\ Len(Backwards) = Len(element)
  BY <1>1, <1>4, IntervalSeq
<1>6. \A o \in Ids : BlocksOf(o) \in Seq(DOMAIN Miner)
  BY <1>1, QueueAssumption DEF BlocksOf
<1>7. \A o \in Ids : MsgsOf(o) \in Seq(Msg)
  <2> SUFFICES ASSUME NEW o \in Ids PROVE MsgsOf(o) \in Seq(Msg)
    OBVIOUS
  <2>1. MsgsOf(o) = Given(object[o].tipset)
    BY DEF MsgsOf, BlocksOf, Given
  <2>2. QED
    BY <1>1, <2>1, GivenMsgs
<1>8. QED
  BY <1>2, <1>5, <1>6, <1>7 DEF BlockLists, MsgLists

LEMMA BackwardsIs ==
    ASSUME QueueTypeOK, NEW k \in 1..Len(element)
    PROVE  /\ Backwards[k] = element[Len(element) + 1 - k]
           /\ Len(element) + 1 - k \in 1..Len(element)
           /\ element[k] = Backwards[Len(element) + 1 - k]
<1>1. Len(element) \in Nat
  BY ElementFacts
<1>2. PICK j : j = Len(element) + 1 - k
  OBVIOUS
<1>3. j \in 1..Len(element) /\ Len(element) + 1 - j = k
  BY <1>1, <1>2
<1>4. Backwards[j] = element[k] /\ Backwards[k] = element[j]
  BY <1>2, <1>3 DEF Backwards
<1>5. QED
  BY <1>2, <1>3, <1>4

LEMMA BackwardsSame ==
    ASSUME QueueTypeOK, NEW f \in [Ids -> Nat]
    PROVE  Weight(Backwards, f) = Weight(element, f)
<1> DEFINE n == Len(element)
<1>1. /\ n \in Nat /\ element \in Seq(Ids) /\ Backwards \in Seq(Ids) /\ Len(Backwards) = n
      /\ \A i \in 1..n : element[i] \in Ids
  BY ListsTyped, ElementFacts DEF Ids
<1>2. PICK a, b : a = [i \in 1..n |-> f[element[i]]] /\ b = [i \in 1..n |-> f[Backwards[i]]]
  OBVIOUS
<1>3. Weighs(a, f, element) /\ Weighs(b, f, Backwards)
  BY <1>1, <1>2 DEF Weighs
<1>4. Weight(element, f) = SumOf(n, a)
  BY <1>1, <1>3, WeightIs
<1>5. Weight(Backwards, f) = SumOf(Len(Backwards), b)
  BY <1>1, <1>3, WeightIs
<1>6. \A i \in 1..n : a[i] \in Nat /\ b[i] = a[n + 1 - i]
  <2> SUFFICES ASSUME NEW i \in 1..n PROVE a[i] \in Nat /\ b[i] = a[n + 1 - i]
    OBVIOUS
  <2>1. Backwards[i] = element[n + 1 - i] /\ n + 1 - i \in 1..n
    BY BackwardsIs
  <2>2. a[i] \in Nat
    BY <1>1, <1>2
  <2>3. b[i] = f[Backwards[i]] /\ a[n + 1 - i] = f[element[n + 1 - i]]
    BY <1>2, <2>1
  <2>4. QED
    BY <2>1, <2>2, <2>3
<1> HIDE DEF n
<1>7. SumOf(n, b) = SumOf(n, a)
  BY <1>1, <1>6, SumReversed
<1>8. QED
  BY <1>1, <1>4, <1>5, <1>7

LEMMA BackwardsMembers ==
    ASSUME QueueTypeOK, NEW L
    PROVE  Members(Backwards, L) = Members(element, L)
<1>1. Len(Backwards) = Len(element)
  BY ListsTyped
<1>2. ASSUME NEW i \in 1..Len(element) PROVE ToSet(L[Backwards[i]]) \subseteq Members(element, L)
  <2>1. PICK j \in 1..Len(element) : Backwards[i] = element[j]
    BY BackwardsIs
  <2>2. QED
    BY <2>1 DEF Members
<1>3. ASSUME NEW i \in 1..Len(element) PROVE ToSet(L[element[i]]) \subseteq Members(Backwards, L)
  <2>1. PICK j \in 1..Len(element) : element[i] = Backwards[j]
    BY BackwardsIs
  <2>2. QED
    BY <1>1, <2>1 DEF Members
<1>4. QED
  BY <1>1, <1>2, <1>3 DEF Members

(* AllBlock and AllMsg, with the size the queue has. *)
LEMMA AllBlockIs ==
    ASSUME QueueTypeOK
    PROVE  /\ AllBlock(Len(element)) \in Seq(DOMAIN Miner)
           /\ ToSet(AllBlock(Len(element))) = Members(element, BlockLists)
           /\ Len(AllBlock(Len(element))) = Weight(element, LensOf(BlockLists, Ids))
<1>1. AllBlock(Len(element)) = FlattenSeq(Lists(Backwards, BlockLists))
  <2>1. /\ DOMAIN element = 1..Len(element) /\ DOMAIN Backwards = 1..Len(element)
        /\ Newest(Len(element)) = Backwards
    BY ElementFacts DEF Newest, Backwards
  <2>2. \A k \in 1..Len(element) : BlocksOf(Backwards[k]) = BlockLists[Backwards[k]]
    BY ListsTyped, ElementOfSeq DEF BlockLists
  <2>3. [k \in DOMAIN element |-> BlocksOf(Newest(Len(element))[k])] = Lists(Backwards, BlockLists)
    BY <2>1, <2>2 DEF Lists
  <2>4. QED
    BY <2>3 DEF AllBlock
<1>2. FlatMapped(Backwards, BlockLists, Ids, DOMAIN Miner)
  BY ListsTyped, FlatMap
<1>3. LensOf(BlockLists, Ids) \in [Ids -> Nat]
  BY ListsTyped, LenProperties DEF LensOf
<1>4. Weight(Backwards, LensOf(BlockLists, Ids)) = Weight(element, LensOf(BlockLists, Ids))
  BY <1>3, BackwardsSame
<1>5. Members(Backwards, BlockLists) = Members(element, BlockLists)
  BY BackwardsMembers
<1>6. QED
  BY <1>1, <1>2, <1>4, <1>5 DEF FlatMapped

LEMMA AllMsgIs ==
    ASSUME QueueTypeOK
    PROVE  /\ AllMsg(Len(element)) \in Seq(Msg)
           /\ ToSet(AllMsg(Len(element))) = Members(element, MsgLists)
           /\ Len(AllMsg(Len(element))) = Weight(element, LensOf(MsgLists, Ids))
<1>1. AllMsg(Len(element)) = FlattenSeq(Lists(Backwards, MsgLists))
  <2>1. /\ DOMAIN element = 1..Len(element) /\ DOMAIN Backwards = 1..Len(element)
        /\ Newest(Len(element)) = Backwards
    BY ElementFacts DEF Newest, Backwards
  <2>2. \A k \in 1..Len(element) : MsgsOf(Backwards[k]) = MsgLists[Backwards[k]]
    BY ListsTyped, ElementOfSeq DEF MsgLists
  <2>3. [k \in DOMAIN element |-> MsgsOf(Newest(Len(element))[k])] = Lists(Backwards, MsgLists)
    BY <2>1, <2>2 DEF Lists
  <2>4. QED
    BY <2>3 DEF AllMsg
<1>2. FlatMapped(Backwards, MsgLists, Ids, Msg)
  BY ListsTyped, FlatMap
<1>3. LensOf(MsgLists, Ids) \in [Ids -> Nat]
  BY ListsTyped, LenProperties DEF LensOf
<1>4. Weight(Backwards, LensOf(MsgLists, Ids)) = Weight(element, LensOf(MsgLists, Ids))
  BY <1>3, BackwardsSame
<1>5. Members(Backwards, MsgLists) = Members(element, MsgLists)
  BY BackwardsMembers
<1>6. QED
  BY <1>1, <1>2, <1>4, <1>5 DEF FlatMapped

(* The number of blocks: the list is as long as its size. *)
Sized(w) ==
    w = [i \in 0..Len(element) |->
            IF i = 0 THEN 0 ELSE w[i - 1] + Len(BlocksOf(element[i]))]

LEMMA SizeAgrees ==
    ASSUME QueueTypeOK
    PROVE  Len(AllBlock(Len(element))) = BlockSize
<1> DEFINE n == Len(element)
<1>1. /\ n \in Nat /\ element \in Seq(Ids) /\ \A i \in 1..n : element[i] \in Ids
      /\ BlockLists \in [Ids -> Seq(DOMAIN Miner)]
  BY ElementFacts, ListsTyped DEF Ids
<1>2. PICK g : g = [i \in 1..n |-> Len(BlocksOf(element[i]))]
  OBVIOUS
<1>3. \A i \in 1..n : g[i] \in Nat /\ g[i] = LensOf(BlockLists, Ids)[element[i]]
  <2> SUFFICES ASSUME NEW i \in 1..n
               PROVE  g[i] \in Nat /\ g[i] = LensOf(BlockLists, Ids)[element[i]]
    OBVIOUS
  <2>1. element[i] \in Ids /\ BlockLists[element[i]] \in Seq(DOMAIN Miner)
    BY <1>1
  <2>2. BlockLists[element[i]] = BlocksOf(element[i])
    BY <2>1 DEF BlockLists
  <2>3. g[i] = Len(BlockLists[element[i]])
    BY <1>2, <2>2
  <2>4. QED
    BY <2>1, <2>3, LenProperties DEF LensOf
<1>4. Weight(element, LensOf(BlockLists, Ids)) = SumOf(n, g)
  <2>1. LensOf(BlockLists, Ids) \in [Ids -> Nat]
    BY <1>1, LenProperties DEF LensOf
  <2>2. Weighs(g, LensOf(BlockLists, Ids), element)
    BY <1>3 DEF Weighs
  <2>3. QED
    BY <1>1, <2>1, <2>2, WeightIs
<1>5. ASSUME NEW w PROVE Sized(w) <=> Sums(w, g, n)
  <2>1. \A i \in 0..n : SumStep(w, g, i) = IF i = 0 THEN 0 ELSE w[i - 1] + Len(BlocksOf(element[i]))
    <3> SUFFICES ASSUME NEW i \in 0..n
                 PROVE  SumStep(w, g, i) =
                          IF i = 0 THEN 0 ELSE w[i - 1] + Len(BlocksOf(element[i]))
      OBVIOUS
    <3>1. i # 0 => g[i] = Len(BlocksOf(element[i]))
      BY <1>1, <1>2
    <3>2. QED
      BY <3>1 DEF SumStep
  <2>2. [i \in 0..n |-> SumStep(w, g, i)] =
            [i \in 0..n |-> IF i = 0 THEN 0 ELSE w[i - 1] + Len(BlocksOf(element[i]))]
    BY <2>1
  <2>3. QED
    BY <2>2 DEF Sized, Sums
<1>6. PICK w : Sums(w, g, n) /\ SumOf(n, g) = w[n]
  <2>1. \A i \in 1..n : g[i] \in Nat
    BY <1>3
  <2> HIDE DEF n
  <2>2. QED
    BY <1>1, <2>1, SumIs
<1>7. PICK v : v = (CHOOSE x : Sized(x)) /\ Sized(v)
  BY <1>5, <1>6
<1>8. BlockSize = v[n]
  BY <1>7 DEF BlockSize, Sized
<1>9. v[n] = w[n]
  <2>1. Sums(v, g, n)
    BY <1>5, <1>7
  <2>2. Sums(w, g, n) /\ n \in Nat
    BY <1>1, <1>6
  <2> HIDE DEF n
  <2>3. QED
    BY <2>1, <2>2, SumsUnique
<1>10. QED
  BY <1>4, <1>6, <1>8, <1>9, AllBlockIs

(* Two pages are the list. *)
LEMMA PagesAgree ==
    ASSUME QueueTypeOK
    PROVE  LET n      == Len(element)
               blocks == AllBlock(n)
               msgs   == AllMsg(n)
           IN  /\ \A k \in 0..Len(blocks) :
                    BlockByIndex(n, 0, k) \o BlockByIndex(n, k, Len(blocks)) = blocks
               /\ \A k \in 0..Len(msgs) :
                    MsgByIndex(n, 0, k) \o MsgByIndex(n, k, Len(msgs)) = msgs
<1>1. PICK n, blocks, msgs : n = Len(element) /\ blocks = AllBlock(n) /\ msgs = AllMsg(n)
  OBVIOUS
<1>2. ASSUME NEW S, NEW all \in Seq(S), NEW k \in 0..Len(all)
      PROVE  /\ (IF 0 + k >= Len(all) THEN SubSeq(all, 0 + 1, Len(all)) ELSE Slice(all, 0, k))
                    = SubSeq(all, 1, k)
             /\ k + Len(all) >= Len(all)
             /\ SubSeq(all, 1, k) \o SubSeq(all, k + 1, Len(all)) = all
  <2>1. Len(all) \in Nat
    BY LenProperties
  <2>2. 0 + k >= Len(all) => k = Len(all)
    BY <2>1
  <2>3. Slice(all, 0, k) = SubSeq(all, 1, k)
    BY <2>1 DEF Slice
  <2>4. (IF 0 + k >= Len(all) THEN SubSeq(all, 0 + 1, Len(all)) ELSE Slice(all, 0, k))
            = SubSeq(all, 1, k)
    <3>1. 0 + 1 = 1
      OBVIOUS
    <3>2. QED
      BY <2>2, <2>3, <3>1
  <2>5. k + Len(all) >= Len(all)
    BY <2>1
  <2>6. SubSeq(all, 1, k) \o SubSeq(all, k + 1, Len(all)) = all
    BY Halves
  <2>7. QED
    BY <2>4, <2>5, <2>6
<1>3. blocks \in Seq(DOMAIN Miner) /\ msgs \in Seq(Msg)
  BY <1>1, AllBlockIs, AllMsgIs
<1>4. ASSUME NEW k \in 0..Len(blocks)
      PROVE  BlockByIndex(n, 0, k) \o BlockByIndex(n, k, Len(blocks)) = blocks
  <2>1. BlockByIndex(n, 0, k) = SubSeq(blocks, 1, k)
    BY <1>1, <1>2, <1>3 DEF BlockByIndex
  <2>2. BlockByIndex(n, k, Len(blocks)) = SubSeq(blocks, k + 1, Len(blocks))
    BY <1>1, <1>2, <1>3 DEF BlockByIndex
  <2>3. QED
    BY <1>2, <1>3, <2>1, <2>2
<1>5. ASSUME NEW k \in 0..Len(msgs)
      PROVE  MsgByIndex(n, 0, k) \o MsgByIndex(n, k, Len(msgs)) = msgs
  <2>1. MsgByIndex(n, 0, k) = SubSeq(msgs, 1, k)
    BY <1>1, <1>2, <1>3 DEF MsgByIndex
  <2>2. MsgByIndex(n, k, Len(msgs)) = SubSeq(msgs, k + 1, Len(msgs))
    BY <1>1, <1>2, <1>3 DEF MsgByIndex
  <2>3. QED
    BY <1>2, <1>3, <2>1, <2>2
<1>6. QED
  BY <1>1, <1>4, <1>5

(* A filter for every miner there is *)
LEMMA SortAgrees ==
    ASSUME QueueTypeOK
    PROVE  SortBlockByMinerArr(Len(element), {Miner[b] : b \in DOMAIN Miner})
             = AllBlock(Len(element))
<1>1. PICK n, all : n = Len(element) /\ all = AllBlock(n)
  OBVIOUS
<1>2. FlattenSeq([i \in 1..n |-> BlocksOf(element[n + 1 - i])]) = all
  <2>1. DOMAIN element = 1..n
    BY <1>1, ElementFacts
  <2>2. \A k \in 1..n : BlocksOf(Newest(n)[k]) = BlocksOf(element[n + 1 - k])
    BY <1>1 DEF Newest
  <2>3. [k \in DOMAIN element |-> BlocksOf(Newest(n)[k])] =
            [i \in 1..n |-> BlocksOf(element[n + 1 - i])]
    BY <2>1, <2>2
  <2>4. QED
    BY <1>1, <2>3 DEF AllBlock
<1>3. PICK at : at = {i \in DOMAIN all : Miner[all[i]] \in {Miner[b] : b \in DOMAIN Miner}}
  OBVIOUS
<1>4. all \in Seq(DOMAIN Miner)
  BY <1>1, AllBlockIs
<1>5. \A i \in 1..Len(all) : i \in at
  BY <1>3, <1>4, LenProperties, ElementOfSeq
<1>6. Picked(all, at) = all
  BY <1>4, <1>5, PickedAll
<1>7. SortBlockByMinerArr(n, {Miner[b] : b \in DOMAIN Miner}) = Picked(all, at)
  BY <1>2, <1>3 DEF SortBlockByMinerArr
<1>8. QED
  BY <1>1, <1>6, <1>7

(* What is looked up by its cid *)
LEMMA CidsAgree ==
    ASSUME QueueTypeOK
    PROVE  /\ {b \in DOMAIN Miner : BlockByCid(b)} = ToSet(AllBlock(Len(element)))
           /\ {m \in Msg : MsgByCid(m)} = ToSet(AllMsg(Len(element)))
<1>1. /\ DOMAIN element = 1..Len(element) /\ \A i \in 1..Len(element) : element[i] \in Ids
      /\ BlockLists \in [Ids -> Seq(DOMAIN Miner)] /\ MsgLists \in [Ids -> Seq(Msg)]
  BY ElementFacts, ListsTyped DEF Ids
<1>2. \A i \in 1..Len(element) : /\ BlockLists[element[i]] = BlocksOf(element[i])
                                 /\ MsgLists[element[i]] = MsgsOf(element[i])
  BY <1>1 DEF BlockLists, MsgLists
<1>3. \A i \in 1..Len(element) : /\ ToSet(BlocksOf(element[i])) \subseteq DOMAIN Miner
                                 /\ ToSet(MsgsOf(element[i])) \subseteq Msg
  BY <1>1, <1>2, QueuedSet
<1>4. {b \in DOMAIN Miner : BlockByCid(b)} = Members(element, BlockLists)
  <2>1. ASSUME NEW b PROVE b \in Members(element, BlockLists) <=> b \in DOMAIN Miner /\ BlockByCid(b)
    <3>1. b \in Members(element, BlockLists)
            <=> \E i \in 1..Len(element) : b \in ToSet(BlocksOf(element[i]))
      BY <1>2 DEF Members
    <3>2. QED
      BY <1>1, <1>3, <3>1 DEF BlockByCid
  <2>2. QED
    BY <2>1
<1>5. {m \in Msg : MsgByCid(m)} = Members(element, MsgLists)
  <2>1. ASSUME NEW m PROVE m \in Members(element, MsgLists) <=> m \in Msg /\ MsgByCid(m)
    <3>1. m \in Members(element, MsgLists)
            <=> \E i \in 1..Len(element) : m \in ToSet(MsgsOf(element[i]))
      BY <1>2 DEF Members
    <3>2. QED
      BY <1>1, <1>3, <3>1 DEF MsgByCid
  <2>2. QED
    BY <2>1
<1>6. QED
  BY <1>4, <1>5, AllBlockIs, AllMsgIs

(* The messages of a block, or of all, wherever they are in the queue *)
Listed == FlattenSeq(Lists(element, BlockLists))

Only(b) == [c \in DOMAIN Miner |-> IF b \in {NoMethod, c} THEN Msgs[c] ELSE <<>>]

LEMMA ByBlockIs ==
    ASSUME QueueTypeOK, NEW b
    PROVE  /\ FlatMapped(element, BlockLists, Ids, DOMAIN Miner)
           /\ Only(b) \in [DOMAIN Miner -> Seq(Msg)]
           /\ FlatMapped(Listed, Only(b), DOMAIN Miner, Msg)
           /\ MsgByBlockCidMethodName(b, NoMethod) = FlattenSeq(Lists(Listed, Only(b)))
<1>1. FlatMapped(element, BlockLists, Ids, DOMAIN Miner)
  BY ListsTyped, FlatMap
<1>2. Listed \in Seq(DOMAIN Miner)
  BY <1>1 DEF FlatMapped, Listed
<1>3. Only(b) \in [DOMAIN Miner -> Seq(Msg)]
  <2>1. <<>> \in Seq(Msg) /\ \A c \in DOMAIN Miner : Msgs[c] \in Seq(Msg)
    BY QueueAssumption, EmptySeq
  <2>2. QED
    BY <2>1 DEF Only
<1>4. FlatMapped(Listed, Only(b), DOMAIN Miner, Msg)
  BY <1>2, <1>3, FlatMap
<1>5. FlattenSeq([i \in DOMAIN element |-> BlocksOf(element[i])]) = Listed
  <2>1. \A i \in DOMAIN element : BlocksOf(element[i]) = BlockLists[element[i]]
    BY ElementFacts DEF BlockLists, Ids
  <2>2. [i \in DOMAIN element |-> BlocksOf(element[i])] = Lists(element, BlockLists)
    BY <2>1 DEF Lists
  <2>3. QED
    BY <2>2 DEF Listed
<1>6. PICK msgs : msgs = FlattenSeq(Lists(Listed, Only(b)))
  OBVIOUS
<1>7. FlattenSeq([i \in DOMAIN Listed |->
                     IF b \in {NoMethod, Listed[i]} THEN Msgs[Listed[i]] ELSE <<>>]) = msgs
  <2>1. DOMAIN Listed = 1..Len(Listed) /\ \A i \in 1..Len(Listed) : Listed[i] \in DOMAIN Miner
    BY <1>2, LenProperties, ElementOfSeq
  <2>2. \A i \in DOMAIN Listed : Only(b)[Listed[i]] =
            IF b \in {NoMethod, Listed[i]} THEN Msgs[Listed[i]] ELSE <<>>
    BY <2>1 DEF Only
  <2>3. [i \in DOMAIN Listed |-> IF b \in {NoMethod, Listed[i]} THEN Msgs[Listed[i]] ELSE <<>>]
            = Lists(Listed, Only(b))
    BY <2>2 DEF Lists
  <2>4. QED
    BY <1>6, <2>3
<1>8. PICK at : at = {i \in DOMAIN msgs : NoMethod \in {NoMethod, Method[msgs[i]]}}
  OBVIOUS
<1>9. MsgByBlockCidMethodName(b, NoMethod) = Picked(msgs, at)
  BY <1>5, <1>7, <1>8 DEF MsgByBlockCidMethodName
<1>10. msgs \in Seq(Msg)
  BY <1>4, <1>6 DEF FlatMapped
<1>11. \A i \in 1..Len(msgs) : i \in at
  BY <1>8, <1>10, LenProperties
<1>12. Picked(msgs, at) = msgs
  BY <1>10, <1>11, PickedAll
<1>13. QED
  BY <1>1, <1>3, <1>4, <1>6, <1>9, <1>12

LEMMA BlockMsgsAgree ==
    ASSUME QueueTypeOK, NEW b \in DOMAIN Miner, MsgByBlockCid(b) # <<>>
    PROVE  ToSet(MsgByBlockCid(b)) = ToSet(MsgByBlockCidMethodName(b, NoMethod))
<1>1. /\ element # <<>> /\ b \in ToSet(BlocksOf(element[1])) /\ MsgByBlockCid(b) = Msgs[b]
  BY DEF MsgByBlockCid
<1>2. b # NoMethod
  BY QueueAssumption
<1>3. /\ ToSet(MsgByBlockCidMethodName(b, NoMethod)) = Members(Listed, Only(b))
      /\ ToSet(Listed) = Members(element, BlockLists) /\ Listed \in Seq(DOMAIN Miner)
  BY ByBlockIs DEF FlatMapped, Listed
<1>4. /\ ToSet(Listed) = {Listed[i] : i \in 1..Len(Listed)}
      /\ \A i \in 1..Len(Listed) : Listed[i] \in DOMAIN Miner
  BY <1>3, ToSetIs, ElementOfSeq
<1>5. b \in ToSet(Listed)
  <2>1. 1 \in 1..Len(element)
    <3>1. Len(element) \in Nat /\ Len(element) # 0
      BY <1>1, EmptySeq, LenProperties DEF QueueTypeOK
    <3>2. QED
      BY <3>1
  <2>2. BlockLists[element[1]] = BlocksOf(element[1])
    BY <2>1, ElementFacts DEF BlockLists, Ids
  <2>3. b \in Members(element, BlockLists)
    BY <1>1, <2>1, <2>2 DEF Members
  <2>4. QED
    BY <1>3, <2>3
<1>6. PICK k \in 1..Len(Listed) : Listed[k] = b
  BY <1>4, <1>5
<1>7. \A i \in 1..Len(Listed) : Only(b)[Listed[i]] = IF Listed[i] = b THEN Msgs[b] ELSE <<>>
  BY <1>2, <1>4 DEF Only
<1>8. ToSet(<<>>) = {}
  <2>1. DOMAIN <<>> = {}
    OBVIOUS
  <2>2. QED
    BY <2>1 DEF ToSet
<1>9. Members(Listed, Only(b)) = ToSet(Msgs[b])
  <2>1. \A i \in 1..Len(Listed) : ToSet(Only(b)[Listed[i]]) \subseteq ToSet(Msgs[b])
    BY <1>7, <1>8
  <2>2. ToSet(Only(b)[Listed[k]]) = ToSet(Msgs[b])
    BY <1>6, <1>7
  <2>3. QED
    BY <2>1, <2>2 DEF Members
<1>10. QED
  BY <1>1, <1>3, <1>9

(* The number of messages: through the blocks, and element by element. *)
LEMMA MsgsCounted ==
    ASSUME QueueTypeOK
    PROVE  Len(MsgByBlockCidMethodName(NoMethod, NoMethod)) = Len(AllMsg(Len(element)))
<1> DEFINE B == DOMAIN Miner
<1>1. PICK n, lens : n = Len(element) /\ lens = LensOf(Msgs, B)
  OBVIOUS
<1>2. /\ n \in Nat /\ element \in Seq(Ids) /\ \A i \in 1..n : element[i] \in Ids
      /\ BlockLists \in [Ids -> Seq(B)] /\ MsgLists \in [Ids -> Seq(Msg)]
  BY <1>1, ElementFacts, ListsTyped DEF Ids
<1>3. lens \in [B -> Nat]
  <2>1. \A b \in B : Len(Msgs[b]) \in Nat
    BY QueueAssumption, LenProperties
  <2>2. QED
    BY <1>1, <2>1 DEF LensOf
<1>4. LensOf(Only(NoMethod), B) = lens
  <2>1. \A b \in B : Only(NoMethod)[b] = Msgs[b]
    BY DEF Only
  <2>2. QED
    BY <1>1, <2>1 DEF LensOf
<1>5. Len(MsgByBlockCidMethodName(NoMethod, NoMethod)) = Weight(Listed, lens)
  BY <1>4, ByBlockIs DEF FlatMapped
<1>6. PICK size : size = [s \in Seq(B) |-> Weight(s, lens)]
  OBVIOUS
<1>7. PICK seqs : seqs = Lists(element, BlockLists)
  OBVIOUS
<1>8. /\ seqs \in Seq(Seq(B)) /\ Len(seqs) = n /\ Listed = FlattenSeq(seqs) /\ Listed \in Seq(B)
  BY <1>1, <1>7, ByBlockIs DEF FlatMapped, Listed
<1>9. PICK g : g = [i \in 1..n |-> size[seqs[i]]]
  OBVIOUS
<1>10. Weight(Listed, lens) = SumOf(n, g)
  <2>1. Additive(size, B)
    BY <1>3, <1>6, WeightAdds
  <2>2. size[FlattenSeq(seqs)] = SumOf(Len(seqs), [i \in 1..Len(seqs) |-> size[seqs[i]]])
    BY <1>8, <2>1, FlatAdds
  <2>3. size[Listed] = Weight(Listed, lens)
    BY <1>6, <1>8
  <2>4. QED
    BY <1>8, <1>9, <2>2, <2>3
<1>11. \A i \in 1..n : g[i] = LensOf(MsgLists, Ids)[element[i]]
  <2> SUFFICES ASSUME NEW i \in 1..n PROVE g[i] = LensOf(MsgLists, Ids)[element[i]]
    OBVIOUS
  <2>1. PICK o, t : o = element[i] /\ t = object[o].tipset
    OBVIOUS
  <2>2. o \in Ids /\ t \in Tipset /\ BlocksOf(o) = Blocks[t]
    BY <1>2, <2>1, ElementFacts DEF Ids, BlocksOf
  <2>3. seqs[i] = Blocks[t]
    <3>1. DOMAIN element = 1..n
      BY <1>1, ElementFacts
    <3>2. seqs[i] = BlockLists[element[i]]
      BY <1>7, <3>1 DEF Lists
    <3>3. QED
      BY <2>1, <2>2, <3>2 DEF BlockLists
  <2>4. Blocks[t] \in Seq(B) /\ Len(Given(t)) = Weight(Blocks[t], lens)
    BY <1>1, <2>2, GivenMsgs
  <2>5. g[i] = Len(Given(t))
    BY <1>6, <1>9, <2>3, <2>4
  <2>6. MsgLists[o] = Given(t)
    BY <2>1, <2>2 DEF MsgLists, MsgsOf, Given, BlocksOf
  <2>7. LensOf(MsgLists, Ids)[o] = Len(MsgLists[o])
    BY <2>2 DEF LensOf
  <2>8. QED
    BY <2>1, <2>5, <2>6, <2>7
<1>12. Weight(element, LensOf(MsgLists, Ids)) = SumOf(n, g)
  <2>1. LensOf(MsgLists, Ids) \in [Ids -> Nat]
    BY <1>2, LenProperties DEF LensOf
  <2>2. Weighs(g, LensOf(MsgLists, Ids), element)
    BY <1>1, <1>11 DEF Weighs
  <2>3. QED
    BY <1>1, <1>2, <2>1, <2>2, WeightIs
<1>13. QED
  BY <1>5, <1>10, <1>12, AllMsgIs

(* One height: the first element of it, unless a lower one is last. *)
LEMMA HeightsAgree ==
    ASSUME QueueTypeOK, NEW h \in Nat, TipsetByHeight(h, h) # <<>>
    PROVE  TipsetByOneHeight(h) =
               IF H(Last(element)) < h THEN 0 ELSE TipsetByHeight(h, h)[1]
<1> DEFINE n == Len(element)
<1>1. PICK at : at = {i \in DOMAIN element :
                        h <= H(element[i]) /\ \A j \in 1..i : H(element[j]) <= h}
  OBVIOUS
<1>2. TipsetByHeight(h, h) = Picked(element, at)
  BY <1>1 DEF TipsetByHeight
<1>3. /\ n \in Nat /\ DOMAIN element = 1..n /\ element \in Seq(Ids)
      /\ \A i \in 1..n : H(element[i]) \in Nat
  BY ElementFacts, ListsTyped
<1>4. PICK i \in 1..n : i \in at
  <2>1. Picked(element, at) \in Seq(Ids) /\ Picked(element, at) # <<>>
    BY <1>2, <1>3, PickedToSet
  <2>2. Len(Picked(element, at)) \in Nat \ {0}
    BY <2>1, EmptySeq, LenProperties
  <2>3. 1 \in 1..Len(Picked(element, at))
    BY <2>2
  <2>4. Picked(element, at)[1] \in ToSet(Picked(element, at))
    BY <2>1, <2>3, ToSetIs
  <2>5. ToSet(Picked(element, at)) = {element[j] : j \in at \cap (1..n)}
    BY <1>3, PickedToSet
  <2>6. QED
    BY <2>4, <2>5
<1>5. H(element[i]) = h /\ \A j \in 1..i : H(element[j]) <= h
  <2>1. h <= H(element[i]) /\ \A j \in 1..i : H(element[j]) <= h
    BY <1>1, <1>4
  <2>2. i \in 1..i
    BY <1>3
  <2>3. QED
    BY <1>3, <2>1, <2>2
<1>6. PICK k \in 1..n : /\ Have(h) = k - 1 /\ H(element[k]) = h
                        /\ \A j \in 1..n : H(element[j]) = h => k <= j
  BY <1>5, HaveIs
<1>7. k <= i
  BY <1>5, <1>6
<1>8. k \in at
  <2>1. ASSUME NEW j \in 1..k PROVE H(element[j]) <= h
    BY <1>3, <1>5, <1>7
  <2>2. k \in DOMAIN element /\ h <= H(element[k])
    BY <1>3, <1>6
  <2>3. QED
    BY <1>1, <2>1, <2>2
<1>9. \A j \in 1..n : j \in at => k <= j
  <2> SUFFICES ASSUME NEW j \in 1..n, j \in at PROVE k <= j
    OBVIOUS
  <2>1. h <= H(element[j]) /\ \A m \in 1..j : H(element[m]) <= h
    BY <1>1
  <2>2. j \in 1..j
    BY <1>3
  <2>3. H(element[j]) = h
    BY <1>3, <2>1, <2>2
  <2>4. QED
    BY <1>6, <2>3
<1>10. TipsetByHeight(h, h)[1] = element[k]
  BY <1>2, <1>3, <1>8, <1>9, PickedFirst
<1>11. Outside(h) <=> H(Last(element)) < h
  <2>1. element # <<>> /\ 1 \in 1..i
    BY <1>3, <1>4, EmptySeq
  <2>2. H(element[1]) <= h /\ H(element[1]) \in Nat
    BY <1>3, <1>4, <1>5, <2>1
  <2>3. ~(H(element[1]) > h)
    BY <2>2
  <2>4. QED
    BY <2>1, <2>3 DEF Outside
<1>12. Have(h) # -1 /\ Have(h) + 1 = k
  BY <1>3, <1>6
<1>13. TipsetByOneHeight(h) = IF Outside(h) THEN 0 ELSE element[k]
  BY <1>12 DEF TipsetByOneHeight
<1>14. QED
  BY <1>10, <1>11, <1>13

(* A message is found by its own sender and method. *)
LEMMA SendersFound ==
    ASSUME QueueTypeOK, NEW m \in ToSet(AllMsg(Len(element))), NEW side \in {"from", "both"}
    PROVE  m \in ToSet(MsgByAddressFromToMethodName(Len(element), From[m], side, Method[m]))
<1>1. PICK all : all = AllMsg(Len(element))
  OBVIOUS
<1>2. PICK at : at = {i \in DOMAIN all :
            /\ \/ side # "to" /\ From[all[i]] = From[m]
               \/ side # "from" /\ To[all[i]] = From[m]
            /\ Method[m] \in {NoMethod, Method[all[i]]}}
  OBVIOUS
<1>3. MsgByAddressFromToMethodName(Len(element), From[m], side, Method[m]) = Picked(all, at)
  BY <1>1, <1>2 DEF MsgByAddressFromToMethodName
<1>4. all \in Seq(Msg) /\ DOMAIN all = 1..Len(all)
  BY <1>1, AllMsgIs, LenProperties
<1>5. PICK i \in 1..Len(all) : all[i] = m
  BY <1>1, <1>4, ToSetIs
<1>6. i \in at
  BY <1>2, <1>4, <1>5
<1>7. ToSet(Picked(all, at)) = {all[j] : j \in at \cap (1..Len(all))}
  BY <1>4, PickedToSet
<1>8. QED
  BY <1>3, <1>5, <1>6, <1>7

(* Every reader sees the same of the queue, in whatever order calls that   *)
(* let go of the lock have left it, with any number of goroutines, tipsets *)
(* and pushes.  (BlockByIndex, MsgByIndex, SortBlockByMinerArr, MsgByCid,  *)
(* BlockByCid, BlockSize, MsgByBlockCidMethodName, TipsetByOneHeight,      *)
(* TipsetByHeight, MsgByAddressFromToMethodName)                           *)
THEOREM ReadersAgree == QueueSpec => []ListsAgree
<1>1. QueueTypeOK => ListsAgree
  <2> SUFFICES ASSUME QueueTypeOK PROVE ListsAgree
    OBVIOUS
  <2>1. \A b \in DOMAIN Miner : MsgByBlockCid(b) # <<>> =>
            ToSet(MsgByBlockCid(b)) = ToSet(MsgByBlockCidMethodName(b, NoMethod))
    BY BlockMsgsAgree
  <2>2. ASSUME NEW h \in {Height[t] : t \in Tipset}, TipsetByHeight(h, h) # <<>>
        PROVE  TipsetByOneHeight(h) =
                   IF H(Last(element)) < h THEN 0 ELSE TipsetByHeight(h, h)[1]
    <3>1. h \in Nat
      BY QueueAssumption
    <3>2. QED
      BY <2>2, <3>1, HeightsAgree
  <2>3. \A m \in ToSet(AllMsg(Len(element))) : \A side \in {"from", "both"} :
            m \in ToSet(MsgByAddressFromToMethodName(Len(element), From[m], side, Method[m]))
    BY SendersFound
  <2>4. QED
    BY <2>1, <2>2, <2>3, SizeAgrees, PagesAgree, SortAgrees, CidsAgree, MsgsCounted
    DEF ListsAgree
<1>2. QED
  BY <1>1, ElementsWerePushed, PTL
=============================================================================
