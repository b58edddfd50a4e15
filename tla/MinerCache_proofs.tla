------------------------- MODULE MinerCache_proofs -------------------------
(***************************************************************************)
(* Theorems about MinerCache, for every set of miners and of mine times,   *)
(* every power, every number of slots and length of a window.              *)
(***************************************************************************)
EXTENDS MinerCache, FiniteSetTheorems, WellFoundedInduction, TLAPS

(* The inductive invariant: SlotsSound without its cardinality and without *)
(* its windows (they follow from the type of start_time) and the types;    *)
(* without min in the cache, what Put leaves out might not be cached.      *)
SlotsInv(slots, m) ==
    /\ slots \in [Slot -> State \cup {NoState}]
    /\ slots[0] # NoState
    /\ \A k \in Slot : slots[k] # NoState =>
        /\ slots[k].miner = m
        /\ \A i \in 0..k : slots[i] # NoState /\ slots[i].time >= slots[k].time

MinersInv(cache) ==
    /\ DOMAIN cache \subseteq Miner
    /\ \A m \in DOMAIN cache : SlotsInv(cache[m], m)

MinIsCached == DOMAIN miners # {} => min \in DOMAIN miners

CacheInv ==
    /\ MinersInv(miners) /\ Cardinality(DOMAIN miners) <= Capacity
    /\ MinIsCached
    /\ start_time \in Int
    /\ chan \in Seq(State)
    /\ fetched \subseteq State /\ history \subseteq State

-----------------------------------------------------------------------------
(* Numbers. *)

LEMMA LargestOfBounded ==
  ASSUME NEW S \in SUBSET Int, S # {}, NEW b \in Int, \A x \in S : x <= b
  PROVE  \E x \in S : \A y \in S : y <= x
<1> DEFINE D == {b - x : x \in S}
<1>1. D \in SUBSET Nat /\ D # {}
  <2>1. \A x \in S : x \in Int /\ b - x \in Nat
    OBVIOUS
  <2>2. PICK x \in S : TRUE
    OBVIOUS
  <2>3. b - x \in D
    OBVIOUS
  <2>4. \A d \in D : d \in Nat
    BY <2>1
  <2>5. QED
    BY <2>3, <2>4
<1>2. PICK d \in D : \A e \in D : <<e, d>> \notin OpToRel(<, Nat)
  <2> HIDE DEF D
  <2>1. QED
    BY <1>1, NatLessThanWellFounded, WFMin
<1>3. PICK x \in S : d = b - x
  OBVIOUS
<1>4. ASSUME NEW y \in S PROVE y <= x
  <2>1. b - y \in D /\ b - y \in Nat /\ d \in Nat
    BY <1>1
  <2>2. ~(b - y < d)
    BY <1>2, <2>1 DEF OpToRel
  <2>3. QED
    BY <1>3, <2>2
<1>5. QED
  BY <1>4

LEMMA SlotFacts == Slots \in Nat /\ Slots >= 1 /\ 0 \in Slot /\ Slot \subseteq Nat
  BY CacheAssumption DEF Slot

LEMMA StateFields ==
  \A s \in State : /\ s # NoState /\ s.miner \in Miner
                  /\ s.time \in Time /\ s.time \in Nat /\ s.time \in Int
<1> TAKE s \in State
<1>2. s.miner \in Miner /\ s.time \in Time
  BY DEF State
<1>3. Time \subseteq Nat /\ NoState \notin State
  BY CacheAssumption
<1>4. s # NoState
  BY <1>3
<1>5. s.time \in Nat
  BY <1>2, <1>3, Zenon
<1>6. s.time \in Int
  BY <1>5, SMT
<1>7. QED
  BY <1>2, <1>4, <1>5, <1>6

(* The windows are Duration apart. *)
LEMMA WindowStep ==
  ASSUME NEW start \in Int, NEW k \in Int
  PROVE  /\ WindowEnd(start, k) \in Int
         /\ WindowEnd(start, k + 1) = WindowEnd(start, k) - Duration
         /\ WindowEnd(start + Duration, k + 1) = WindowEnd(start, k)
<1> DEFINE n == Slots - 1 - k
<1>1. n \in Int /\ Duration \in Int /\ Slots - 1 - (k + 1) = n - 1
  BY CacheAssumption
<1>2. n * Duration \in Int /\ (n - 1) * Duration = n * Duration - Duration
  BY <1>1
<1>3. /\ WindowEnd(start, k) = start + n * Duration
      /\ WindowEnd(start, k + 1) = start + (n - 1) * Duration
      /\ WindowEnd(start + Duration, k + 1) = start + Duration + (n - 1) * Duration
  BY <1>1 DEF WindowEnd
<1>4. QED
  BY <1>1, <1>2, <1>3

LEMMA WindowsFall ==
  ASSUME NEW start \in Int, NEW i \in Int, NEW k \in Int, i <= k
  PROVE  WindowEnd(start, k) <= WindowEnd(start, i)
<1>1. PICK d \in Nat : k = i + d
  BY k - i \in Nat
<1> DEFINE n == Slots - 1 - k
<1>2. n \in Int /\ Duration \in Nat /\ Slots - 1 - i = n + d
  BY <1>1, CacheAssumption
<1>3. (n + d) * Duration = n * Duration + d * Duration
  BY <1>2
<1>4. n * Duration \in Int /\ d * Duration \in Nat
  BY <1>2
<1>5. /\ WindowEnd(start, k) = start + n * Duration
      /\ WindowEnd(start, i) = start + (n + d) * Duration
  BY <1>2 DEF WindowEnd
<1>6. QED
  BY <1>3, <1>4, <1>5

(* What rounding a distance up to whole windows does. *)
LEMMA RoundUp ==
  ASSUME NEW x \in Nat \ {0}, NEW d \in Nat \ {0}
  PROVE  LET q == (x + d - 1) \div d
         IN  q \in Nat /\ q >= 1 /\ x <= q * d /\ (q - 1) * d < x
<1> DEFINE y == x + d - 1
           q == y \div d
           r == y % d
<1>1. y \in Nat /\ q \in Int /\ r \in 0..(d - 1) /\ y = d * q + r
  BY SMTT(30)
<1>2. q >= 1
  <2>1. SUFFICES ASSUME q <= 0 PROVE FALSE
    BY <1>1
  <2>2. d * q <= 0
    BY <1>1, <2>1, SMTT(30)
  <2>3. QED
    BY <1>1, <2>2
<1>3. d * q = q * d /\ (q - 1) * d = q * d - d /\ q * d \in Int
  BY <1>1
<1>4. QED
  BY <1>1, <1>2, <1>3

LEMMA IndexIsWindowOf ==
  ASSUME NEW start \in Int, NEW t \in Int
  PROVE  LET k == time_to_index(start, t)
         IN  /\ k \in Slot
             /\ ~Offseted(start, t) => t <= WindowEnd(start, k)
             /\ k # Slots - 1 => t > WindowEnd(start, k + 1)
<1> DEFINE k == time_to_index(start, t)
<1>1. WindowEnd(start, Slots - 1) = start /\ Slots \in Nat /\ Slots >= 1 /\ Duration \in Nat
  BY CacheAssumption DEF WindowEnd
<1>2. CASE t <= start
  <2>1. k = Slots - 1
    BY <1>2 DEF time_to_index
  <2>2. QED
    BY <1>1, <1>2, <2>1 DEF Slot
<1>3. CASE t > start /\ Offseted(start, t)
  <2>1. k = 0
    BY <1>3 DEF time_to_index
  <2>2. t > WindowEnd(start, 0)
    BY <1>3 DEF Offseted
  <2>3. WindowEnd(start, 0) \in Int /\ WindowEnd(start, 1) = WindowEnd(start, 0) - Duration
    BY WindowStep, 0 + 1 = 1
  <2>4. QED
    BY <1>1, <1>3, <2>1, <2>2, <2>3 DEF Slot
<1>4. CASE t > start /\ ~Offseted(start, t)
  <2> DEFINE x == t - start
             q == (x + Duration - 1) \div Duration
  <2>1. x \in Nat \ {0} /\ Duration \in Nat \ {0}
    BY <1>4, CacheAssumption
  <2>2. q \in Nat /\ q >= 1 /\ x <= q * Duration /\ (q - 1) * Duration < x
    BY <2>1, RoundUp
  <2>3. k = Slots - 1 - q
    BY <1>4 DEF time_to_index
  <2> HIDE DEF q
  <2>4. /\ WindowEnd(start, k) = start + q * Duration
        /\ WindowEnd(start, k + 1) = start + (q - 1) * Duration
    <3>1. Slots - 1 - k = q /\ Slots - 1 - (k + 1) = q - 1
      BY <1>1, <2>2, <2>3
    <3>2. QED
      BY <3>1 DEF WindowEnd
  <2>5. q * Duration \in Int /\ (q - 1) * Duration \in Int
    BY <2>1, <2>2
  <2>6. t <= WindowEnd(start, k) /\ t > WindowEnd(start, k + 1)
    BY <2>2, <2>4, <2>5
  <2>7. q <= Slots - 1
    <3>1. SUFFICES ASSUME q >= Slots PROVE FALSE
      BY <1>1, <2>2
    <3>2. k + 1 <= 0 /\ k + 1 \in Int
      BY <1>1, <2>2, <2>3, <3>1
    <3>3. WindowEnd(start, 0) <= WindowEnd(start, k + 1)
      BY <3>2, WindowsFall
    <3>4. t <= WindowEnd(start, 0) /\ WindowEnd(start, 0) \in Int
      BY <1>4, WindowStep DEF Offseted
    <3>5. WindowEnd(start, k + 1) \in Int
      BY <2>4, <2>5
    <3>6. QED
      BY <2>6, <3>3, <3>4, <3>5
  <2>8. k \in Slot
    BY <1>1, <2>2, <2>3, <2>7 DEF Slot
  <2>9. QED
    BY <2>6, <2>8
<1>5. QED
  BY <1>2, <1>3, <1>4

-----------------------------------------------------------------------------
(* The newest state of a collection that lies before some time. *)

LEMMA NewestIsNewest ==
  ASSUME NEW S \in SUBSET State, NEW b \in Int,
         \A s \in S : s.time <= b
  PROVE  /\ S = {} => Newest(S) = NoState
         /\ S # {} => /\ Newest(S) \in S
                      /\ \A r \in S : r.time <= Newest(S).time
<1>1. CASE S = {}
  BY <1>1 DEF Newest
<1>2. CASE S # {}
  <2> DEFINE times == {s.time : s \in S}
  <2>1. times \in SUBSET Int /\ times # {} /\ \A x \in times : x <= b
    <3>1. \A s \in S : s.time \in Int
      BY StateFields
    <3>2. QED
      BY <1>2, <3>1
  <2>2. PICK x \in times : \A y \in times : y <= x
    <3> HIDE DEF times
    <3>1. QED
      BY <2>1, LargestOfBounded
  <2>3. \E s \in S : \A r \in S : r.time <= s.time
    BY <2>2
  <2>4. QED
    BY <1>2, <2>3 DEF Newest
<1>3. QED
  BY <1>1, <1>2

(* The stored states of a miner up to t, and the newest of them. *)
LEMMA PastFacts ==
  ASSUME history \subseteq State, NEW m \in Miner, NEW t \in Int
  PROVE  LET n == Newest(Past(m, t))
         IN  /\ n = NoState \/ (n \in Past(m, t) /\ n \in State /\ n.miner = m /\ n.time <= t)
             /\ \A h \in Past(m, t) : n # NoState /\ h.time <= n.time
<1>1. /\ Past(m, t) \in SUBSET State
      /\ \A h \in Past(m, t) : h.time <= t /\ h.miner = m /\ h # NoState
  BY CacheAssumption DEF Past
<1>2. /\ Past(m, t) = {} => Newest(Past(m, t)) = NoState
      /\ Past(m, t) # {} => /\ Newest(Past(m, t)) \in Past(m, t)
                            /\ \A r \in Past(m, t) : r.time <= Newest(Past(m, t)).time
  BY <1>1, NewestIsNewest
<1>3. QED
  BY <1>1, <1>2

(* What load_history makes of a miner: sound slots, when the states it     *)
(* finds for the slots above k are not newer than the one it starts from.  *)
LEMMA LoadedSlots ==
  ASSUME history \subseteq State, NEW start \in Int, NEW s \in State,
         NEW k \in Slot, NEW stop \in (k + 1)..Slots,
         \A h \in history, i \in Slot :
            h.miner = s.miner /\ i > k /\ h.time <= WindowEnd(start, i)
                => h.time <= s.time
  PROVE  SlotsInv(load_history(start, fresh(s, k), s, k, stop), s.miner)
<1> DEFINE new == load_history(start, fresh(s, k), s, k, stop)
           at(i) == IF i < stop THEN stop ELSE i
           past(i) == Past(s.miner, WindowEnd(start, at(i)))
<1>1. /\ s # NoState /\ s.miner \in Miner /\ s.time \in Nat
      /\ k \in Nat /\ Slots \in Nat /\ stop \in Nat
      /\ Slot \subseteq Nat /\ 0 \in Slot
  BY SlotFacts, StateFields DEF Slot
<1>2. \A i \in Slot : i <= k => new[i] = s
  BY DEF load_history, fresh
<1>3. \A i \in Slot : i > k => new[i] = NoState \/ (stop # Slots /\ new[i] = Newest(past(i)))
  <2>1. \A i \in Slot : i > k => ~(i <= k)
    BY <1>1
  <2>2. QED
    BY <2>1 DEF load_history
<1>4. \A i \in Slot : WindowEnd(start, at(i)) \in Int /\ at(i) \in Int /\ i <= at(i)
  <2>1. \A i \in Slot : at(i) \in Int /\ i <= at(i)
    BY <1>1
  <2> HIDE DEF at
  <2>2. QED
    BY <2>1, WindowStep
<1>5. ASSUME NEW i \in Slot, i > k, stop # Slots
      PROVE  /\ new[i] = NoState \/ (new[i] \in past(i) /\ new[i] \in State)
             /\ \A h \in past(i) : new[i] # NoState /\ h.time <= new[i].time
  <2>1. ~(i <= k)
    BY <1>1, <1>5
  <2>2. new[i] = Newest(past(i))
    BY <1>5, <2>1 DEF load_history
  <2> HIDE DEF new
  <2>3. QED
    BY <1>1, <1>4, <2>2, PastFacts
<1>6. new \in [Slot -> State \cup {NoState}]
  <2>1. \A i \in Slot : new[i] \in State \cup {NoState}
    <3>1. \A i \in Slot : i <= k \/ i > k
      BY <1>1
    <3> HIDE DEF new, past, at
    <3>2. QED
      BY <1>2, <1>3, <1>5, <3>1
  <2>2. QED
    BY <2>1 DEF load_history
<1>7. ASSUME NEW j \in Slot, new[j] # NoState
      PROVE  /\ new[j].miner = s.miner
             /\ \A i \in 0..j : new[i] # NoState /\ new[i].time >= new[j].time
  <2> HIDE DEF new
  <2>1. \A i \in 0..j : i \in Slot
    BY <1>1 DEF Slot
  <2>2. CASE j <= k
    <3>1. \A i \in 0..j : new[i] = s
      BY <1>1, <1>2, <2>1, <2>2
    <3>2. new[j] = s
      BY <1>2, <2>2
    <3>3. QED
      BY <1>1, <3>1, <3>2
  <2>3. CASE j > k
    <3>1. stop # Slots /\ new[j] \in past(j) /\ new[j] \in State
      BY <1>3, <1>5, <1>7, <2>3
    <3>2. /\ new[j] \in history /\ new[j].miner = s.miner
          /\ new[j].time <= WindowEnd(start, at(j)) /\ new[j].time \in Nat
      BY <3>1, StateFields DEF Past
    <3>3. ASSUME NEW i \in 0..j, i > k
          PROVE  new[i] # NoState /\ new[i].time >= new[j].time
      <4>1. i \in Slot /\ at(i) <= at(j)
        BY <1>1, <2>1
      <4>2. WindowEnd(start, at(j)) <= WindowEnd(start, at(i))
        BY <1>4, <4>1, WindowsFall
      <4>3. new[j].time <= WindowEnd(start, at(i))
        BY <1>4, <3>2, <4>1, <4>2
      <4>4. new[j] \in past(i)
        BY <3>2, <4>3 DEF Past
      <4>5. new[i] # NoState /\ new[j].time <= new[i].time
        BY <1>5, <3>1, <3>3, <4>1, <4>4
      <4>6. new[i] \in State
        BY <1>6, <4>1, <4>5
      <4>7. QED
        BY <3>2, <4>5, <4>6, StateFields
    <3>4. new[j].time <= s.time
      <4>1. WindowEnd(start, at(j)) <= WindowEnd(start, j)
        BY <1>1, <1>4, WindowsFall
      <4>2. new[j].time <= WindowEnd(start, j)
        <5>1. WindowEnd(start, at(j)) \in Int /\ WindowEnd(start, j) \in Int
          BY <1>1, <1>4, WindowStep
        <5>2. QED
          BY <3>2, <4>1, <5>1
      <4>3. QED
        BY <2>3, <3>2, <4>2
    <3>5. ASSUME NEW i \in 0..j, i <= k
          PROVE  new[i] # NoState /\ new[i].time >= new[j].time
      BY <1>1, <1>2, <2>1, <3>2, <3>4, <3>5
    <3>6. \A i \in 0..j : i > k \/ i <= k
      BY <1>1
    <3>7. QED
      BY <3>2, <3>3, <3>5, <3>6
  <2>4. QED
    BY <1>1, <2>2, <2>3
<1>8. new[0] # NoState
  BY <1>1, <1>2
<1>9. QED
  <2> HIDE DEF new
  <2>1. SlotsInv(new, s.miner)
    BY <1>6, <1>7, <1>8 DEF SlotsInv
  <2>2. QED
    BY <2>1 DEF new

-----------------------------------------------------------------------------
(* The slots of one miner. *)

LEMMA ShiftedSlots ==
  ASSUME NEW slots, NEW m, SlotsInv(slots, m)
  PROVE  SlotsInv(shifted(slots), m) /\ shifted(slots)[0] = slots[0]
<1> DEFINE new == shifted(slots)
           from(j) == IF j = 0 THEN 0 ELSE j - 1
<1>1. \A j \in Slot : j \in Nat /\ from(j) \in Slot /\ new[j] = slots[from(j)]
  BY SlotFacts DEF shifted, Slot
<1>2. \A j \in Slot : \A i \in 0..j : i \in Slot /\ from(i) \in 0..from(j)
  BY SlotFacts DEF Slot
<1>3. new \in [Slot -> State \cup {NoState}] /\ new[0] = slots[0]
  BY <1>1, SlotFacts DEF shifted, SlotsInv, Slot
<1> HIDE DEF new, from
<1>4. ASSUME NEW j \in Slot, new[j] # NoState
      PROVE  /\ new[j].miner = m
             /\ \A i \in 0..j : new[i] # NoState /\ new[i].time >= new[j].time
  BY <1>1, <1>2, <1>4 DEF SlotsInv
<1>5. SlotsInv(new, m) /\ new[0] = slots[0]
  BY <1>3, <1>4 DEF SlotsInv
<1>6. QED
  BY <1>5 DEF new

(* A refill leaves the slots sound, and none of them older. *)
LEMMA RefilledSlots ==
  ASSUME NEW s \in State, NEW k \in Slot, NEW slots, SlotsInv(slots, s.miner)
  PROVE  /\ SlotsInv(refill(slots, s, k), s.miner)
         /\ \A i \in Slot : slots[i] # NoState =>
                /\ refill(slots, s, k)[i] # NoState
                /\ refill(slots, s, k)[i].time >= slots[i].time
<1> DEFINE new == refill(slots, s, k)
           Filled(i) == \/ i = k /\ IsOlder(slots[k], s)
                        \/ i < k /\ \A j \in i..(k - 1) : IsOlder(slots[j], s)
<1>1. \A i \in Slot : new[i] = IF Filled(i) THEN s ELSE slots[i]
  BY DEF refill
<1>2. new \in [Slot -> State \cup {NoState}]
  <2>1. \A i \in Slot : new[i] \in State \cup {NoState}
    <3> HIDE DEF new, Filled
    <3>1. QED
      BY <1>1 DEF SlotsInv
  <2>2. QED
    BY <2>1 DEF refill
<1>3. /\ Slot \subseteq Nat /\ k \in Nat /\ 0 \in Slot /\ s # NoState /\ s.time \in Nat
      /\ \A j \in Slot : \A i \in 0..j : i \in Slot
  BY SlotFacts, StateFields DEF Slot
<1>4. \A i \in Slot : Filled(i) => i <= k /\ IsOlder(slots[i], s)
  <2> SUFFICES ASSUME NEW i \in Slot, Filled(i) PROVE i <= k /\ IsOlder(slots[i], s)
    OBVIOUS
  <2>1. i \in Nat
    BY <1>3
  <2>2. CASE i = k /\ IsOlder(slots[k], s)
    BY <1>3, <2>2
  <2>3. CASE i < k /\ \A j \in i..(k - 1) : IsOlder(slots[j], s)
    <3>1. i \in i..(k - 1)
      BY <1>3, <2>1, <2>3
    <3>2. QED
      BY <1>3, <2>1, <2>3, <3>1
  <2>4. QED
    BY <2>2, <2>3
<1>5. \A i \in Slot : slots[i] # NoState => slots[i] \in State /\ slots[i].time \in Nat
  BY StateFields DEF SlotsInv
<1>6. ASSUME NEW i \in Slot, slots[i] # NoState
      PROVE  new[i] # NoState /\ new[i].time >= slots[i].time
  <2> HIDE DEF new, Filled
  <2>1. CASE Filled(i)
    BY <1>1, <1>3, <1>4, <1>5, <1>6, <2>1 DEF IsOlder
  <2>2. CASE ~Filled(i)
    BY <1>1, <1>5, <1>6, <2>2
  <2>3. QED
    BY <2>1, <2>2
<1>7. ASSUME NEW j \in Slot, new[j] # NoState, NEW i \in 0..j
      PROVE  new[i] # NoState /\ new[i].time >= new[j].time
  <2>1. i \in Slot /\ i \in Nat /\ j \in Nat /\ i <= j
    BY <1>3
  <2>2. CASE Filled(j)
    <3>1. CASE Filled(i)
      <4> HIDE DEF new, Filled
      <4>1. QED
        BY <1>1, <1>3, <2>1, <2>2, <3>1
    <3>2. CASE ~Filled(i)
      <4>1. i < k /\ j <= k
        <5>1. i <= k /\ j <= k
          BY <1>3, <1>4, <2>1, <2>2
        <5>2. i # k
          BY <1>3, <2>1, <2>2, <3>2, <5>1
        <5>3. QED
          BY <1>3, <2>1, <5>1, <5>2
      <4>2. PICK h \in i..(k - 1) : ~IsOlder(slots[h], s)
        BY <3>2, <4>1
      <4>3. h \in Slot /\ i \in 0..h
        BY <1>3, <2>1, <4>1, <4>2
      <4>4. slots[h] # NoState /\ slots[h].time \in Nat /\ slots[h].time >= s.time
        BY <1>3, <1>5, <4>2, <4>3 DEF IsOlder
      <4>5. slots[i] # NoState /\ slots[i].time >= slots[h].time /\ slots[i].time \in Nat
        BY <1>5, <2>1, <4>3, <4>4 DEF SlotsInv
      <4> HIDE DEF new, Filled
      <4>6. new[i] = slots[i] /\ new[j] = s
        BY <1>1, <2>1, <2>2, <3>2
      <4>7. QED
        BY <1>3, <4>4, <4>5, <4>6
    <3>3. QED
      BY <3>1, <3>2
  <2>3. CASE ~Filled(j)
    <3>1. new[j] = slots[j]
      <4> HIDE DEF new, Filled
      <4>1. QED
        BY <1>1, <2>3
    <3>2. slots[j] # NoState /\ slots[j].time \in Nat
      BY <1>5, <1>7, <3>1
    <3>3. slots[i] # NoState /\ slots[i].time >= slots[j].time /\ slots[i].time \in Nat
      BY <1>5, <2>1, <3>2 DEF SlotsInv
    <3>4. new[i] # NoState /\ new[i].time >= slots[i].time
      BY <1>6, <2>1, <3>3
    <3>5. new[i] \in State
      <4> HIDE DEF new
      <4>1. QED
        BY <1>2, <2>1, <3>4
    <3>6. QED
      <4> HIDE DEF new
      <4>1. new[i].time \in Nat
        BY <3>5, StateFields
      <4>2. QED
        BY <3>1, <3>2, <3>3, <3>4, <4>1
  <2>4. QED
    BY <2>2, <2>3
<1>8. ASSUME NEW j \in Slot, new[j] # NoState
      PROVE  new[j].miner = s.miner
  <2> HIDE DEF new, Filled
  <2>1. QED
    BY <1>1, <1>8 DEF SlotsInv
<1>9. new[0] # NoState
  BY <1>3, <1>6 DEF SlotsInv
<1>10. QED
  <2> HIDE DEF new
  <2>1. SlotsInv(new, s.miner)
    BY <1>2, <1>7, <1>8, <1>9 DEF SlotsInv
  <2>2. QED
    BY <1>6, <2>1 DEF new

-----------------------------------------------------------------------------
(* The cache. *)

(* refresh_min always finds a miner: it never holds Update up. *)
LEMMA WeakestExists ==
  ASSUME NEW cache, MinersInv(cache), DOMAIN cache # {}
  PROVE  Weakest(cache) # {}
<1> DEFINE p(m) == power(cache[m][0])
           neg == {0 - p(m) : m \in DOMAIN cache}
<1>1. \A m \in DOMAIN cache : p(m) \in Nat
  <2> SUFFICES ASSUME NEW m \in DOMAIN cache PROVE p(m) \in Nat
    OBVIOUS
  <2>1. cache[m][0] \in State
    BY SlotFacts DEF MinersInv, SlotsInv
  <2>2. cache[m][0].miner \in Miner /\ cache[m][0].time \in Time
    BY <2>1, StateFields
  <2>3. QED
    BY <2>2, CacheAssumption DEF power
<1> HIDE DEF p
<1>2. neg \in SUBSET Int /\ neg # {} /\ \A x \in neg : x <= 0
  BY <1>1
<1>3. PICK x \in neg : \A y \in neg : y <= x
  <2> HIDE DEF neg
  <2>1. QED
    BY <1>2, LargestOfBounded
<1>4. PICK m \in DOMAIN cache : x = 0 - p(m)
  OBVIOUS
<1>5. ASSUME NEW n \in DOMAIN cache PROVE p(m) <= p(n)
  <2>1. 0 - p(n) <= 0 - p(m)
    BY <1>3, <1>4
  <2>2. QED
    BY <1>1, <2>1
<1>6. m \in Weakest(cache)
  BY <1>5 DEF Weakest, p
<1>7. QED
  BY <1>6

LEMMA PutMiners ==
  ASSUME NEW cache, NEW s \in State, NEW slots,
         MinersInv(cache), SlotsInv(slots, s.miner)
  PROVE  /\ MinersInv(Put(cache, s, slots))
         /\ DOMAIN Put(cache, s, slots) = Kept(cache) \cup {s.miner}
         /\ \A m \in Kept(cache) \ {s.miner} : Put(cache, s, slots)[m] = cache[m]
<1>1. Kept(cache) \subseteq DOMAIN cache /\ s.miner \in Miner
  BY StateFields DEF Kept
<1>2. QED
  BY <1>1 DEF Put, MinersInv

(* The newcomer takes a free place or the one of the weakest miner. *)
LEMMA PutFits ==
  ASSUME NEW cache, NEW s \in State, DOMAIN cache \subseteq Miner,
         s.miner \notin DOMAIN cache, Cardinality(DOMAIN cache) <= Capacity,
         DOMAIN cache # {} => min \in DOMAIN cache
  PROVE  Cardinality(Kept(cache) \cup {s.miner}) <= Capacity
<1>1. IsFiniteSet(DOMAIN cache) /\ Cardinality(DOMAIN cache) \in Nat /\ Capacity \in Nat \ {0}
  BY CacheAssumption, FS_Subset, FS_CardinalityType
<1>2. CASE Cardinality(DOMAIN cache) < Capacity
  <2>1. Cardinality(DOMAIN cache \cup {s.miner}) = Cardinality(DOMAIN cache) + 1
    BY <1>1, FS_AddElement
  <2>2. QED
    BY <1>1, <1>2, <2>1 DEF Kept
<1>3. CASE ~(Cardinality(DOMAIN cache) < Capacity)
  <2> DEFINE kept == DOMAIN cache \ {min}
  <2>1. DOMAIN cache # {}
    BY <1>1, <1>3, FS_EmptySet
  <2>2. /\ IsFiniteSet(kept)
        /\ Cardinality(kept) = Cardinality(DOMAIN cache) - 1
    BY <1>1, <2>1, FS_RemoveElement
  <2>3. Cardinality(kept \cup {s.miner}) = Cardinality(kept) + 1
    BY <2>2, FS_AddElement
  <2>4. Kept(cache) = kept
    BY <1>3 DEF Kept
  <2>5. QED
    BY <1>1, <2>2, <2>3, <2>4
<1>4. QED
  BY <1>2, <1>3

-----------------------------------------------------------------------------
(* The invariant at the start and over a step. *)

LEMMA TopSize ==
  ASSUME NEW found, NEW top \in SUBSET Miner, TopMiners(top, found)
  PROVE  Cardinality(top) <= Capacity
<1> DEFINE known == {m \in Miner : found[m] # NoState}
<1>1. IsFiniteSet(known) /\ Cardinality(known) \in Nat /\ Capacity \in Nat
  BY CacheAssumption, FS_Subset, FS_CardinalityType
<1>2. Cardinality(top) = IF Cardinality(known) < Capacity
                         THEN Cardinality(known) ELSE Capacity
  BY DEF TopMiners
<1>3. QED
  BY <1>1, <1>2

(* What init_miners_caches puts into slot 0 of a miner is one of its states, *)
(* and none of an older window is newer.                                   *)
LEMMA StartFacts ==
  ASSUME history \subseteq State, \A h \in history : h.time < Now,
         NEW m \in Miner, NEW found,
         found[m] = Latest(m) \/ found[m] = Strongest(m), found[m] # NoState
  PROVE  /\ AtStart(m, found) \in State /\ AtStart(m, found).miner = m
         /\ \A h \in history, k \in Slot :
                h.miner = m /\ k > 0 /\ h.time <= WindowEnd(StartTime, k)
                    => h.time <= AtStart(m, found).time
<1> DEFINE S == {found[m]} \cup UNION {Past(m, WindowEnd(StartTime, k)) : k \in Slot \ {0}}
<1>1. Now - 1 \in Int /\ Now \in Nat
  BY CacheAssumption
<1>2. found[m] \in Past(m, Now - 1)
  <2>1. CASE found[m] = Latest(m)
    BY <1>1, <2>1, PastFacts DEF Latest
  <2>2. CASE found[m] = Strongest(m)
    BY <2>2 DEF Strongest
  <2>3. QED
    BY <2>1, <2>2
<1>3. \A s \in S : s \in history /\ s.miner = m
  BY <1>2 DEF Past
<1>4. S \subseteq State /\ \A s \in S : s.time <= Now - 1
  <2>1. \A s \in S : s \in State /\ s.time < Now /\ s.time \in Nat
    BY <1>3, StateFields
  <2> HIDE DEF S
  <2>2. QED
    BY <1>1, <2>1
<1>5. S # {}
  OBVIOUS
<1>6. Newest(S) \in S /\ \A r \in S : r.time <= Newest(S).time
  <2> HIDE DEF S
  <2>1. QED
    BY <1>1, <1>4, <1>5, NewestIsNewest
<1>7. AtStart(m, found) = Newest(S)
  BY DEF AtStart
<1>8. ASSUME NEW h \in history, NEW k \in Slot,
             h.miner = m, k > 0, h.time <= WindowEnd(StartTime, k)
      PROVE  h.time <= AtStart(m, found).time
  <2>1. h \in Past(m, WindowEnd(StartTime, k)) /\ k \in Slot \ {0}
    BY <1>8, SlotFacts DEF Past
  <2>2. h \in S
    BY <2>1
  <2> HIDE DEF S
  <2>3. QED
    BY <1>6, <1>7, <2>2
<1>9. QED
  <2> HIDE DEF S
  <2>1. QED
    BY <1>3, <1>4, <1>6, <1>7, <1>8

LEMMA CacheInit == Init => CacheInv
<1> SUFFICES ASSUME Init PROVE CacheInv
  OBVIOUS
<1>1. history \subseteq State /\ \A h \in history : h.time < Now
  BY DEF Init
<1>2. PICK found \in {[m \in Miner |-> Latest(m)], [m \in Miner |-> Strongest(m)]},
          top \in SUBSET Miner :
        /\ TopMiners(top, found)
        /\ miners = [m \in top |-> LET s == AtStart(m, found)
                                   IN  load_history(StartTime, fresh(s, 0), s, 0, 1)]
        /\ min \in IF top = {} THEN {NoMiner}
                  ELSE {m \in top : \A n \in top : power(found[m]) <= power(found[n])}
  BY DEF Init
<1>3. DOMAIN miners = top /\ Cardinality(top) <= Capacity
  BY <1>2, TopSize
<1>4. ASSUME NEW m \in top PROVE SlotsInv(miners[m], m)
  <2>1. PICK s : s = AtStart(m, found)
    OBVIOUS
  <2>2. found[m] # NoState /\ m \in Miner
    BY <1>2 DEF TopMiners
  <2>3. found[m] = Latest(m) \/ found[m] = Strongest(m)
    BY <1>2, <2>2
  <2>4. /\ s \in State /\ s.miner = m
        /\ \A h \in history, k \in Slot :
               h.miner = s.miner /\ k > 0 /\ h.time <= WindowEnd(StartTime, k)
                   => h.time <= s.time
    BY <1>1, <2>1, <2>2, <2>3, StartFacts
  <2>5. StartTime \in Int /\ 0 \in Slot /\ 1 \in (0 + 1)..Slots
    BY CacheAssumption, SlotFacts
  <2>6. SlotsInv(load_history(StartTime, fresh(s, 0), s, 0, 1), s.miner)
    BY <1>1, <2>4, <2>5, LoadedSlots
  <2>7. QED
    BY <1>2, <2>1, <2>4, <2>6
<1>5. MinersInv(miners)
  BY <1>3, <1>4 DEF MinersInv
<1>6. MinIsCached
  BY DEF Init, MinIsCached, Weakest
<1>7. start_time \in Int /\ chan \in Seq(State) /\ fetched \subseteq State
  BY CacheAssumption DEF Init
<1>8. QED
  BY <1>1, <1>3, <1>5, <1>6, <1>7 DEF CacheInv

(* What update works on: the cache after do_offset, and where the state    *)
(* that came in belongs.                                                   *)
Moves == Offseted(start_time, Head(chan).time)

Offset == IF Moves THEN [m \in DOMAIN miners |-> shifted(miners[m])] ELSE miners

Index == time_to_index(start_time, Head(chan).time)

LEMMA UpdateIs ==
  ASSUME Update
  PROVE  /\ chan # <<>> /\ chan' = Tail(chan)
         /\ start_time' = start_time + IF Moves THEN Duration ELSE 0
         /\ \/ Refill(Offset, Head(chan), Index)
            \/ Join(Offset, start_time', Head(chan), Index)
            \/ Oust(Offset, start_time', Head(chan), Index)
            \/ Ignore(Offset, Head(chan), Index)
         /\ UNCHANGED <<fetched, history>>
  BY DEF Update, Moves, Offset, Index

LEMMA OffsetFacts ==
  ASSUME CacheInv
  PROVE  /\ MinersInv(Offset) /\ DOMAIN Offset = DOMAIN miners
         /\ \A m \in DOMAIN miners : Offset[m][0] = miners[m][0]
         /\ DOMAIN Offset # {} => min \in DOMAIN Offset
<1>1. \A m \in DOMAIN miners : /\ SlotsInv(shifted(miners[m]), m)
                               /\ shifted(miners[m])[0] = miners[m][0]
  BY ShiftedSlots DEF CacheInv, MinersInv
<1>2. /\ DOMAIN Offset = DOMAIN miners
      /\ \A m \in DOMAIN miners : /\ Offset[m][0] = miners[m][0]
                                  /\ SlotsInv(Offset[m], m)
  BY <1>1 DEF Offset, CacheInv, MinersInv
<1>3. MinersInv(Offset)
  BY <1>2 DEF CacheInv, MinersInv
<1>4. DOMAIN Offset # {} => min \in DOMAIN Offset
  BY <1>2 DEF CacheInv, MinIsCached
<1>5. QED
  BY <1>2, <1>3, <1>4

LEMMA HeadFacts ==
  ASSUME CacheInv, Update
  PROVE  /\ Head(chan) \in State /\ chan' \in Seq(State)
         /\ start_time' \in Int /\ Index \in Slot
         /\ Index # Slots - 1 => Head(chan).time > WindowEnd(start_time', Index + 1)
<1>1. chan # <<>> /\ chan' = Tail(chan) /\ chan \in Seq(State) /\ start_time \in Int
  BY UpdateIs DEF CacheInv
<1>2. Head(chan) \in State /\ chan' \in Seq(State)
  BY <1>1
<1>3. Head(chan).time \in Int
  BY <1>2, StateFields
<1>4. /\ Index \in Slot
      /\ Index # Slots - 1 => Head(chan).time > WindowEnd(start_time, Index + 1)
  BY <1>1, <1>3, IndexIsWindowOf DEF Index
<1>5. CASE ~Moves
  <2>1. start_time' = start_time
    BY <1>1, <1>5, UpdateIs
  <2>2. QED
    BY <1>1, <1>2, <1>4, <2>1
<1>6. CASE Moves
  <2>1. start_time' = start_time + Duration /\ Duration \in Nat
    BY <1>6, UpdateIs, CacheAssumption
  <2>2. Head(chan).time > WindowEnd(start_time, 0)
    BY <1>6 DEF Moves, Offseted
  <2>3. WindowEnd(start_time', 0 + 1) = WindowEnd(start_time, 0)
    BY <1>1, <2>1, WindowStep
  <2>4. Index = 0 \/ Index = Slots - 1
    BY <1>6 DEF Moves, Index, time_to_index
  <2>5. Index # Slots - 1 => Head(chan).time > WindowEnd(start_time', Index + 1)
    BY <2>2, <2>3, <2>4
  <2>6. QED
    BY <1>1, <1>2, <1>4, <2>1, <2>5
<1>7. QED
  BY <1>5, <1>6

(* The slots a newcomer gets. *)
LEMMA LoadedFacts ==
  ASSUME CacheInv, Update, NEW stop \in (Index + 1)..Slots
  PROVE  SlotsInv(load_history(start_time', fresh(Head(chan), Index), Head(chan), Index, stop),
                  Head(chan).miner)
<1>1. /\ Head(chan) \in State /\ start_time' \in Int /\ Index \in Slot
      /\ Index # Slots - 1 => Head(chan).time > WindowEnd(start_time', Index + 1)
  BY HeadFacts
<1>2. history \subseteq State
  BY DEF CacheInv
<1>3. ASSUME NEW h \in history, NEW i \in Slot,
             h.miner = Head(chan).miner, i > Index, h.time <= WindowEnd(start_time', i)
      PROVE  h.time <= Head(chan).time
  <2>1. Index + 1 <= i /\ Index # Slots - 1 /\ i \in Int /\ Index + 1 \in Int
    BY <1>1, <1>3, SlotFacts DEF Slot
  <2>2. WindowEnd(start_time', i) <= WindowEnd(start_time', Index + 1)
    BY <1>1, <2>1, WindowsFall
  <2>3. /\ WindowEnd(start_time', i) \in Int /\ WindowEnd(start_time', Index + 1) \in Int
        /\ h.time \in Int /\ Head(chan).time \in Int
    BY <1>1, <1>2, <2>1, WindowStep, StateFields
  <2>4. QED
    BY <1>1, <1>3, <2>1, <2>2, <2>3
<1>4. QED
  BY <1>1, <1>2, <1>3, LoadedSlots

(* A newcomer's Load, whatever query fails. *)
LEMMA LoadIs ==
  ASSUME CacheInv, Update,
         \/ Load(Offset, start_time', Head(chan), Index)
         \/ LoadFrom(Offset, start_time', Head(chan), Index, Index + 1)
  PROVE  \E stop \in (Index + 1)..Slots :
            LoadFrom(Offset, start_time', Head(chan), Index, stop)
<1>1. Index \in Slot
  BY HeadFacts
<1>2. Index + 1 \in (Index + 1)..Slots /\ (Index + 2)..Slots \subseteq (Index + 1)..Slots
  BY <1>1, SlotFacts DEF Slot
<1>3. QED
  BY <1>2 DEF Load

(* What update may do with the cache: refill a miner's slots, put one in,  *)
(* or leave it as do_offset made it.                                       *)
LEMMA UpdateCases ==
  ASSUME CacheInv, Update
  PROVE  LET s == Head(chan)
         IN  \/ /\ s.miner \in DOMAIN Offset /\ UNCHANGED min
                /\ miners' = [Offset EXCEPT ![s.miner] = refill(@, s, Index)]
             \/ /\ s.miner \notin DOMAIN Offset /\ refresh_min
                /\ \E slots : /\ SlotsInv(slots, s.miner) /\ slots[0] = s
                              /\ miners' = Put(Offset, s, slots)
                /\ Kept(Offset) = DOMAIN Offset \/ IsWeaker(Offset, s)
             \/ miners' = Offset /\ UNCHANGED min
<1> DEFINE s == Head(chan)
           history_of(stop) == load_history(start_time', fresh(s, Index), s, Index, stop)
<1>1. ASSUME NEW stop \in (Index + 1)..Slots, LoadFrom(Offset, start_time', s, Index, stop)
      PROVE  refresh_min /\ \E slots : /\ SlotsInv(slots, s.miner) /\ slots[0] = s
                                       /\ miners' = Put(Offset, s, slots)
  <2>1. SlotsInv(history_of(stop), s.miner)
    BY LoadedFacts
  <2>2. refresh_min /\ miners' = Put(Offset, s, history_of(stop))
    BY <1>1 DEF LoadFrom
  <2>3. history_of(stop)[0] = s
    <3>1. Index \in Slot
      BY HeadFacts
    <3>2. 0 \in Slot /\ 0 <= Index
      BY <3>1, SlotFacts DEF Slot
    <3>3. QED
      BY <3>2 DEF load_history, fresh
  <2>4. QED
    BY <2>1, <2>2, <2>3
<1>2. CASE Refill(Offset, s, Index)
  BY <1>2 DEF Refill
<1>3. CASE Join(Offset, start_time', s, Index)
  <2>1. /\ s.miner \notin DOMAIN Offset /\ Load(Offset, start_time', s, Index)
        /\ Kept(Offset) = DOMAIN Offset
    BY <1>3 DEF Join, Kept
  <2>2. QED
    BY <1>1, <2>1, LoadIs
<1>4. CASE Oust(Offset, start_time', s, Index)
  <2>1. /\ s.miner \notin DOMAIN Offset
        /\ \/ Load(Offset, start_time', s, Index)
           \/ LoadFrom(Offset, start_time', s, Index, Index + 1)
        /\ IsWeaker(Offset, s)
    BY <1>4 DEF Oust
  <2>2. QED
    BY <1>1, <2>1, LoadIs
<1>5. CASE Ignore(Offset, s, Index)
  BY <1>5 DEF Ignore
<1>6. QED
  BY <1>2, <1>3, <1>4, <1>5, UpdateIs

LEMMA UpdateInv == ASSUME CacheInv, Update PROVE CacheInv'
<1> DEFINE s == Head(chan)
<1>1. /\ s \in State /\ chan' \in Seq(State) /\ start_time' \in Int /\ Index \in Slot
      /\ fetched' \subseteq State /\ history' \subseteq State
  BY HeadFacts, UpdateIs DEF CacheInv
<1>2. /\ MinersInv(Offset) /\ DOMAIN Offset = DOMAIN miners
      /\ DOMAIN Offset # {} => min \in DOMAIN Offset
      /\ Cardinality(DOMAIN Offset) <= Capacity /\ DOMAIN Offset \subseteq Miner
  BY OffsetFacts DEF CacheInv, MinersInv
<1> HIDE DEF s
<1>3. CASE /\ s.miner \in DOMAIN Offset /\ UNCHANGED min
           /\ miners' = [Offset EXCEPT ![s.miner] = refill(@, s, Index)]
  <2>1. SlotsInv(refill(Offset[s.miner], s, Index), s.miner)
    BY <1>1, <1>2, <1>3, RefilledSlots DEF MinersInv
  <2>2. DOMAIN miners' = DOMAIN Offset
        /\ \A m \in DOMAIN Offset : SlotsInv(miners'[m], m)
    <3>1. \A m \in DOMAIN Offset : miners'[m] =
             IF m = s.miner THEN refill(Offset[s.miner], s, Index) ELSE Offset[m]
      BY <1>3
    <3>2. DOMAIN miners' = DOMAIN Offset
      BY <1>3
    <3>3. QED
      BY <1>2, <2>1, <3>1, <3>2 DEF MinersInv
  <2>3. MinersInv(miners)' /\ MinIsCached' /\ (Cardinality(DOMAIN miners) <= Capacity)'
    BY <1>2, <1>3, <2>2 DEF MinersInv, MinIsCached, SlotsInv
  <2>4. QED
    BY <1>1, <2>3 DEF CacheInv
<1>4. CASE /\ s.miner \notin DOMAIN Offset /\ refresh_min
           /\ \E slots : SlotsInv(slots, s.miner) /\ miners' = Put(Offset, s, slots)
  <2>1. PICK slots : SlotsInv(slots, s.miner) /\ miners' = Put(Offset, s, slots)
    BY <1>4
  <2>2. MinersInv(Put(Offset, s, slots))
        /\ DOMAIN Put(Offset, s, slots) = Kept(Offset) \cup {s.miner}
    BY <1>1, <1>2, <2>1, PutMiners
  <2>3. Cardinality(Kept(Offset) \cup {s.miner}) <= Capacity
    BY <1>1, <1>2, <1>4, PutFits
  <2>4. MinIsCached'
    BY <1>4 DEF MinIsCached, refresh_min, Weakest
  <2>5. MinersInv(miners')
    BY <2>1, <2>2
  <2>6. Cardinality(DOMAIN miners') <= Capacity
    BY <2>1, <2>2, <2>3
  <2>7. QED
    BY <1>1, <2>4, <2>5, <2>6 DEF CacheInv, MinersInv, SlotsInv
<1>5. CASE miners' = Offset /\ UNCHANGED min
  <2>1. MinIsCached'
    BY <1>2, <1>5 DEF MinIsCached
  <2>2. MinersInv(miners') /\ Cardinality(DOMAIN miners') <= Capacity
    BY <1>2, <1>5
  <2>3. QED
    BY <1>1, <2>1, <2>2 DEF CacheInv, MinersInv, SlotsInv
<1>6. QED
  BY <1>3, <1>4, <1>5, UpdateCases DEF s

LEMMA CacheStep == CacheInv /\ [Next]_vars => CacheInv'
<1> SUFFICES ASSUME CacheInv, [Next]_vars PROVE CacheInv'
  OBVIOUS
<1>1. ASSUME UNCHANGED <<miners, min, start_time>>,
             chan' \in Seq(State), fetched' \subseteq State, history' \subseteq State
      PROVE  CacheInv'
  BY <1>1 DEF CacheInv, MinersInv, SlotsInv, MinIsCached
<1>2. ASSUME NEW s \in State, Fetch(s) PROVE CacheInv'
  <2>1. chan' \in Seq(State) /\ fetched' \subseteq State /\ history' \subseteq State
    BY <1>2 DEF CacheInv, Fetch
  <2>2. QED
    BY <1>1, <1>2, <2>1 DEF Fetch
<1>3. CASE Flush
  <2>1. chan' \in Seq(State) /\ fetched' \subseteq State /\ history' \subseteq State
    BY <1>3 DEF CacheInv, Flush
  <2>2. QED
    BY <1>1, <1>3, <2>1 DEF Flush
<1>4. CASE Update
  BY <1>4, UpdateInv
<1>5. CASE UNCHANGED vars
  <2>1. chan' \in Seq(State) /\ fetched' \subseteq State /\ history' \subseteq State
    BY <1>5 DEF CacheInv, vars
  <2>2. QED
    BY <1>1, <1>5, <2>1 DEF vars
<1>6. QED
  BY <1>2, <1>3, <1>4, <1>5 DEF Next

THEOREM CacheInvAlways == Spec => []CacheInv
  BY CacheInit, CacheStep, PTL DEF Spec

-----------------------------------------------------------------------------
(* The results. *)

(* min is a weakest miner whenever one has come in, and stays one until a   *)
(* cached miner shows another state for now; who is ousted was weaker than  *)
(* the newcomer.                                                            *)
THEOREM MinStaleOnlyByRefill == Spec => OnlyRefillsLeaveMinStale
<1> DEFINE Renewed ==
        min' \notin Weakest(miners') /\ DOMAIN miners' # {} =>
            /\ DOMAIN miners' = DOMAIN miners
            /\ \/ min \notin Weakest(miners)
               \/ \E m \in DOMAIN miners : miners'[m][0] # miners[m][0]
           Stronger ==
        \A m \in DOMAIN miners \ DOMAIN miners' :
            \E n \in DOMAIN miners' \ DOMAIN miners :
                power(miners[m][0]) < power(miners'[n][0])
<1>1. ASSUME DOMAIN miners' = DOMAIN miners, UNCHANGED min PROVE Renewed /\ Stronger
  BY <1>1 DEF Weakest
<1>2. ASSUME CacheInv, Update PROVE Renewed /\ Stronger
  <2> DEFINE s == Head(chan)
  <2>1. /\ DOMAIN Offset = DOMAIN miners /\ MinersInv(Offset) /\ s \in State
        /\ \A m \in DOMAIN miners : Offset[m][0] = miners[m][0]
        /\ DOMAIN Offset # {} => min \in DOMAIN Offset
    BY <1>2, OffsetFacts, HeadFacts
  <2> HIDE DEF s
  <2>2. CASE /\ s.miner \in DOMAIN Offset /\ UNCHANGED min
             /\ miners' = [Offset EXCEPT ![s.miner] = refill(@, s, Index)]
    <3>1. DOMAIN miners' = DOMAIN miners
      BY <2>1, <2>2
    <3>2. QED
      BY <1>1, <2>2, <3>1
  <2>3. CASE /\ s.miner \notin DOMAIN Offset /\ refresh_min
             /\ \E slots : /\ SlotsInv(slots, s.miner) /\ slots[0] = s
                           /\ miners' = Put(Offset, s, slots)
             /\ Kept(Offset) = DOMAIN Offset \/ IsWeaker(Offset, s)
    <3>1. PICK slots : /\ SlotsInv(slots, s.miner) /\ slots[0] = s
                       /\ miners' = Put(Offset, s, slots)
      BY <2>3
    <3>2. DOMAIN miners' = Kept(Offset) \cup {s.miner} /\ miners'[s.miner] = slots
      BY <3>1 DEF Put
    <3>3. Renewed
      BY <2>3 DEF refresh_min
    <3>4. Stronger
      <4> SUFFICES ASSUME NEW m \in DOMAIN miners \ DOMAIN miners'
                   PROVE  \E n \in DOMAIN miners' \ DOMAIN miners :
                             power(miners[m][0]) < power(miners'[n][0])
        OBVIOUS
      <4>1. Kept(Offset) # DOMAIN Offset /\ m = min
        BY <2>1, <3>2 DEF Kept
      <4>2. power(miners[m][0]) < power(s)
        BY <2>1, <2>3, <4>1 DEF IsWeaker
      <4>3. s.miner \in DOMAIN miners' \ DOMAIN miners /\ miners'[s.miner][0] = s
        BY <2>1, <2>3, <3>1, <3>2
      <4>4. QED
        BY <4>2, <4>3
    <3>5. QED
      BY <3>3, <3>4
  <2>4. CASE miners' = Offset /\ UNCHANGED min
    BY <1>1, <2>1, <2>4
  <2>5. QED
    BY <1>2, <2>2, <2>3, <2>4, UpdateCases DEF s
<1>3. CacheInv /\ [Next]_vars => [Renewed /\ Stronger]_vars
  BY <1>1, <1>2 DEF Next, Fetch, Flush
<1>4. QED
  BY <1>3, CacheInvAlways, PTL DEF Spec, OnlyRefillsLeaveMinStale

(* Whatever the order in which states arrive and the windows move, time_to_ *)
(* index files a state in the slot of its window, no cache outgrows its     *)
(* capacity, min names a cached miner, and the slots of a miner are its     *)
(* own, newest first, without gaps.                                         *)
THEOREM SlotsAlwaysSound == Spec => []SlotsSound
<1>1. CacheInv => SlotsSound
  <2> SUFFICES ASSUME CacheInv PROVE SlotsSound
    OBVIOUS
  <2>1. IndexIsWindow
    <3>1. Time \subseteq Int /\ start_time \in Int
      BY CacheAssumption DEF CacheInv
    <3>2. QED
      BY <3>1, IndexIsWindowOf DEF IndexIsWindow
  <2>2. QED
    BY <2>1 DEF SlotsSound, CacheInv, MinersInv, SlotsInv, MinIsCached
<1>2. QED
  BY <1>1, CacheInvAlways, PTL

(* The windows move by a whole number of slots. *)
LEMMA MovedSlots ==
  ASSUME CacheInv, Update
  PROVE  (start_time' - start_time) \div Duration = IF Moves THEN 1 ELSE 0
<1>1. start_time \in Int /\ Duration \in Nat \ {0}
  BY CacheAssumption DEF CacheInv
<1>2. start_time' - start_time = IF Moves THEN Duration ELSE 0
  BY <1>1, UpdateIs
<1>3. Duration \div Duration = 1 /\ 0 \div Duration = 0
  BY <1>1, SMTT(30)
<1>4. QED
  BY <1>2, <1>3

(* No step replaces what a cache shows of a miner for a window of time by  *)
(* an older state or by none.                                              *)
THEOREM SlotsNeverOlder == Spec => NeverOlder
<1> DEFINE Newer ==
        \A m \in DOMAIN miners \cap DOMAIN miners' : \A k \in Slot :
            LET moved == k + (start_time' - start_time) \div Duration
            IN  moved \in Slot /\ miners[m][k] # NoState =>
                    /\ miners'[m][moved] # NoState
                    /\ miners'[m][moved].time >= miners[m][k].time
<1>1. ASSUME CacheInv, Update PROVE Newer
  <2> DEFINE s == Head(chan)
             by == IF Moves THEN 1 ELSE 0
  <2>1. (start_time' - start_time) \div Duration = by
    BY <1>1, MovedSlots
  <2>2. \A m \in DOMAIN miners : \A k \in Slot :
           k + by \in Slot => Offset[m][k + by] = miners[m][k]
    BY SlotFacts DEF Offset, shifted, Slot
  <2>3. /\ MinersInv(Offset) /\ DOMAIN Offset = DOMAIN miners
        /\ s \in State /\ Index \in Slot
    BY <1>1, OffsetFacts, HeadFacts
  <2>4. \A m \in DOMAIN miners : \A k \in Slot :
            Offset[m][k] # NoState => Offset[m][k].time \in Nat
    BY <2>3, StateFields DEF MinersInv, SlotsInv
  <2>5. ASSUME \A m \in DOMAIN miners \cap DOMAIN miners' : \A k \in Slot :
                  Offset[m][k] # NoState =>
                     /\ miners'[m][k] # NoState
                     /\ miners'[m][k].time >= Offset[m][k].time
        PROVE  Newer
    BY <2>1, <2>2, <2>5
  <2> HIDE DEF s
  <2>6. CASE /\ s.miner \in DOMAIN Offset
             /\ miners' = [Offset EXCEPT ![s.miner] = refill(@, s, Index)]
    <3>1. \A m \in DOMAIN miners : miners'[m] =
             IF m = s.miner THEN refill(Offset[m], s, Index) ELSE Offset[m]
      BY <2>3, <2>6
    <3>2. ASSUME NEW k \in Slot, Offset[s.miner][k] # NoState
          PROVE  /\ refill(Offset[s.miner], s, Index)[k] # NoState
                 /\ refill(Offset[s.miner], s, Index)[k].time >= Offset[s.miner][k].time
      BY <2>3, <2>6, <3>2, RefilledSlots DEF MinersInv
    <3>3. QED
      BY <2>4, <2>5, <3>1, <3>2
  <2>7. CASE /\ s.miner \notin DOMAIN Offset
             /\ \E slots : SlotsInv(slots, s.miner) /\ miners' = Put(Offset, s, slots)
    <3>1. PICK slots : SlotsInv(slots, s.miner) /\ miners' = Put(Offset, s, slots)
      BY <2>7
    <3>2. \A m \in DOMAIN miners \cap DOMAIN miners' : miners'[m] = Offset[m]
      <4>1. /\ DOMAIN miners' = Kept(Offset) \cup {s.miner}
            /\ \A m \in Kept(Offset) \ {s.miner} : miners'[m] = Offset[m]
        <5>1. /\ DOMAIN Put(Offset, s, slots) = Kept(Offset) \cup {s.miner}
              /\ \A m \in Kept(Offset) \ {s.miner} : Put(Offset, s, slots)[m] = Offset[m]
          BY <2>3, <3>1, PutMiners
        <5>2. QED
          BY <3>1, <5>1
      <4>2. QED
        BY <2>3, <2>7, <4>1
    <3>3. QED
      BY <2>4, <2>5, <3>2
  <2>8. CASE miners' = Offset
    BY <2>4, <2>5, <2>8
  <2>9. QED
    BY <1>1, <2>6, <2>7, <2>8, UpdateCases DEF s
<1>2. ASSUME CacheInv, UNCHANGED <<miners, start_time>> PROVE Newer
  <2>1. (start_time' - start_time) \div Duration = 0
    <3>1. start_time \in Int /\ Duration \in Nat \ {0}
      BY <1>2, CacheAssumption DEF CacheInv
    <3>2. start_time' - start_time = 0 /\ 0 \div Duration = 0
      BY <1>2, <3>1, SMTT(30)
    <3>3. QED
      BY <3>2
  <2>2. \A m \in DOMAIN miners : \A k \in Slot :
            /\ k + 0 = k
            /\ miners[m][k] # NoState => miners[m][k].time \in Nat
    BY <1>2, SlotFacts, StateFields DEF CacheInv, MinersInv, SlotsInv
  <2>3. QED
    BY <1>2, <2>1, <2>2
<1>3. CacheInv /\ [Next]_vars => [Newer]_vars
  BY <1>1, <1>2 DEF Next, Fetch, Flush
<1>4. QED
  BY <1>3, CacheInvAlways, PTL DEF Spec, NeverOlder
=============================================================================
