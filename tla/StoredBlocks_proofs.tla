------------------------ MODULE StoredBlocks_proofs ------------------------
(***************************************************************************)
(* Theorems about what reads the collection "block": Rewards and           *)
(* MiningStats, for every chain, reward, window and batch, any states of   *)
(* miners, any number of rounds, restarts and failing calls, and any       *)
(* request.                                                                *)
(***************************************************************************)
EXTENDS Rewards, MiningStats, FiniteSetTheorems, SequenceTheorems, WellFoundedInduction, TLAPS

-----------------------------------------------------------------------------
(* Facts about numbers and finite sets. *)

(* A set of numbers that is not empty has a least one. *)
LEMMA FirstOfNats ==
    ASSUME NEW S \in SUBSET Nat, S # {}
    PROVE  \E i \in S : \A j \in S : i <= j
<1>1. PICK i \in S : \A j \in S : <<j, i>> \notin OpToRel(<, Nat)
  BY NatLessThanWellFounded, WFMin
<1>2. \A j \in S : i \in Nat /\ j \in Nat /\ ~(j < i)
  BY <1>1 DEF OpToRel
<1>3. \A j \in S : i <= j
  BY <1>2
<1>4. QED
  BY <1>3

LEMMA CardOfRest ==
    ASSUME NEW s, IsFiniteSet(s), NEW a \in s
    PROVE  /\ IsFiniteSet(s \ {a}) /\ Cardinality(s \ {a}) \in Nat
           /\ Cardinality(s) \in Nat /\ Cardinality(s \ {a}) = Cardinality(s) - 1
BY FS_RemoveElement, FS_CardinalityType

(* A finite one has a greatest one. *)
LEMMA MaxOfNats ==
    ASSUME NEW S \in SUBSET Nat, IsFiniteSet(S), S # {}
    PROVE  Max(S) \in S /\ \A i \in S : i <= Max(S)
<1> DEFINE Above(i) == Cardinality({j \in S : i < j})
           Bad == {Above(i) : i \in S}
<1>1. \A i \in S : IsFiniteSet({j \in S : i < j}) /\ Above(i) \in Nat
  BY FS_Subset, FS_CardinalityType
<1>2. PICK c \in Bad : \A d \in Bad : c <= d
  <2>1. Bad \in SUBSET Nat /\ Bad # {}
    BY <1>1
  <2> HIDE DEF Bad
  <2>2. QED
    BY <2>1, FirstOfNats
<1>3. PICK m \in S : c = Above(m)
  BY <1>2
<1>4. \A i \in S : i <= m
  <2> SUFFICES ASSUME NEW i \in S, m < i PROVE FALSE
    OBVIOUS
  <2>1. {j \in S : i < j} \subseteq {j \in S : m < j} \ {i} /\ i \in {j \in S : m < j}
    <3>1. m \in Nat /\ i \in Nat /\ \A j \in S : j \in Nat
      OBVIOUS
    <3>2. \A j \in S : i < j => m < j /\ j # i
      BY <3>1
    <3>3. QED
      BY <3>2
  <2> DEFINE upper == {j \in S : m < j}
             above == {j \in S : i < j}
  <2>2. /\ IsFiniteSet(upper \ {i}) /\ Cardinality(upper \ {i}) = Cardinality(upper) - 1
        /\ Cardinality(upper \ {i}) \in Nat /\ Cardinality(upper) \in Nat
    <3>1. IsFiniteSet(upper) /\ i \in upper
      BY <1>1, <2>1
    <3> HIDE DEF upper
    <3>2. QED
      BY <3>1, CardOfRest
  <2>3. Cardinality(above) <= Cardinality(upper \ {i})
    <3>1. above \subseteq upper \ {i}
      BY <2>1
    <3> HIDE DEF upper, above
    <3>2. QED
      BY <2>2, <3>1, FS_Subset
  <2>4. Above(m) <= Above(i) /\ Above(i) \in Nat
    <3>1. Above(i) \in Bad
      OBVIOUS
    <3>2. c <= Above(i)
      <4> HIDE DEF Bad, Above
      <4>1. QED
        BY <1>2, <3>1
    <3>3. QED
      BY <1>1, <1>3, <3>2
  <2>5. QED
    BY <2>2, <2>3, <2>4
<1>5. QED
  <2>1. m \in S /\ \A i \in S : m >= i
    BY <1>4
  <2>2. Max(S) \in S /\ \A i \in S : Max(S) >= i
    <3> HIDE DEF Above, Bad
    <3>1. QED
      BY <2>1 DEF Max
  <2>3. QED
    BY <2>2

-----------------------------------------------------------------------------
(* SumFunction: the sum over a finite domain, whatever the order in which  *)
(* its elements are chosen.                                                *)

Pick(s) == CHOOSE x \in s : TRUE
Rest(f, a) == [x \in DOMAIN f \ {a} |-> f[x]]

SumStep(it, f, s) == IF s = {} THEN 0 ELSE f[Pick(s)] + it[s \ {Pick(s)}]
Sums(it, f, S) == it = [s \in SUBSET S |-> SumStep(it, f, s)]

LEMMA PickIn == ASSUME NEW s, s # {} PROVE Pick(s) \in s
BY DEF Pick

LEMMA SumsExist ==
    ASSUME NEW f, NEW S, IsFiniteSet(S)
    PROVE  \E it : Sums(it, f, S)
<1> DEFINE Up(it, n) == /\ it = [s \in SUBSET S |-> it[s]]
                        /\ \A s \in SUBSET S : Cardinality(s) <= n => it[s] = SumStep(it, f, s)
           Bad == {n \in Nat : ~\E it : Up(it, n)}
<1>0. \A s \in SUBSET S : IsFiniteSet(s) /\ Cardinality(s) \in Nat /\ Cardinality(s) <= Cardinality(S)
  BY FS_Subset, FS_CardinalityType
<1>1. Bad = {}
  <2> SUFFICES ASSUME Bad # {} PROVE FALSE
    OBVIOUS
  <2>1. PICK n \in Bad : \A j \in Bad : n <= j
    <3>1. Bad \in SUBSET Nat
      OBVIOUS
    <3> HIDE DEF Bad
    <3>2. QED
      BY <3>1, FirstOfNats
  <2>2. CASE n = 0
    <3>1. Up([s \in SUBSET S |-> 0], 0)
      <4>1. \A s \in SUBSET S : Cardinality(s) <= 0 => s = {}
        BY <1>0, FS_EmptySet
      <4>2. QED
        BY <4>1 DEF SumStep
    <3> HIDE DEF Up
    <3>2. QED
      BY <2>1, <2>2, <3>1
  <2>3. CASE n # 0
    <3>1. n - 1 \in Nat /\ n - 1 \notin Bad /\ n \in Nat
      <4>1. n \in Nat
        BY <2>1
      <4>2. n - 1 \in Nat /\ ~(n <= n - 1)
        BY <2>3, <4>1
      <4> HIDE DEF Bad
      <4>3. QED
        BY <2>1, <4>1, <4>2
    <3>2. PICK it : Up(it, n - 1)
      BY <3>1
    <3> DEFINE jt == [s \in SUBSET S |-> SumStep(it, f, s)]
    <3>3. \A s \in SUBSET S : Cardinality(s) <= n => jt[s] = SumStep(jt, f, s)
      <4> SUFFICES ASSUME NEW s \in SUBSET S, Cardinality(s) <= n
                   PROVE  jt[s] = SumStep(jt, f, s)
        OBVIOUS
      <4>1. CASE s = {}
        BY <4>1 DEF SumStep
      <4>2. CASE s # {}
        <5> DEFINE r == s \ {Pick(s)}
        <5>1. Pick(s) \in s
          BY <4>2, PickIn
        <5>2. r \in SUBSET S /\ Cardinality(r) <= n - 1
          BY <1>0, <3>1, <5>1, CardOfRest
        <5>3. it[r] = SumStep(it, f, r)
          BY <3>2, <5>2
        <5>4. jt[r] = it[r]
          BY <5>2, <5>3
        <5>5. jt[s] = SumStep(it, f, s)
          OBVIOUS
        <5> HIDE DEF jt
        <5>6. QED
          BY <4>2, <5>4, <5>5 DEF SumStep
      <4>3. QED
        BY <4>1, <4>2
    <3>4. Up(jt, n)
      BY <3>3
    <3> HIDE DEF Up, jt
    <3>5. QED
      BY <2>1, <3>4
  <2>4. QED
    BY <2>2, <2>3
<1>2. Cardinality(S) \in Nat
  BY FS_CardinalityType
<1>3. PICK it : Up(it, Cardinality(S))
  BY <1>1, <1>2
<1>4. it = [s \in SUBSET S |-> SumStep(it, f, s)]
  <2>1. \A s \in SUBSET S : it[s] = SumStep(it, f, s)
    BY <1>0, <1>3
  <2>2. it = [s \in SUBSET S |-> it[s]]
    BY <1>3
  <2>3. QED
    BY <2>1, <2>2
<1>5. QED
  BY <1>4 DEF Sums

LEMMA SumIs ==
    ASSUME NEW f, IsFiniteSet(DOMAIN f)
    PROVE  \E it : Sums(it, f, DOMAIN f) /\ SumFunction(f) = it[DOMAIN f]
<1> DEFINE it == CHOOSE g : Sums(g, f, DOMAIN f)
<1>1. Sums(it, f, DOMAIN f)
  BY SumsExist
<1>2. SumFunction(f) = it[DOMAIN f]
  BY DEF SumFunction, SumFunctionOnSet, FoldFunctionOnSet, MapThenFoldSet, Sums, SumStep, Pick
<1> HIDE DEF it
<1>3. QED
  BY <1>1, <1>2

LEMMA SumsAgree ==
    ASSUME NEW f, NEW g, NEW S, NEW T, NEW it, NEW jt, Sums(it, f, S), Sums(jt, g, T),
           NEW u, IsFiniteSet(u), u \subseteq S, u \subseteq T, \A x \in u : f[x] = g[x]
    PROVE  it[u] = jt[u]
<1> DEFINE Bad == {n \in Nat : \E s \in SUBSET u : Cardinality(s) = n /\ it[s] # jt[s]}
<1>0. \A s \in SUBSET u : IsFiniteSet(s) /\ Cardinality(s) \in Nat
  BY FS_Subset, FS_CardinalityType
<1>1. Bad = {}
  <2> SUFFICES ASSUME Bad # {} PROVE FALSE
    OBVIOUS
  <2>1. PICK n \in Bad : \A j \in Bad : n <= j
    <3>1. Bad \in SUBSET Nat
      OBVIOUS
    <3> HIDE DEF Bad
    <3>2. QED
      BY <3>1, FirstOfNats
  <2>2. PICK s \in SUBSET u : Cardinality(s) = n /\ it[s] # jt[s]
    BY <2>1
  <2>3. it[s] = SumStep(it, f, s) /\ jt[s] = SumStep(jt, g, s)
    <3>1. s \in SUBSET S /\ s \in SUBSET T
      OBVIOUS
    <3>2. QED
      BY <3>1 DEF Sums
  <2>4. s # {}
    BY <2>2, <2>3 DEF SumStep
  <2> DEFINE r == s \ {Pick(s)}
  <2>5. Pick(s) \in s /\ f[Pick(s)] = g[Pick(s)]
    BY <2>4, PickIn
  <2>6. r \in SUBSET u /\ Cardinality(r) \in Nat /\ Cardinality(r) < n
    BY <1>0, <2>2, <2>5, CardOfRest
  <2>7. it[r] = jt[r]
    <3>1. Cardinality(r) \notin Bad
      <4>1. n \in Nat
        BY <2>1
      <4>2. ~(n <= Cardinality(r))
        BY <2>6, <4>1
      <4> HIDE DEF Bad, r
      <4>3. QED
        BY <2>1, <4>2
    <3> HIDE DEF r
    <3>2. QED
      BY <2>6, <3>1
  <2>8. it[s] = jt[s]
    BY <2>3, <2>5, <2>7 DEF SumStep
  <2>9. QED
    BY <2>2, <2>8
<1>2. Cardinality(u) \notin Bad /\ Cardinality(u) \in Nat
  BY <1>0, <1>1
<1>3. QED
  BY <1>2

LEMMA SumEmpty ==
    ASSUME NEW f, DOMAIN f = {}
    PROVE  SumFunction(f) = 0
<1>1. IsFiniteSet(DOMAIN f)
  BY FS_EmptySet
<1>2. PICK it : Sums(it, f, DOMAIN f) /\ SumFunction(f) = it[DOMAIN f]
  BY <1>1, SumIs
<1>3. QED
  BY <1>2 DEF Sums, SumStep

(* The element that is chosen first. *)
LEMMA SumPicks ==
    ASSUME NEW f, IsFiniteSet(DOMAIN f), DOMAIN f # {}
    PROVE  SumFunction(f) = f[Pick(DOMAIN f)] + SumFunction(Rest(f, Pick(DOMAIN f)))
<1> DEFINE a == Pick(DOMAIN f)
           g == Rest(f, a)
<1>1. a \in DOMAIN f
  BY PickIn
<1>2. PICK it : Sums(it, f, DOMAIN f) /\ SumFunction(f) = it[DOMAIN f]
  BY SumIs
<1>3. DOMAIN g = DOMAIN f \ {a} /\ IsFiniteSet(DOMAIN g) /\ \A x \in DOMAIN g : f[x] = g[x]
  BY <1>1, FS_Subset DEF Rest
<1>4. PICK jt : Sums(jt, g, DOMAIN g) /\ SumFunction(g) = jt[DOMAIN g]
  BY <1>3, SumIs
<1>5. it[DOMAIN f] = f[a] + it[DOMAIN g]
  BY <1>2, <1>3 DEF Sums, SumStep
<1>6. it[DOMAIN g] = jt[DOMAIN g]
  <2> HIDE DEF a, g
  <2>1. QED
    BY <1>2, <1>3, <1>4, SumsAgree
<1>7. QED
  BY <1>2, <1>4, <1>5, <1>6

(* Functions with values that can be added. *)
Summable(f) == /\ f \in [DOMAIN f -> Nat]
               /\ IsFiniteSet(DOMAIN f)

LEMMA RestSummable ==
    ASSUME NEW f, Summable(f), NEW a \in DOMAIN f
    PROVE  /\ Summable(Rest(f, a)) /\ DOMAIN Rest(f, a) = DOMAIN f \ {a}
           /\ Cardinality(DOMAIN Rest(f, a)) = Cardinality(DOMAIN f) - 1
           /\ Cardinality(DOMAIN f) \in Nat /\ Cardinality(DOMAIN Rest(f, a)) \in Nat
           /\ \A x \in DOMAIN Rest(f, a) : Rest(f, a)[x] = f[x]
BY CardOfRest DEF Summable, Rest

LEMMA SumNat ==
    ASSUME NEW f, Summable(f)
    PROVE  SumFunction(f) \in Nat
<1> DEFINE Bad == {n \in Nat : \E g : Summable(g) /\ Cardinality(DOMAIN g) = n /\ SumFunction(g) \notin Nat}
<1>1. Bad = {}
  <2> SUFFICES ASSUME Bad # {} PROVE FALSE
    OBVIOUS
  <2>1. PICK n \in Bad : \A j \in Bad : n <= j
    <3>1. Bad \in SUBSET Nat
      OBVIOUS
    <3> HIDE DEF Bad
    <3>2. QED
      BY <3>1, FirstOfNats
  <2>2. PICK g : Summable(g) /\ Cardinality(DOMAIN g) = n /\ SumFunction(g) \notin Nat
    BY <2>1
  <2>3. DOMAIN g # {}
    BY <2>2, SumEmpty
  <2> DEFINE a == Pick(DOMAIN g)
             r == Rest(g, a)
  <2>4. a \in DOMAIN g /\ g[a] \in Nat
    BY <2>2, <2>3, PickIn DEF Summable
  <2>5. Summable(r) /\ Cardinality(DOMAIN r) \in Nat /\ Cardinality(DOMAIN r) < n
    <3> HIDE DEF a
    <3>1. /\ Summable(r) /\ Cardinality(DOMAIN r) = Cardinality(DOMAIN g) - 1
          /\ Cardinality(DOMAIN g) \in Nat /\ Cardinality(DOMAIN r) \in Nat
      BY <2>2, <2>4, RestSummable
    <3> HIDE DEF r
    <3>2. QED
      BY <2>2, <3>1
  <2>6. Cardinality(DOMAIN r) \notin Bad
    <3>1. n \in Nat
      BY <2>1
    <3>2. ~(n <= Cardinality(DOMAIN r))
      BY <2>5, <3>1
    <3> HIDE DEF Bad, r
    <3>3. QED
      BY <2>1, <3>2
  <2>7. SumFunction(r) \in Nat
    <3> HIDE DEF r
    <3>1. QED
      BY <2>5, <2>6
  <2>8. SumFunction(g) = g[a] + SumFunction(r)
    BY <2>2, <2>3, SumPicks DEF Summable
  <2>9. QED
    BY <2>2, <2>4, <2>7, <2>8
<1>2. Cardinality(DOMAIN f) \in Nat
  BY FS_CardinalityType DEF Summable
<1>3. QED
  BY <1>1, <1>2

(* Any element can come first. *)
LEMMA SumAdds ==
    ASSUME NEW f, Summable(f), NEW a \in DOMAIN f
    PROVE  SumFunction(f) = f[a] + SumFunction(Rest(f, a))
<1> DEFINE Splits(g) == \A x \in DOMAIN g : SumFunction(g) = g[x] + SumFunction(Rest(g, x))
           Bad == {n \in Nat : \E g : Summable(g) /\ Cardinality(DOMAIN g) = n /\ ~Splits(g)}
<1>1. Bad = {}
  <2> SUFFICES ASSUME Bad # {} PROVE FALSE
    OBVIOUS
  <2>1. PICK n \in Bad : \A j \in Bad : n <= j
    <3>1. Bad \in SUBSET Nat
      OBVIOUS
    <3> HIDE DEF Bad
    <3>2. QED
      BY <3>1, FirstOfNats
  <2>2. PICK g : Summable(g) /\ Cardinality(DOMAIN g) = n /\ ~Splits(g)
    BY <2>1
  <2>3. PICK x \in DOMAIN g : SumFunction(g) # g[x] + SumFunction(Rest(g, x))
    BY <2>2
  <2>4. PICK c : c = Pick(DOMAIN g)
    OBVIOUS
  <2>5. c \in DOMAIN g /\ SumFunction(g) = g[c] + SumFunction(Rest(g, c))
    <3>1. DOMAIN g # {}
      BY <2>3
    <3>2. QED
      BY <2>2, <2>4, <3>1, PickIn, SumPicks DEF Summable
  <2>6. x # c
    BY <2>3, <2>5
  <2>7. ASSUME NEW y \in DOMAIN g
        PROVE  /\ Summable(Rest(g, y)) /\ DOMAIN Rest(g, y) = DOMAIN g \ {y}
               /\ \A z \in DOMAIN g \ {y} : Rest(g, y)[z] = g[z]
               /\ Splits(Rest(g, y))
    <3> DEFINE r == Rest(g, y)
    <3>1. /\ Summable(r) /\ Cardinality(DOMAIN r) = Cardinality(DOMAIN g) - 1
          /\ Cardinality(DOMAIN g) \in Nat /\ Cardinality(DOMAIN r) \in Nat
          /\ DOMAIN r = DOMAIN g \ {y} /\ \A z \in DOMAIN r : r[z] = g[z]
      BY <2>2, RestSummable
    <3> HIDE DEF r, Splits
    <3>2. Cardinality(DOMAIN r) \notin Bad
      <4>1. n \in Nat
        BY <2>1
      <4>2. ~(n <= Cardinality(DOMAIN r))
        BY <2>2, <3>1, <4>1
      <4> HIDE DEF Bad
      <4>3. QED
        BY <2>1, <4>2
    <3>3. Splits(r)
      BY <3>1, <3>2
    <3>4. QED
      BY <3>1, <3>3 DEF r
  <2>8. x \in DOMAIN Rest(g, c) /\ c \in DOMAIN Rest(g, x)
    BY <2>3, <2>5, <2>6, <2>7
  <2>9. /\ SumFunction(Rest(g, c)) = g[x] + SumFunction(Rest(Rest(g, c), x))
        /\ SumFunction(Rest(g, x)) = g[c] + SumFunction(Rest(Rest(g, x), c))
    BY <2>3, <2>5, <2>6, <2>7, <2>8
  <2>10. PICK r : r = Rest(Rest(g, c), x)
    OBVIOUS
  <2>11. Rest(Rest(g, x), c) = r
    BY <2>3, <2>5, <2>6, <2>7, <2>10 DEF Rest
  <2>12. SumFunction(r) \in Nat /\ g[x] \in Nat /\ g[c] \in Nat
    <3>1. Summable(r)
      BY <2>5, <2>7, <2>8, <2>10, RestSummable
    <3>2. QED
      BY <2>2, <2>3, <2>5, <3>1, SumNat DEF Summable
  <2>13. /\ SumFunction(g) = g[c] + (g[x] + SumFunction(r))
         /\ g[x] + SumFunction(Rest(g, x)) = g[x] + (g[c] + SumFunction(r))
    BY <2>5, <2>9, <2>10, <2>11
  <2>14. QED
    BY <2>3, <2>12, <2>13
<1>2. Cardinality(DOMAIN f) \in Nat
  BY FS_CardinalityType DEF Summable
<1>3. Splits(f)
  <2> HIDE DEF Splits
  <2>1. QED
    BY <1>1, <1>2
<1>4. QED
  BY <1>3

(* One of the values goes up, the others stay. *)
LEMMA SumOfTwo ==
    ASSUME NEW f, Summable(f), NEW g, Summable(g), NEW a,
           a \notin DOMAIN f, DOMAIN g = DOMAIN f \cup {a}, \A x \in DOMAIN f : g[x] = f[x]
    PROVE  SumFunction(g) = g[a] + SumFunction(f)
<1>1. Rest(g, a) = [x \in DOMAIN f |-> f[x]]
  BY DEF Rest
<1>2. Rest(g, a) = f
  BY <1>1 DEF Summable
<1>3. a \in DOMAIN g
  OBVIOUS
<1>4. QED
  BY <1>2, <1>3, SumAdds

LEMMA SumOfZeros ==
    ASSUME NEW f, Summable(f), \A x \in DOMAIN f : f[x] = 0
    PROVE  SumFunction(f) = 0
<1> DEFINE Zero(g) == Summable(g) /\ \A x \in DOMAIN g : g[x] = 0
           Bad == {n \in Nat : \E g : Zero(g) /\ Cardinality(DOMAIN g) = n /\ SumFunction(g) # 0}
<1>1. Bad = {}
  <2> SUFFICES ASSUME Bad # {} PROVE FALSE
    OBVIOUS
  <2>1. PICK n \in Bad : \A j \in Bad : n <= j
    <3>1. Bad \in SUBSET Nat
      OBVIOUS
    <3> HIDE DEF Bad
    <3>2. QED
      BY <3>1, FirstOfNats
  <2>2. PICK g : Zero(g) /\ Cardinality(DOMAIN g) = n /\ SumFunction(g) # 0
    BY <2>1
  <2>3. PICK a : a \in DOMAIN g
    BY <2>2, SumEmpty
  <2>4. PICK r : r = Rest(g, a)
    OBVIOUS
  <2>5. /\ Summable(r) /\ Cardinality(DOMAIN r) = Cardinality(DOMAIN g) - 1
        /\ Cardinality(DOMAIN g) \in Nat /\ Cardinality(DOMAIN r) \in Nat
        /\ DOMAIN r = DOMAIN g \ {a} /\ \A z \in DOMAIN r : r[z] = g[z]
    BY <2>2, <2>3, <2>4, RestSummable
  <2>6. Zero(r)
    BY <2>2, <2>5
  <2> HIDE DEF Zero
  <2>7. Cardinality(DOMAIN r) \notin Bad
    <3>1. ~(n <= Cardinality(DOMAIN r))
      BY <2>2, <2>5
    <3> HIDE DEF Bad
    <3>2. QED
      BY <2>1, <3>1
  <2>8. SumFunction(r) = 0
    BY <2>5, <2>6, <2>7
  <2>9. SumFunction(g) = g[a] + SumFunction(r) /\ g[a] = 0
    BY <2>2, <2>3, <2>4, SumAdds DEF Zero
  <2>10. QED
    BY <2>2, <2>8, <2>9
<1>2. Cardinality(DOMAIN f) \in Nat
  BY FS_CardinalityType DEF Summable
<1>3. QED
  BY <1>1, <1>2

(* What is paid to some of them is added to the sum as often. *)
PaysMore(f, g, M, p) ==
    /\ Summable(f) /\ Summable(g) /\ DOMAIN g = DOMAIN f
    /\ \A x \in DOMAIN f : g[x] = IF x \in M THEN f[x] + p ELSE f[x]

LEMMA SumOfPaid ==
    ASSUME NEW f, NEW g, NEW M, NEW p \in Nat, PaysMore(f, g, M, p)
    PROVE  /\ Cardinality(DOMAIN f \cap M) \in Nat
           /\ SumFunction(g) = SumFunction(f) + Cardinality(DOMAIN f \cap M) * p
<1> USE DEF PaysMore
<1> DEFINE Pays(u, v) == PaysMore(u, v, M, p)
           Good(u, v) == SumFunction(v) = SumFunction(u) + Cardinality(DOMAIN u \cap M) * p
           Bad == {n \in Nat : \E u, v : Pays(u, v) /\ Cardinality(DOMAIN u) = n /\ ~Good(u, v)}
<1>1. Bad = {}
  <2> SUFFICES ASSUME Bad # {} PROVE FALSE
    OBVIOUS
  <2>1. PICK n \in Bad : \A j \in Bad : n <= j
    <3>1. Bad \in SUBSET Nat
      OBVIOUS
    <3> HIDE DEF Bad
    <3>2. QED
      BY <3>1, FirstOfNats
  <2>2. PICK u, v : Pays(u, v) /\ Cardinality(DOMAIN u) = n /\ ~Good(u, v)
    BY <2>1
  <2>3. CASE DOMAIN u = {}
    <3>1. SumFunction(u) = 0 /\ SumFunction(v) = 0
      BY <2>2, <2>3, SumEmpty
    <3>2. Cardinality(DOMAIN u \cap M) = 0
      BY <2>3, FS_EmptySet
    <3>3. Good(u, v)
      BY <3>1, <3>2
    <3>4. QED
      BY <2>2, <3>3
  <2>4. CASE DOMAIN u # {}
    <3>1. PICK a : a \in DOMAIN u
      BY <2>4
    <3>2. PICK r, s : r = Rest(u, a) /\ s = Rest(v, a)
      OBVIOUS
    <3>3. /\ Summable(r) /\ Cardinality(DOMAIN r) = Cardinality(DOMAIN u) - 1
          /\ Cardinality(DOMAIN u) \in Nat /\ Cardinality(DOMAIN r) \in Nat
          /\ DOMAIN r = DOMAIN u \ {a} /\ \A z \in DOMAIN r : r[z] = u[z]
      BY <2>2, <3>1, <3>2, RestSummable
    <3>4. /\ Summable(s) /\ DOMAIN s = DOMAIN v \ {a} /\ \A z \in DOMAIN s : s[z] = v[z]
      BY <2>2, <3>1, <3>2, RestSummable
    <3>5. Pays(r, s)
      BY <2>2, <3>3, <3>4
    <3>6. /\ SumFunction(u) = u[a] + SumFunction(r) /\ SumFunction(v) = v[a] + SumFunction(s)
          /\ u[a] \in Nat /\ v[a] = IF a \in M THEN u[a] + p ELSE u[a]
      BY <2>2, <3>1, <3>2, SumAdds DEF Summable
    <3>7. SumFunction(r) \in Nat /\ SumFunction(s) \in Nat
      BY <3>3, <3>4, SumNat
    <3> HIDE DEF Pays
    <3>8. Good(r, s)
      <4>1. Cardinality(DOMAIN r) \notin Bad
        <5>1. ~(n <= Cardinality(DOMAIN r))
          BY <2>2, <3>3
        <5> HIDE DEF Bad
        <5>2. QED
          BY <2>1, <5>1
      <4> HIDE DEF Good
      <4>2. QED
        BY <3>3, <3>5, <4>1
    <3>9. /\ IsFiniteSet(DOMAIN u \cap M) /\ IsFiniteSet(DOMAIN r \cap M)
          /\ Cardinality(DOMAIN u \cap M) \in Nat /\ Cardinality(DOMAIN r \cap M) \in Nat
      BY <2>2, <3>3, FS_Subset, FS_CardinalityType DEF Pays, Summable
    <3>10. CASE a \in M
      <4>1. DOMAIN r \cap M = (DOMAIN u \cap M) \ {a} /\ a \in DOMAIN u \cap M
        BY <3>1, <3>3, <3>10
      <4>2. Cardinality(DOMAIN r \cap M) = Cardinality(DOMAIN u \cap M) - 1
        BY <3>9, <4>1, CardOfRest
      <4>3. PICK c, d : c = Cardinality(DOMAIN r \cap M) /\ d = Cardinality(DOMAIN u \cap M)
        OBVIOUS
      <4>4. d * p = c * p + p
        <5>1. c \in Nat /\ d = c + 1
          BY <3>9, <4>2, <4>3
        <5>2. QED
          BY <5>1
      <4>5. c * p \in Nat /\ d * p \in Nat
        BY <3>9, <4>3
      <4>6. SumFunction(v) = SumFunction(u) + d * p
        BY <3>6, <3>7, <3>8, <3>10, <4>3, <4>4, <4>5
      <4>7. QED
        BY <2>2, <4>3, <4>6
    <3>11. CASE a \notin M
      <4>1. DOMAIN r \cap M = DOMAIN u \cap M
        BY <3>3, <3>11
      <4>2. PICK c : c = Cardinality(DOMAIN r \cap M) * p
        OBVIOUS
      <4>3. c \in Nat
        BY <3>9, <4>2
      <4>4. SumFunction(v) = SumFunction(u) + c
        BY <3>6, <3>7, <3>8, <3>11, <4>2, <4>3
      <4>5. QED
        BY <2>2, <4>1, <4>2, <4>4
    <3>12. QED
      BY <3>10, <3>11
  <2>5. QED
    BY <2>3, <2>4
<1>2. Cardinality(DOMAIN f) \in Nat
  BY FS_CardinalityType DEF Summable
<1>3. Pays(f, g)
  OBVIOUS
<1>4. Good(f, g)
  <2> HIDE DEF Pays, Good
  <2>1. QED
    BY <1>1, <1>2, <1>3
<1>5. Cardinality(DOMAIN f \cap M) \in Nat
  BY FS_Subset, FS_CardinalityType DEF Summable
<1>6. QED
  BY <1>4, <1>5

-----------------------------------------------------------------------------
(* Division. *)

LEMMA DivIs ==
    ASSUME NEW a \in Nat, NEW d \in Nat \ {0}
    PROVE  /\ a \div d \in Nat /\ d * (a \div d) \in Nat
           /\ d * (a \div d) <= a /\ a < d * (a \div d) + d
OBVIOUS

LEMMA DivMonotone ==
    ASSUME NEW a \in Nat, NEW b \in Nat, a <= b, NEW d \in Nat \ {0}
    PROVE  a \div d <= b \div d
<1>1. PICK p, q : p = a \div d /\ q = b \div d
  OBVIOUS
<1>2. /\ p \in Nat /\ q \in Nat /\ d * p <= a /\ b < d * q + d
  BY <1>1, DivIs
<1>3. SUFFICES ASSUME q < p PROVE FALSE
  BY <1>1, <1>2
<1>4. p >= q + 1
  BY <1>2, <1>3
<1>5. d * p >= d * (q + 1)
  BY <1>2, <1>4
<1>6. d * (q + 1) = d * q + d
  BY <1>2
<1>7. QED
  BY <1>2, <1>5, <1>6

LEMMA TimesPart ==
    ASSUME NEW a \in Nat, NEW d \in Nat \ {0}, NEW n \in 0..d
    PROVE  n * (a \div d) \in Nat /\ n * (a \div d) <= a
<1>1. PICK q : q = a \div d
  OBVIOUS
<1>2. q \in Nat /\ d * q <= a /\ d * q \in Nat
  BY <1>1, DivIs
<1>3. n * q <= d * q /\ n * q \in Nat
  BY <1>2
<1>4. QED
  BY <1>1, <1>2, <1>3

LEMMA TimesDiv ==
    ASSUME NEW p \in Nat, NEW n \in Nat \ {0}
    PROVE  (n * p) \div n = p
<1>1. n * p \in Nat
  OBVIOUS
<1>2. PICK q : q = (n * p) \div n
  OBVIOUS
<1>3. q \in Nat /\ n * q <= n * p /\ n * p < n * q + n
  BY <1>1, <1>2, DivIs
<1>4. n * p < n * (q + 1)
  BY <1>3
<1>5. p < q + 1
  BY <1>3, <1>4
<1>6. q <= p
  BY <1>3
<1>7. QED
  BY <1>2, <1>3, <1>5, <1>6

-----------------------------------------------------------------------------
(* TipsetRewards. *)

(* A document: each of its miners is paid the part of what remained before *)
(* the tipset.                                                             *)
ReleasedBefore(d) == d.released - d.reward
IsDocument(h, d) ==
    /\ d.height = h /\ d.count \in 1..Divisor
    /\ IsFiniteSet(DOMAIN d.miners) /\ Cardinality(DOMAIN d.miners) = d.count
    /\ d.released \in 0..Total /\ d.reward \in 0..d.released
    /\ d.reward = d.count * MiningReward(Total - ReleasedBefore(d))
    /\ \A m \in DOMAIN d.miners : d.miners[m] = MiningReward(Total - ReleasedBefore(d))

(* The documents of a round or of the collection follow one another: what  *)
(* one adds begins behind what all lower ones have released.               *)
Documents(docs) ==
    /\ docs = [h \in DOMAIN docs |-> docs[h]]
    /\ DOMAIN docs \subseteq HeightsOf(Mined)
    /\ \A h \in DOMAIN docs : IsDocument(h, docs[h])
    /\ \A h, g \in DOMAIN docs : h < g => docs[h].released <= ReleasedBefore(docs[g])

(* None of them lies behind the loop. *)
UpTo(docs, tip) ==
    \A h \in DOMAIN docs : h <= tip.height /\ docs[h].released <= tip.released

IsTip(tip) == tip.height \in Nat /\ tip.released \in 0..Total

StoreInv == blocks \subseteq Mined

TipsetInv ==
    /\ StoreInv
    /\ wpc \in {"off", "read", "write"}
    /\ Documents(rewards)
    /\ wpc # "off" => /\ IsTip(last) /\ remaining = Total - last.released
                      /\ UpTo(rewards, last)
    /\ wpc = "write" => /\ Documents(pending) /\ UpTo(pending, last)
                        /\ \A h \in DOMAIN rewards, p \in DOMAIN pending :
                              h <= p /\ rewards[h].released <= ReleasedBefore(pending[p])

(* The walk over the heights of a round is defined, step by step. *)
RoundStart == [last |-> last, remaining |-> remaining, pending |-> None]
WalkStep(w, heights, i) ==
    IF i = 0 THEN RoundStart
    ELSE IF last.height + i - 1 \in heights
         THEN AddTipset(w[i - 1], last.height + i - 1) ELSE w[i - 1]
Walks(w, heights, n) == w = [i \in 0..n |-> WalkStep(w, heights, i)]

LEMMA WalksExist ==
    ASSUME NEW heights, NEW n \in Nat
    PROVE  \E w : Walks(w, heights, n)
<1> DEFINE Up(w, j) == /\ w = [i \in 0..n |-> w[i]]
                       /\ \A i \in 0..n : i <= j => w[i] = WalkStep(w, heights, i)
           Bad == {j \in Nat : ~\E w : Up(w, j)}
<1>1. Bad = {}
  <2> SUFFICES ASSUME Bad # {} PROVE FALSE
    OBVIOUS
  <2>1. PICK j \in Bad : \A i \in Bad : j <= i
    <3>1. Bad \in SUBSET Nat
      OBVIOUS
    <3> HIDE DEF Bad
    <3>2. QED
      BY <3>1, FirstOfNats
  <2>2. j \in Nat
    BY <2>1
  <2>3. \E w : w = [i \in 0..n |-> w[i]] /\ \A i \in 0..n : i < j => w[i] = WalkStep(w, heights, i)
    <3>1. CASE j = 0
      <4>1. PICK w : w = [i \in 0..n |-> 0]
        OBVIOUS
      <4>2. w = [i \in 0..n |-> w[i]]
        BY <4>1
      <4>3. \A i \in 0..n : ~(i < j)
        BY <3>1
      <4>4. QED
        BY <4>2, <4>3
    <3>2. CASE j # 0
      <4>1. j - 1 \in Nat /\ ~(j <= j - 1)
        BY <2>2, <3>2
      <4>2. j - 1 \notin Bad
        <5> HIDE DEF Bad
        <5>1. QED
          BY <2>1, <4>1
      <4>3. PICK w : Up(w, j - 1)
        BY <4>1, <4>2
      <4>4. \A i \in 0..n : i < j => i <= j - 1
        BY <2>2
      <4>5. QED
        BY <4>3, <4>4
    <3>3. QED
      BY <3>1, <3>2
  <2>4. PICK w : w = [i \in 0..n |-> w[i]] /\ \A i \in 0..n : i < j => w[i] = WalkStep(w, heights, i)
    BY <2>3
  <2>5. PICK v : v = [i \in 0..n |-> WalkStep(w, heights, i)]
    OBVIOUS
  <2>6. \A i \in 0..n : i < j => v[i] = w[i]
    BY <2>4, <2>5
  <2>7. ASSUME NEW i \in 0..n, i <= j PROVE v[i] = WalkStep(v, heights, i)
    <3>1. i # 0 => i - 1 \in 0..n /\ i - 1 < j
      BY <2>2, <2>7
    <3>2. i # 0 => v[i - 1] = w[i - 1]
      BY <2>6, <3>1
    <3>3. v[i] = WalkStep(w, heights, i)
      BY <2>5
    <3>4. QED
      BY <3>2, <3>3 DEF WalkStep
  <2>8. Up(v, j)
    <3>1. v = [i \in 0..n |-> v[i]]
      BY <2>5
    <3>2. QED
      BY <2>7, <3>1
  <2> HIDE DEF Up
  <2>9. QED
    BY <2>1, <2>8
<1>2. PICK w : Up(w, n)
  BY <1>1
<1>3. \A i \in 0..n : w[i] = WalkStep(w, heights, i)
  BY <1>2
<1>4. w = [i \in 0..n |-> WalkStep(w, heights, i)]
  BY <1>2, <1>3
<1>5. QED
  BY <1>4 DEF Walks

LEMMA WalkedIs ==
    ASSUME NEW heights, NEW n \in Nat
    PROVE  \E w : Walks(w, heights, n) /\ Walked(heights, n) = w[n]
<1> DEFINE w == CHOOSE v : Walks(v, heights, n)
<1>1. Walks(w, heights, n)
  BY WalksExist
<1>2. Walked(heights, n) = w[n]
  BY DEF Walked, Walks, WalkStep, RoundStart
<1> HIDE DEF w
<1>3. QED
  BY <1>1, <1>2

(* What a miner is paid, and the tipset. *)
LEMMA TipsetIs ==
    ASSUME StoreInv, NEW before, before.released \in 0..Total,
           NEW h \in HeightsOf(blocks), NEW paid, paid = MiningReward(Total - before.released)
    PROVE  LET t == Tipset(h, before, paid)
           IN  /\ IsDocument(h, t) /\ ReleasedBefore(t) = before.released
               /\ t.height = h /\ t.released = before.released + t.reward
<1> DEFINE t == Tipset(h, before, paid)
           miners == MinersAt(blocks, h)
           left == Total - before.released
<1>1. left \in Nat /\ Total \in Nat /\ Divisor \in Nat \ {0} /\ before.released \in Nat
  BY RewardsAssumption
<1>2. paid \in Nat
  BY <1>1, DivIs DEF MiningReward
<1>3. IsFiniteSet(miners) /\ Cardinality(miners) \in 1..Divisor
  <2>1. IsFiniteSet(Mined) /\ h \in HeightsOf(Mined)
    BY MinedAssumption DEF StoreInv, HeightsOf
  <2>2. IsFiniteSet({c \in Mined : c.height = h})
    BY <2>1, FS_Subset
  <2>3. IsFiniteSet(MinersAt(Mined, h))
    <3> DEFINE T == {c \in Mined : c.height = h}
    <3>1. IsFiniteSet(T)
      BY <2>2
    <3> HIDE DEF T
    <3>2. [b \in T |-> b.miner] \in Surjection(T, MinersAt(Mined, h))
      BY DEF Surjection, MinersAt, T
    <3>3. QED
      BY <3>1, <3>2, FS_Surjection
  <2>4. miners \subseteq MinersAt(Mined, h) /\ miners # {}
    BY DEF MinersAt, HeightsOf, StoreInv
  <2>5. Cardinality(MinersAt(Mined, h)) <= Divisor
    BY <2>1, RewardsAssumption
  <2> HIDE DEF miners
  <2>6. /\ IsFiniteSet(miners) /\ Cardinality(miners) <= Cardinality(MinersAt(Mined, h))
        /\ Cardinality(miners) \in Nat /\ Cardinality(MinersAt(Mined, h)) \in Nat
    BY <2>3, <2>4, FS_Subset, FS_CardinalityType
  <2>7. Cardinality(miners) # 0
    BY <2>4, <2>6, FS_EmptySet
  <2>8. QED
    BY <1>1, <2>5, <2>6, <2>7
<1>4. PICK n : n = Cardinality(miners)
  OBVIOUS
<1>5. n \in 1..Divisor /\ n \in 0..Divisor
  BY <1>1, <1>3, <1>4
<1>6. n * paid \in Nat /\ n * paid <= left
  BY <1>1, <1>5, TimesPart DEF MiningReward
<1>7. PICK r : r = n * paid
  OBVIOUS
<1>8. /\ t.height = h /\ t.count = n /\ t.reward = r /\ t.released = before.released + r
      /\ t.miners = [m \in miners |-> paid]
  BY <1>4, <1>7 DEF Tipset
<1>9. r \in Nat /\ t.released \in 0..Total /\ t.reward \in 0..t.released /\ ReleasedBefore(t) = before.released
  BY <1>1, <1>6, <1>7, <1>8 DEF ReleasedBefore
<1> HIDE DEF t, miners
<1>10. IsDocument(h, t)
  <2>1. DOMAIN t.miners = miners /\ \A m \in miners : t.miners[m] = paid
    BY <1>8
  <2>2. QED
    BY <1>3, <1>4, <1>5, <1>7, <1>8, <1>9, <2>1 DEF IsDocument
<1>11. QED
  BY <1>8, <1>9, <1>10 DEF t

(* The walk so far: its documents follow the last one of the round before. *)
WalkInv(acc, n) ==
    /\ IsTip(acc.last) /\ acc.remaining = Total - acc.last.released
    /\ last.height <= acc.last.height /\ last.released <= acc.last.released
    /\ Documents(acc.pending) /\ UpTo(acc.pending, acc.last)
    /\ \A p \in DOMAIN acc.pending :
          /\ last.height <= p /\ p < last.height + n
          /\ last.released <= ReleasedBefore(acc.pending[p])

LEMMA AddTipsetInv ==
    ASSUME StoreInv, NEW acc, NEW n \in Nat, IsTip(last), WalkInv(acc, n),
           acc.last.height <= last.height + n,
           last.height + n \in HeightsOf(blocks)
    PROVE  /\ WalkInv(AddTipset(acc, last.height + n), n + 1)
           /\ AddTipset(acc, last.height + n).last.height = last.height + n
<1>0. PICK h : h = last.height + n
  OBVIOUS
<1> DEFINE t == Tipset(h, acc.last, MiningReward(acc.remaining))
           new == AddTipset(acc, h)
<1>1. last.height \in Nat /\ last.released \in Nat /\ acc.last.released \in Nat /\ h \in Nat /\ Total \in Nat
  BY <1>0, RewardsAssumption DEF IsTip, WalkInv
<1>2. /\ IsDocument(h, t) /\ ReleasedBefore(t) = acc.last.released
      /\ t.height = h /\ t.released = acc.last.released + t.reward
  <2>1. acc.last.released \in 0..Total /\ acc.remaining = Total - acc.last.released
    BY DEF WalkInv, IsTip
  <2>2. h \in HeightsOf(blocks)
    BY <1>0
  <2>3. QED
    BY <2>1, <2>2, TipsetIs
<1>3. /\ new.last = t /\ new.remaining = acc.remaining - t.reward
      /\ new.pending = [g \in DOMAIN acc.pending \cup {h} |-> IF g = h THEN t ELSE acc.pending[g]]
  BY DEF AddTipset
<1> HIDE DEF t, new
<1>4. t.released \in 0..Total /\ t.reward \in Nat
  BY <1>1, <1>2 DEF IsDocument
<1>5. \A p \in DOMAIN acc.pending : p < h /\ p \in Nat /\ acc.pending[p].released <= ReleasedBefore(t)
  <2>1. \A p \in DOMAIN acc.pending : p \in Nat
    BY MinedAssumption DEF WalkInv, Documents, HeightsOf
  <2>2. QED
    BY <1>0, <1>2, <2>1 DEF WalkInv, UpTo
<1>6. DOMAIN new.pending = DOMAIN acc.pending \cup {h}
  BY <1>3
<1>7. \A p \in DOMAIN acc.pending : new.pending[p] = acc.pending[p]
  BY <1>3, <1>5
<1>8. new.pending[h] = t
  BY <1>3
<1>9. Documents(new.pending)
  <2>1. DOMAIN new.pending \subseteq HeightsOf(Mined)
    BY <1>0, <1>6 DEF WalkInv, Documents, StoreInv, HeightsOf
  <2>2. \A p \in DOMAIN new.pending : IsDocument(p, new.pending[p])
    BY <1>2, <1>6, <1>7, <1>8 DEF WalkInv, Documents
  <2>3. ASSUME NEW p \in DOMAIN new.pending, NEW q \in DOMAIN new.pending, p < q
        PROVE  new.pending[p].released <= ReleasedBefore(new.pending[q])
    <3>1. CASE q = h
      <4>1. p \in DOMAIN acc.pending
        BY <1>1, <1>6, <2>3, <3>1
      <4>2. QED
        BY <1>5, <1>7, <1>8, <3>1, <4>1
    <3>2. CASE q # h
      <4>1. q \in DOMAIN acc.pending /\ p \in DOMAIN acc.pending
        BY <1>1, <1>5, <1>6, <2>3, <3>2
      <4>2. QED
        BY <1>7, <2>3, <4>1 DEF WalkInv, Documents
    <3>3. QED
      BY <3>1, <3>2
  <2>4. new.pending = [g \in DOMAIN new.pending |-> new.pending[g]]
    BY <1>3
  <2>5. QED
    BY <2>1, <2>2, <2>3, <2>4 DEF Documents
<1>10. UpTo(new.pending, t)
  <2> SUFFICES ASSUME NEW p \in DOMAIN new.pending
               PROVE  p <= t.height /\ new.pending[p].released <= t.released
    BY DEF UpTo
  <2>1. CASE p = h
    BY <1>1, <1>2, <1>4, <1>8, <2>1
  <2>2. CASE p # h
    <3>1. p \in DOMAIN acc.pending
      BY <1>6, <2>2
    <3>2. p <= h /\ acc.pending[p].released <= acc.last.released
      BY <1>1, <1>2, <1>5, <3>1
    <3>3. acc.pending[p].released \in Nat
      BY <3>1, RewardsAssumption DEF WalkInv, Documents, IsDocument
    <3>4. QED
      BY <1>1, <1>2, <1>4, <1>7, <3>1, <3>2, <3>3
  <2>3. QED
    BY <2>1, <2>2
<1>11. \A p \in DOMAIN new.pending :
          /\ last.height <= p /\ p < last.height + (n + 1)
          /\ last.released <= ReleasedBefore(new.pending[p])
  <2> SUFFICES ASSUME NEW p \in DOMAIN new.pending
               PROVE  /\ last.height <= p /\ p < last.height + (n + 1)
                      /\ last.released <= ReleasedBefore(new.pending[p])
    OBVIOUS
  <2>1. CASE p = h
    BY <1>0, <1>1, <1>2, <1>8, <2>1 DEF WalkInv
  <2>2. CASE p # h
    <3>1. p \in DOMAIN acc.pending /\ p \in Nat
      BY <1>5, <1>6, <2>2
    <3>2. QED
      BY <1>1, <1>7, <3>1 DEF WalkInv
  <2>3. QED
    BY <2>1, <2>2
<1>12. IsTip(new.last) /\ new.remaining = Total - new.last.released
  BY <1>1, <1>2, <1>3, <1>4 DEF IsTip, WalkInv
<1>13. last.height <= new.last.height /\ last.released <= new.last.released
  BY <1>0, <1>1, <1>2, <1>3, <1>4 DEF WalkInv
<1>14. WalkInv(new, n + 1) /\ new.last.height = last.height + n
  BY <1>0, <1>2, <1>3, <1>9, <1>10, <1>11, <1>12, <1>13 DEF WalkInv
<1>15. QED
  BY <1>0, <1>14 DEF new

(* The round as a whole, and that its end is not below its beginning.      *)
LEMMA WalkedInv ==
    ASSUME StoreInv, IsTip(last), remaining = Total - last.released,
           NEW heights, heights \subseteq HeightsOf(blocks), NEW n \in Nat
    PROVE  WalkInv(Walked(heights, n), n)
<1>1. PICK w : Walks(w, heights, n) /\ Walked(heights, n) = w[n]
  BY WalkedIs
<1>2. \A i \in 0..n : w[i] = WalkStep(w, heights, i)
  BY <1>1 DEF Walks
<1> DEFINE Good(i) == WalkInv(w[i], i) /\ w[i].last.height <= last.height + i
           Bad == {i \in 0..n : ~Good(i)}
<1>0. last.height \in Nat /\ last.released \in Nat /\ Total \in Nat
  BY RewardsAssumption DEF IsTip
<1>3. Bad = {}
  <2> SUFFICES ASSUME Bad # {} PROVE FALSE
    OBVIOUS
  <2>1. PICK i \in Bad : \A j \in Bad : i <= j
    <3>1. Bad \in SUBSET Nat
      OBVIOUS
    <3> HIDE DEF Bad
    <3>2. QED
      BY <3>1, FirstOfNats
  <2>2. i \in 0..n /\ i \in Nat /\ ~Good(i)
    BY <2>1
  <2>3. CASE i = 0
    <3>1. w[i] = RoundStart
      BY <1>2, <2>2, <2>3 DEF WalkStep
    <3>2. /\ w[i].last = last /\ w[i].remaining = remaining /\ w[i].pending = None
      BY <3>1 DEF RoundStart
    <3>3. DOMAIN None = {} /\ None = [h \in DOMAIN None |-> None[h]]
      BY DEF None
    <3>4. Good(i)
      BY <1>0, <2>3, <3>2, <3>3 DEF WalkInv, Documents, UpTo
    <3>5. QED
      BY <2>2, <3>4
  <2>4. CASE i # 0
    <3>1. PICK j : j = i - 1
      OBVIOUS
    <3>2. j \in 0..n /\ j \in Nat /\ i = j + 1 /\ ~(i <= j)
      BY <2>2, <2>4, <3>1
    <3>3. Good(j)
      <4>1. j \notin Bad
        <5> HIDE DEF Bad
        <5>1. QED
          BY <2>1, <3>2
      <4> HIDE DEF Good
      <4>2. QED
        BY <3>2, <4>1
    <3>4. last.height + i - 1 = last.height + j
      BY <1>0, <3>2
    <3>5. CASE last.height + j \in heights
      <4>1. w[i] = AddTipset(w[j], last.height + j)
        BY <1>2, <2>2, <2>4, <3>1, <3>4, <3>5 DEF WalkStep
      <4>2. WalkInv(w[i], j + 1) /\ w[i].last.height = last.height + j
        BY <3>2, <3>3, <3>5, <4>1, AddTipsetInv
      <4>3. last.height + j <= last.height + i
        BY <1>0, <3>2
      <4>4. QED
        BY <2>2, <3>2, <4>2, <4>3
    <3>6. CASE last.height + j \notin heights
      <4>1. w[i] = w[j]
        BY <1>2, <2>2, <2>4, <3>1, <3>4, <3>6 DEF WalkStep
      <4>2. WalkInv(w[i], j) /\ w[i].last.height <= last.height + j /\ w[i].last.height \in Nat
        BY <3>3, <4>1 DEF WalkInv, IsTip
      <4>3. w[i].last.height <= last.height + i
        BY <1>0, <3>2, <4>2
      <4>4. \A p \in DOMAIN w[i].pending : p < last.height + i
        <5>1. \A p \in DOMAIN w[i].pending : p \in Nat /\ p < last.height + j
          BY <4>2, MinedAssumption DEF WalkInv, Documents, HeightsOf
        <5>2. QED
          BY <1>0, <3>2, <5>1
      <4>5. WalkInv(w[i], i)
        BY <4>2, <4>4 DEF WalkInv
      <4>6. QED
        BY <2>2, <4>3, <4>5
    <3>7. QED
      BY <3>5, <3>6
  <2>5. QED
    BY <2>3, <2>4
<1>4. n \in 0..n /\ n \notin Bad
  BY <1>3
<1>5. Good(n)
  <2> HIDE DEF Good
  <2>1. QED
    BY <1>4
<1>6. QED
  BY <1>1, <1>5

(* The highest document. *)
LEMMA HighestIs ==
    ASSUME NEW S, S # {}, S \subseteq HeightsOf(Mined)
    PROVE  Max(S) \in S /\ (\A h \in S : h <= Max(S)) /\ S \subseteq Nat
<1>1. S \subseteq Nat
  BY MinedAssumption DEF HeightsOf
<1>2. IsFiniteSet(S)
  <2>1. [b \in Mined |-> b.height] \in Surjection(Mined, HeightsOf(Mined))
    BY DEF Surjection, HeightsOf
  <2>2. IsFiniteSet(HeightsOf(Mined))
    BY <2>1, FS_Surjection, MinedAssumption
  <2>3. QED
    BY <2>2, FS_Subset
<1>3. QED
  BY <1>1, <1>2, MaxOfNats

LEMMA DocumentNumbers ==
    ASSUME NEW docs, Documents(docs), NEW h \in DOMAIN docs
    PROVE  /\ h \in Nat /\ docs[h].height = h /\ docs[h].released \in 0..Total
           /\ docs[h].released \in Nat /\ docs[h].reward \in Nat /\ docs[h].count \in Nat \ {0}
           /\ ReleasedBefore(docs[h]) \in Nat /\ ReleasedBefore(docs[h]) <= docs[h].released
           /\ docs[h].released <= Total /\ Total \in Nat
           /\ docs[h].released = ReleasedBefore(docs[h]) + docs[h].reward
BY MinedAssumption, RewardsAssumption DEF Documents, IsDocument, ReleasedBefore, HeightsOf

LEMMA TipOfDocuments ==
    ASSUME NEW docs, Documents(docs), DOMAIN docs # {}, NEW top, top = Max(DOMAIN docs)
    PROVE  top \in DOMAIN docs /\ IsTip(docs[top]) /\ UpTo(docs, docs[top])
<1>1. top \in DOMAIN docs /\ \A h \in DOMAIN docs : h <= top
  BY HighestIs DEF Documents
<1>2. IsTip(docs[top]) /\ docs[top].height = top
  BY <1>1, DocumentNumbers DEF IsTip
<1>3. ASSUME NEW h \in DOMAIN docs
      PROVE  h <= top /\ docs[h].released <= docs[top].released
  <2>1. CASE h = top
    BY <1>1, <2>1, DocumentNumbers
  <2>2. CASE h # top
    <3>1. h < top
      BY <1>1, <2>2, DocumentNumbers
    <3>2. docs[h].released <= ReleasedBefore(docs[top])
      BY <1>1, <3>1 DEF Documents
    <3>3. QED
      BY <1>1, <3>1, <3>2, DocumentNumbers
  <2>3. QED
    BY <2>1, <2>2
<1>4. QED
  BY <1>1, <1>2, <1>3 DEF UpTo

LEMMA TipsetInitInv ==
    ASSUME Init
    PROVE  TipsetInv
BY DEF Init, BlocksInit, TipsetInit, TipsetInv, StoreInv, Documents, None

(* What an upsert of any part of the round leaves in the collection. *)
LEMMA WrittenDocuments ==
    ASSUME Documents(rewards), Documents(pending),
           \A h \in DOMAIN rewards, p \in DOMAIN pending :
              h <= p /\ rewards[h].released <= ReleasedBefore(pending[p]),
           NEW written \in SUBSET DOMAIN pending, NEW docs,
           docs = [h \in DOMAIN rewards \cup written |->
                      IF h \in written THEN pending[h] ELSE rewards[h]]
    PROVE  /\ Documents(docs) /\ DOMAIN docs = DOMAIN rewards \cup written
           /\ \A h \in written : docs[h] = pending[h]
           /\ \A h \in DOMAIN docs \ written : h \in DOMAIN rewards /\ docs[h] = rewards[h]
<1>1. /\ DOMAIN docs = DOMAIN rewards \cup written
      /\ \A h \in written : docs[h] = pending[h]
      /\ \A h \in DOMAIN docs \ written : h \in DOMAIN rewards /\ docs[h] = rewards[h]
  OBVIOUS
<1>2. docs = [h \in DOMAIN docs |-> docs[h]]
  OBVIOUS
<1>3. DOMAIN docs \subseteq HeightsOf(Mined)
  BY <1>1 DEF Documents
<1>4. \A h \in DOMAIN docs : IsDocument(h, docs[h])
  BY <1>1 DEF Documents
<1>5. ASSUME NEW h \in DOMAIN docs, NEW g \in DOMAIN docs, h < g
      PROVE  docs[h].released <= ReleasedBefore(docs[g])
  <2>1. CASE g \in written
    <3>1. CASE h \in written
      BY <1>1, <1>5, <2>1, <3>1 DEF Documents
    <3>2. CASE h \notin written
      BY <1>1, <2>1, <3>2
    <3>3. QED
      BY <3>1, <3>2
  <2>2. CASE g \notin written
    <3>1. h \notin written
      <4>1. SUFFICES ASSUME h \in written PROVE FALSE
        OBVIOUS
      <4>2. g <= h /\ g \in Nat /\ h \in Nat
        BY <1>1, <2>2, <4>1, DocumentNumbers
      <4>3. QED
        BY <1>5, <4>2
    <3>2. QED
      BY <1>1, <1>5, <2>2, <3>1 DEF Documents
  <2>3. QED
    BY <2>1, <2>2
<1>6. QED
  BY <1>1, <1>2, <1>3, <1>4, <1>5 DEF Documents

LEMMA TipsetStepInv ==
    ASSUME TipsetInv, [Next]_vars
    PROVE  TipsetInv'
<1> USE DEF TipsetInv
<1>1. CASE Store
  <2>1. /\ blocks' \subseteq Mined /\ UNCHANGED <<rewards, wpc, last, remaining, pending>>
    BY <1>1 DEF Store, StoreBlock, tipsetVars, StoreInv
  <2>2. QED
    BY <2>1 DEF StoreInv
<1>2. CASE InitBlockRewards
  BY <1>2 DEF InitBlockRewards, blockVars, tipsetVars, StoreInv
<1>3. CASE UNCHANGED vars
  BY <1>3 DEF vars, blockVars, tipsetVars, StoreInv
<1>4. CASE SyncTipsetRewardsDb
  <2>0. StoreInv'
    BY <1>4 DEF SyncTipsetRewardsDb, blockVars, StoreInv
  <2>1. CASE StartWalk
    <3>1. /\ wpc' = "read" /\ last' = LastRewards /\ remaining' = Total - LastRewards.released
          /\ UNCHANGED <<rewards, pending>>
      BY <2>1 DEF StartWalk
    <3>2. IsTip(LastRewards) /\ UpTo(rewards, LastRewards)
      <4>1. CASE DOMAIN rewards = {}
        <5>1. LastRewards = Genesis
          BY <4>1 DEF LastRewards
        <5>2. Genesis.height = 0 /\ Genesis.released = 0
          BY DEF Genesis
        <5>3. QED
          BY <4>1, <5>1, <5>2, RewardsAssumption DEF IsTip, UpTo
      <4>2. CASE DOMAIN rewards # {}
        BY <4>2, TipOfDocuments DEF LastRewards
      <4>3. QED
        BY <4>1, <4>2
    <3>3. QED
      BY <2>0, <3>1, <3>2
  <2>2. CASE WalkRound
    <3>1. PICK heights : heights = HeightsOf(BlocksAtHeight(last.height, Window))
      OBVIOUS
    <3>2. PICK round : round = Walked(heights, Window)
      OBVIOUS
    <3>3. /\ wpc = "read" /\ wpc' = "write" /\ last' = round.last
          /\ remaining' = round.remaining /\ pending' = round.pending /\ rewards' = rewards
      BY <2>2, <3>1, <3>2 DEF WalkRound
    <3>4. heights \subseteq HeightsOf(blocks)
      BY <3>1 DEF HeightsOf, BlocksAtHeight
    <3>5. WalkInv(round, Window)
      BY <3>2, <3>3, <3>4, WalkedInv, RewardsAssumption
    <3>6. IsTip(last) /\ IsTip(round.last) /\ UpTo(rewards, last) /\ last.height \in Nat
          /\ last.released \in Nat /\ round.last.released \in Nat /\ round.last.height \in Nat
      BY <3>3, <3>5, RewardsAssumption DEF WalkInv, IsTip
    <3>7. UpTo(rewards, round.last)
      <4>1. ASSUME NEW h \in DOMAIN rewards
            PROVE  h <= round.last.height /\ rewards[h].released <= round.last.released
        BY <3>5, <3>6, DocumentNumbers DEF UpTo, WalkInv
      <4>2. QED
        BY <4>1 DEF UpTo
    <3>8. ASSUME NEW h \in DOMAIN rewards, NEW p \in DOMAIN round.pending
          PROVE  h <= p /\ rewards[h].released <= ReleasedBefore(round.pending[p])
      <4>1. /\ h \in Nat /\ rewards[h].released \in Nat /\ p \in Nat /\ ReleasedBefore(round.pending[p]) \in Nat
        BY <3>5, DocumentNumbers DEF WalkInv
      <4>2. /\ h <= last.height /\ rewards[h].released <= last.released
            /\ last.height <= p /\ last.released <= ReleasedBefore(round.pending[p])
        BY <3>5, <3>6 DEF UpTo, WalkInv
      <4>3. QED
        BY <3>6, <4>1, <4>2
    <3>9. QED
      BY <2>0, <3>3, <3>5, <3>6, <3>7, <3>8 DEF WalkInv
  <2>3. CASE UpsertRewards
    <3>1. PICK written \in SUBSET DOMAIN pending :
             rewards' = [h \in DOMAIN rewards \cup written |->
                            IF h \in written THEN pending[h] ELSE rewards[h]]
      BY <2>3 DEF UpsertRewards
    <3>2. wpc = "write" /\ wpc' = "read" /\ UNCHANGED <<last, remaining>>
      BY <2>3 DEF UpsertRewards
    <3>3. PICK docs : docs = rewards'
      OBVIOUS
    <3>4. /\ Documents(docs) /\ DOMAIN docs = DOMAIN rewards \cup written
          /\ \A h \in written : docs[h] = pending[h]
          /\ \A h \in DOMAIN docs \ written : h \in DOMAIN rewards /\ docs[h] = rewards[h]
      BY <3>1, <3>2, <3>3, WrittenDocuments
    <3>5. UpTo(docs, last)
      BY <3>2, <3>4 DEF UpTo
    <3>6. QED
      BY <2>0, <3>2, <3>3, <3>4, <3>5
  <2>4. CASE CrashWalk
    BY <2>0, <2>4 DEF CrashWalk
  <2>5. QED
    BY <1>4, <2>1, <2>2, <2>3, <2>4 DEF SyncTipsetRewardsDb, TipsetNext
<1>5. QED
  BY <1>1, <1>2, <1>3, <1>4 DEF Next

(* The documents of the collection and those of the round at hand follow   *)
(* one another, however often a tipset was paid, whatever part of a round  *)
(* was written and whenever the loop was started again.                    *)
(* (Loop_WalkThroughTipsetRewards, bulkUpsertTipsetRewards)                *)
THEOREM TipsetsFollow == Spec => []TipsetInv
<1>1. Init => TipsetInv
  BY TipsetInitInv
<1>2. TipsetInv /\ [Next]_vars => TipsetInv'
  BY TipsetStepInv
<1>3. QED
  BY <1>1, <1>2, PTL DEF Spec

(* What a block of a document was paid. *)
LEMMA PaidPerBlock ==
    ASSUME NEW docs, Documents(docs), NEW h \in DOMAIN docs
    PROVE  /\ docs[h].reward \div docs[h].count = MiningReward(Total - ReleasedBefore(docs[h]))
           /\ Total - ReleasedBefore(docs[h]) \in Nat /\ MiningReward(Total - ReleasedBefore(docs[h])) \in Nat
<1>1. PICK p : p = MiningReward(Total - ReleasedBefore(docs[h]))
  OBVIOUS
<1>2. PICK n : n = docs[h].count
  OBVIOUS
<1>3. Total - ReleasedBefore(docs[h]) \in Nat
  BY DocumentNumbers
<1>4. p \in Nat
  BY <1>1, <1>3, DivIs, RewardsAssumption DEF MiningReward
<1>5. n \in Nat \ {0} /\ docs[h].reward = n * p
  BY <1>1, <1>2, DocumentNumbers DEF Documents, IsDocument
<1>6. (n * p) \div n = p
  BY <1>4, <1>5, TimesDiv
<1>7. QED
  BY <1>1, <1>2, <1>3, <1>4, <1>5, <1>6

LEMMA RewardStep ==
    ASSUME TipsetInv, [Next]_vars
    PROVE  [DOMAIN rewards # {} => LatestReward' <= LatestReward]_rewards
<1>1. CASE ~(wpc = "write" /\ UpsertRewards)
  <2>1. UNCHANGED rewards
    BY <1>1 DEF Next, Store, InitBlockRewards, SyncTipsetRewardsDb, TipsetNext, StartWalk,
                WalkRound, UpsertRewards, CrashWalk, vars, tipsetVars
  <2>2. QED
    BY <2>1
<1>2. CASE wpc = "write" /\ UpsertRewards
  <2> SUFFICES ASSUME DOMAIN rewards # {} PROVE LatestReward' <= LatestReward
    OBVIOUS
  <2>1. PICK written \in SUBSET DOMAIN pending :
           rewards' = [h \in DOMAIN rewards \cup written |->
                          IF h \in written THEN pending[h] ELSE rewards[h]]
    BY <1>2 DEF UpsertRewards
  <2>2. PICK docs : docs = rewards'
    OBVIOUS
  <2>3. /\ Documents(docs) /\ DOMAIN docs = DOMAIN rewards \cup written
        /\ \A h \in written : docs[h] = pending[h]
        /\ \A h \in DOMAIN docs \ written : h \in DOMAIN rewards /\ docs[h] = rewards[h]
    BY <1>2, <2>1, <2>2, WrittenDocuments DEF TipsetInv
  <2>4. PICK top, new : top = Max(DOMAIN rewards) /\ new = Max(DOMAIN docs)
    OBVIOUS
  <2>5. /\ top \in DOMAIN rewards /\ top \in Nat /\ \A h \in DOMAIN rewards : h <= top
        /\ new \in DOMAIN docs /\ new \in Nat /\ \A h \in DOMAIN docs : h <= new
    BY <2>3, <2>4, HighestIs DEF TipsetInv, Documents
  <2>6. /\ LatestReward = rewards[top].reward \div rewards[top].count
        /\ LatestReward' = docs[new].reward \div docs[new].count
    BY <2>2, <2>3, <2>4 DEF LatestReward, LastRewards
  <2>7. ReleasedBefore(rewards[top]) <= ReleasedBefore(docs[new])
    <3>1. CASE new \in written
      <4>1. rewards[top].released <= ReleasedBefore(pending[new]) /\ docs[new] = pending[new]
        BY <1>2, <2>3, <2>5, <3>1 DEF TipsetInv
      <4>2. QED
        BY <2>3, <2>5, <4>1, DocumentNumbers DEF TipsetInv
    <3>2. CASE new \notin written
      <4>1. new \in DOMAIN rewards /\ docs[new] = rewards[new]
        BY <2>3, <2>5, <3>2
      <4>2. new = top
        BY <2>3, <2>5, <4>1
      <4>3. QED
        BY <2>5, <4>1, <4>2, DocumentNumbers DEF TipsetInv
    <3>3. QED
      BY <3>1, <3>2
  <2>8. PICK a, b : a = Total - ReleasedBefore(docs[new]) /\ b = Total - ReleasedBefore(rewards[top])
    OBVIOUS
  <2>9. /\ LatestReward = MiningReward(b) /\ LatestReward' = MiningReward(a)
        /\ a \in Nat /\ b \in Nat
    BY <2>3, <2>5, <2>6, <2>8, PaidPerBlock DEF TipsetInv
  <2>10. a <= b
    BY <2>3, <2>5, <2>7, <2>8, DocumentNumbers DEF TipsetInv
  <2>11. MiningReward(a) <= MiningReward(b)
    BY <2>9, <2>10, DivMonotone, RewardsAssumption DEF MiningReward
  <2>12. QED
    BY <2>9, <2>11
<1>3. QED
  BY <1>1, <1>2

(* What a block is paid never goes up. *)
THEOREM RewardNeverRises == Spec => LatestRewardNeverRises
<1>1. TipsetInv /\ [Next]_vars => [DOMAIN rewards # {} => LatestReward' <= LatestReward]_rewards
  BY RewardStep
<1>2. QED
  BY <1>1, TipsetsFollow, PTL DEF Spec, LatestRewardNeverRises

-----------------------------------------------------------------------------
(* What MinerRewards answers. *)

PaidTo(m, from, diff) ==
    [h \in {g \in DOMAIN rewards : /\ from <= g /\ g < from + diff
                                   /\ m \in DOMAIN rewards[g].miners}
        |-> rewards[h].miners[m]]

LEMMA AnswerIs ==
    ASSUME NEW from, NEW diff, NEW ms
    PROVE  MinerRewardInTimeRange(from, diff, ms) = [m \in ms |-> SumFunction(PaidTo(m, from, diff))]
BY DEF MinerRewardInTimeRange, PaidTo

LEMMA FiniteDocuments ==
    ASSUME NEW S, S \subseteq HeightsOf(Mined)
    PROVE  IsFiniteSet(S)
<1>1. [b \in Mined |-> b.height] \in Surjection(Mined, HeightsOf(Mined))
  BY DEF Surjection, HeightsOf
<1>2. IsFiniteSet(HeightsOf(Mined))
  BY <1>1, FS_Surjection, MinedAssumption
<1>3. QED
  BY <1>2, FS_Subset

LEMMA PaidToType ==
    ASSUME Documents(rewards), NEW m, NEW from, NEW diff
    PROVE  Summable(PaidTo(m, from, diff)) /\ SumFunction(PaidTo(m, from, diff)) \in Nat
<1> DEFINE f == PaidTo(m, from, diff)
<1>1. /\ DOMAIN f \subseteq DOMAIN rewards /\ f = [h \in DOMAIN f |-> rewards[h].miners[m]]
      /\ \A h \in DOMAIN f : m \in DOMAIN rewards[h].miners
  BY DEF PaidTo
<1> HIDE DEF f
<1>2. IsFiniteSet(DOMAIN f)
  BY <1>1, FiniteDocuments DEF Documents
<1>3. \A h \in DOMAIN f : rewards[h].miners[m] \in Nat
  BY <1>1, PaidPerBlock DEF Documents, IsDocument
<1>4. Summable(f)
  BY <1>1, <1>2, <1>3 DEF Summable
<1>5. QED
  BY <1>4, SumNat DEF f

(* One more height. *)
LEMMA PaidToNext ==
    ASSUME Documents(rewards), NEW m, NEW from \in Nat, NEW diff \in Nat
    PROVE  SumFunction(PaidTo(m, from, diff + 1)) =
              IF from + diff \in DOMAIN rewards /\ m \in DOMAIN rewards[from + diff].miners
              THEN SumFunction(PaidTo(m, from, diff)) + rewards[from + diff].miners[m]
              ELSE SumFunction(PaidTo(m, from, diff))
<1> DEFINE Own(n) == {g \in DOMAIN rewards : /\ from <= g /\ g < from + n
                                             /\ m \in DOMAIN rewards[g].miners}
<1>0. PICK x : x = from + diff
  OBVIOUS
<1>1. \A g \in DOMAIN rewards : g \in Nat
  BY DocumentNumbers
<1>2. Own(diff + 1) = IF x \in DOMAIN rewards /\ m \in DOMAIN rewards[x].miners
                      THEN Own(diff) \cup {x} ELSE Own(diff)
  <2>1. \A g \in DOMAIN rewards : g < from + (diff + 1) <=> g < from + diff \/ g = x
    BY <1>0, <1>1
  <2>2. from <= x
    BY <1>0
  <2>3. \A g : g \in Own(diff + 1) <=>
            g \in Own(diff) \/ (g = x /\ x \in DOMAIN rewards /\ m \in DOMAIN rewards[x].miners)
    BY <2>1, <2>2
  <2> HIDE DEF Own
  <2>4. QED
    BY <2>3
<1>3. PICK f, g : f = PaidTo(m, from, diff) /\ g = PaidTo(m, from, diff + 1)
  OBVIOUS
<1>4. /\ f = [h \in Own(diff) |-> rewards[h].miners[m]]
      /\ g = [h \in Own(diff + 1) |-> rewards[h].miners[m]]
  BY <1>3 DEF PaidTo
<1>5. x \notin Own(diff)
  BY <1>0
<1> HIDE DEF Own
<1>6. CASE x \in DOMAIN rewards /\ m \in DOMAIN rewards[x].miners
  <2>1. /\ DOMAIN f = Own(diff) /\ DOMAIN g = DOMAIN f \cup {x} /\ x \notin DOMAIN f
        /\ g[x] = rewards[x].miners[m] /\ \A h \in DOMAIN f : g[h] = f[h]
    BY <1>2, <1>4, <1>5, <1>6
  <2>2. Summable(f) /\ Summable(g) /\ SumFunction(f) \in Nat
    BY <1>3, PaidToType
  <2>3. SumFunction(g) = g[x] + SumFunction(f) /\ g[x] \in Nat
    BY <2>1, <2>2, SumOfTwo DEF Summable
  <2>4. QED
    BY <1>0, <1>3, <1>6, <2>1, <2>2, <2>3
<1>7. CASE ~(x \in DOMAIN rewards /\ m \in DOMAIN rewards[x].miners)
  <2>1. f = g
    BY <1>2, <1>4, <1>7
  <2>2. QED
    BY <1>0, <1>3, <1>7, <2>1
<1>8. QED
  BY <1>6, <1>7

(* What the height adds to an answer is covered by its document. *)
OneMore(from, diff, ms, more, behind) ==
    LET f == MinerRewardInTimeRange(from, diff, ms)
        g == MinerRewardInTimeRange(from, more, ms)
    IN  /\ SumFunction(f) \in Nat /\ SumFunction(g) \in Nat
        /\ behind \notin DOMAIN rewards => SumFunction(g) = SumFunction(f)
        /\ behind \in DOMAIN rewards => SumFunction(g) <= SumFunction(f) + rewards[behind].reward

LEMMA AnswerNext ==
    ASSUME Documents(rewards), NEW from \in Nat, NEW diff \in Nat, NEW ms, IsFiniteSet(ms),
           NEW more, more = diff + 1, NEW behind, behind = from + diff
    PROVE  OneMore(from, diff, ms, more, behind)
<1>0. PICK f, g : /\ f = MinerRewardInTimeRange(from, diff, ms)
                  /\ g = MinerRewardInTimeRange(from, diff + 1, ms)
  OBVIOUS
<1>1. /\ f = [m \in ms |-> SumFunction(PaidTo(m, from, diff))]
      /\ g = [m \in ms |-> SumFunction(PaidTo(m, from, diff + 1))]
  BY <1>0, AnswerIs
<1>2. Summable(f) /\ Summable(g) /\ DOMAIN f = ms /\ DOMAIN g = ms
  <2>1. \A m \in ms : f[m] \in Nat /\ g[m] \in Nat
    BY <1>1, PaidToType
  <2>2. DOMAIN f = ms /\ DOMAIN g = ms
    BY <1>1
  <2>3. f = [m \in ms |-> f[m]] /\ g = [m \in ms |-> g[m]]
    BY <1>1
  <2>4. QED
    BY <2>1, <2>2, <2>3 DEF Summable
<1>3. SumFunction(f) \in Nat /\ SumFunction(g) \in Nat
  BY <1>2, SumNat
<1>4. \A m \in ms : g[m] = IF behind \in DOMAIN rewards /\ m \in DOMAIN rewards[behind].miners
                           THEN f[m] + rewards[behind].miners[m] ELSE f[m]
  BY <1>1, PaidToNext
<1>5. CASE behind \notin DOMAIN rewards
  <2>1. \A m \in ms : g[m] = f[m]
    BY <1>4, <1>5
  <2>2. f = [m \in ms |-> f[m]] /\ g = [m \in ms |-> g[m]]
    BY <1>1
  <2>3. g = f
    BY <2>1, <2>2
  <2>4. QED
    BY <1>0, <1>3, <1>5, <2>3 DEF OneMore
<1>6. CASE behind \in DOMAIN rewards
  <2>1. PICK M : M = DOMAIN rewards[behind].miners
    OBVIOUS
  <2>2. PICK p : p = MiningReward(Total - ReleasedBefore(rewards[behind]))
    OBVIOUS
  <2>3. p \in Nat /\ \A m \in M : rewards[behind].miners[m] = p
    BY <1>6, <2>1, <2>2, PaidPerBlock DEF Documents, IsDocument
  <2>4. \A m \in ms : g[m] = IF m \in M THEN f[m] + p ELSE f[m]
    BY <1>4, <1>6, <2>1, <2>3
  <2>5. PICK c : c = Cardinality(ms \cap M)
    OBVIOUS
  <2>6. c \in Nat /\ SumFunction(g) = SumFunction(f) + c * p
    <3>1. PaysMore(f, g, M, p)
      BY <1>2, <2>4 DEF PaysMore
    <3>2. /\ Cardinality(DOMAIN f \cap M) \in Nat
          /\ SumFunction(g) = SumFunction(f) + Cardinality(DOMAIN f \cap M) * p
      BY <1>2, <2>3, <3>1, SumOfPaid
    <3>3. QED
      BY <1>2, <2>5, <3>2
  <2>7. PICK n : n = rewards[behind].count
    OBVIOUS
  <2>8. IsFiniteSet(M) /\ Cardinality(M) = n /\ rewards[behind].reward = n * p /\ n \in Nat
    BY <1>6, <2>1, <2>2, <2>7, DocumentNumbers DEF Documents, IsDocument
  <2>9. c <= n
    <3>1. ms \cap M \subseteq M
      OBVIOUS
    <3>2. QED
      BY <2>5, <2>8, <3>1, FS_Subset
  <2>10. c * p <= n * p /\ c * p \in Nat /\ n * p \in Nat
    BY <2>3, <2>6, <2>8, <2>9
  <2>11. SumFunction(g) <= SumFunction(f) + n * p
    BY <1>3, <2>6, <2>10
  <2>12. QED
    BY <1>0, <1>3, <1>6, <2>8, <2>11 DEF OneMore
<1>7. QED
  BY <1>5, <1>6

(* The answer for the heights behind a document is covered by what any     *)
(* document above them begins with.                                        *)
LEMMA AnswerCovered ==
    ASSUME Documents(rewards), NEW h \in DOMAIN rewards, NEW ms, IsFiniteSet(ms), NEW n \in Nat,
           NEW y \in DOMAIN rewards, h + n < y
    PROVE  SumFunction(MinerRewardInTimeRange(h + 1, n, ms))
              <= ReleasedBefore(rewards[y]) - rewards[h].released
<1> DEFINE Answer(i) == MinerRewardInTimeRange(h + 1, i, ms)
           Good(i) == \A g \in DOMAIN rewards : h + i < g =>
                         SumFunction(Answer(i)) <= ReleasedBefore(rewards[g]) - rewards[h].released
           Bad == {i \in Nat : ~Good(i)}
<1>0. /\ h \in Nat /\ h + 1 \in Nat /\ rewards[h].released \in Nat
      /\ \A g \in DOMAIN rewards : g \in Nat /\ ReleasedBefore(rewards[g]) \in Nat /\ rewards[g].reward \in Nat
                                   /\ rewards[g].released = ReleasedBefore(rewards[g]) + rewards[g].reward
                                   /\ rewards[g].released \in Nat
  BY DocumentNumbers
<1>1. Bad = {}
  <2> SUFFICES ASSUME Bad # {} PROVE FALSE
    OBVIOUS
  <2>1. PICK i \in Bad : \A j \in Bad : i <= j
    <3>1. Bad \in SUBSET Nat
      OBVIOUS
    <3> HIDE DEF Bad
    <3>2. QED
      BY <3>1, FirstOfNats
  <2>2. i \in Nat /\ ~Good(i)
    BY <2>1
  <2>3. CASE i = 0
    <3>1. PICK f : f = Answer(0)
      OBVIOUS
    <3>2. f = [m \in ms |-> SumFunction(PaidTo(m, h + 1, 0))]
      BY <3>1, AnswerIs
    <3>3. \A m \in ms : f[m] = 0
      <4> SUFFICES ASSUME NEW m \in ms PROVE SumFunction(PaidTo(m, h + 1, 0)) = 0
        BY <3>2
      <4>1. \A g \in DOMAIN rewards : ~(h + 1 <= g /\ g < h + 1 + 0)
        BY <1>0
      <4>2. DOMAIN PaidTo(m, h + 1, 0) = {}
        BY <4>1 DEF PaidTo
      <4>3. QED
        BY <4>2, SumEmpty
    <3>4. Summable(f)
      <4>1. DOMAIN f = ms /\ f = [m \in ms |-> f[m]]
        BY <3>2
      <4>2. QED
        BY <3>3, <4>1 DEF Summable
    <3>5. SumFunction(f) = 0
      <4>1. DOMAIN f = ms
        BY <3>2
      <4>2. QED
        BY <3>3, <3>4, <4>1, SumOfZeros
    <3>6. ASSUME NEW g \in DOMAIN rewards, h + 0 < g
          PROVE  0 <= ReleasedBefore(rewards[g]) - rewards[h].released
      <4>1. h < g
        BY <1>0, <3>6
      <4>2. rewards[h].released <= ReleasedBefore(rewards[g])
        BY <4>1 DEF Documents
      <4>3. QED
        BY <1>0, <4>2
    <3>7. Good(0)
      BY <3>1, <3>5, <3>6
    <3>8. QED
      BY <2>2, <2>3, <3>7
  <2>4. CASE i # 0
    <3>1. PICK j : j = i - 1
      OBVIOUS
    <3>2. j \in Nat /\ i = j + 1 /\ ~(i <= j)
      BY <2>2, <2>4, <3>1
    <3>3. Good(j)
      <4>1. j \notin Bad
        <5> HIDE DEF Bad
        <5>1. QED
          BY <2>1, <3>2
      <4> HIDE DEF Good
      <4>2. QED
        BY <3>2, <4>1
    <3>4. PICK f, g : f = Answer(j) /\ g = Answer(j + 1)
      OBVIOUS
    <3>5. PICK x : x = h + 1 + j
      OBVIOUS
    <3>6. /\ SumFunction(f) \in Nat /\ SumFunction(g) \in Nat
          /\ x \notin DOMAIN rewards => SumFunction(g) = SumFunction(f)
          /\ x \in DOMAIN rewards => SumFunction(g) <= SumFunction(f) + rewards[x].reward
      <4>1. PICK from : from = h + 1
        OBVIOUS
      <4>2. PICK next : next = j + 1
        OBVIOUS
      <4>3. /\ f = MinerRewardInTimeRange(from, j, ms) /\ g = MinerRewardInTimeRange(from, next, ms)
            /\ from \in Nat /\ j \in Nat /\ x = from + j
        BY <1>0, <3>2, <3>4, <3>5, <4>1, <4>2
      <4> HIDE DEF Answer, Good, Bad
      <4>4. from \in Nat /\ j \in Nat /\ next = j + 1 /\ x = from + j
        BY <4>2, <4>3
      <4>5. OneMore(from, j, ms, next, x)
        BY <4>4, AnswerNext
      <4>6. QED
        BY <4>3, <4>5 DEF OneMore
    <3>7. ASSUME NEW u \in DOMAIN rewards, h + i < u
          PROVE  SumFunction(g) <= ReleasedBefore(rewards[u]) - rewards[h].released
      <4>0. u \in Nat /\ h + j < u /\ x < u /\ h + j < x
        BY <1>0, <3>2, <3>5, <3>7
      <4>1. CASE x \in DOMAIN rewards
        <5>1. SumFunction(f) <= ReleasedBefore(rewards[x]) - rewards[h].released
          BY <3>3, <3>4, <4>0, <4>1
        <5>2. rewards[x].released <= ReleasedBefore(rewards[u])
          BY <4>0, <4>1 DEF Documents
        <5>3. QED
          BY <1>0, <3>6, <4>1, <5>1, <5>2
      <4>2. CASE x \notin DOMAIN rewards
        BY <3>3, <3>4, <3>6, <4>0, <4>2
      <4>3. QED
        BY <4>1, <4>2
    <3>8. Good(i)
      BY <3>2, <3>4, <3>7
    <3>9. QED
      BY <2>2, <3>8
  <2>5. QED
    BY <2>3, <2>4
<1>2. Good(n)
  <2>1. n \notin Bad
    BY <1>1
  <2> HIDE DEF Good
  <2>2. QED
    BY <2>1
<1>3. QED
  BY <1>2

LEMMA PaidCovered ==
    ASSUME Documents(rewards), NEW h \in DOMAIN rewards, NEW g \in DOMAIN rewards, h < g,
           NEW ms, IsFiniteSet(ms)
    PROVE  SumFunction(MinerRewardInTimeRange(h + 1, g - h, ms))
              <= rewards[g].released - rewards[h].released
<1>0. /\ h \in Nat /\ g \in Nat /\ rewards[h].released \in Nat /\ rewards[g].released \in Nat
      /\ ReleasedBefore(rewards[g]) \in Nat /\ rewards[g].reward \in Nat
      /\ rewards[g].released = ReleasedBefore(rewards[g]) + rewards[g].reward
  BY DocumentNumbers
<1>1. PICK n : n = g - h - 1
  OBVIOUS
<1>2. n \in Nat /\ h + n < g /\ n + 1 = g - h /\ h + 1 + n = g /\ h + 1 \in Nat
  BY <1>0, <1>1
<1>3. PICK a, b : /\ a = MinerRewardInTimeRange(h + 1, n, ms)
                  /\ b = MinerRewardInTimeRange(h + 1, n + 1, ms)
  OBVIOUS
<1>4. SumFunction(a) <= ReleasedBefore(rewards[g]) - rewards[h].released
  BY <1>2, <1>3, AnswerCovered
<1>5. /\ SumFunction(a) \in Nat /\ SumFunction(b) \in Nat
      /\ SumFunction(b) <= SumFunction(a) + rewards[g].reward
  <2>1. PICK from : from = h + 1
    OBVIOUS
  <2>2. PICK next : next = n + 1
    OBVIOUS
  <2>3. /\ a = MinerRewardInTimeRange(from, n, ms) /\ b = MinerRewardInTimeRange(from, next, ms)
        /\ from \in Nat /\ g = from + n
    BY <1>2, <1>3, <2>1, <2>2
  <2>4. OneMore(from, n, ms, next, g)
    BY <1>2, <2>2, <2>3, AnswerNext
  <2>5. QED
    BY <2>3, <2>4 DEF OneMore
<1>6. SumFunction(b) <= rewards[g].released - rewards[h].released
  BY <1>0, <1>4, <1>5
<1>7. QED
  BY <1>2, <1>3, <1>6

(* Whoever is asked for, the answer is covered by what was released. *)
THEOREM PaymentsCovered == Spec => []PaidIsReleased
<1>1. TipsetInv => PaidIsReleased
  <2> SUFFICES ASSUME TipsetInv, NEW h \in DOMAIN rewards, NEW g \in DOMAIN rewards, h < g,
                      NEW miners \in SUBSET DOMAIN WorkerOf, NEW workers \in SUBSET Range(WorkerOf),
                      NEW answer \in MinerRewards(h + 1, g - h, miners, workers)
               PROVE  SumFunction(answer) <= rewards[g].released - rewards[h].released
    BY DEF PaidIsReleased
  <2>1. PICK ms \in Requested(miners, workers) : answer = MinerRewardInTimeRange(h + 1, g - h, ms)
    BY DEF MinerRewards
  <2>2. ms \subseteq DOMAIN WorkerOf
    BY DEF Requested, GetMinersByT3
  <2>3. IsFiniteSet(ms)
    BY <2>2, FS_Subset, RewardsAssumption
  <2>4. Documents(rewards)
    BY DEF TipsetInv
  <2>5. QED
    BY <2>1, <2>3, <2>4, PaidCovered
<1>2. QED
  BY <1>1, TipsetsFollow, PTL

-----------------------------------------------------------------------------
(* BlockRewards: what is released after a number of tipsets. *)

LEMMA DivSteps ==
    ASSUME NEW a \in Nat, NEW b \in Nat, NEW d \in Nat \ {0}
    PROVE  (a + b) \div d <= (a \div d) + b
<1>1. PICK p, q : p = (a + b) \div d /\ q = a \div d
  OBVIOUS
<1>2. a + b \in Nat
  OBVIOUS
<1>3. p \in Nat /\ d * p <= a + b
  BY <1>1, <1>2, DivIs
<1>4. q \in Nat /\ a < d * q + d
  BY <1>1, DivIs
<1>5. SUFFICES ASSUME p >= q + b + 1 PROVE FALSE
  BY <1>1, <1>3, <1>4
<1>6. d * p >= d * (q + b + 1)
  BY <1>3, <1>4, <1>5
<1>7. d * (q + b + 1) = d * q + d * b + d /\ d * b >= b
  BY <1>4
<1>8. d * q \in Nat /\ d * b \in Nat /\ d * p \in Nat
  BY <1>3, <1>4
<1>9. QED
  BY <1>3, <1>4, <1>6, <1>7, <1>8

Grown(r) == r + SelfTipsetRewards(TotalRewards - r)

LEMMA GrownIs ==
    ASSUME NEW r \in 0..TotalRewards
    PROVE  /\ SelfTipsetRewards(TotalRewards - r) \in Nat
           /\ Grown(r) \in 0..TotalRewards /\ r <= Grown(r)
<1>1. TotalRewards \in Nat /\ Part \in Nat \ {0} /\ r \in Nat /\ TotalRewards - r \in Nat
  BY BlockRewardsAssumption
<1>2. PICK a, p : a = TotalRewards - r /\ p = a \div Part
  OBVIOUS
<1>3. a \in Nat /\ p \in Nat /\ p <= a
  <2>1. a \in Nat
    BY <1>1, <1>2
  <2>2. p \in Nat /\ Part * p <= a
    BY <1>1, <1>2, <2>1, DivIs
  <2>3. p <= Part * p
    BY <1>1, <2>2
  <2>4. Part * p \in Nat
    BY <1>1, <2>2
  <2>5. QED
    BY <2>1, <2>2, <2>3, <2>4
<1>4. QED
  BY <1>1, <1>2, <1>3 DEF Grown, SelfTipsetRewards

LEMMA GrownMonotone ==
    ASSUME NEW r \in 0..TotalRewards, NEW s \in 0..TotalRewards, r <= s
    PROVE  /\ Grown(r) <= Grown(s)
           /\ SelfTipsetRewards(TotalRewards - s) <= SelfTipsetRewards(TotalRewards - r)
<1>1. TotalRewards \in Nat /\ Part \in Nat \ {0} /\ r \in Nat /\ s \in Nat
  BY BlockRewardsAssumption
<1>2. PICK a, b, c : a = TotalRewards - s /\ b = s - r /\ c = TotalRewards - r
  OBVIOUS
<1>3. a \in Nat /\ b \in Nat /\ c \in Nat /\ c = a + b /\ a <= c
  BY <1>1, <1>2
<1>4. PICK p, q : p = c \div Part /\ q = a \div Part
  OBVIOUS
<1>5. p \in Nat /\ q \in Nat /\ p <= q + b
  BY <1>1, <1>3, <1>4, DivIs, DivSteps
<1>6. q <= p
  BY <1>1, <1>3, <1>4, DivMonotone
<1>7. /\ Grown(r) = r + p /\ Grown(s) = s + q
      /\ SelfTipsetRewards(TotalRewards - s) = q /\ SelfTipsetRewards(TotalRewards - r) = p
  BY <1>2, <1>4 DEF Grown, SelfTipsetRewards
<1>8. QED
  BY <1>1, <1>2, <1>5, <1>6, <1>7

AfterStep(w, base, i) == IF i = 0 THEN base ELSE Grown(w[i - 1])
Afters(w, base, n) == w = [i \in 0..n |-> AfterStep(w, base, i)]

LEMMA AftersExist ==
    ASSUME NEW base, NEW n \in Nat
    PROVE  \E w : Afters(w, base, n)
<1> DEFINE Up(w, j) == /\ w = [i \in 0..n |-> w[i]]
                       /\ \A i \in 0..n : i <= j => w[i] = AfterStep(w, base, i)
           Bad == {j \in Nat : ~\E w : Up(w, j)}
<1>1. Bad = {}
  <2> SUFFICES ASSUME Bad # {} PROVE FALSE
    OBVIOUS
  <2>1. PICK j \in Bad : \A i \in Bad : j <= i
    <3>1. Bad \in SUBSET Nat
      OBVIOUS
    <3> HIDE DEF Bad
    <3>2. QED
      BY <3>1, FirstOfNats
  <2>2. j \in Nat
    BY <2>1
  <2>3. \E w : w = [i \in 0..n |-> w[i]] /\ \A i \in 0..n : i < j => w[i] = AfterStep(w, base, i)
    <3>1. CASE j = 0
      <4>1. PICK w : w = [i \in 0..n |-> 0]
        OBVIOUS
      <4>2. w = [i \in 0..n |-> w[i]]
        BY <4>1
      <4>3. \A i \in 0..n : ~(i < j)
        BY <3>1
      <4>4. QED
        BY <4>2, <4>3
    <3>2. CASE j # 0
      <4>1. j - 1 \in Nat /\ ~(j <= j - 1)
        BY <2>2, <3>2
      <4>2. j - 1 \notin Bad
        <5> HIDE DEF Bad
        <5>1. QED
          BY <2>1, <4>1
      <4>3. PICK w : Up(w, j - 1)
        BY <4>1, <4>2
      <4>4. \A i \in 0..n : i < j => i <= j - 1
        BY <2>2
      <4>5. QED
        BY <4>3, <4>4
    <3>3. QED
      BY <3>1, <3>2
  <2>4. PICK w : w = [i \in 0..n |-> w[i]] /\ \A i \in 0..n : i < j => w[i] = AfterStep(w, base, i)
    BY <2>3
  <2>5. PICK v : v = [i \in 0..n |-> AfterStep(w, base, i)]
    OBVIOUS
  <2>6. \A i \in 0..n : i < j => v[i] = w[i]
    BY <2>4, <2>5
  <2>7. ASSUME NEW i \in 0..n, i <= j PROVE v[i] = AfterStep(v, base, i)
    <3>1. i # 0 => i - 1 \in 0..n /\ i - 1 < j
      BY <2>2, <2>7
    <3>2. i # 0 => v[i - 1] = w[i - 1]
      BY <2>6, <3>1
    <3>3. v[i] = AfterStep(w, base, i)
      BY <2>5
    <3>4. QED
      BY <3>2, <3>3 DEF AfterStep
  <2>8. Up(v, j)
    <3>1. v = [i \in 0..n |-> v[i]]
      BY <2>5
    <3>2. QED
      BY <2>7, <3>1
  <2> HIDE DEF Up
  <2>9. QED
    BY <2>1, <2>8
<1>2. PICK w : Up(w, n)
  BY <1>1
<1>3. \A i \in 0..n : w[i] = AfterStep(w, base, i)
  BY <1>2
<1>4. w = [i \in 0..n |-> AfterStep(w, base, i)]
  BY <1>2, <1>3
<1>5. QED
  BY <1>4 DEF Afters

LEMMA AfterIs ==
    ASSUME NEW base, NEW n \in Nat
    PROVE  \E w : Afters(w, base, n) /\ After(base, n) = w[n]
<1> DEFINE w == CHOOSE v : Afters(v, base, n)
<1>1. Afters(w, base, n)
  BY AftersExist
<1>2. After(base, n) = w[n]
  BY DEF After, Afters, AfterStep, Grown
<1> HIDE DEF w
<1>3. QED
  BY <1>1, <1>2

LEMMA AftersAgree ==
    ASSUME NEW base, NEW n \in Nat, NEW m \in Nat, n <= m,
           NEW w, Afters(w, base, n), NEW v, Afters(v, base, m)
    PROVE  w[n] = v[n]
<1> DEFINE Bad == {i \in 0..n : w[i] # v[i]}
<1>0. /\ \A i \in 0..n : w[i] = AfterStep(w, base, i)
      /\ \A i \in 0..m : v[i] = AfterStep(v, base, i)
  BY DEF Afters
<1>1. Bad = {}
  <2> SUFFICES ASSUME Bad # {} PROVE FALSE
    OBVIOUS
  <2>1. PICK i \in Bad : \A j \in Bad : i <= j
    <3>1. Bad \in SUBSET Nat
      OBVIOUS
    <3> HIDE DEF Bad
    <3>2. QED
      BY <3>1, FirstOfNats
  <2>2. i \in 0..n /\ i \in 0..m /\ w[i] # v[i]
    BY <2>1
  <2>3. w[i] = AfterStep(w, base, i) /\ v[i] = AfterStep(v, base, i)
    BY <1>0, <2>2
  <2>4. i # 0
    BY <2>2, <2>3 DEF AfterStep
  <2>5. i - 1 \in 0..n /\ ~(i <= i - 1)
    BY <2>2, <2>4
  <2>6. w[i - 1] = v[i - 1]
    <3>1. i - 1 \notin Bad
      <4> HIDE DEF Bad
      <4>1. QED
        BY <2>1, <2>5
    <3>2. QED
      BY <2>5, <3>1
  <2>7. QED
    BY <2>2, <2>3, <2>4, <2>6 DEF AfterStep
<1>2. n \in 0..n /\ n \notin Bad
  BY <1>1
<1>3. QED
  BY <1>2

LEMMA AfterNext ==
    ASSUME NEW base, NEW n \in Nat
    PROVE  After(base, 0) = base /\ After(base, n + 1) = Grown(After(base, n))
<1>1. After(base, 0) = base
  <2>1. PICK w : Afters(w, base, 0) /\ After(base, 0) = w[0]
    BY AfterIs
  <2>2. QED
    BY <2>1 DEF Afters, AfterStep
<1>2. After(base, n + 1) = Grown(After(base, n))
  <2>0. PICK m : m = n + 1
    OBVIOUS
  <2>1. PICK w : Afters(w, base, n) /\ After(base, n) = w[n]
    BY AfterIs
  <2>2. m \in Nat /\ n <= m /\ m \in 0..m /\ m # 0 /\ m - 1 = n
    BY <2>0
  <2>3. PICK v : Afters(v, base, m) /\ After(base, m) = v[m]
    BY <2>2, AfterIs
  <2>4. v[m] = Grown(v[n])
    <3>1. v[m] = AfterStep(v, base, m)
      BY <2>2, <2>3 DEF Afters
    <3>2. QED
      BY <2>2, <3>1 DEF AfterStep
  <2>5. w[n] = v[n]
    BY <2>1, <2>2, <2>3, AftersAgree
  <2>6. QED
    BY <2>0, <2>1, <2>3, <2>4, <2>5
<1>3. QED
  BY <1>1, <1>2

(* It never exceeds what there is, begins with what was released before,   *)
(* is no less from a higher beginning and no more than at a steady rate.   *)
LEMMA AfterGrows ==
    ASSUME NEW n \in Nat, NEW a \in 0..TotalRewards
    PROVE  /\ After(a, n) \in 0..TotalRewards /\ a <= After(a, n)
           /\ \A b \in a..TotalRewards : After(a, n) <= After(b, n)
           /\ After(a, n) <= a + n * SelfTipsetRewards(TotalRewards - a)
<1> DEFINE Good(i) ==
             \A x \in 0..TotalRewards :
                /\ After(x, i) \in 0..TotalRewards /\ x <= After(x, i)
                /\ \A y \in x..TotalRewards : After(x, i) <= After(y, i)
                /\ After(x, i) <= x + i * SelfTipsetRewards(TotalRewards - x)
           Bad == {i \in Nat : ~Good(i)}
<1>0. TotalRewards \in Nat
  BY BlockRewardsAssumption
<1>1. Bad = {}
  <2> SUFFICES ASSUME Bad # {} PROVE FALSE
    OBVIOUS
  <2>1. PICK i \in Bad : \A j \in Bad : i <= j
    <3>1. Bad \in SUBSET Nat
      OBVIOUS
    <3> HIDE DEF Bad
    <3>2. QED
      BY <3>1, FirstOfNats
  <2>2. i \in Nat /\ ~Good(i)
    BY <2>1
  <2>3. CASE i = 0
    <3>1. \A x : After(x, 0) = x
      BY AfterNext
    <3>2. Good(0)
      <4> SUFFICES ASSUME NEW x \in 0..TotalRewards
                   PROVE  /\ After(x, 0) \in 0..TotalRewards /\ x <= After(x, 0)
                          /\ \A y \in x..TotalRewards : After(x, 0) <= After(y, 0)
                          /\ After(x, 0) <= x + 0 * SelfTipsetRewards(TotalRewards - x)
        OBVIOUS
      <4>1. 0 * SelfTipsetRewards(TotalRewards - x) = 0
        BY GrownIs
      <4>2. QED
        BY <1>0, <3>1, <4>1
    <3>3. QED
      BY <2>2, <2>3, <3>2
  <2>4. CASE i # 0
    <3>1. PICK j : j = i - 1
      OBVIOUS
    <3>2. j \in Nat /\ i = j + 1 /\ ~(i <= j)
      BY <2>2, <2>4, <3>1
    <3>3. Good(j)
      <4>1. j \notin Bad
        <5> HIDE DEF Bad
        <5>1. QED
          BY <2>1, <3>2
      <4> HIDE DEF Good
      <4>2. QED
        BY <3>2, <4>1
    <3>4. \A x : After(x, i) = Grown(After(x, j))
      BY <3>2, AfterNext
    <3>5. ASSUME NEW x \in 0..TotalRewards
          PROVE  /\ After(x, i) \in 0..TotalRewards /\ x <= After(x, i)
                 /\ \A y \in x..TotalRewards : After(x, i) <= After(y, i)
                 /\ After(x, i) <= x + i * SelfTipsetRewards(TotalRewards - x)
      <4>1. PICK u : u = After(x, j)
        OBVIOUS
      <4>2. /\ u \in 0..TotalRewards /\ x <= u
            /\ u <= x + j * SelfTipsetRewards(TotalRewards - x)
        BY <3>3, <4>1
      <4>3. After(x, i) = Grown(u)
        BY <3>4, <4>1
      <4>4. Grown(u) \in 0..TotalRewards /\ u <= Grown(u)
        BY <4>2, GrownIs
      <4>5. ASSUME NEW y \in x..TotalRewards PROVE After(x, i) <= After(y, i)
        <5>1. y \in 0..TotalRewards
          BY <1>0
        <5>2. After(y, j) \in 0..TotalRewards /\ u <= After(y, j) /\ After(y, i) = Grown(After(y, j))
          BY <3>3, <3>4, <4>1, <5>1
        <5>3. Grown(u) <= Grown(After(y, j))
          BY <4>2, <5>2, GrownMonotone
        <5>4. QED
          BY <4>3, <5>2, <5>3
      <4>6. After(x, i) <= x + i * SelfTipsetRewards(TotalRewards - x)
        <5>1. PICK r, s : r = SelfTipsetRewards(TotalRewards - x) /\ s = SelfTipsetRewards(TotalRewards - u)
          OBVIOUS
        <5>2. r \in Nat /\ s \in Nat /\ s <= r
          BY <4>2, <5>1, GrownIs, GrownMonotone
        <5>3. Grown(u) = u + s
          BY <5>1 DEF Grown
        <5>4. i * r = j * r + r /\ j * r \in Nat
          BY <3>2, <5>2
        <5>5. u + s <= x + i * r
          BY <1>0, <4>2, <5>1, <5>2, <5>4
        <5>6. QED
          BY <4>3, <5>1, <5>3, <5>5
      <4>7. x <= After(x, i)
        BY <1>0, <4>2, <4>3, <4>4
      <4>8. QED
        BY <4>3, <4>4, <4>5, <4>6, <4>7
    <3>6. Good(i)
      BY <3>5
    <3>7. QED
      BY <2>2, <3>6
  <2>5. QED
    BY <2>3, <2>4
<1>2. Good(n)
  <2>1. n \notin Bad
    BY <1>1
  <2> HIDE DEF Good
  <2>2. QED
    BY <2>1
<1> HIDE DEF Bad
<1>3. QED
  BY <1>2

(* The tipsets of a stretch after those before it. *)
LEMMA AfterJoins ==
    ASSUME NEW base, NEW n \in Nat, NEW m \in Nat
    PROVE  After(base, n + m) = After(After(base, n), m)
<1> DEFINE Good(i) == After(base, n + i) = After(After(base, n), i)
           Bad == {i \in Nat : ~Good(i)}
<1>1. Bad = {}
  <2> SUFFICES ASSUME Bad # {} PROVE FALSE
    OBVIOUS
  <2>1. PICK i \in Bad : \A j \in Bad : i <= j
    <3>1. Bad \in SUBSET Nat
      OBVIOUS
    <3> HIDE DEF Bad
    <3>2. QED
      BY <3>1, FirstOfNats
  <2>2. i \in Nat /\ ~Good(i)
    BY <2>1
  <2>3. CASE i = 0
    <3>1. n + i = n
      BY <2>3
    <3>2. Good(i)
      BY <2>3, <3>1, AfterNext
    <3>3. QED
      BY <2>2, <3>2
  <2>4. CASE i # 0
    <3>1. PICK j : j = i - 1
      OBVIOUS
    <3>2. j \in Nat /\ i = j + 1 /\ ~(i <= j)
      BY <2>2, <2>4, <3>1
    <3>3. Good(j)
      <4>1. j \notin Bad
        <5> HIDE DEF Bad
        <5>1. QED
          BY <2>1, <3>2
      <4> HIDE DEF Good
      <4>2. QED
        BY <3>2, <4>1
    <3>4. PICK l : l = n + j
      OBVIOUS
    <3>5. l \in Nat /\ n + i = l + 1
      BY <3>2, <3>4
    <3>6. After(base, n + i) = Grown(After(base, l))
      BY <3>5, AfterNext
    <3>7. After(After(base, n), i) = Grown(After(After(base, n), j))
      BY <3>2, AfterNext
    <3>8. Good(i)
      BY <3>3, <3>4, <3>6, <3>7
    <3>9. QED
      BY <2>2, <3>8
  <2>5. QED
    BY <2>3, <2>4
<1>2. Good(m)
  <2>1. m \notin Bad
    BY <1>1
  <2> HIDE DEF Good
  <2>2. QED
    BY <2>1
<1>3. QED
  BY <1>2

LEMMA ScheduleGrows ==
    ASSUME NEW n \in Nat, NEW m \in Nat, n <= m
    PROVE  /\ After(0, n) \in 0..TotalRewards /\ After(0, m) \in 0..TotalRewards
           /\ After(0, n) <= After(0, m)
<1>1. PICK d : d = m - n
  OBVIOUS
<1>2. d \in Nat /\ m = n + d /\ 0 \in 0..TotalRewards
  BY <1>1, BlockRewardsAssumption
<1>3. PICK a : a = After(0, n)
  OBVIOUS
<1>4. a \in 0..TotalRewards /\ After(0, m) = After(a, d)
  BY <1>2, <1>3, AfterGrows, AfterJoins
<1>5. QED
  BY <1>2, <1>3, <1>4, AfterGrows

-----------------------------------------------------------------------------
(* The records are never behind the schedule. *)

Records(recs) ==
    /\ DOMAIN recs \subseteq Nat /\ IsFiniteSet(DOMAIN recs)
    /\ \A h \in DOMAIN recs : recs[h] \in 0..TotalRewards /\ After(0, h) <= recs[h]

LoopInv ==
    /\ Records(released)
    /\ at \in Nat /\ head \in Nat
    /\ lpc # "off" => sum \in 0..TotalRewards /\ After(0, at) <= sum

LEMMA PairOfNats ==
    ASSUME NEW a \in Nat, NEW b \in Nat
    PROVE  IsFiniteSet({a, b}) /\ {a, b} # {} /\ {a, b} \in SUBSET Nat
<1>1. 0 \in Int /\ a + b \in Int /\ {a, b} \subseteq 0..(a + b)
  OBVIOUS
<1>2. IsFiniteSet(0..(a + b))
  BY <1>1, FS_Interval
<1>3. IsFiniteSet({a, b})
  BY <1>1, <1>2, FS_Subset
<1>4. QED
  BY <1>3

LEMMA BatchIs ==
    ASSUME at \in Nat, head \in Nat
    PROVE  /\ Batch \subseteq Nat /\ IsFiniteSet(Batch)
           /\ BatchEnd \in Nat /\ at <= BatchEnd /\ \A h \in Batch : h < BatchEnd
<1>1. \A h \in Batch : h \in Nat /\ at <= h /\ h < head
  BY DEF Batch, Due
<1>2. IsFiniteSet(Batch)
  <2>1. IsFiniteSet(at..(head - 1))
    BY FS_Interval
  <2>2. Batch \subseteq at..(head - 1)
    BY DEF Batch, Due
  <2>3. QED
    BY <2>1, <2>2, FS_Subset
<1>3. CASE IsFull
  <2>1. Batch # {}
    BY <1>3, FS_EmptySet, BlockRewardsAssumption DEF IsFull
  <2>2. Max(Batch) \in Batch /\ \A h \in Batch : h <= Max(Batch)
    BY <1>1, <1>2, <2>1, MaxOfNats
  <2>3. PICK top : top = Max(Batch)
    OBVIOUS
  <2>4. BatchEnd = top + 1
    BY <1>3, <2>3 DEF BatchEnd
  <2>5. QED
    BY <1>1, <1>2, <2>2, <2>3, <2>4
<1>4. CASE ~IsFull
  <2>1. IsFiniteSet({at, head}) /\ {at, head} # {} /\ {at, head} \in SUBSET Nat
    BY PairOfNats
  <2>2. Max({at, head}) \in {at, head} /\ \A i \in {at, head} : i <= Max({at, head})
    BY <2>1, MaxOfNats
  <2>3. PICK top : top = Max({at, head})
    OBVIOUS
  <2>4. BatchEnd = top /\ top \in Nat /\ at <= top /\ head <= top
    BY <1>4, <2>2, <2>3 DEF BatchEnd
  <2>5. QED
    BY <1>1, <1>2, <2>4
<1>5. QED
  BY <1>3, <1>4

LEMMA RecordsGrow ==
    ASSUME NEW recs, Records(recs), NEW written \in SUBSET Nat, IsFiniteSet(written),
           NEW value \in 0..TotalRewards, \A h \in written : After(0, h) <= value,
           NEW grown, grown = [h \in DOMAIN recs \cup written |->
                                  IF h \in written THEN value ELSE recs[h]]
    PROVE  Records(grown)
<1>1. DOMAIN grown = DOMAIN recs \cup written
  OBVIOUS
<1>2. IsFiniteSet(DOMAIN grown)
  BY <1>1, FS_Union DEF Records
<1>3. \A h \in DOMAIN grown : grown[h] \in 0..TotalRewards /\ After(0, h) <= grown[h]
  BY <1>1 DEF Records
<1>4. QED
  BY <1>1, <1>2, <1>3 DEF Records

LEMMA LoopInitInv == Init => LoopInv
<1> SUFFICES ASSUME Init PROVE LoopInv
  OBVIOUS
<1>1. released = [h \in {} |-> 0] /\ lpc = "off" /\ at = 0 /\ head = 0
  BY DEF Init, BlockInit
<1>2. DOMAIN released = {} /\ IsFiniteSet(DOMAIN released)
  BY <1>1, FS_EmptySet
<1>3. QED
  BY <1>1, <1>2 DEF LoopInv, Records

LEMMA BatchStep ==
    ASSUME LoopInv, UpsertBatch
    PROVE  LoopInv'
<1>1. lpc = "batch" /\ sum \in 0..TotalRewards /\ After(0, at) <= sum /\ Records(released)
      /\ at \in Nat /\ head \in Nat
  BY DEF LoopInv, UpsertBatch
<1>2. PICK end : end = BatchEnd
  OBVIOUS
<1>3. /\ Batch \subseteq Nat /\ IsFiniteSet(Batch)
      /\ end \in Nat /\ at <= end /\ \A h \in Batch : h < end
  BY <1>1, <1>2, BatchIs
<1>4. PICK n : n = end - at
  OBVIOUS
<1>5. n \in Nat /\ end = at + n
  BY <1>1, <1>3, <1>4
<1>6. PICK value : value = After(sum, n)
  OBVIOUS
<1>7. at' = end /\ sum' = value /\ head' = head
  BY <1>2, <1>4, <1>6 DEF UpsertBatch
<1>8. value \in 0..TotalRewards /\ After(0, end) <= value
  <2>1. PICK base : base = After(0, at)
    OBVIOUS
  <2>2. base \in 0..TotalRewards /\ sum \in base..TotalRewards
    BY <1>1, <2>1, ScheduleGrows, BlockRewardsAssumption
  <2>3. After(0, end) = After(base, n)
    BY <1>1, <1>5, <2>1, AfterJoins
  <2>4. After(base, n) <= After(sum, n) /\ After(sum, n) \in 0..TotalRewards
    BY <1>1, <1>5, <2>2, AfterGrows
  <2>5. QED
    BY <1>6, <2>3, <2>4
<1>9. Records(released')
  <2>1. PICK upto : released' = Upserted(upto, value)
    BY <1>7 DEF UpsertBatch
  <2>2. PICK written : written = {h \in Batch : h < upto}
    OBVIOUS
  <2>3. released' = [h \in DOMAIN released \cup written |->
                        IF h \in written THEN value ELSE released[h]]
    BY <2>1, <2>2 DEF Upserted
  <2>4. written \in SUBSET Nat /\ IsFiniteSet(written)
    BY <1>3, <2>2, FS_Subset
  <2>5. \A h \in written : After(0, h) <= value
    <3> SUFFICES ASSUME NEW h \in written PROVE After(0, h) <= value
      OBVIOUS
    <3>1. h \in Nat /\ h <= end
      BY <1>3, <2>2
    <3>2. After(0, h) <= After(0, end) /\ After(0, h) \in 0..TotalRewards
          /\ After(0, end) \in 0..TotalRewards
      BY <1>3, <3>1, ScheduleGrows
    <3>3. QED
      BY <1>8, <3>2
  <2>6. QED
    BY <1>1, <1>8, <2>3, <2>4, <2>5, RecordsGrow
<1>10. QED
  BY <1>1, <1>3, <1>7, <1>8, <1>9 DEF LoopInv, Records

LEMMA HighestRecord ==
    ASSUME NEW recs, Records(recs), DOMAIN recs # {}
    PROVE  /\ Max(DOMAIN recs) \in DOMAIN recs /\ Max(DOMAIN recs) \in Nat
           /\ recs[Max(DOMAIN recs)] \in 0..TotalRewards
           /\ After(0, Max(DOMAIN recs)) <= recs[Max(DOMAIN recs)]
<1>1. Max(DOMAIN recs) \in DOMAIN recs
  BY MaxOfNats DEF Records
<1>2. QED
  BY <1>1 DEF Records

LEMMA LoopStepInv ==
    ASSUME LoopInv, [Next]_vars
    PROVE  LoopInv'
<1>1. CASE InitBlockRewards /\ StartLoop
  <2>1. head' \in Nat /\ released' = released /\ Records(released)
    BY <1>1, BlockRewardsAssumption DEF StartLoop, LoopInv
  <2>2. CASE DOMAIN released = {}
    <3>1. at' = 0 /\ sum' = 0
      BY <1>1, <2>2 DEF StartLoop, models_block_reward_head
    <3>2. After(0, 0) = 0 /\ 0 \in 0..TotalRewards
      BY AfterNext, BlockRewardsAssumption
    <3>3. QED
      BY <2>1, <3>1, <3>2 DEF LoopInv
  <2>3. CASE DOMAIN released # {}
    <3>1. at' = Max(DOMAIN released) /\ sum' = released[Max(DOMAIN released)]
      BY <1>1, <2>3 DEF StartLoop, models_block_reward_head
    <3>2. QED
      BY <2>1, <2>3, <3>1, HighestRecord DEF LoopInv
  <2>4. QED
    BY <2>2, <2>3
<1>2. CASE InitBlockRewards /\ UpsertBatch
  BY <1>2, BatchStep
<1>3. CASE InitBlockRewards /\ CrashLoop
  BY <1>3 DEF CrashLoop, LoopInv
<1>4. CASE UNCHANGED loopVars
  BY <1>4 DEF loopVars, LoopInv
<1>5. QED
  BY <1>1, <1>2, <1>3, <1>4 DEF Next, Store, SyncTipsetRewardsDb, InitBlockRewards, BlockNext,
     Ask, LoopEnds, RangeFound, RangeEmpty, Reward, HeightStart, HeightEnd, RequestFails,
     vars, rewardVars

(* The records of the schedule, and the total the loop goes on from, are   *)
(* at no height behind the schedule.  (loop_init_block_rewards)            *)
THEOREM RecordsAhead == Spec => []LoopInv
<1>1. Init => LoopInv
  BY LoopInitInv
<1>2. LoopInv /\ [Next]_vars => LoopInv'
  BY LoopStepInv
<1>3. QED
  BY <1>1, <1>2, PTL DEF Spec

LEMMA RecordCovers ==
    ASSUME LoopInv, NEW h \in Nat
    PROVE  /\ released_reward_at_height(h) \in Nat
           /\ After(0, h) <= released_reward_at_height(h)
<1> DEFINE below == {g \in DOMAIN released : g <= h}
<1>1. PICK from, rel : from = Record(h).height /\ rel = Record(h).released
  OBVIOUS
<1>2. from \in Nat /\ from <= h /\ rel \in 0..TotalRewards /\ After(0, from) <= rel
  <2>1. CASE below = {}
    <3>1. from = 0 /\ rel = 0
      BY <1>1, <2>1 DEF Record
    <3>2. After(0, 0) = 0 /\ 0 \in 0..TotalRewards
      BY AfterNext, BlockRewardsAssumption
    <3>3. QED
      BY <3>1, <3>2
  <2>2. CASE below # {}
    <3>1. below \in SUBSET Nat /\ IsFiniteSet(below) /\ below \subseteq DOMAIN released
      BY FS_Subset DEF LoopInv, Records
    <3>2. from = Max(below) /\ rel = released[Max(below)]
      BY <1>1, <2>2 DEF Record
    <3>3. Max(below) \in below
      <4> HIDE DEF below
      <4>1. QED
        BY <2>2, <3>1, MaxOfNats
    <3>4. QED
      BY <3>1, <3>2, <3>3 DEF LoopInv, Records
  <2>3. QED
    BY <2>1, <2>2
<1>3. PICK n, base, rate : n = h - from /\ base = After(0, from)
                           /\ rate = SelfTipsetRewards(TotalRewards - rel)
  OBVIOUS
<1>4. n \in Nat /\ h = from + n
  BY <1>2, <1>3
<1>5. base \in 0..TotalRewards /\ rel \in base..TotalRewards
  BY <1>2, <1>3, ScheduleGrows
<1>6. After(0, h) = After(base, n)
  BY <1>2, <1>3, <1>4, AfterJoins
<1>7. After(base, n) <= After(rel, n) /\ After(base, n) \in 0..TotalRewards
      /\ After(rel, n) \in 0..TotalRewards
  BY <1>4, <1>5, <1>2, AfterGrows
<1>8. After(rel, n) <= rel + n * rate
  BY <1>2, <1>3, <1>4, AfterGrows
<1>9. released_reward_at_height(h) = rel + n * rate
  BY <1>1, <1>3 DEF released_reward_at_height
<1>10. rate \in Nat /\ n * rate \in Nat
  BY <1>2, <1>3, <1>4, GrownIs
<1>11. QED
  BY <1>2, <1>6, <1>7, <1>8, <1>9, <1>10

LEMMA HeadsTop == Max(Heads) \in Nat /\ \A h \in HeightsOf(Mined) : h <= Max(Heads)
<1>1. PICK g \in Heads : \A h \in HeightsOf(Mined) : h <= g
  BY BlockRewardsAssumption
<1>2. Heads \in SUBSET Nat /\ IsFiniteSet(Heads) /\ Heads # {}
  BY <1>1, BlockRewardsAssumption
<1>3. Max(Heads) \in Heads /\ \A i \in Heads : i <= Max(Heads)
  BY <1>2, MaxOfNats
<1>4. HeightsOf(Mined) \subseteq Nat
  BY MinedAssumption DEF HeightsOf
<1>5. PICK top : top = Max(Heads)
  OBVIOUS
<1>6. top \in Nat /\ g \in Nat /\ g <= top
  BY <1>2, <1>3, <1>5
<1>7. \A h \in HeightsOf(Mined) : h <= top
  BY <1>1, <1>4, <1>6
<1>8. QED
  BY <1>5, <1>6, <1>7

(* What the api takes for released is never less than the schedule.        *)
THEOREM ReleasedCovered == Spec => []NeverUnderstated
<1>1. LoopInv => NeverUnderstated
  <2> SUFFICES ASSUME LoopInv, NEW h \in 0..Max(Heads)
               PROVE  Scheduled[h] <= released_reward_at_height(h)
    BY DEF NeverUnderstated
  <2>1. h \in Nat
    BY HeadsTop
  <2>2. QED
    BY <2>1, RecordCovers DEF Scheduled
<1>2. QED
  BY <1>1, RecordsAhead, PTL

-----------------------------------------------------------------------------
(* The answers of the api. *)

Seen(i) == InPeriod(seen, FirstStart(req) + i * req.diff,
                       FirstStart(req) + i * req.diff + req.diff) \ {0}
Name(i) == IF req.op = "cumulative" THEN FirstStart(req) + i * req.diff + req.diff
           ELSE FirstStart(req) + i * req.diff

(* A window that has blocks, and does not lie ahead, has a point. *)
IsShown(i) ==
    Seen(i) # {} /\ Name(i) <= HeadTime /\ FirstStart(req) >= GenesisTime =>
        \E j \in DOMAIN points :
            points[j].from = Name(i) /\ Scheduled[Max(Seen(i))] <= points[j].value

Points == [from : Nat, value : Nat]

(* CumulativeBlockRewardsOverTime, FilOutStanding: the windows done. *)
WindowsInv ==
    /\ seen \subseteq HeightsOf(blocks)
    /\ k \in Nat /\ start = FirstStart(req) + k * req.diff
    /\ points \in Seq(Points)
    /\ rpc = "reward" => high \in Nat /\ \A h \in Seen(k) : h <= high
    /\ clean /\ rpc \in {"range", "reward"} => \A i \in 0..(k - 1) : IsShown(i)
    /\ clean /\ rpc = "answered" => \A i \in 0..(req.repeate - 1) : IsShown(i)

(* BalanceIncreased: the heights of the period. *)
Period == InPeriod(seen, req.start, req.start + req.diff) \ {0}
PeriodInv ==
    /\ seen \subseteq Tipsets /\ start = req.start
    /\ rpc = "to" => \A h \in Period : high <= h
    /\ rpc = "answered" => \A h \in Period : points[1].from <= h /\ h <= points[1].value

RequestInv ==
    /\ rpc \in {"idle", "range", "reward", "from", "to", "answered"}
    /\ rpc # "idle" => req \in Asks
    /\ rpc \in {"range", "reward"} => req.op # "balance"
    /\ rpc \in {"from", "to"} => req.op = "balance"
    /\ rpc # "idle" => IF req.op = "balance" THEN PeriodInv ELSE WindowsInv

LEMMA LowestIs ==
    ASSUME NEW S, S # {}, S \subseteq Nat
    PROVE  Min(S) \in S /\ \A h \in S : Min(S) <= h
<1>1. \E h \in S : \A g \in S : h <= g
  BY FirstOfNats
<1>2. QED
  BY <1>1 DEF Min

(* What is stored stays stored. *)
LEMMA HeightsGrow ==
    ASSUME [Next]_vars
    PROVE  HeightsOf(blocks) \subseteq HeightsOf(blocks)' /\ Tipsets \subseteq Tipsets'
<1>1. blocks \subseteq blocks'
  BY DEF Next, Store, StoreBlock, SyncTipsetRewardsDb, InitBlockRewards, vars, blockVars
<1>2. HeightsOf(blocks) \subseteq HeightsOf(blocks)'
  BY <1>1 DEF HeightsOf
<1>3. QED
  BY <1>1, <1>2 DEF Tipsets

LEMMA HeadTimeIs == HeadTime \in Nat /\ GenesisTime \in Nat /\ Word \in Nat \ {0}
BY HeadsTop, FsApiAssumption DEF HeadTime, Time

LEMMA ModIs ==
    ASSUME NEW a \in Int, NEW d \in Nat \ {0}
    PROVE  a % d \in Nat
OBVIOUS

LEMMA AskIs ==
    ASSUME NEW r \in Asks
    PROVE  /\ r.start \in Nat /\ r.diff \in Nat /\ r.repeate \in Nat
           /\ r.op \in {"cumulative", "outstanding", "balance"}
           /\ FirstStart(r) \in Nat
           /\ r.op = "balance" => FirstStart(r) = r.start
<1>1. /\ r.start \in Nat /\ r.diff \in Nat /\ r.repeate \in Nat
      /\ r.op \in {"cumulative", "outstanding", "balance"}
  BY BlockRewardsAssumption
<1>2. CASE r.op = "cumulative"
  <2>1. /\ IsFiniteSet({r.start, GenesisTime}) /\ {r.start, GenesisTime} # {}
        /\ {r.start, GenesisTime} \in SUBSET Nat
    BY <1>1, HeadTimeIs, PairOfNats
  <2>2. Max({r.start, GenesisTime}) \in Nat
    BY <2>1, MaxOfNats
  <2>3. QED
    BY <1>1, <1>2, <2>2 DEF FirstStart
<1>3. CASE r.op = "outstanding"
  <2>1. PICK d : d = r.diff * r.repeate
    OBVIOUS
  <2>2. d \in Nat
    BY <1>1, <2>1
  <2>3. PICK a : a = (IF r.start = 0 THEN HeadTime ELSE r.start) + Word - d
    OBVIOUS
  <2>4. a \in Int
    BY <1>1, <2>2, <2>3, HeadTimeIs
  <2>5. a % Word \in Nat
    BY <2>4, HeadTimeIs, ModIs
  <2>6. FirstStart(r) = a % Word
    BY <1>3, <2>1, <2>3 DEF FirstStart
  <2>7. QED
    BY <1>1, <1>3, <2>5, <2>6
<1>4. CASE r.op = "balance"
  BY <1>1, <1>4 DEF FirstStart
<1>5. QED
  BY <1>1, <1>2, <1>3, <1>4

(* The windows follow one another. *)
LEMMA NextWindow ==
    ASSUME NEW a \in Nat, NEW d \in Nat, NEW i \in Nat
    PROVE  i * d \in Nat /\ a + (i + 1) * d = a + i * d + d
<1>1. i * d \in Nat
  OBVIOUS
<1>2. (i + 1) * d = i * d + d
  OBVIOUS
<1>3. QED
  BY <1>1, <1>2

LEMMA LaterWindow ==
    ASSUME NEW a \in Nat, NEW d \in Nat, NEW i \in Nat, NEW n \in Nat, n <= i
    PROVE  a + n * d <= a + i * d
<1>1. PICK m : m = i - n
  OBVIOUS
<1>2. m \in Nat /\ i = n + m
  BY <1>1
<1>3. i * d = n * d + m * d
  BY <1>2
<1>4. m * d \in Nat /\ n * d \in Nat
  BY <1>2
<1>5. QED
  BY <1>3, <1>4

LEMMA AppendKeeps ==
    ASSUME NEW T, NEW s \in Seq(T), NEW e \in T
    PROVE  /\ Append(s, e) \in Seq(T)
           /\ \A j \in DOMAIN s : j \in DOMAIN Append(s, e) /\ Append(s, e)[j] = s[j]
           /\ \E j \in DOMAIN Append(s, e) : Append(s, e)[j] = e
<1>1. Append(s, e) \in Seq(T) /\ Len(Append(s, e)) = Len(s) + 1 /\ Len(s) \in Nat
  OBVIOUS
<1>2. \A j \in DOMAIN s : j \in DOMAIN Append(s, e) /\ Append(s, e)[j] = s[j]
  OBVIOUS
<1>3. Len(s) + 1 \in DOMAIN Append(s, e) /\ Append(s, e)[Len(s) + 1] = e
  BY <1>1
<1>4. QED
  BY <1>1, <1>2, <1>3

LEMMA SeenIs ==
    ASSUME StoreInv, seen \subseteq HeightsOf(blocks), NEW i
    PROVE  /\ Seen(i) \subseteq HeightsOf(Mined) /\ Seen(i) \subseteq Nat
           /\ Seen(i) # {} => Max(Seen(i)) \in Seen(i)
<1>1. Seen(i) \subseteq HeightsOf(Mined)
  BY DEF StoreInv, HeightsOf, Seen, InPeriod
<1>2. HeightsOf(Mined) \subseteq Nat
  BY MinedAssumption DEF HeightsOf
<1>3. QED
  BY <1>1, <1>2, HighestIs

(* A point that was there is there. *)
Extends == \A j \in DOMAIN points : j \in DOMAIN points' /\ points'[j] = points[j]

LEMMA StillShown ==
    ASSUME req' = req, seen' = seen, Extends, NEW i, IsShown(i)
    PROVE  IsShown(i)'
<1>1. Seen(i)' = Seen(i) /\ Name(i)' = Name(i) /\ FirstStart(req)' = FirstStart(req)
  BY DEF Seen, Name, FirstStart
<1>2. HeadTime' = HeadTime /\ Scheduled' = Scheduled
  BY DEF HeadTime, Time, Scheduled, After, SelfTipsetRewards
<1>3. CASE Seen(i) # {} /\ Name(i) <= HeadTime /\ FirstStart(req) >= GenesisTime
  <2>1. PICK j \in DOMAIN points :
          points[j].from = Name(i) /\ Scheduled[Max(Seen(i))] <= points[j].value
    BY <1>3 DEF IsShown
  <2>2. j \in DOMAIN points' /\ points'[j] = points[j]
    BY <2>1 DEF Extends
  <2>3. points'[j].from = Name(i)' /\ Scheduled'[Max(Seen(i)')] <= points'[j].value
    BY <1>1, <1>2, <2>1, <2>2
  <2>4. QED
    BY <2>2, <2>3 DEF IsShown
<1>4. CASE ~(Seen(i) # {} /\ Name(i) <= HeadTime /\ FirstStart(req) >= GenesisTime)
  BY <1>1, <1>2, <1>4 DEF IsShown
<1>5. QED
  BY <1>3, <1>4

(* Whatever is stored or recorded meanwhile. *)
LEMMA RequestWaits ==
    ASSUME RequestInv, [Next]_vars, UNCHANGED askVars
    PROVE  RequestInv'
<1>1. HeightsOf(blocks) \subseteq HeightsOf(blocks)' /\ Tipsets \subseteq Tipsets'
  BY HeightsGrow
<1>2. UNCHANGED <<rpc, req, k, start, high, points, seen, clean>>
  BY DEF askVars
<1>3. Extends
  BY <1>2 DEF Extends
<1>4. CASE rpc = "idle"
  BY <1>2, <1>4 DEF RequestInv
<1>5. CASE rpc # "idle" /\ req.op = "balance"
  <2>1. PeriodInv'
    BY <1>1, <1>2, <1>5 DEF RequestInv, PeriodInv, Period, InPeriod
  <2>2. QED
    BY <1>2, <1>5, <2>1 DEF RequestInv
<1>6. CASE rpc # "idle" /\ req.op # "balance"
  <2>1. WindowsInv
    BY <1>6 DEF RequestInv
  <2>2. seen' \subseteq HeightsOf(blocks)'
    BY <1>1, <1>2, <2>1 DEF WindowsInv
  <2>3. k' \in Nat /\ start' = FirstStart(req)' + k' * req'.diff /\ points' \in Seq(Points)
    BY <1>2, <2>1 DEF WindowsInv, FirstStart
  <2>4. rpc' = "reward" => high' \in Nat /\ \A h \in Seen(k)' : h <= high'
    BY <1>2, <2>1 DEF WindowsInv, Seen, FirstStart
  <2>5. \A i : IsShown(i) => IsShown(i)'
    BY <1>2, <1>3, StillShown
  <2>6. clean' /\ rpc' \in {"range", "reward"} => \A i \in 0..(k' - 1) : IsShown(i)'
    BY <1>2, <2>1, <2>5 DEF WindowsInv
  <2>7. clean' /\ rpc' = "answered" => \A i \in 0..(req'.repeate - 1) : IsShown(i)'
    BY <1>2, <2>1, <2>5 DEF WindowsInv
  <2>8. WindowsInv'
    BY <2>2, <2>3, <2>4, <2>6, <2>7 DEF WindowsInv
  <2>9. QED
    BY <1>2, <1>6, <2>8 DEF RequestInv
<1>7. QED
  BY <1>4, <1>5, <1>6

LEMMA AskInv ==
    ASSUME Ask, UNCHANGED blocks
    PROVE  RequestInv'
<1>1. PICK r \in Asks : /\ req' = r /\ start' = FirstStart(r)
                        /\ rpc' = IF r.op = "balance" THEN "from" ELSE "range"
  BY DEF Ask
<1>2. /\ k' = 0 /\ points' = <<>> /\ clean' = TRUE
      /\ seen' = IF r.op = "balance" THEN Tipsets ELSE HeightsOf(blocks)
  BY <1>1 DEF Ask
<1>3. /\ r.start \in Nat /\ r.diff \in Nat /\ FirstStart(r) \in Nat
      /\ r.op = "balance" => FirstStart(r) = r.start
  BY AskIs
<1>4. HeightsOf(blocks)' = HeightsOf(blocks) /\ Tipsets' = Tipsets
  BY DEF HeightsOf, Tipsets
<1>5. CASE r.op = "balance"
  <2>1. PeriodInv'
    BY <1>1, <1>2, <1>3, <1>4, <1>5 DEF PeriodInv
  <2>2. QED
    BY <1>1, <1>5, <2>1 DEF RequestInv
<1>6. CASE r.op # "balance"
  <2>1. start' = FirstStart(req)' + k' * req'.diff
    <3>1. FirstStart(req)' = FirstStart(r)
      BY <1>1 DEF FirstStart
    <3>2. 0 * r.diff = 0 /\ FirstStart(r) + 0 = FirstStart(r)
      BY <1>3
    <3>3. QED
      BY <1>1, <1>2, <3>1, <3>2
  <2>2. points' \in Seq(Points)
    BY <1>2
  <2>3. \A i \in 0..(k' - 1) : IsShown(i)'
    BY <1>2
  <2>4. WindowsInv'
    BY <1>1, <1>2, <1>4, <1>6, <2>1, <2>2, <2>3 DEF WindowsInv
  <2>5. QED
    BY <1>1, <1>6, <2>4 DEF RequestInv
<1>7. QED
  BY <1>5, <1>6

(* The windows that are left out when the loops end lie ahead. *)
LEMMA LoopEndsInv ==
    ASSUME RequestInv, LoopEnds, UNCHANGED blocks
    PROVE  RequestInv'
<1>1. /\ rpc = "range" /\ rpc' = "answered" /\ req.op # "balance" /\ WindowsInv /\ req \in Asks
      /\ UNCHANGED <<req, k, start, points, seen, clean>>
  BY DEF LoopEnds, RequestInv
<1>2. Extends
  BY <1>1 DEF Extends
<1>3. PICK f, d, n : f = FirstStart(req) /\ d = req.diff /\ n = req.repeate
  OBVIOUS
<1>4. f \in Nat /\ d \in Nat /\ n \in Nat /\ k \in Nat /\ start = f + k * d
  BY <1>1, <1>3, AskIs DEF WindowsInv
<1>5. ASSUME clean, NEW i \in 0..(n - 1)
      PROVE  IsShown(i)
  <2>1. CASE i < k
    BY <1>1, <1>4, <1>5, <2>1 DEF WindowsInv
  <2>2. CASE ~(i < k)
    <3>1. i \in Nat /\ k <= i /\ start <= f + i * d /\ f + i * d \in Nat /\ start \in Nat
      BY <1>4, <1>5, <2>2, LaterWindow, NextWindow
    <3>2. PICK from : from = f + i * d
      OBVIOUS
    <3>3. from \in Nat /\ start <= from /\ k # n
      BY <1>4, <1>5, <2>2, <3>1, <3>2
    <3>4. CASE req.op = "cumulative" /\ start + d > HeadTime
      <4>1. Name(i) = from + d
        BY <1>3, <3>2, <3>4 DEF Name
      <4>2. ~(Name(i) <= HeadTime)
        BY <1>4, <3>1, <3>3, <3>4, <4>1, HeadTimeIs
      <4>3. QED
        BY <4>2 DEF IsShown
    <3>5. CASE req.op = "outstanding" /\ (start < GenesisTime \/ start > HeadTime)
      <4>1. Name(i) = from
        BY <1>3, <3>2, <3>5 DEF Name
      <4>2. f <= start
        <5>1. k * d \in Nat
          BY <1>4
        <5>2. QED
          BY <1>4, <5>1
      <4>3. ~(Name(i) <= HeadTime) \/ ~(FirstStart(req) >= GenesisTime)
        BY <1>3, <1>4, <3>1, <3>3, <3>5, <4>1, <4>2, HeadTimeIs
      <4>4. QED
        BY <4>3 DEF IsShown
    <3>6. QED
      BY <1>3, <3>3, <3>4, <3>5 DEF LoopEnds
  <2>3. QED
    BY <2>1, <2>2
<1>6. HeightsOf(blocks)' = HeightsOf(blocks)
  BY DEF HeightsOf
<1>7. clean' => \A i \in 0..(req'.repeate - 1) : IsShown(i)'
  BY <1>1, <1>2, <1>3, <1>5, StillShown
<1>8. start' = FirstStart(req)' + k' * req'.diff
  BY <1>1 DEF WindowsInv, FirstStart
<1>9. WindowsInv'
  BY <1>1, <1>6, <1>7, <1>8 DEF WindowsInv
<1>10. QED
  BY <1>1, <1>9 DEF RequestInv

LEMMA RangeFoundInv ==
    ASSUME StoreInv, RequestInv, RangeFound, UNCHANGED blocks
    PROVE  RequestInv'
<1>1. /\ rpc = "range" /\ rpc' = "reward" /\ req.op # "balance" /\ WindowsInv /\ req \in Asks
      /\ UNCHANGED <<req, k, start, points, seen>>
      /\ clean' = clean
  BY DEF RangeFound, RequestInv, CallWorks
<1>2. PICK hs : hs = InPeriod(HeightsOf(blocks), start, start + req.diff)
  OBVIOUS
<1>3. hs # {} /\ high' = Max(hs)
  BY <1>2 DEF RangeFound
<1>4. hs \subseteq HeightsOf(Mined)
  BY <1>2 DEF StoreInv, InPeriod, HeightsOf
<1>5. high' \in Nat /\ \A h \in hs : h <= high'
  BY <1>3, <1>4, HighestIs
<1>6. Seen(k) \subseteq hs
  BY <1>1, <1>2 DEF Seen, WindowsInv, InPeriod
<1>7. Seen(k)' = Seen(k) /\ FirstStart(req)' = FirstStart(req)
  BY <1>1 DEF Seen, FirstStart
<1>8. \A h \in Seen(k)' : h <= high'
  BY <1>5, <1>6, <1>7
<1>9. Extends
  BY <1>1 DEF Extends
<1>10. clean' => \A i \in 0..(k' - 1) : IsShown(i)'
  BY <1>1, <1>9, StillShown DEF WindowsInv
<1>11. HeightsOf(blocks)' = HeightsOf(blocks)
  BY DEF HeightsOf
<1>12. WindowsInv'
  BY <1>1, <1>5, <1>7, <1>8, <1>10, <1>11 DEF WindowsInv
<1>13. QED
  BY <1>1, <1>12 DEF RequestInv

(* A window is done. *)
LEMMA WindowDone ==
    ASSUME RequestInv, rpc \in {"range", "reward"}, rpc' = "range", UNCHANGED <<blocks, req, seen>>,
           k' = k + 1, start' = start + req.diff, points' \in Seq(Points), Extends,
           NEW n, n = k, clean' => clean /\ IsShown(n)'
    PROVE  RequestInv'
<1>1. req.op # "balance" /\ WindowsInv /\ req \in Asks
  BY DEF RequestInv
<1>2. PICK f, d : f = FirstStart(req) /\ d = req.diff
  OBVIOUS
<1>3. f \in Nat /\ d \in Nat /\ k \in Nat /\ start = f + k * d
  BY <1>1, <1>2, AskIs DEF WindowsInv
<1>4. k' \in Nat /\ start' = f + k' * d
  <2>1. k' = k + 1 /\ start' = f + k * d + d
    BY <1>2, <1>3
  <2>2. f + (k + 1) * d = f + k * d + d
    BY <1>3, NextWindow
  <2>3. QED
    BY <1>3, <2>1, <2>2
<1>5. FirstStart(req)' = f /\ HeightsOf(blocks)' = HeightsOf(blocks)
  BY <1>2 DEF FirstStart, HeightsOf
<1>6. ASSUME clean', NEW i \in 0..(k' - 1)
      PROVE  IsShown(i)'
  <2>1. CASE i \in 0..(k - 1)
    <3>1. IsShown(i)
      BY <1>1, <1>6, <2>1 DEF WindowsInv
    <3>2. QED
      BY <3>1, StillShown
  <2>2. CASE i \notin 0..(k - 1)
    <3>1. i = n
      BY <1>3, <1>6, <2>2
    <3>2. QED
      BY <1>6, <3>1
  <2>3. QED
    BY <2>1, <2>2
<1>7. WindowsInv'
  BY <1>1, <1>2, <1>4, <1>5, <1>6 DEF WindowsInv
<1>8. QED
  BY <1>1, <1>7 DEF RequestInv

(* A window without blocks has nothing to show. *)
LEMMA RangeEmptyInv ==
    ASSUME StoreInv, RequestInv, RangeEmpty, UNCHANGED blocks
    PROVE  RequestInv'
<1>1. /\ rpc = "range" /\ rpc' = "range" /\ req.op # "balance" /\ WindowsInv /\ req \in Asks
      /\ UNCHANGED <<req, seen>> /\ k' = k + 1 /\ start' = start + req.diff
  BY DEF RangeEmpty, RequestInv
<1>2. points' \in Seq(Points) /\ Extends
  <2>1. CASE points' = points
    BY <1>1, <2>1 DEF WindowsInv, Extends
  <2>2. CASE req.op = "cumulative" /\ points # <<>>
                /\ points' = Append(points, Point(Last(points).value))
    <3>1. points \in Seq(Points) /\ Last(points) \in Points
      BY <1>1, <2>2 DEF WindowsInv, Last
    <3>2. start \in Nat /\ req.diff \in Nat
      <4>1. FirstStart(req) \in Nat /\ req.diff \in Nat /\ k \in Nat
        BY <1>1, AskIs DEF WindowsInv
      <4>2. k * req.diff \in Nat
        BY <4>1
      <4>3. QED
        BY <1>1, <4>1, <4>2 DEF WindowsInv
    <3>3. PICK e : e = Point(Last(points).value)
      OBVIOUS
    <3>4. e \in Points
      BY <3>1, <3>2, <3>3 DEF Point, Points
    <3>5. points' = Append(points, e)
      BY <2>2, <3>3
    <3>6. QED
      BY <3>1, <3>4, <3>5, AppendKeeps DEF Extends
  <2>3. QED
    BY <2>1, <2>2 DEF RangeEmpty
<1>3. PICK n : n = k
  OBVIOUS
<1>4. ASSUME clean'
      PROVE  clean /\ IsShown(n)'
  <2>1. clean /\ InPeriod(HeightsOf(blocks), start, start + req.diff) \subseteq {0}
    BY <1>1, <1>4 DEF RangeEmpty, CallFails, CallWorks
  <2>2. Seen(n) = {}
    BY <1>1, <1>3, <2>1 DEF WindowsInv, Seen, InPeriod
  <2>3. Seen(n)' = Seen(n)
    BY <1>1 DEF Seen, FirstStart
  <2>4. QED
    BY <2>1, <2>2, <2>3 DEF IsShown
<1>5. QED
  BY <1>1, <1>2, <1>3, <1>4, WindowDone

(* The reward at the highest block of a window covers all of its blocks    *)
(* that were stored when the request came.                                 *)
LEMMA RewardInv ==
    ASSUME StoreInv, LoopInv, RequestInv, Reward, UNCHANGED <<blocks, released>>
    PROVE  RequestInv'
<1>1. /\ rpc = "reward" /\ rpc' = "range" /\ req.op # "balance" /\ WindowsInv /\ req \in Asks
      /\ UNCHANGED <<req, seen>> /\ k' = k + 1 /\ start' = start + req.diff
  BY DEF Reward, RequestInv
<1>2. PICK n, f, d : n = k /\ f = FirstStart(req) /\ d = req.diff
  OBVIOUS
<1>3. /\ n \in Nat /\ f \in Nat /\ d \in Nat /\ n * d \in Nat /\ start = f + n * d
      /\ high \in Nat /\ (\A h \in Seen(n) : h <= high) /\ points \in Seq(Points)
  <2>1. n \in Nat /\ f \in Nat /\ d \in Nat
    BY <1>1, <1>2, AskIs DEF WindowsInv
  <2>2. n * d \in Nat
    BY <2>1
  <2>3. QED
    BY <1>1, <1>2, <2>1, <2>2 DEF WindowsInv
<1>4. PICK value : value = released_reward_at_height(high)
  OBVIOUS
<1>5. After(0, high) <= value /\ value \in Nat
  BY <1>3, <1>4, RecordCovers
<1>6. PICK e : e = Point(value)
  OBVIOUS
<1>7. e \in Points /\ e.from = Name(n) /\ e.value = value
  <2>1. e = [from |-> IF req.op = "cumulative" THEN start + d ELSE start, value |-> value]
    BY <1>2, <1>6 DEF Point
  <2>2. Name(n) = IF req.op = "cumulative" THEN start + d ELSE start
    BY <1>2, <1>3 DEF Name
  <2>3. start \in Nat
    BY <1>3
  <2>4. QED
    BY <1>3, <1>5, <2>1, <2>2, <2>3 DEF Points
<1>8. CASE CallFails /\ UNCHANGED points
  <2>1. ~clean' /\ points' \in Seq(Points) /\ Extends
    BY <1>3, <1>8 DEF CallFails, Extends
  <2>2. QED
    BY <1>1, <1>2, <2>1, WindowDone
<1>9. CASE CallWorks /\ points' = Append(points, e)
  <2>1. /\ points' \in Seq(Points) /\ Extends
        /\ \E j \in DOMAIN points' : points'[j] = e
    BY <1>3, <1>7, <1>9, AppendKeeps DEF Extends
  <2>2. clean' = clean
    BY <1>9 DEF CallWorks
  <2>3. IsShown(n)'
    <3>1. Seen(n)' = Seen(n) /\ Name(n)' = Name(n)
      BY <1>1 DEF Seen, Name, FirstStart
    <3>2. ASSUME Seen(n) # {}
          PROVE  Scheduled[Max(Seen(n))] <= value
      <4>1. PICK top : top = Max(Seen(n))
        OBVIOUS
      <4>2. top \in Seen(n) /\ top \in HeightsOf(Mined) /\ top \in Nat
        BY <1>1, <3>2, <4>1, SeenIs DEF WindowsInv
      <4>3. top <= high /\ top \in 0..Max(Heads)
        BY <1>3, <4>2, HeadsTop
      <4>4. Scheduled[top] = After(0, top)
        BY <4>3 DEF Scheduled
      <4>5. /\ After(0, top) <= After(0, high) /\ After(0, top) \in 0..TotalRewards
            /\ After(0, high) \in 0..TotalRewards
        BY <1>3, <4>2, <4>3, ScheduleGrows
      <4>6. QED
        BY <1>5, <4>1, <4>4, <4>5
    <3>3. Scheduled' = Scheduled
      BY DEF Scheduled, After, SelfTipsetRewards
    <3>4. PICK j \in DOMAIN points' : points'[j] = e
      BY <2>1
    <3>5. Seen(n)' # {} => /\ points'[j].from = Name(n)'
                           /\ Scheduled'[Max(Seen(n)')] <= points'[j].value
      BY <1>7, <3>1, <3>2, <3>3, <3>4
    <3>6. QED
      BY <3>4, <3>5 DEF IsShown
  <2>4. QED
    BY <1>1, <1>2, <2>1, <2>2, <2>3, WindowDone
<1>10. CASE CallFails /\ points' = Append(points, Point(reward_without_record(high)))
  <2>1. reward_without_record(high) \in Nat
    <3>1. PICK rate : rate = SelfTipsetRewards(TotalRewards)
      OBVIOUS
    <3>2. TotalRewards \in Nat /\ TotalRewards - 0 = TotalRewards
      BY BlockRewardsAssumption
    <3>3. rate \in Nat
      BY <3>1, <3>2, GrownIs
    <3>4. QED
      BY <1>3, <3>1, <3>3 DEF reward_without_record
  <2>2. PICK w : w = Point(reward_without_record(high))
    OBVIOUS
  <2>3. w \in Points
    <3>1. start \in Nat /\ start + req.diff \in Nat
      <4>1. PICK p : p = n * d
        OBVIOUS
      <4>2. f \in Nat /\ p \in Nat /\ d \in Nat /\ start = f + p
        BY <1>3, <4>1
      <4>3. start \in Nat /\ start + d \in Nat
        BY <4>2
      <4>4. QED
        BY <1>2, <4>3
    <3>2. PICK v : v = reward_without_record(high)
      OBVIOUS
    <3>3. w = [from |-> IF req.op = "cumulative" THEN start + req.diff ELSE start, value |-> v]
      BY <2>2, <3>2 DEF Point
    <3>4. QED
      BY <2>1, <3>1, <3>2, <3>3 DEF Points
  <2>4. points' = Append(points, w)
    BY <1>10, <2>2
  <2>5. points' \in Seq(Points)
    BY <1>3, <2>3, <2>4
  <2>6. Extends
    BY <1>3, <2>3, <2>4, AppendKeeps DEF Extends
  <2>7. ~clean'
    BY <1>10 DEF CallFails
  <2>8. QED
    BY <1>1, <1>2, <2>5, <2>6, <2>7, WindowDone
<1>11. QED
  BY <1>4, <1>6, <1>8, <1>9, <1>10 DEF Reward

(* BalanceIncreased: the period begins no later than its first tipset. *)
LEMMA HeightStartInv ==
    ASSUME StoreInv, RequestInv, HeightStart, UNCHANGED blocks
    PROVE  RequestInv'
<1>1. /\ rpc = "from" /\ rpc' = "to" /\ req.op = "balance" /\ PeriodInv /\ req \in Asks
      /\ UNCHANGED <<req, start, points, seen>>
  BY DEF HeightStart, RequestInv
<1>2. PICK begin : begin = models_get_tipset_at_time(start, FALSE)
  OBVIOUS
<1>3. PICK hs : hs = {h \in Tipsets : FALSE = (Time(h) < start)}
  OBVIOUS
<1>4. Tipsets \subseteq Nat /\ hs \subseteq Nat
  <2>1. Tipsets \subseteq HeightsOf(Mined) /\ HeightsOf(Mined) \subseteq Nat
    BY MinedAssumption DEF Tipsets, HeightsOf, StoreInv
  <2>2. QED
    BY <1>3, <2>1
<1>5. begin = IF hs = {} THEN 0 ELSE Min(hs)
  BY <1>2, <1>3 DEF models_get_tipset_at_time
<1>6. begin \in Nat /\ \A h \in hs : begin <= h
  BY <1>4, <1>5, LowestIs
<1>7. ASSUME NEW h \in Period
      PROVE  h \in hs /\ h \in Nat /\ 1 <= h
  <2>1. h \in Tipsets /\ h # 0 /\ start <= Time(h)
    BY <1>1, <1>7 DEF Period, PeriodInv, InPeriod
  <2>2. h \in Nat /\ start \in Nat /\ Time(h) \in Nat
    <3>1. h \in Nat
      BY <1>4, <2>1
    <3>2. start = req.start /\ req.start \in Nat
      BY <1>1, AskIs DEF PeriodInv
    <3>3. Time(h) \in Nat
      BY <3>1, HeadTimeIs DEF Time
    <3>4. QED
      BY <3>1, <3>2, <3>3
  <2>3. ~(Time(h) < start)
    BY <2>1, <2>2
  <2>4. QED
    BY <1>3, <2>1, <2>2, <2>3
<1>8. PICK top : top = Max({1, begin})
  OBVIOUS
<1>9. top \in {1, begin}
  BY <1>6, <1>8, PairOfNats, MaxOfNats
<1>10. high' = top
  BY <1>2, <1>8 DEF HeightStart
<1>11. \A h \in Period : top <= h
  BY <1>6, <1>7, <1>9
<1>12. Period' = Period /\ Tipsets' = Tipsets
  BY <1>1 DEF Period, InPeriod, Tipsets, HeightsOf
<1>13. PeriodInv'
  BY <1>1, <1>10, <1>11, <1>12 DEF PeriodInv
<1>14. QED
  BY <1>1, <1>13 DEF RequestInv

(* And it ends no earlier than its last one. *)
LEMMA HeightEndInv ==
    ASSUME StoreInv, RequestInv, HeightEnd, UNCHANGED blocks
    PROVE  RequestInv'
<1>1. /\ rpc = "to" /\ req.op = "balance" /\ PeriodInv /\ req \in Asks
      /\ UNCHANGED <<req, start, high, seen>>
  BY DEF HeightEnd, RequestInv
<1>2. PICK end : end = models_get_tipset_at_time(start + req.diff, TRUE)
  OBVIOUS
<1>3. CASE rpc' = "idle"
  BY <1>3 DEF RequestInv
<1>4. CASE rpc' = "answered" /\ points' = <<[from |-> high, value |-> end]>>
  <2>1. PICK hs : hs = {h \in Tipsets : TRUE = (Time(h) < start + req.diff)}
    OBVIOUS
  <2>2. hs \subseteq HeightsOf(Mined)
    BY <2>1 DEF Tipsets, HeightsOf, StoreInv
  <2>3. hs # {} => end = Max(hs)
    BY <1>2, <2>1 DEF models_get_tipset_at_time
  <2>4. \A h \in hs : h <= end
    BY <2>2, <2>3, HighestIs
  <2>5. \A h \in Period : h \in hs
    BY <1>1, <2>1 DEF Period, PeriodInv, InPeriod
  <2>6. \A h \in Period : points'[1].from <= h /\ h <= points'[1].value
    BY <1>1, <1>4, <2>4, <2>5 DEF PeriodInv
  <2>7. Period' = Period /\ Tipsets' = Tipsets
    BY <1>1 DEF Period, InPeriod, Tipsets, HeightsOf
  <2>8. PeriodInv'
    BY <1>1, <1>4, <2>6, <2>7 DEF PeriodInv
  <2>9. QED
    BY <1>1, <1>4, <2>8 DEF RequestInv
<1>5. QED
  BY <1>2, <1>3, <1>4 DEF HeightEnd

LEMMA RequestInitInv == Init => RequestInv
BY DEF Init, BlockInit, RequestInv

LEMMA RequestStepInv ==
    ASSUME TipsetInv, LoopInv, RequestInv, [Next]_vars
    PROVE  RequestInv'
<1>1. StoreInv
  BY DEF TipsetInv
<1>2. CASE UNCHANGED askVars
  BY <1>2, RequestWaits
<1>3. CASE InitBlockRewards /\ (CrashLoop \/ RequestFails)
  <2>1. rpc' = "idle"
    BY <1>3 DEF CrashLoop, RequestFails
  <2>2. QED
    BY <2>1 DEF RequestInv
<1>4. CASE InitBlockRewards /\ (Ask \/ LoopEnds \/ RangeFound \/ RangeEmpty \/ Reward
                                  \/ HeightStart \/ HeightEnd)
  <2>1. UNCHANGED <<blocks, released>>
    BY <1>4 DEF InitBlockRewards, blockVars, loopVars, Ask, LoopEnds, RangeFound, RangeEmpty,
                Reward, HeightStart, HeightEnd
  <2>2. QED
    BY <1>1, <1>4, <2>1, AskInv, LoopEndsInv, RangeFoundInv, RangeEmptyInv, RewardInv,
       HeightStartInv, HeightEndInv
<1>5. QED
  BY <1>2, <1>3, <1>4 DEF Next, Store, SyncTipsetRewardsDb, InitBlockRewards, BlockNext,
     StartLoop, UpsertBatch, vars, rewardVars

(* Each window done has the point it is owed and each period its tipsets.  *)
(* (CumulativeBlockRewardsOverTime, FilOutStanding, BalanceIncreased)      *)
THEOREM RequestsFollow == Spec => []RequestInv
<1>1. Init => RequestInv
  BY RequestInitInv
<1>2. TipsetInv /\ LoopInv /\ RequestInv /\ [Next]_vars => RequestInv'
  BY RequestStepInv
<1>3. QED
  BY <1>1, <1>2, TipsetsFollow, RecordsAhead, PTL DEF Spec

(* An answer covers the periods it names. *)
THEOREM PeriodsCovered == Spec => []AnswersCoverPeriods
<1>1. RequestInv => AnswersCoverPeriods
  <2> SUFFICES ASSUME RequestInv, rpc = "answered", clean
               PROVE  AnswersCoverPeriods
    BY DEF AnswersCoverPeriods
  <2>1. CASE req.op = "balance"
    BY <2>1 DEF RequestInv, PeriodInv, Period, AnswersCoverPeriods
  <2>2. CASE req.op # "balance"
    BY <2>2 DEF RequestInv, WindowsInv, IsShown, Seen, Name, AnswersCoverPeriods
  <2>3. QED
    BY <2>1, <2>2
<1>2. QED
  BY <1>1, RequestsFollow, PTL

-----------------------------------------------------------------------------
(* MiningStats: what is stored only grows.                                 *)

StatsTypes ==
    /\ StoreInv /\ states \subseteq States
    /\ seen.blocks \subseteq blocks /\ seen.states \subseteq states
    /\ pc \in {"idle", "search", "count", "rows", "total", "more", "points", "answered"}
    /\ pc # "idle" => req \in Requests

(* The states that count for a point at t, and the points that show states *)
(* of their time, for every miner none older than the newest that was      *)
(* stored when the request came.                                           *)
StatesAt(r, ss, t) ==
    CASE r.op = "active"   -> InWindow(ss, IF t > r.diff THEN t - r.diff ELSE 0, t)
      [] r.op = "oldPower" -> {s \in InWindow(ss, 0, t) : s.miner \in r.miners}
      [] OTHER             -> {s \in ss : Time(s.height) <= t}
ShowsItsTime(p, r, ss, old) ==
    /\ p.shown \subseteq StatesAt(r, ss, p.at)
    /\ \A s \in StatesAt(r, old, p.at) :
          \E t \in p.shown : /\ t.miner = s.miner \/ r.op \in {"totalPower", "homePower"}
                             /\ s.height <= t.height

(* The times of the active miners go down in multiples of diff. *)
StepsDown ==
    /\ Storable(time_at)
    /\ points # <<>> => /\ time_at <= points[Len(points)].at
                        /\ \E n \in 0..time_at : time_at = n * req.diff
    /\ \A i \in 1..(Len(points) - 1) : points[i + 1].at <= points[i].at

(* Those of the home page are the hours of the day. *)
HoursSoFar ==
    /\ \A i \in DOMAIN points : points[i].at = HomeTimes(req.to)[i]
    /\ pc = "points" => Len(points) < Len(HomeTimes(req.to))
    /\ pc = "answered" => Len(points) = Len(HomeTimes(req.to))

SeriesInv ==
    pc = "points" \/ (pc = "answered" /\ req.op \in Series) =>
        /\ req.op \in Series /\ time_at \in Nat
        /\ points \in Seq([at : Nat, shown : SUBSET States])
        /\ \A i \in DOMAIN points : ShowsItsTime(points[i], req, states, seen.states)
        /\ req.op = "active" => StepsDown
        /\ req.op = "homePower" => HoursSoFar

-----------------------------------------------------------------------------
(* MiningStats: what a client has asked for. *)

LEMMA RequestIs ==
    ASSUME NEW r \in Requests
    PROVE  /\ r.from \in Nat /\ r.to \in Nat /\ r.offset \in Nat /\ r.repeate \in Nat
           /\ r.diff \in Nat /\ r.diff > 0 /\ r.limit \in Nat /\ r.limit > 0
           /\ r.op = "homePower" => Day <= r.to
BY StatsAssumption

LEMMA StatesAre ==
    ASSUME states \subseteq States
    PROVE  /\ IsFiniteSet(states) /\ \A s \in states : s.height \in Nat
           /\ \A s \in states : Time(s.height) \in Nat
BY StatsAssumption, FsApiAssumption, FS_Subset DEF Time

LEMMA StatsInitTypes == StatsInit => StatsTypes
BY DEF StatsInit, BlocksInit, StatsTypes, StoreInv

LEMMA StatsStepTypes == StatsTypes /\ [StatsNext]_statsVars => StatsTypes'
<1> SUFFICES ASSUME StatsTypes, [StatsNext]_statsVars PROVE StatsTypes'
  OBVIOUS
<1> USE DEF StatsTypes, StoreInv
<1>1. CASE StoreMined
  BY <1>1 DEF StoreMined, StoreBlock, reqVars
<1>2. CASE StoreState
  BY <1>2 DEF StoreState, blockVars, reqVars
<1>3. CASE AskStats
  <2>1. blocks' = blocks /\ states' = states /\ req' \in Requests
    BY <1>3 DEF AskStats, Docs, blockVars
  <2>2. seen'.blocks = blocks /\ seen'.states = states
    BY <1>3 DEF AskStats
  <2>3. pc' \in {"idle", "search", "count", "rows", "points"}
    BY <1>3 DEF AskStats
  <2>4. QED
    BY <2>1, <2>2, <2>3
<1>4. CASE Search \/ Count \/ TotalBlocks \/ RowsOfTop
  BY <1>4 DEF Search, Count, TotalBlocks, RowsOfTop, Docs, blockVars
<1>5. CASE Rank
  <2>1. blocks' = blocks /\ states' = states /\ req' = req /\ seen' = seen
    BY <1>5 DEF Rank, Docs, blockVars
  <2>2. pc = "rows" /\ pc' \in {"idle", "total", "answered", "more"}
    BY <1>5 DEF Rank
  <2>3. QED
    BY <2>1, <2>2
<1>6. CASE SetBlockValues
  <2>1. blocks' = blocks /\ states' = states /\ req' = req /\ seen' = seen
    BY <1>6 DEF SetBlockValues, Docs, blockVars
  <2>2. pc = "more" /\ pc' \in {"idle", "answered"}
    BY <1>6 DEF SetBlockValues
  <2>3. QED
    BY <2>1, <2>2
<1>7. CASE SetPowerValues
  BY <1>7 DEF SetPowerValues, Docs, blockVars
<1>8. CASE SeriesPoint \/ HomePoint \/ PointsEnd
  BY <1>8 DEF SeriesPoint, HomePoint, PointsEnd, Wanted, Docs, blockVars
<1>9. CASE Fails
  BY <1>9 DEF Fails, Docs, blockVars
<1>10. CASE UNCHANGED statsVars
  BY <1>10 DEF statsVars, blockVars, reqVars
<1>11. QED
  BY <1>1, <1>2, <1>3, <1>4, <1>5, <1>6, <1>7, <1>8, <1>9, <1>10 DEF StatsNext

(* What is stored stays, and what a client reads was stored when it asked  *)
(* or since.                                                               *)
THEOREM StoredOnlyGrows == StatsSpec => []StatsTypes
BY StatsInitTypes, StatsStepTypes, PTL DEF StatsSpec

-----------------------------------------------------------------------------
(* The series. *)

(* Of a state there is a newest one of its miner. *)
LEMMA NewestCovers ==
    ASSUME NEW ss, IsFiniteSet(ss), \A s \in ss : s.height \in Nat, NEW s \in ss
    PROVE  \E t \in NewestOf(ss) : t.miner = s.miner /\ s.height <= t.height
<1> DEFINE own == {t \in ss : t.miner = s.miner}
<1> DEFINE hs == {t.height : t \in own}
<1>1. IsFiniteSet(own)
  BY FS_Subset
<1>2. hs \subseteq Nat
  OBVIOUS
<1>3. IsFiniteSet(hs)
  <2> DEFINE f == [t \in own |-> t.height]
  <2>1. f \in Surjection(own, hs)
    BY DEF Surjection
  <2>2. QED
    BY <1>1, <2>1, FS_Surjection
<1>4. s \in own /\ hs # {}
  OBVIOUS
<1>5. Max(hs) \in hs /\ \A h \in hs : h <= Max(hs)
  BY <1>2, <1>3, <1>4, MaxOfNats
<1>6. PICK t \in own : t.height = Max(hs)
  BY <1>5
<1>7. \A u \in ss : u.miner = t.miner => u.height <= t.height
  BY <1>5, <1>6
<1>8. t \in NewestOf(ss) /\ t.miner = s.miner
  BY <1>6, <1>7 DEF NewestOf
<1>9. s.height <= t.height
  BY <1>7, <1>6
<1>10. QED
  BY <1>8, <1>9

LEMMA BeforeIs ==
    ASSUME NEW ss, NEW t
    PROVE  Before(ss, t) = StatesAt(req, ss, t)
BY DEF Before, StatesAt

(* Of more states more count. *)
LEMMA StatesAtGrows ==
    ASSUME NEW r, NEW ss, NEW more, ss \subseteq more, NEW t
    PROVE  StatesAt(r, ss, t) \subseteq ss /\ StatesAt(r, ss, t) \subseteq StatesAt(r, more, t)
BY DEF StatesAt, InWindow

(* A point that is read now shows its time. *)
LEMMA PointRead ==
    ASSUME StatsTypes, NEW t, NEW show \in Shown(Before(states, t))
    PROVE  /\ ShowsItsTime([at |-> t, shown |-> show], req, states, seen.states)
           /\ show \subseteq States
<1> DEFINE now == StatesAt(req, states, t)
<1> DEFINE old == StatesAt(req, seen.states, t)
<1>1. now \subseteq states /\ old \subseteq now
  BY StatesAtGrows DEF StatsTypes
<1>2. IsFiniteSet(now) /\ \A s \in now : s.height \in Nat
  BY <1>1, StatesAre, FS_Subset DEF StatsTypes
<1>3. show \in Shown(now)
  BY BeforeIs
<1> HIDE DEF now, old
<1>4. SUFFICES /\ show \subseteq now
               /\ \A s \in old : \E u \in show :
                    /\ u.miner = s.miner \/ req.op \in {"totalPower", "homePower"}
                    /\ s.height <= u.height
  BY <1>1, <1>2 DEF ShowsItsTime, now, old, StatsTypes
<1>5. CASE req.op \in {"totalPower", "homePower"} /\ now # {}
  <2>1. PICK s \in now : (\A u \in now : u.height <= s.height) /\ show = {s}
    BY <1>3, <1>5 DEF Shown
  <2>2. QED
    BY <1>1, <1>5, <2>1
<1>6. CASE ~(req.op \in {"totalPower", "homePower"} /\ now # {})
  <2>1. show = NewestOf(now)
    BY <1>3, <1>6 DEF Shown
  <2>2. show \subseteq now
    BY <2>1 DEF NewestOf
  <2>3. \A s \in now : \E u \in show : u.miner = s.miner /\ s.height <= u.height
    BY <1>2, <2>1, NewestCovers
  <2>4. QED
    BY <1>1, <2>2, <2>3
<1>7. QED
  BY <1>5, <1>6

(* It does so for ever. *)
LEMMA PointStays ==
    ASSUME NEW p, NEW r, NEW ss, NEW more, NEW old, ss \subseteq more,
           ShowsItsTime(p, r, ss, old)
    PROVE  ShowsItsTime(p, r, more, old)
BY StatesAtGrows DEF ShowsItsTime

(* The steps of the active miners. *)
LEMMA StepToMultiple ==
    ASSUME NEW a \in Nat, NEW d \in Nat \ {0}
    PROVE  /\ a - (a % d) \in Nat /\ a - (a % d) <= a
           /\ \E n \in 0..(a - (a % d)) : a - (a % d) = n * d
<1>1. PICK q, r : q = a \div d /\ r = a % d
  OBVIOUS
<1>2. q \in Nat /\ d * q \in Nat /\ d * q <= a
  BY <1>1, DivIs
<1>3. a - r = d * q
  BY <1>1
<1>4. q <= d * q /\ d * q = q * d
  BY <1>2
<1>5. q \in 0..(d * q)
  BY <1>2, <1>4
<1>6. QED
  BY <1>1, <1>2, <1>3, <1>4, <1>5

LEMMA StepDown ==
    ASSUME NEW a \in Nat, 0 < a, a < Word, NEW d \in Nat \ {0}, NEW n \in Nat, a = n * d
    PROVE  /\ (a + Word - d) % Word \in Nat /\ (a + Word - d) % Word <= a
           /\ \E m \in 0..((a + Word - d) % Word) : (a + Word - d) % Word = m * d
<1>1. n # 0
  BY 0 * d = 0
<1>2. PICK m \in Nat : n = m + 1
  BY <1>1, n = (n - 1) + 1
<1>3. a = m * d + d
  BY <1>2
<1>4. PICK b : b = m * d
  OBVIOUS
<1>5. b \in Nat /\ m <= b
  BY <1>4
<1>6. a + Word - d = b + Word /\ b < Word /\ b <= a /\ Word \in Nat \ {0}
  BY <1>3, <1>4, <1>5, FsApiAssumption
<1>7. (b + Word) % Word = b
  BY <1>5, <1>6
<1>8. (a + Word - d) % Word = b
  BY <1>6, <1>7
<1>9. m \in 0..b
  BY <1>5
<1>10. QED
  BY <1>4, <1>5, <1>6, <1>8, <1>9

LEMMA MultipleBelow ==
    ASSUME NEW a \in Nat, NEW d \in Nat \ {0}, d <= a, a % d = 0
    PROVE  (a - d) % d = 0
<1>1. PICK q : q = a \div d
  OBVIOUS
<1>2. q \in Nat /\ a = d * q
  BY <1>1, DivIs
<1>3. q # 0
  BY <1>2
<1>4. PICK m \in Nat : q = m + 1
  BY <1>2, <1>3, q = (q - 1) + 1
<1>5. PICK b : b = d * m
  OBVIOUS
<1>6. a - d = b /\ b \in Nat
  BY <1>2, <1>4, <1>5
<1>7. b \div d = m
  BY <1>5, TimesDiv
<1>8. b % d = b - d * (b \div d)
  BY <1>6
<1>9. QED
  BY <1>5, <1>6, <1>7, <1>8

(* The chart of the home page goes up within the day, to the end asked for. *)
IsDay(hs, to) ==
    /\ hs \in Seq(Nat) /\ Len(hs) > 0 /\ hs[1] >= to - Day /\ hs[Len(hs)] = to
    /\ \A i \in 1..(Len(hs) - 1) : hs[i] < hs[i + 1]

LEMMA HoursOfTheDay ==
    ASSUME NEW to \in Nat, Day <= to
    PROVE  IsDay(HomeTimes(to), to)
<1> DEFINE full == {t \in (to - Day)..(to - 1) : t % Hour = 0}
<1>1. Day \in Nat \ {0} /\ Hour \in Nat \ {0} /\ Day % Hour = 0
  BY StatsAssumption, HourAssumption
<1>2. CASE full = {}
  <2>1. HomeTimes(to) = <<to>>
    BY <1>2 DEF HomeTimes, GetIntHour
  <2>2. QED
    BY <1>1, <2>1 DEF IsDay
<1>3. CASE full # {}
  <2>1. PICK p : p = (Day - 1) \div Hour
    OBVIOUS
  <2>2. p \in Nat /\ Hour * p \in Nat /\ Hour * p <= Day - 1
    BY <1>1, <2>1, DivIs
  <2>3. Hour * p + Hour <= Day
    <3>1. PICK q : q = Day \div Hour
      OBVIOUS
    <3>2. q \in Nat /\ Day = Hour * q
      BY <1>1, <3>1, DivIs
    <3>3. p < q
      BY <1>1, <2>2, <3>2
    <3>4. p + 1 <= q
      BY <2>2, <3>2, <3>3
    <3>5. Hour * (p + 1) <= Hour * q
      BY <1>1, <2>2, <3>2, <3>4
    <3>6. Hour * (p + 1) = Hour * p + Hour
      BY <1>1, <2>2
    <3>7. QED
      BY <3>2, <3>5, <3>6
  <2>4. full \subseteq Nat
    BY <1>1
  <2>5. Min(full) \in full /\ \A t \in full : Min(full) <= t
    BY <1>3, <2>4, LowestIs
  <2>6. PICK f : f = Min(full)
    OBVIOUS
  <2>7. f \in Nat /\ to - Day <= f /\ f % Hour = 0
    BY <1>1, <2>5, <2>6
  <2>8. f < to - Day + Hour
    <3>1. SUFFICES ASSUME f >= to - Day + Hour PROVE FALSE
      BY <1>1, <2>7
    <3>2. f - Hour \in (to - Day)..(to - 1) /\ f - Hour \in Nat
      BY <1>1, <2>5, <2>6, <2>7, <3>1
    <3>3. (f - Hour) % Hour = 0
      <4>1. Hour <= f
        BY <1>1, <2>7, <3>2
      <4>2. f \in Nat /\ Hour \in Nat \ {0} /\ f % Hour = 0
        BY <1>1, <2>7
      <4>3. QED
        BY <4>1, <4>2, MultipleBelow
    <3>4. f - Hour \in full
      BY <3>2, <3>3
    <3> HIDE DEF full
    <3>5. f <= f - Hour
      BY <2>5, <2>6, <3>4
    <3>6. f \in Nat /\ Hour \in Nat \ {0}
      BY <1>1, <2>7
    <3>7. QED
      BY <3>5, <3>6
  <2>9. PICK h : h = [i \in 1..(1 + p) |-> f + Hour * (i - 1)]
    OBVIOUS
  <2>10. GetIntHour(to - Day, to) = h
    <3>1. to - (to - Day) - 1 = Day - 1
      BY <1>1
    <3>2. QED
      BY <1>3, <2>1, <2>6, <2>9, <3>1 DEF GetIntHour
  <2>11. \A i \in 1..(1 + p) : Hour * (i - 1) \in Nat /\ Hour * (i - 1) + Hour = Hour * i
    BY <1>1, <2>2
  <2>12. h \in Seq(Nat) /\ Len(h) = 1 + p
    <3>1. \A i \in 1..(1 + p) : f + Hour * (i - 1) \in Nat
      BY <2>7, <2>11
    <3>2. h \in [1..(1 + p) -> Nat] /\ 1 + p \in Nat
      BY <2>2, <2>9, <3>1
    <3>3. QED
      BY <3>2
  <2>13. PICK hs : hs = Append(h, to)
    OBVIOUS
  <2>14. hs \in Seq(Nat) /\ Len(hs) = 2 + p
    BY <2>2, <2>12, <2>13
  <2>15. hs[2 + p] = to /\ \A i \in 1..(1 + p) : hs[i] = f + Hour * (i - 1)
    BY <2>2, <2>9, <2>12, <2>13
  <2>16. hs[1] = f
    BY <1>1, <2>2, <2>7, <2>15
  <2>17. \A i \in 1..p : hs[i] < hs[i + 1]
    <3>1. TAKE i \in 1..p
    <3>2. hs[i] = f + Hour * (i - 1) /\ hs[i + 1] = f + Hour * (i + 1 - 1)
      BY <2>2, <2>15
    <3>3. i + 1 - 1 = i /\ i \in 1..(1 + p)
      BY <2>2
    <3>4. QED
      BY <1>1, <2>7, <2>11, <3>2, <3>3
  <2>18. hs[1 + p] < hs[2 + p]
    <3>1. hs[1 + p] = f + Hour * (1 + p - 1) /\ 1 + p - 1 = p
      BY <2>2, <2>15
    <3>2. QED
      BY <1>1, <2>2, <2>3, <2>7, <2>8, <2>15, <3>1
  <2>19. \A i \in 1..(1 + p) : hs[i] < hs[i + 1]
    <3>1. TAKE i \in 1..(1 + p)
    <3>2. CASE i = 1 + p
      BY <2>2, <2>18, <3>2, 1 + p + 1 = 2 + p
    <3>3. CASE i # 1 + p
      BY <2>2, <2>17, <3>3
    <3>4. QED
      BY <3>2, <3>3
  <2>20. HomeTimes(to) = hs
    BY <2>10, <2>13 DEF HomeTimes
  <2>21. QED
    BY <2>2, <2>7, <2>14, <2>15, <2>16, <2>19, <2>20 DEF IsDay
<1>4. QED
  BY <1>2, <1>3

LEMMA LastPoint ==
    ASSUME NEW T, NEW s \in Seq(T), NEW e \in T
    PROVE  /\ Append(s, e) \in Seq(T) /\ Append(s, e) # <<>>
           /\ Len(Append(s, e)) = Len(s) + 1 /\ Len(s) \in Nat
           /\ \A i \in 1..Len(s) : Append(s, e)[i] = s[i]
           /\ Append(s, e)[Len(s) + 1] = e
           /\ s # <<>> => Len(s) \in 1..Len(s)
<1>1. Len(s) \in Nat /\ DOMAIN s = 1..Len(s)
  OBVIOUS
<1>2. /\ Append(s, e) \in Seq(T) /\ Len(Append(s, e)) = Len(s) + 1
      /\ Append(s, e)[Len(s) + 1] = e
  OBVIOUS
<1>3. \A i \in 1..Len(s) : Append(s, e)[i] = s[i]
  OBVIOUS
<1>4. s # <<>> => Len(s) \in 1..Len(s)
  OBVIOUS
<1>5. Append(s, e) # <<>>
  BY <1>1, <1>2
<1>6. QED
  BY <1>1, <1>2, <1>3, <1>4, <1>5

LEMMA SeriesInitInv == StatsInit => SeriesInv
BY DEF StatsInit, SeriesInv

LEMMA SeriesAsk == ASSUME AskStats PROVE SeriesInv'
<1>1. PICK r \in Requests :
        /\ req' = r /\ time_at' = TimeAt(r) /\ points' = <<>>
        /\ pc' = CASE r.op = "homePower" ->
                         IF Drawable(GetIntHour(r.to - Day, r.to)) THEN "points" ELSE "idle"
                   [] r.op = "search"  -> "search"
                   [] r.op \in Ranking -> "count"
                   [] r.op \in Series  -> "points"
                   [] OTHER            -> "rows"
  BY DEF AskStats
<1>2. SUFFICES ASSUME pc' = "points" PROVE SeriesInv'
  BY <1>1 DEF SeriesInv
<1>3. r.op \in Series
  BY <1>1, <1>2 DEF Series
<1>4. TimeAt(r) \in Nat /\ (r.op = "active" => Storable(TimeAt(r)))
  BY RequestIs, StatsAssumption, FsApiAssumption DEF TimeAt, Storable
<1>5. points' \in Seq([at : Nat, shown : SUBSET States]) /\ Len(points') = 0 /\ DOMAIN points' = {}
  BY <1>1
<1>6. req'.op = "active" => StepsDown'
  BY <1>1, <1>4, <1>5 DEF StepsDown
<1>7. req'.op = "homePower" => HoursSoFar'
  <2>1. SUFFICES ASSUME req'.op = "homePower" PROVE HoursSoFar'
    OBVIOUS
  <2>2. IsDay(HomeTimes(r.to), r.to)
    BY <1>1, <2>1, RequestIs, HoursOfTheDay
  <2>3. Len(HomeTimes(r.to)) > 0
    BY <2>2 DEF IsDay
  <2>4. HomeTimes(req.to)' = HomeTimes(r.to)
    BY <1>1 DEF HomeTimes, GetIntHour
  <2>5. QED
    BY <1>2, <1>5, <2>3, <2>4 DEF HoursSoFar
<1>8. QED
  BY <1>1, <1>3, <1>4, <1>5, <1>6, <1>7 DEF SeriesInv

(* Whatever is stored meanwhile. *)
LEMMA SeriesWaits ==
    ASSUME SeriesInv, states \subseteq states', UNCHANGED <<req, seen, points, time_at>>,
           \/ pc' = pc
           \/ pc' = "idle"
           \/ pc' = "answered" /\ req.op \notin Series
           \/ pc = "points" /\ pc' = "answered" /\ req.op # "homePower"
    PROVE  SeriesInv'
<1>1. SUFFICES ASSUME pc' = "points" \/ (pc' = "answered" /\ req'.op \in Series)
               PROVE  SeriesInv'
  BY DEF SeriesInv
<1>2. pc = "points" \/ (pc = "answered" /\ req.op \in Series)
  BY <1>1
<1>3. \A i \in DOMAIN points' : ShowsItsTime(points'[i], req', states', seen'.states)
  BY <1>2, PointStays DEF SeriesInv
<1>4. req'.op = "active" => StepsDown'
  BY <1>2 DEF SeriesInv, StepsDown
<1>5. req'.op = "homePower" => HoursSoFar'
  <2>1. HomeTimes(req.to)' = HomeTimes(req.to)
    BY DEF HomeTimes, GetIntHour
  <2>2. SUFFICES ASSUME req.op = "homePower" PROVE HoursSoFar'
    OBVIOUS
  <2>3. pc' = pc
    BY <1>1, <2>2 DEF Series
  <2>4. QED
    BY <1>2, <2>1, <2>2, <2>3 DEF SeriesInv, HoursSoFar
<1>6. QED
  BY <1>2, <1>3, <1>4, <1>5 DEF SeriesInv

(* A point more shows its time, and so do those before it. *)
LEMMA PointsGrow ==
    ASSUME SeriesInv, StatsTypes, pc = "points", UNCHANGED <<req, seen, states>>,
           NEW t \in Nat, NEW show \in Shown(Before(states, t)),
           points' = Append(points, [at |-> t, shown |-> show])
    PROVE  /\ points' \in Seq([at : Nat, shown : SUBSET States])
           /\ \A i \in DOMAIN points' : ShowsItsTime(points'[i], req', states', seen'.states)
<1>1. points \in Seq([at : Nat, shown : SUBSET States])
  BY DEF SeriesInv
<1>2. PICK e : e = [at |-> t, shown |-> show]
  OBVIOUS
<1>3. ShowsItsTime(e, req, states, seen.states) /\ e \in [at : Nat, shown : SUBSET States]
  BY <1>2, PointRead
<1>4. /\ points' \in Seq([at : Nat, shown : SUBSET States]) /\ Len(points') = Len(points) + 1
      /\ Len(points) \in Nat /\ points'[Len(points) + 1] = e
      /\ \A i \in 1..Len(points) : points'[i] = points[i]
  BY <1>1, <1>2, <1>3, LastPoint
<1>5. DOMAIN points' = 1..(Len(points) + 1) /\ DOMAIN points = 1..Len(points)
  BY <1>1, <1>4
<1>6. ASSUME NEW i \in DOMAIN points'
      PROVE  ShowsItsTime(points'[i], req, states, seen.states)
  <2>1. CASE i = Len(points) + 1
    BY <1>3, <1>4, <2>1
  <2>2. CASE i # Len(points) + 1
    <3>1. i \in DOMAIN points /\ points'[i] = points[i]
      BY <1>4, <1>5, <2>2
    <3>2. ShowsItsTime(points[i], req, states, seen.states)
      BY <3>1 DEF SeriesInv
    <3>3. QED
      BY <3>1, <3>2
  <2>3. QED
    BY <2>1, <2>2
<1>7. QED
  BY <1>4, <1>6

LEMMA SeriesPointInv ==
    ASSUME SeriesInv, StatsTypes, SeriesPoint
    PROVE  SeriesInv'
<1>1. /\ pc = "points" /\ req.op # "homePower" /\ time_at > 0
      /\ UNCHANGED <<req, seen, states>>
  BY DEF SeriesPoint, Wanted, Docs
<1>2. PICK show \in Shown(Before(states, time_at)) :
        IF req.op = "oldPower" /\ NoState
        THEN pc' = "answered" /\ UNCHANGED <<points, time_at>>
        ELSE /\ points' = Append(points, [at |-> time_at, shown |-> show])
             /\ time_at' = NextAt
             /\ pc' = IF req.op = "active" /\ time_at' < GenesisTime THEN "answered" ELSE "points"
  BY DEF SeriesPoint
<1>3. CASE req.op = "oldPower" /\ NoState
  <2>1. pc' = "answered" /\ UNCHANGED <<points, time_at>>
    BY <1>2, <1>3
  <2>2. states \subseteq states'
    BY <1>1
  <2>3. QED
    BY <1>1, <2>1, <2>2, SeriesWaits
<1>4. CASE ~(req.op = "oldPower" /\ NoState)
  <2>1. /\ points' = Append(points, [at |-> time_at, shown |-> show]) /\ time_at' = NextAt
        /\ pc' \in {"answered", "points"}
    BY <1>2, <1>4
  <2>2. /\ req.op \in Series /\ time_at \in Nat
        /\ points \in Seq([at : Nat, shown : SUBSET States])
        /\ req.op = "active" => StepsDown
    BY <1>1 DEF SeriesInv
  <2>3. PICK e : e = [at |-> time_at, shown |-> show]
    OBVIOUS
  <2>4. e \in [at : Nat, shown : SUBSET States] /\ e.at = time_at
    BY <2>2, <2>3, PointRead
  <2>5. /\ points' \in Seq([at : Nat, shown : SUBSET States]) /\ Len(points') = Len(points) + 1
        /\ Len(points) \in Nat /\ points'[Len(points) + 1] = e /\ points' # <<>>
        /\ \A i \in 1..Len(points) : points'[i] = points[i]
        /\ points # <<>> => Len(points) \in 1..Len(points)
    BY <2>1, <2>2, <2>3, <2>4, LastPoint
  <2>6. \A i \in DOMAIN points' : ShowsItsTime(points'[i], req', states', seen'.states)
    BY <1>1, <2>1, <2>2, PointsGrow
  <2>7. req.diff \in Nat \ {0} /\ Word \in Nat \ {0}
    BY <1>1, RequestIs, FsApiAssumption DEF StatsTypes
  <2>8. CASE req.op = "active"
    <3>1. /\ 2 * time_at < Word
          /\ points # <<>> => /\ time_at <= points[Len(points)].at
                              /\ \E n \in 0..time_at : time_at = n * req.diff
          /\ \A i \in 1..(Len(points) - 1) : points[i + 1].at <= points[i].at
      BY <2>2, <2>8 DEF StepsDown, Storable
    <3>2. /\ time_at' \in Nat /\ time_at' <= time_at
          /\ \E n \in 0..time_at' : time_at' = n * req.diff
      <4>1. CASE points = <<>>
        <5>1. time_at' = time_at - (time_at % req.diff)
          BY <2>1, <2>8, <4>1 DEF NextAt
        <5>2. QED
          BY <2>2, <2>7, <5>1, StepToMultiple
      <4>2. CASE points # <<>>
        <5>1. time_at' = (time_at + Word - req.diff) % Word
          BY <2>1, <4>2 DEF NextAt
        <5>2. PICK n \in 0..time_at : time_at = n * req.diff
          BY <3>1, <4>2
        <5>3. n \in Nat /\ 0 < time_at /\ time_at < Word
          BY <1>1, <2>2, <2>7, <3>1, <5>2
        <5>4. QED
          BY <2>2, <2>7, <3>1, <5>1, <5>2, <5>3, StepDown
      <4>3. QED
        BY <4>1, <4>2
    <3>3. Storable(time_at')
      BY <2>2, <2>7, <3>1, <3>2 DEF Storable
    <3>4. \A i \in 1..Len(points) : points'[i + 1].at <= points'[i].at
      <4>1. TAKE i \in 1..Len(points)
      <4>2. CASE i = Len(points)
        <5>1. points # <<>>
          BY <2>5, <4>2
        <5>2. time_at <= points[Len(points)].at
          BY <3>1, <5>1
        <5>3. QED
          BY <2>4, <2>5, <4>2, <5>2
      <4>3. CASE i # Len(points)
        <5>1. i \in 1..(Len(points) - 1) /\ i + 1 \in 1..Len(points)
          BY <2>5, <4>3
        <5>2. QED
          BY <2>5, <3>1, <5>1
      <4>4. QED
        BY <4>2, <4>3
    <3>5. Len(points') - 1 = Len(points) /\ points'[Len(points')].at = time_at
      BY <2>4, <2>5
    <3>6. StepsDown'
      BY <1>1, <2>5, <3>2, <3>3, <3>4, <3>5 DEF StepsDown
    <3>7. QED
      BY <1>1, <2>2, <2>5, <2>6, <2>8, <3>2, <3>6 DEF SeriesInv
  <2>9. CASE req.op # "active"
    <3>1. PICK a : a = time_at + Word - req.diff
      OBVIOUS
    <3>2. a \in Int /\ time_at' = a % Word
      BY <2>1, <2>2, <2>7, <2>9, <3>1 DEF NextAt
    <3>3. time_at' \in Nat
      BY <2>7, <3>2, ModIs
    <3>4. QED
      BY <1>1, <2>2, <2>5, <2>6, <2>9, <3>3 DEF SeriesInv
  <2>10. QED
    BY <2>8, <2>9
<1>5. QED
  BY <1>3, <1>4

LEMMA HomePointInv ==
    ASSUME SeriesInv, StatsTypes, HomePoint
    PROVE  SeriesInv'
<1> DEFINE hs == HomeTimes(req.to)
<1>1. /\ pc = "points" /\ req.op = "homePower"
      /\ UNCHANGED <<req, seen, states, time_at>>
      /\ pc' = IF Len(points') = Len(hs) THEN "answered" ELSE "points"
  BY DEF HomePoint, Docs
<1>2. PICK show \in Shown(Before(states, hs[Len(points) + 1])) :
        points' = Append(points, [at |-> hs[Len(points) + 1], shown |-> show])
  BY DEF HomePoint
<1>3. /\ time_at \in Nat /\ points \in Seq([at : Nat, shown : SUBSET States])
      /\ HoursSoFar
  BY <1>1 DEF SeriesInv
<1>4. IsDay(hs, req.to)
  BY <1>1, RequestIs, HoursOfTheDay DEF StatsTypes
<1>5. /\ \A i \in DOMAIN points : points[i].at = hs[i]
      /\ Len(points) < Len(hs) /\ hs \in Seq(Nat)
  BY <1>1, <1>3, <1>4 DEF HoursSoFar, IsDay
<1>6. PICK t : t = hs[Len(points) + 1]
  OBVIOUS
<1>7. t \in Nat /\ Len(points) + 1 <= Len(hs) /\ Len(hs) \in Nat
  BY <1>3, <1>5, <1>6
<1>8. show \in Shown(Before(states, t)) /\ points' = Append(points, [at |-> t, shown |-> show])
  BY <1>2, <1>6
<1>9. /\ points' \in Seq([at : Nat, shown : SUBSET States])
      /\ \A i \in DOMAIN points' : ShowsItsTime(points'[i], req', states', seen'.states)
  BY <1>1, <1>7, <1>8, PointsGrow
<1>10. PICK e : e = [at |-> t, shown |-> show]
  OBVIOUS
<1>11. e \in [at : Nat, shown : SUBSET States] /\ e.at = t
  BY <1>1, <1>7, <1>8, <1>10, PointRead
<1>12. /\ Len(points') = Len(points) + 1 /\ Len(points) \in Nat
       /\ points'[Len(points) + 1] = e
       /\ \A i \in 1..Len(points) : points'[i] = points[i]
  BY <1>3, <1>8, <1>10, <1>11, LastPoint
<1>13. \A i \in DOMAIN points' : points'[i].at = hs[i]
  <2>1. TAKE i \in DOMAIN points'
  <2>2. i \in 1..(Len(points) + 1) /\ DOMAIN points = 1..Len(points)
    BY <1>3, <1>9, <1>12
  <2>3. CASE i = Len(points) + 1
    BY <1>6, <1>11, <1>12, <2>3
  <2>4. CASE i # Len(points) + 1
    <3>1. i \in DOMAIN points /\ points'[i] = points[i]
      BY <1>12, <2>2, <2>4
    <3>2. QED
      BY <1>5, <3>1
  <2>5. QED
    BY <2>3, <2>4
<1>14. HomeTimes(req.to)' = hs
  BY <1>1 DEF HomeTimes, GetIntHour
<1>15. pc' = "points" => Len(points') < Len(hs)
  BY <1>1, <1>7, <1>12
<1>16. HoursSoFar'
  BY <1>1, <1>13, <1>14, <1>15 DEF HoursSoFar
<1>17. QED
  BY <1>1, <1>3, <1>9, <1>16 DEF SeriesInv, Series

LEMMA SeriesStepInv ==
    SeriesInv /\ StatsTypes /\ [StatsNext]_statsVars => SeriesInv'
<1> SUFFICES ASSUME SeriesInv, StatsTypes, [StatsNext]_statsVars PROVE SeriesInv'
  OBVIOUS
<1>1. CASE StoreMined \/ StoreState \/ UNCHANGED statsVars
  <2>1. states \subseteq states' /\ UNCHANGED <<req, seen, points, time_at, pc>>
    BY <1>1 DEF StoreMined, StoreState, reqVars, statsVars
  <2>2. QED
    BY <2>1, SeriesWaits
<1>2. CASE AskStats
  BY <1>2, SeriesAsk
<1>3. CASE Search \/ Count \/ TotalBlocks
  <2>1. /\ UNCHANGED <<req, seen, points, time_at, states>>
        /\ pc' \in {"idle", "rows", "more"}
    BY <1>3 DEF Search, Count, TotalBlocks, Docs
  <2>2. QED
    BY <2>1 DEF SeriesInv
<1>4. CASE Rank \/ RowsOfTop \/ SetBlockValues \/ SetPowerValues
  <2>1. UNCHANGED <<req, seen, points, time_at, states>>
    BY <1>4 DEF Rank, RowsOfTop, SetBlockValues, SetPowerValues, Docs
  <2>2. req.op \notin Series \/ pc' \in {"idle", "more"}
    <3>1. CASE Rank
      <4>1. \/ pc' = "idle"
            \/ pc' = CASE req.op = "topPower" -> "total"
                       [] req.op = "topOld"   -> "answered"
                       [] OTHER               -> "more"
        BY <3>1 DEF Rank
      <4>2. QED
        BY <4>1 DEF Series
    <3>2. CASE RowsOfTop \/ SetBlockValues \/ SetPowerValues
      BY <3>2 DEF RowsOfTop, SetBlockValues, SetPowerValues, Series
    <3>3. QED
      BY <1>4, <3>1, <3>2
  <2>3. pc' \in {"idle", "total", "more", "answered"}
    <3>1. CASE Rank
      BY <3>1 DEF Rank
    <3>2. CASE RowsOfTop \/ SetBlockValues \/ SetPowerValues
      BY <3>2 DEF RowsOfTop, SetBlockValues, SetPowerValues
    <3>3. QED
      BY <1>4, <3>1, <3>2
  <2>4. QED
    BY <2>1, <2>2, <2>3 DEF SeriesInv
<1>5. CASE SeriesPoint
  BY <1>5, SeriesPointInv
<1>6. CASE HomePoint
  BY <1>6, HomePointInv
<1>7. CASE PointsEnd
  <2>1. /\ UNCHANGED <<req, seen, points, time_at>> /\ states \subseteq states'
        /\ pc = "points" /\ pc' = "answered" /\ req.op # "homePower"
    BY <1>7 DEF PointsEnd, Docs
  <2>2. QED
    BY <2>1, SeriesWaits
<1>8. CASE Fails
  <2>1. UNCHANGED <<req, seen, points, time_at>> /\ states \subseteq states'
    BY <1>8 DEF Fails, Docs
  <2>2. \/ pc' = "idle"
        \/ pc' = "more" /\ pc = "rows"
        \/ pc' = "answered" /\ req.op = "topPower"
        \/ pc' = "answered" /\ pc = "points" /\ req.op = "active"
    BY <1>8 DEF Fails
  <2>3. CASE pc' = "more"
    BY <2>3 DEF SeriesInv
  <2>4. CASE pc' # "more"
    BY <2>1, <2>2, <2>4, SeriesWaits DEF Series
  <2>5. QED
    BY <2>3, <2>4
<1>9. QED
  BY <1>1, <1>2, <1>3, <1>4, <1>5, <1>6, <1>7, <1>8 DEF StatsNext

(* The points of a series so far show their times, which step down by      *)
(* multiples of diff without wrapping, or follow the hours of the day.     *)
THEOREM SeriesFollow == StatsSpec => [](StatsTypes /\ SeriesInv)
BY SeriesInitInv, SeriesStepInv, StatsInitTypes, StatsStepTypes, PTL DEF StatsSpec

(* The active miners are counted as often as asked, or down to the start.  *)
ActiveWhole ==
    pc = "answered" /\ clean /\ req.op = "active" =>
        Len(points) = Repeate(req) \/ time_at = 0 \/ time_at < GenesisTime

LEMMA ActiveInitWhole == StatsInit => ActiveWhole
BY DEF StatsInit, ActiveWhole

(* No time of theirs is refused. *)
LEMMA ActiveStepWhole ==
    SeriesInv /\ ActiveWhole /\ [StatsNext]_statsVars => ActiveWhole'
<1> SUFFICES ASSUME SeriesInv, ActiveWhole, [StatsNext]_statsVars,
                    pc' = "answered", clean', req'.op = "active"
             PROVE  (Len(points) = Repeate(req) \/ time_at = 0 \/ time_at < GenesisTime)'
  BY DEF ActiveWhole
<1>1. CASE StoreMined \/ StoreState \/ UNCHANGED statsVars
  <2>1. UNCHANGED <<req, pc, clean, points, time_at>>
    BY <1>1 DEF StoreMined, StoreState, reqVars, statsVars
  <2>2. QED
    BY <2>1 DEF ActiveWhole, Repeate
<1>2. CASE AskStats
  <2>1. pc' \in {"idle", "search", "count", "rows", "points"}
    BY <1>2 DEF AskStats
  <2>2. QED
    BY <2>1
<1>3. CASE Search \/ Count \/ TotalBlocks
  BY <1>3 DEF Search, Count, TotalBlocks
<1>4. CASE Rank
  <2>1. req' = req /\ (\/ pc' = "idle"
                      \/ pc' = CASE req.op = "topPower" -> "total"
                                 [] req.op = "topOld"   -> "answered"
                                 [] OTHER               -> "more")
    BY <1>4 DEF Rank
  <2>2. QED
    BY <2>1
<1>5. CASE RowsOfTop \/ SetBlockValues \/ SetPowerValues \/ HomePoint
  BY <1>5 DEF RowsOfTop, SetBlockValues, SetPowerValues, HomePoint
<1>6. CASE SeriesPoint
  <2>1. pc' = "answered" => req.op = "oldPower" \/ time_at' < GenesisTime
    BY <1>6 DEF SeriesPoint, Wanted
  <2>2. req' = req
    BY <1>6 DEF SeriesPoint
  <2>3. QED
    BY <2>1, <2>2
<1>7. CASE PointsEnd
  BY <1>7 DEF PointsEnd, Repeate
<1>8. CASE Fails
  <2>1. Refused /\ req' = req
    BY <1>8 DEF Fails, CallFails
  <2>2. pc = "points" /\ ~Storable(time_at) /\ req.op = "active"
    BY <2>1 DEF Refused, Wanted
  <2>3. QED
    BY <2>2 DEF SeriesInv, StepsDown
<1>9. QED
  BY <1>1, <1>2, <1>3, <1>4, <1>5, <1>6, <1>7, <1>8 DEF StatsNext

(* For every chain of blocks and states, and every request, whatever is    *)
(* stored and fails meanwhile: each point of a series shows what its time  *)
(* asks for, and the times are in order.                                   *)
THEOREM PointsInTime == StatsSpec => []PointsShowTheirTime
<1>1. StatsTypes /\ SeriesInv /\ ActiveWhole => PointsShowTheirTime
  <2> SUFFICES ASSUME StatsTypes, SeriesInv, ActiveWhole, Answered, req.op \in Series
               PROVE  PointsShowTheirTime
    BY DEF PointsShowTheirTime
  <2>1. /\ points \in Seq([at : Nat, shown : SUBSET States])
        /\ \A i \in DOMAIN points : ShowsItsTime(points[i], req, states, seen.states)
        /\ req.op = "active" => StepsDown
        /\ req.op = "homePower" => HoursSoFar
    BY DEF SeriesInv, Answered
  <2>2. ASSUME NEW i \in DOMAIN points
        PROVE  /\ points[i].shown \subseteq Before(states, points[i].at)
               /\ \A s \in Before(seen.states, points[i].at) :
                   \E t \in points[i].shown :
                       /\ t.miner = s.miner \/ req.op \in {"totalPower", "homePower"}
                       /\ s.height <= t.height
    BY <2>1, <2>2, BeforeIs DEF ShowsItsTime
  <2>3. req.op = "active" =>
            /\ \A i \in 1..(Len(points) - 1) : points[i + 1].at <= points[i].at
            /\ Len(points) = Repeate(req) \/ time_at = 0 \/ time_at < GenesisTime
    BY <2>1 DEF StepsDown, ActiveWhole, Answered
  <2>4. ASSUME req.op = "homePower"
        PROVE  /\ \A i \in 1..(Len(points) - 1) : points[i].at < points[i + 1].at
               /\ points[1].at >= req.to - Day /\ points[Len(points)].at = req.to
    <3> DEFINE hs == HomeTimes(req.to)
    <3>1. IsDay(hs, req.to)
      BY <2>4, RequestIs, HoursOfTheDay DEF StatsTypes, Answered
    <3>2. /\ Len(points) = Len(hs) /\ \A i \in DOMAIN points : points[i].at = hs[i]
      BY <2>1, <2>4 DEF HoursSoFar, Answered
    <3>3. Len(hs) > 0 /\ Len(hs) \in Nat /\ DOMAIN points = 1..Len(hs)
      BY <2>1, <3>1, <3>2 DEF IsDay
    <3>4. \A i \in 1..(Len(points) - 1) : i \in DOMAIN points /\ i + 1 \in DOMAIN points
      BY <3>2, <3>3
    <3>5. 1 \in DOMAIN points /\ Len(points) \in DOMAIN points
      BY <3>2, <3>3
    <3>6. QED
      BY <3>1, <3>2, <3>4, <3>5 DEF IsDay
  <2>5. QED
    BY <2>2, <2>3, <2>4 DEF PointsShowTheirTime
<1>2. StatsSpec => []ActiveWhole
  BY SeriesFollow, ActiveInitWhole, ActiveStepWhole, PTL DEF StatsSpec
<1>3. QED
  BY <1>1, <1>2, SeriesFollow, PTL

-----------------------------------------------------------------------------
(* The pages and figures of a list. *)

Parts(docs, own, rest) == IsFiniteSet(docs) /\ own \subseteq docs /\ rest = docs \ own

LEMMA CardOfParts ==
    ASSUME NEW docs, NEW own, NEW rest, Parts(docs, own, rest)
    PROVE  /\ IsFiniteSet(own) /\ IsFiniteSet(rest)
           /\ Cardinality(own) \in Nat /\ Cardinality(rest) \in Nat
           /\ Cardinality(docs) = Cardinality(own) + Cardinality(rest)
<1>0. IsFiniteSet(docs) /\ own \subseteq docs /\ rest = docs \ own
  BY DEF Parts
<1>1. own \cup rest = docs /\ own \cap rest = {}
  BY <1>0
<1>2. IsFiniteSet(own) /\ IsFiniteSet(rest)
  BY <1>0, FS_Subset
<1>3. /\ Cardinality(own) \in Nat /\ Cardinality(rest) \in Nat
      /\ Cardinality(docs) \in Nat /\ Cardinality(own \cap rest) = 0
  BY <1>0, <1>1, <1>2, FS_CardinalityType, FS_EmptySet
<1>4. PICK c : c = Cardinality(own \cup rest)
  OBVIOUS
<1>5. c = Cardinality(own) + Cardinality(rest) - 0
  BY <1>2, <1>3, <1>4, FS_Union
<1>6. c = Cardinality(docs)
  BY <1>1, <1>4, Zenon
<1>7. QED
  BY <1>2, <1>3, <1>5, <1>6

(* Of different miners each has its share of the documents. *)
Shares(f, w, docs) ==
    /\ Summable(f) /\ IsFiniteSet(docs)
    /\ \A x, y \in DOMAIN f : w[x] = w[y] => x = y
    /\ \A x \in DOMAIN f : f[x] <= Cardinality({d \in docs : d.miner = w[x]})

LEMMA SharesAdd ==
    ASSUME NEW f, NEW w, NEW docs, Shares(f, w, docs)
    PROVE  SumFunction(f) <= Cardinality(docs)
<1> DEFINE Good(u, ds) == SumFunction(u) <= Cardinality(ds)
           Bad == {n \in Nat : \E u, ds : /\ Shares(u, w, ds) /\ Cardinality(DOMAIN u) = n
                                          /\ ~Good(u, ds)}
<1>1. Bad = {}
  <2> SUFFICES ASSUME Bad # {} PROVE FALSE
    OBVIOUS
  <2>1. PICK n \in Bad : \A j \in Bad : n <= j
    <3>1. Bad \in SUBSET Nat
      OBVIOUS
    <3> HIDE DEF Bad
    <3>2. QED
      BY <3>1, FirstOfNats
  <2>2. PICK u, ds : Shares(u, w, ds) /\ Cardinality(DOMAIN u) = n /\ ~Good(u, ds)
    BY <2>1
  <2>3. IsFiniteSet(ds) /\ Cardinality(ds) \in Nat
    BY <2>2, FS_CardinalityType DEF Shares
  <2>4. DOMAIN u # {}
    <3>1. SUFFICES ASSUME DOMAIN u = {} PROVE FALSE
      OBVIOUS
    <3>2. SumFunction(u) = 0
      BY <3>1, SumEmpty
    <3>3. Good(u, ds)
      BY <2>3, <3>2
    <3>4. QED
      BY <2>2, <3>3
  <2>5. PICK a : a \in DOMAIN u
    BY <2>4
  <2>6. PICK own, rest : own = {d \in ds : d.miner = w[a]} /\ rest = ds \ own
    OBVIOUS
  <2>7. /\ IsFiniteSet(rest) /\ Cardinality(rest) \in Nat /\ Cardinality(own) \in Nat
        /\ Cardinality(rest) = Cardinality(ds) - Cardinality(own)
    <3>1. Parts(ds, own, rest)
      BY <2>3, <2>6 DEF Parts
    <3>2. QED
      BY <2>3, <3>1, CardOfParts
  <2>8. PICK r : r = Rest(u, a)
    OBVIOUS
  <2>9. /\ Summable(r) /\ Cardinality(DOMAIN r) = Cardinality(DOMAIN u) - 1
        /\ Cardinality(DOMAIN u) \in Nat /\ Cardinality(DOMAIN r) \in Nat
        /\ DOMAIN r = DOMAIN u \ {a} /\ \A z \in DOMAIN r : r[z] = u[z]
    <3>1. Summable(u)
      BY <2>2 DEF Shares
    <3>2. QED
      BY <2>5, <2>8, <3>1, RestSummable
  <2>10. Shares(r, w, rest)
    <3>1. ASSUME NEW x \in DOMAIN r
          PROVE  r[x] <= Cardinality({d \in rest : d.miner = w[x]})
      <4>1. w[x] # w[a] /\ r[x] = u[x] /\ x \in DOMAIN u
        BY <2>2, <2>5, <2>9 DEF Shares
      <4>2. {d \in rest : d.miner = w[x]} = {d \in ds : d.miner = w[x]}
        BY <2>6, <4>1
      <4>3. QED
        BY <2>2, <4>1, <4>2 DEF Shares
    <3>2. \A x, y \in DOMAIN r : w[x] = w[y] => x = y
      BY <2>2, <2>9 DEF Shares
    <3>3. QED
      BY <2>7, <2>9, <3>1, <3>2 DEF Shares
  <2>11. SumFunction(r) <= Cardinality(rest)
    <3>1. ~(n <= Cardinality(DOMAIN r))
      BY <2>2, <2>9
    <3>2. Cardinality(DOMAIN r) \notin Bad
      <4> HIDE DEF Bad
      <4>1. QED
        BY <2>1, <3>1
    <3>3. QED
      BY <2>9, <2>10, <3>2
  <2>12. SumFunction(u) = u[a] + SumFunction(r) /\ u[a] \in Nat /\ u[a] <= Cardinality(own)
    BY <2>2, <2>5, <2>6, <2>8, SumAdds DEF Shares, Summable
  <2>13. SumFunction(r) \in Nat
    BY <2>9, SumNat
  <2>14. SumFunction(u) <= Cardinality(ds)
    BY <2>3, <2>7, <2>11, <2>12, <2>13
  <2>15. QED
    BY <2>2, <2>14
<1>2. Cardinality(DOMAIN f) \in Nat
  BY FS_CardinalityType DEF Shares, Summable
<1>3. QED
  BY <1>1, <1>2

LEMMA MinersFinite ==
    ASSUME NEW docs, IsFiniteSet(docs)
    PROVE  /\ IsFiniteSet(MinersOf(docs)) /\ Cardinality(MinersOf(docs)) \in Nat
           /\ \A more \in SUBSET docs : /\ MinersOf(more) \subseteq MinersOf(docs)
                                        /\ Cardinality(MinersOf(more)) \in Nat
                                        /\ Cardinality(MinersOf(more)) <= Cardinality(MinersOf(docs))
<1> DEFINE f == [d \in docs |-> d.miner]
<1>1. f \in Surjection(docs, MinersOf(docs))
  BY DEF Surjection, MinersOf
<1>2. IsFiniteSet(MinersOf(docs))
  BY <1>1, FS_Surjection
<1>3. \A more \in SUBSET docs : MinersOf(more) \subseteq MinersOf(docs)
  BY DEF MinersOf
<1>4. QED
  BY <1>2, <1>3, FS_Subset, FS_CardinalityType

(* An order of a set lists each of its members once. *)
LEMMA OrderIs ==
    ASSUME NEW S, IsFiniteSet(S), NEW o \in SetToSeqs(S)
    PROVE  /\ o \in Seq(S) /\ Len(o) = Cardinality(S) /\ Len(o) \in Nat
           /\ \A i, j \in 1..Len(o) : o[i] = o[j] => i = j
           /\ \A s \in S : \E i \in 1..Len(o) : o[i] = s
<1>1. PICK n : n = Cardinality(S)
  OBVIOUS
<1>2. n \in Nat /\ IsFiniteSet(1..n) /\ Cardinality(1..n) = n
  BY <1>1, FS_CardinalityType, FS_Interval
<1>3. o \in [1..n -> S] /\ \A i, j \in 1..n : i # j => o[i] # o[j]
  BY <1>1 DEF SetToSeqs
<1>4. o \in Seq(S) /\ Len(o) = n
  BY <1>2, <1>3
<1>5. o \in Injection(1..n, S)
  BY <1>3 DEF Injection, IsInjective
<1>6. o \in Surjection(1..n, S)
  BY <1>1, <1>2, <1>5, FS_Injection
<1>7. \A s \in S : \E i \in 1..n : o[i] = s
  BY <1>6 DEF Surjection
<1>8. QED
  BY <1>1, <1>2, <1>3, <1>4, <1>7

(* A page lists different members of a set, no more than the limit. *)
IsPage(g, S) ==
    /\ g \in Seq(S) /\ Len(g) \in Nat /\ Len(g) <= Cardinality(S)
    /\ \A i, j \in 1..Len(g) : g[i] = g[j] => i = j
Lists(g, S) == \A s \in S : \E i \in 1..Len(g) : g[i] = s

LEMMA PageIs ==
    ASSUME NEW S, IsFiniteSet(S), NEW o \in SetToSeqs(S), NEW offset \in Nat, Limit \in Nat
    PROVE  /\ IsPage(Page(o, offset), S) /\ Len(Page(o, offset)) <= Limit
           /\ offset = 0 /\ Cardinality(S) <= Limit => Lists(Page(o, offset), S)
<1>1. /\ o \in Seq(S) /\ Len(o) = Cardinality(S) /\ Len(o) \in Nat
      /\ \A i, j \in 1..Len(o) : o[i] = o[j] => i = j
      /\ \A s \in S : \E i \in 1..Len(o) : o[i] = s
  BY OrderIs
<1>2. PICK n : n = Min({offset + Limit, Len(o)})
  OBVIOUS
<1>3. n \in Nat /\ n <= offset + Limit /\ n <= Len(o) /\ n \in {offset + Limit, Len(o)}
  <2>1. {offset + Limit, Len(o)} # {} /\ {offset + Limit, Len(o)} \subseteq Nat
    BY <1>1
  <2>2. /\ Min({offset + Limit, Len(o)}) \in {offset + Limit, Len(o)}
        /\ \A h \in {offset + Limit, Len(o)} : Min({offset + Limit, Len(o)}) <= h
    BY <2>1, LowestIs
  <2>3. QED
    BY <1>1, <1>2, <2>2
<1>4. PICK g : g = SubSeq(o, offset + 1, n)
  OBVIOUS
<1>5. \A i \in (offset + 1)..n : o[i] \in S
  BY <1>1, <1>3
<1>6. /\ g \in Seq(S) /\ Len(g) = IF offset + 1 <= n THEN n - (offset + 1) + 1 ELSE 0
      /\ \A i \in 1..(n - (offset + 1) + 1) : g[i] = o[offset + 1 + i - 1]
  <2>1. offset + 1 \in Int /\ n \in Int
    BY <1>3
  <2>2. QED
    BY <1>4, <1>5, <2>1, SubSeqProperties
<1>7. \A i \in 1..Len(g) : offset + i \in 1..Len(o) /\ g[i] = o[offset + i]
  BY <1>1, <1>3, <1>6
<1>8. Len(g) \in Nat /\ Len(g) <= Limit /\ Len(g) <= Cardinality(S)
  BY <1>1, <1>3, <1>6
<1>9. ASSUME NEW i \in 1..Len(g), NEW j \in 1..Len(g), g[i] = g[j] PROVE i = j
  <2>1. /\ i \in Nat /\ j \in Nat
        /\ offset + i \in 1..Len(o) /\ offset + j \in 1..Len(o)
        /\ o[offset + i] = o[offset + j]
    BY <1>7, <1>8, <1>9
  <2>2. offset + i = offset + j
    BY <1>1, <2>1
  <2>3. QED
    BY <2>1, <2>2
<1>10. ASSUME offset = 0, Cardinality(S) <= Limit PROVE Lists(g, S)
  <2>1. n = Len(o)
    BY <1>1, <1>3, <1>10
  <2>2. Len(g) = Len(o)
    BY <1>1, <1>6, <1>10, <2>1
  <2>3. \A i \in 1..Len(o) : g[i] = o[i]
    BY <1>1, <1>7, <1>10, <2>2
  <2>4. QED
    BY <1>1, <2>2, <2>3 DEF Lists
<1>11. Page(o, offset) = g
  BY <1>2, <1>4 DEF Page
<1>12. QED
  BY <1>6, <1>8, <1>9, <1>10, <1>11 DEF IsPage

LEMMA KeptIs ==
    ASSUME NEW figures, NEW miners
    PROVE  /\ DOMAIN Kept(figures, miners) \subseteq DOMAIN figures
           /\ miners # {} => DOMAIN Kept(figures, miners) = DOMAIN figures \cap miners
BY DEF Kept

LEMMA CountsIs ==
    ASSUME NEW bs, IsFiniteSet(bs)
    PROVE  /\ DOMAIN Counts(bs) = MinersOf(bs)
           /\ \A m \in MinersOf(bs) :
                Counts(bs)[m] = Cardinality({b \in bs : b.miner = m}) /\ Counts(bs)[m] \in Nat
<1>1. \A m \in MinersOf(bs) : Cardinality({b \in bs : b.miner = m}) \in Nat
  BY FS_Subset, FS_CardinalityType
<1>2. QED
  BY <1>1 DEF Counts

-----------------------------------------------------------------------------
(* The lists and rankings, while no call has failed. *)

(* What the blocks of the rows are counted from, by whom they were mined.  *)
BlocksIn(r, from, to, bs) ==
    IF r.op = "topPower" THEN AfterWindow(bs, from, to) ELSE InWindow(bs, from, to)
OwnedIn(r, from, to, bs, m) == Cardinality({b \in BlocksIn(r, from, to, bs) : b.miner = m})

(* The collection the miners of the rows come from. *)
Fed(r, bs, ss) == IF r.op \in {"block", "topBlock"} THEN bs ELSE ss
FedNow == Fed(req, blocks, states)
FedBefore == Fed(req, seen.blocks, seen.states)

StageInv ==
    /\ pc \in {"search", "count", "rows", "total", "more", "answered"}
    /\ pc = "search" => req.op = "search"
    /\ pc = "count" => req.op \in Ranking
    /\ pc = "total" => req.op = "topPower"
    /\ pc = "more" => req.op # "topOld"
    /\ pc \in {"search", "count", "rows"} => rows = <<>> /\ total = 0
    /\ pc = "more" /\ req.op \in {"power", "search"} => Len(rows) <= Limit /\ total = 0
    /\ IsFiniteSet(filter)

(* The rows are of different miners, those the count knows or newer ones.  *)
IsRows(rs) ==
    /\ Len(rs) \in Nat /\ DOMAIN rs = 1..Len(rs)
    /\ \A i \in DOMAIN rs : /\ rs[i] = Row(rs[i].miner, rs[i].blocks, rs[i].power)
                            /\ rs[i].blocks \in Nat
    /\ \A i, j \in DOMAIN rs : rs[i].miner = rs[j].miner => i = j
CountInv ==
    /\ count \in Nat
    /\ pc = "rows" /\ req.op \in Ranking =>
          Cardinality(MinersOf(InWindow(FedBefore, From, To))) <= count
    /\ pc \in {"total", "more", "answered"} =>
          Len(rows) <= count + Cardinality(MinersOf(FedNow \ FedBefore))

(* A row counts what its miner had mined and no more than it has mined. *)
Counted(row, r, from, to, bs, old) ==
    /\ row.blocks <= OwnedIn(r, from, to, bs, row.miner)
    /\ r.offset = 0 => OwnedIn(r, from, to, old, row.miner) <= row.blocks
FigureInv ==
    \/ pc = "more" /\ req.op \in {"block", "topBlock"}
    \/ pc = "answered" /\ req.op # "topOld"
    => \A i \in DOMAIN rows : Counted(rows[i], req, From, To, blocks, seen.blocks)

(* The whole was counted since the request came, the rows' sum by now. *)
Within(r, from, to, bs) == Cardinality(BlocksIn(r, from, to, bs))
ShareInv ==
    /\ total \in Nat /\ MinedBy(rows) \in Nat
    /\ \/ total = 0
       \/ req.op = "topBlock"
       \/ /\ counted \subseteq blocks /\ seen.blocks \subseteq counted
          /\ total = Within(req, From, To, counted)
    /\ pc = "more" /\ req.op = "topPower" =>
          counted \subseteq blocks /\ total = Within(req, From, To, counted)
    /\ \/ pc = "more" /\ req.op = "block"
       \/ pc = "answered" /\ req.op \in List \cup {"topPower"}
       => /\ counted \subseteq blocks
          /\ MinedBy(rows) + Within(req, From, To, counted) <= total + Within(req, From, To, blocks)

ListInv ==
    clean /\ pc # "idle" /\ req.op \in List \cup Ranking =>
        StageInv /\ IsRows(rows) /\ CountInv /\ FigureInv /\ ShareInv

LEMMA BlocksFinite ==
    ASSUME StatsTypes
    PROVE  /\ IsFiniteSet(blocks) /\ IsFiniteSet(states)
           /\ seen.blocks \subseteq blocks /\ seen.states \subseteq states
           /\ IsFiniteSet(FedNow) /\ FedBefore \subseteq FedNow
BY MinedAssumption, StatesAre, FS_Subset DEF StatsTypes, StoreInv, FedNow, FedBefore, Fed

(* Of more blocks more are counted. *)
LEMMA OwnedGrows ==
    ASSUME NEW r, NEW from, NEW to, NEW more, IsFiniteSet(more), NEW bs, bs \subseteq more
    PROVE  /\ IsFiniteSet(BlocksIn(r, from, to, more))
           /\ Within(r, from, to, bs) \in Nat /\ Within(r, from, to, more) \in Nat
           /\ Within(r, from, to, bs) <= Within(r, from, to, more)
           /\ \A m : /\ OwnedIn(r, from, to, bs, m) \in Nat /\ OwnedIn(r, from, to, more, m) \in Nat
                     /\ OwnedIn(r, from, to, bs, m) <= OwnedIn(r, from, to, more, m)
<1>1. PICK a, b : a = BlocksIn(r, from, to, bs) /\ b = BlocksIn(r, from, to, more)
  OBVIOUS
<1>2. a \subseteq b /\ b \subseteq more
  BY <1>1 DEF BlocksIn, InWindow, AfterWindow
<1>3. IsFiniteSet(a) /\ IsFiniteSet(b) /\ Cardinality(a) <= Cardinality(b)
  BY <1>2, FS_Subset
<1>4. Cardinality(a) \in Nat /\ Cardinality(b) \in Nat
  BY <1>3, FS_CardinalityType
<1>5. ASSUME NEW m
      PROVE  /\ OwnedIn(r, from, to, bs, m) \in Nat /\ OwnedIn(r, from, to, more, m) \in Nat
             /\ OwnedIn(r, from, to, bs, m) <= OwnedIn(r, from, to, more, m)
  <2>1. PICK c, d : c = {x \in a : x.miner = m} /\ d = {x \in b : x.miner = m}
    OBVIOUS
  <2>2. c \subseteq d /\ d \subseteq b
    BY <1>2, <2>1
  <2>3. IsFiniteSet(c) /\ IsFiniteSet(d) /\ Cardinality(c) <= Cardinality(d)
    BY <1>3, <2>2, FS_Subset
  <2>4. Cardinality(c) \in Nat /\ Cardinality(d) \in Nat
    BY <2>3, FS_CardinalityType
  <2>5. OwnedIn(r, from, to, bs, m) = Cardinality(c) /\ OwnedIn(r, from, to, more, m) = Cardinality(d)
    BY <1>1, <2>1 DEF OwnedIn
  <2>6. QED
    BY <2>3, <2>4, <2>5
<1>6. QED
  BY <1>1, <1>3, <1>4, <1>5 DEF Within

LEMMA NewMinersGrow ==
    ASSUME NEW docs, NEW more, IsFiniteSet(more), docs \subseteq more, NEW old
    PROVE  /\ Cardinality(MinersOf(docs \ old)) \in Nat
           /\ Cardinality(MinersOf(more \ old)) \in Nat
           /\ Cardinality(MinersOf(docs \ old)) <= Cardinality(MinersOf(more \ old))
<1>1. PICK a, b : a = docs \ old /\ b = more \ old
  OBVIOUS
<1>2. a \subseteq b /\ IsFiniteSet(b)
  BY <1>1, FS_Subset
<1>3. /\ Cardinality(MinersOf(a)) \in Nat /\ Cardinality(MinersOf(b)) \in Nat
      /\ Cardinality(MinersOf(a)) <= Cardinality(MinersOf(b))
  BY <1>2, MinersFinite
<1>4. QED
  BY <1>1, <1>3

(* Whatever is stored meanwhile. *)
LEMMA ListWaits ==
    ASSUME ListInv, StatsTypes, StatsTypes', blocks \subseteq blocks', states \subseteq states',
           UNCHANGED <<req, pc, filter, rows, count, total, seen, counted, clean>>
    PROVE  ListInv'
<1>1. SUFFICES ASSUME clean, pc # "idle", req.op \in List \cup Ranking
               PROVE  (StageInv /\ IsRows(rows) /\ CountInv /\ FigureInv /\ ShareInv)'
  BY DEF ListInv
<1>2. StageInv /\ IsRows(rows) /\ CountInv /\ FigureInv /\ ShareInv
  BY <1>1 DEF ListInv
<1>3. PICK f, t : f = From /\ t = To
  OBVIOUS
<1>4. From' = f /\ To' = t /\ Limit' = Limit
  BY <1>3 DEF From, To, Limit
<1>5. IsFiniteSet(blocks') /\ IsFiniteSet(states') /\ seen.blocks \subseteq blocks
  BY MinedAssumption, StatsAssumption, FS_Subset DEF StatsTypes, StoreInv
<1>6. StageInv' /\ IsRows(rows)'
  BY <1>2, <1>4 DEF StageInv, IsRows
<1>7. CountInv'
  <2>1. /\ FedBefore' = FedBefore /\ FedNow \subseteq FedNow' /\ IsFiniteSet(FedNow')
    BY <1>5 DEF FedBefore, FedNow, Fed
  <2>2. /\ Cardinality(MinersOf(FedNow \ FedBefore)) \in Nat
        /\ Cardinality(MinersOf(FedNow' \ FedBefore)) \in Nat
        /\ Cardinality(MinersOf(FedNow \ FedBefore)) <= Cardinality(MinersOf(FedNow' \ FedBefore))
    BY <2>1, NewMinersGrow
  <2>3. PICK a, b : /\ a = Cardinality(MinersOf(FedNow \ FedBefore))
                    /\ b = Cardinality(MinersOf(FedNow' \ FedBefore))
    OBVIOUS
  <2>4. MinersOf(FedNow \ FedBefore)' = MinersOf(FedNow' \ FedBefore)
    BY <2>1
  <2>5. pc \in {"total", "more", "answered"} => Len(rows) <= count + a
    BY <1>2, <2>3 DEF CountInv
  <2>6. pc \in {"total", "more", "answered"} => Len(rows) <= count + b
    BY <1>2, <2>2, <2>3, <2>5 DEF CountInv, IsRows
  <2>7. Cardinality(MinersOf(InWindow(FedBefore, From, To)))' = Cardinality(MinersOf(InWindow(FedBefore, From, To)))
    BY <1>3, <1>4, <2>1
  <2>8. QED
    BY <1>2, <2>3, <2>4, <2>6, <2>7 DEF CountInv
<1>8. FigureInv'
  <2>1. SUFFICES ASSUME \/ pc = "more" /\ req.op \in {"block", "topBlock"}
                        \/ pc = "answered" /\ req.op # "topOld",
                        NEW i \in DOMAIN rows
                 PROVE  Counted(rows[i], req, f, t, blocks', seen.blocks)
    BY <1>4 DEF FigureInv
  <2>2. Counted(rows[i], req, f, t, blocks, seen.blocks)
    BY <1>2, <1>3, <2>1 DEF FigureInv
  <2>3. rows[i].blocks \in Nat
    BY <1>2 DEF IsRows
  <2>4. PICK m : m = rows[i].miner
    OBVIOUS
  <2>5. /\ OwnedIn(req, f, t, blocks, m) \in Nat /\ OwnedIn(req, f, t, blocks', m) \in Nat
        /\ OwnedIn(req, f, t, blocks, m) <= OwnedIn(req, f, t, blocks', m)
    BY <1>5, OwnedGrows
  <2>6. QED
    BY <2>2, <2>3, <2>4, <2>5 DEF Counted
<1>9. ShareInv'
  <2>1. /\ Within(req, f, t, blocks) \in Nat /\ Within(req, f, t, blocks') \in Nat
        /\ Within(req, f, t, blocks) <= Within(req, f, t, blocks')
    BY <1>5, OwnedGrows
  <2>2. ASSUME \/ pc = "more" /\ req.op = "block"
               \/ pc = "answered" /\ req.op \in List \cup {"topPower"}
        PROVE  /\ counted \subseteq blocks'
               /\ MinedBy(rows) + Within(req, f, t, counted) <= total + Within(req, f, t, blocks')
    <3>1. /\ counted \subseteq blocks
          /\ MinedBy(rows) + Within(req, f, t, counted) <= total + Within(req, f, t, blocks)
      BY <1>2, <1>3, <2>2 DEF ShareInv
    <3>2. IsFiniteSet(blocks)
      BY BlocksFinite
    <3>3. Within(req, f, t, counted) \in Nat
      BY <3>1, <3>2, OwnedGrows
    <3>4. total \in Nat /\ MinedBy(rows) \in Nat
      BY <1>2 DEF ShareInv
    <3>5. QED
      BY <2>1, <3>1, <3>3, <3>4
  <2>3. \/ total = 0
        \/ req.op = "topBlock"
        \/ /\ counted \subseteq blocks' /\ seen.blocks \subseteq counted
           /\ total = Within(req, f, t, counted)
    BY <1>2, <1>3 DEF ShareInv
  <2>4. pc = "more" /\ req.op = "topPower" =>
          counted \subseteq blocks' /\ total = Within(req, f, t, counted)
    BY <1>2, <1>3 DEF ShareInv
  <2>5. total \in Nat /\ MinedBy(rows) \in Nat
    BY <1>2 DEF ShareInv
  <2>6. QED
    BY <1>4, <2>2, <2>3, <2>4, <2>5 DEF ShareInv
<1>10. QED
  BY <1>6, <1>7, <1>8, <1>9

LEMMA LenIs ==
    ASSUME NEW s, NEW n \in Nat, s = [i \in 1..n |-> s[i]]
    PROVE  Len(s) = n /\ DOMAIN s = 1..n
<1> DEFINE T == {s[i] : i \in 1..n}
<1>1. s \in [1..n -> T]
  OBVIOUS
<1> HIDE DEF T
<1>2. s \in Seq(T)
  BY <1>1
<1>3. QED
  BY <1>1, <1>2

(* The rows have mined no more than there is. *)
LEMMA RowsShare ==
    ASSUME NEW rs, IsRows(rs)
    PROVE  /\ MinedBy(rs) \in Nat
           /\ \A docs : /\ IsFiniteSet(docs)
                        /\ \A i \in DOMAIN rs :
                             rs[i].blocks <= Cardinality({d \in docs : d.miner = rs[i].miner})
                        => MinedBy(rs) <= Cardinality(docs)
<1>1. PICK f, w : f = [i \in DOMAIN rs |-> rs[i].blocks] /\ w = [i \in DOMAIN rs |-> rs[i].miner]
  OBVIOUS
<1>2. Summable(f)
  <2>1. IsFiniteSet(DOMAIN rs)
    BY FS_Interval DEF IsRows
  <2>2. QED
    BY <1>1, <2>1 DEF IsRows, Summable
<1>3. MinedBy(rs) = SumFunction(f)
  BY <1>1 DEF MinedBy
<1>4. ASSUME NEW docs, IsFiniteSet(docs),
             \A i \in DOMAIN rs : rs[i].blocks <= Cardinality({d \in docs : d.miner = rs[i].miner})
      PROVE  SumFunction(f) <= Cardinality(docs)
  <2>1. Shares(f, w, docs)
    BY <1>1, <1>2, <1>4 DEF Shares, IsRows
  <2>2. QED
    BY <2>1, SharesAdd
<1>5. SumFunction(f) \in Nat
  BY <1>2, SumNat
<1>6. QED
  BY <1>3, <1>4, <1>5

LEMMA NoRows == IsRows(<<>>) /\ MinedBy(<<>>) = 0 /\ MinedBy(<<>>) \in Nat
<1>1. PICK f : f = [i \in DOMAIN <<>> |-> <<>>[i].blocks]
  OBVIOUS
<1>2. DOMAIN f = {}
  BY <1>1
<1>3. MinedBy(<<>>) = SumFunction(f)
  BY <1>1 DEF MinedBy
<1>4. QED
  BY <1>2, <1>3, SumEmpty DEF IsRows

(* Before the rows are there. *)
LEMMA ListStarts ==
    ASSUME pc' \in {"search", "count", "rows"}, rows' = <<>>, total' = 0,
           IsFiniteSet(filter'), count' \in Nat,
           pc' = "search" => req'.op = "search", pc' = "count" => req'.op \in Ranking,
           (pc = "rows" /\ req.op \in Ranking =>
                Cardinality(MinersOf(InWindow(FedBefore, From, To))) <= count)'
    PROVE  ListInv'
<1>1. StageInv'
  BY DEF StageInv
<1>2. IsRows(rows)' /\ MinedBy(rows)' = 0
  BY NoRows
<1>3. CountInv' /\ FigureInv'
  BY DEF CountInv, FigureInv
<1>4. ShareInv'
  BY <1>2 DEF ShareInv
<1>5. QED
  BY <1>1, <1>2, <1>3, <1>4 DEF ListInv

LEMMA ListAsk == ASSUME AskStats PROVE ListInv'
<1>1. PICK r \in Requests :
        /\ req' = r
        /\ pc' = CASE r.op = "homePower" ->
                         IF Drawable(GetIntHour(r.to - Day, r.to)) THEN "points" ELSE "idle"
                   [] r.op = "search"  -> "search"
                   [] r.op \in Ranking -> "count"
                   [] r.op \in Series  -> "points"
                   [] OTHER            -> "rows"
  BY DEF AskStats
<1>2. filter' = {} /\ rows' = <<>> /\ count' = 0 /\ total' = 0
  BY DEF AskStats
<1>3. SUFFICES ASSUME r.op \in List \cup Ranking PROVE ListInv'
  BY <1>1 DEF ListInv
<1>4. r.op # "homePower" /\ r.op \notin Series
  BY <1>3 DEF List, Ranking, Series
<1>5. /\ pc' \in {"search", "count", "rows"} /\ (pc' = "search" => r.op = "search")
      /\ pc' = "count" => r.op \in Ranking
      /\ pc' = "rows" => r.op \notin Ranking
  BY <1>1, <1>4
<1>6. IsFiniteSet(filter') /\ count' \in Nat
  BY <1>2, FS_EmptySet
<1>7. (pc = "rows" /\ req.op \in Ranking =>
          Cardinality(MinersOf(InWindow(FedBefore, From, To))) <= count)'
  BY <1>1, <1>5
<1>8. QED
  BY <1>1, <1>2, <1>5, <1>6, <1>7, ListStarts

LEMMA ListSearch == ASSUME ListInv, StatsTypes, Search PROVE ListInv'
<1>1. /\ pc = "search" /\ filter' = MinersOf(states) \cap req.miners
      /\ pc' = IF filter' = {} THEN "idle" ELSE "rows"
      /\ UNCHANGED <<req, rows, count, total, clean>>
  BY DEF Search, CallWorks
<1>2. SUFFICES ASSUME clean, req.op \in List \cup Ranking, pc' = "rows" PROVE ListInv'
  BY <1>1 DEF ListInv
<1>3. StageInv /\ CountInv
  BY <1>1, <1>2 DEF ListInv
<1>4. req.op = "search" /\ rows = <<>> /\ total = 0 /\ count \in Nat
  BY <1>1, <1>3 DEF StageInv, CountInv
<1>5. IsFiniteSet(filter')
  <2>1. IsFiniteSet(MinersOf(states))
    BY BlocksFinite, MinersFinite
  <2>2. QED
    BY <1>1, <2>1, FS_Intersection
<1>6. (pc = "rows" /\ req.op \in Ranking =>
          Cardinality(MinersOf(InWindow(FedBefore, From, To))) <= count)'
  BY <1>1, <1>4 DEF Ranking
<1>7. QED
  BY <1>1, <1>2, <1>4, <1>5, <1>6, ListStarts

LEMMA ListCount == ASSUME ListInv, StatsTypes, Count PROVE ListInv'
<1>1. /\ pc = "count" /\ pc' = IF count' = 0 THEN "idle" ELSE "rows"
      /\ count' = Cardinality(MinersOf(IF req.op = "topBlock" THEN InWindow(blocks, From, To)
                                       ELSE InWindow(states, From, To)))
      /\ UNCHANGED <<req, filter, rows, total, clean, seen, blocks, states>>
  BY DEF Count, CallWorks, Docs, blockVars
<1>2. SUFFICES ASSUME clean, req.op \in List \cup Ranking, pc' = "rows" PROVE ListInv'
  BY <1>1 DEF ListInv
<1>3. StageInv
  BY <1>1, <1>2 DEF ListInv
<1>4. req.op \in Ranking /\ rows = <<>> /\ total = 0 /\ IsFiniteSet(filter)
  BY <1>1, <1>3 DEF StageInv
<1>5. PICK old, now : old = InWindow(FedBefore, From, To) /\ now = InWindow(FedNow, From, To)
  OBVIOUS
<1>6. old \subseteq now /\ IsFiniteSet(now)
  <2>1. FedBefore \subseteq FedNow /\ IsFiniteSet(FedNow)
    BY BlocksFinite
  <2>2. QED
    BY <1>5, <2>1, FS_Subset DEF InWindow
<1>7. /\ Cardinality(MinersOf(now)) \in Nat /\ Cardinality(MinersOf(old)) \in Nat
      /\ Cardinality(MinersOf(old)) <= Cardinality(MinersOf(now))
  BY <1>6, MinersFinite
<1>8. count' = Cardinality(MinersOf(now))
  BY <1>1, <1>4, <1>5 DEF FedNow, Fed, Ranking
<1>9. FedBefore' = FedBefore /\ From' = From /\ To' = To
  BY <1>1 DEF FedBefore, From, To
<1>10. (pc = "rows" /\ req.op \in Ranking =>
           Cardinality(MinersOf(InWindow(FedBefore, From, To))) <= count)'
  BY <1>5, <1>7, <1>8, <1>9
<1>11. IsFiniteSet(filter') /\ rows' = <<>> /\ total' = 0 /\ count' \in Nat
  BY <1>1, <1>4, <1>7, <1>8
<1>12. QED
  BY <1>2, <1>10, <1>11, ListStarts

(* The ranking: the rows of a page of the miners found. *)
FiguresOf(figs) ==
    /\ DOMAIN figs = MinersOf(InWindow(FedNow, From, To))
    /\ req.op \in {"block", "topBlock"} => figs = Counts(InWindow(blocks, From, To))
RowOf(r, figs, m) ==
    IF r.op \in {"block", "topBlock"} THEN Row(m, figs[m], 0) ELSE Row(m, 0, figs[m])
LEMMA RowIs ==
    ASSUME NEW r, NEW figs, NEW m
    PROVE  /\ RowOf(r, figs, m).miner = m
           /\ r.op \in {"block", "topBlock"} => RowOf(r, figs, m).blocks = figs[m]
           /\ r.op \notin {"block", "topBlock"} => RowOf(r, figs, m).blocks = 0
           /\ RowOf(r, figs, m) = Row(m, RowOf(r, figs, m).blocks, RowOf(r, figs, m).power)
<1>1. CASE r.op \in {"block", "topBlock"}
  BY <1>1 DEF RowOf, Row
<1>2. CASE r.op \notin {"block", "topBlock"}
  BY <1>2 DEF RowOf, Row
<1>3. QED
  BY <1>1, <1>2

Ranked(g, figs) ==
    /\ IsPage(g, DOMAIN figs) /\ Len(g) <= Limit
    /\ rows' = [i \in DOMAIN g |-> RowOf(req, figs, g[i])]
    /\ count' = IF req.op \in List THEN Cardinality(DOMAIN figs) ELSE count
    /\ pc' = CASE req.op = "topPower" -> "total"
               [] req.op = "topOld"   -> "answered"
               [] OTHER               -> "more"

LEMMA LimitIs ==
    ASSUME StatsTypes, pc # "idle", IsFiniteSet(filter)
    PROVE  Limit \in Nat
BY RequestIs, FS_CardinalityType DEF StatsTypes, Limit

LEMMA RankIs ==
    ASSUME StatsTypes, StageInv, Rank, req.op \in List \cup Ranking, pc' # "idle"
    PROVE  \E g, figs : FiguresOf(figs) /\ Ranked(g, figs)
<1>1. PICK figs \in Figures :
        IF req.op \in List /\ DOMAIN figs = {}
        THEN pc' = "idle" /\ UNCHANGED <<rows, count>>
        ELSE \E o \in Orders(Kept(figs, filter), TRUE) :
            /\ rows' = LET page == Page(o, req.offset)
                       IN  [i \in DOMAIN page |->
                                IF req.op \in {"block", "topBlock"}
                                THEN Row(page[i], figs[page[i]], 0)
                                ELSE Row(page[i], 0, figs[page[i]])]
            /\ count' = IF req.op \in List THEN Cardinality(DOMAIN figs) ELSE count
            /\ pc' = CASE req.op = "topPower" -> "total"
                       [] req.op = "topOld"   -> "answered"
                       [] OTHER               -> "more"
  BY DEF Rank
<1>2. FiguresOf(figs)
  BY <1>1 DEF FiguresOf, Figures, Powers, FedNow, Fed, Counts, Increases, Ranking, List
<1>3. PICK o \in Orders(Kept(figs, filter), TRUE) :
        /\ rows' = LET page == Page(o, req.offset)
                   IN  [i \in DOMAIN page |->
                            IF req.op \in {"block", "topBlock"}
                            THEN Row(page[i], figs[page[i]], 0)
                            ELSE Row(page[i], 0, figs[page[i]])]
        /\ count' = IF req.op \in List THEN Cardinality(DOMAIN figs) ELSE count
        /\ pc' = CASE req.op = "topPower" -> "total"
                   [] req.op = "topOld"   -> "answered"
                   [] OTHER               -> "more"
  BY <1>1
<1>4. PICK S : S = DOMAIN Kept(figs, filter)
  OBVIOUS
<1>5. S \subseteq DOMAIN figs
  BY <1>4, KeptIs
<1>6. IsFiniteSet(DOMAIN figs)
  <2>1. PICK now : now = InWindow(FedNow, From, To)
    OBVIOUS
  <2>2. now \subseteq FedNow /\ IsFiniteSet(FedNow)
    BY <2>1, BlocksFinite DEF InWindow
  <2>3. IsFiniteSet(MinersOf(now))
    BY <2>2, FS_Subset, MinersFinite
  <2>4. QED
    BY <1>2, <2>1, <2>3 DEF FiguresOf
<1>7. IsFiniteSet(S) /\ Cardinality(S) <= Cardinality(DOMAIN figs)
  BY <1>5, <1>6, FS_Subset
<1>8. Cardinality(S) \in Nat /\ Cardinality(DOMAIN figs) \in Nat
  BY <1>6, <1>7, FS_CardinalityType
<1>9. o \in SetToSeqs(S)
  BY <1>4 DEF Orders
<1>10. req.offset \in Nat /\ Limit \in Nat
  <2>1. pc # "idle" /\ req \in Requests /\ IsFiniteSet(filter)
    BY DEF Rank, StatsTypes, StageInv
  <2>2. QED
    BY <2>1, RequestIs, LimitIs
<1>11. PICK g : g = Page(o, req.offset)
  OBVIOUS
<1>12. IsPage(g, S) /\ Len(g) <= Limit
  BY <1>7, <1>9, <1>10, <1>11, PageIs
<1>13. IsPage(g, DOMAIN figs)
  <2>1. g \in Seq(DOMAIN figs)
    BY <1>5, <1>12 DEF IsPage
  <2>2. QED
    BY <1>7, <1>8, <1>12, <2>1 DEF IsPage
<1>14. rows' = [i \in DOMAIN g |-> RowOf(req, figs, g[i])]
  BY <1>3, <1>11 DEF RowOf
<1>15. QED
  BY <1>2, <1>3, <1>12, <1>13, <1>14 DEF Ranked

(* The rows are of different miners, whose blocks are those in the window. *)
LEMMA RankedRows ==
    ASSUME StatsTypes, NEW g, NEW figs, FiguresOf(figs), Ranked(g, figs)
    PROVE  /\ IsRows(rows') /\ Len(rows') = Len(g)
           /\ \A i \in DOMAIN rows' :
                rows'[i].blocks = IF req.op \in {"block", "topBlock"}
                                  THEN Cardinality({b \in InWindow(blocks, From, To) :
                                                        b.miner = rows'[i].miner})
                                  ELSE 0
<1>1. /\ g \in Seq(DOMAIN figs) /\ Len(g) \in Nat /\ DOMAIN g = 1..Len(g)
      /\ \A i, j \in 1..Len(g) : g[i] = g[j] => i = j
  BY DEF Ranked, IsPage
<1>2. rows' = [i \in 1..Len(g) |-> RowOf(req, figs, g[i])]
  BY <1>1 DEF Ranked
<1>3. Len(rows') = Len(g) /\ DOMAIN rows' = 1..Len(g)
  <2>1. rows' = [i \in 1..Len(g) |-> rows'[i]]
    BY <1>2
  <2>2. QED
    BY <1>1, <2>1, LenIs
<1>4. \A i \in 1..Len(g) : g[i] \in DOMAIN figs /\ rows'[i] = RowOf(req, figs, g[i])
  BY <1>1, <1>2
<1>5. \A i \in 1..Len(g) : /\ rows'[i].miner = g[i]
                           /\ rows'[i].blocks = IF req.op \in {"block", "topBlock"}
                                                THEN figs[g[i]] ELSE 0
  BY <1>4, RowIs
<1>6. ASSUME req.op \in {"block", "topBlock"}, NEW i \in 1..Len(g)
      PROVE  /\ figs[g[i]] \in Nat
             /\ figs[g[i]] = Cardinality({b \in InWindow(blocks, From, To) : b.miner = g[i]})
  <2>1. PICK w : w = InWindow(blocks, From, To)
    OBVIOUS
  <2>2. IsFiniteSet(w)
    BY <2>1, BlocksFinite, FS_Subset DEF InWindow
  <2>3. figs = Counts(w)
    BY <1>6, <2>1 DEF FiguresOf
  <2>4. g[i] \in MinersOf(w)
    BY <1>4, <2>2, <2>3, CountsIs
  <2>5. QED
    BY <2>1, <2>2, <2>3, <2>4, CountsIs
<1>7. \A i \in DOMAIN rows' : rows'[i].blocks \in Nat
  <2>1. CASE req.op \in {"block", "topBlock"}
    BY <1>3, <1>5, <1>6, <2>1
  <2>2. CASE req.op \notin {"block", "topBlock"}
    BY <1>3, <1>5, <2>2
  <2>3. QED
    BY <2>1, <2>2
<1>8. \A i, j \in DOMAIN rows' : rows'[i].miner = rows'[j].miner => i = j
  BY <1>1, <1>3, <1>5
<1>9. \A i \in DOMAIN rows' : rows'[i] = Row(rows'[i].miner, rows'[i].blocks, rows'[i].power)
  BY <1>3, <1>4, RowIs
<1>10. QED
  BY <1>1, <1>3, <1>5, <1>6, <1>7, <1>8, <1>9 DEF IsRows

(* Who comes into the window was counted before or has come since. *)
LEMMA MinersSince ==
    ASSUME NEW now, IsFiniteSet(now), NEW old, old \subseteq now, NEW from, NEW to
    PROVE  Cardinality(MinersOf(InWindow(now, from, to)))
             <= Cardinality(MinersOf(InWindow(old, from, to))) + Cardinality(MinersOf(now \ old))
<1>1. PICK a, b, c : /\ a = MinersOf(InWindow(now, from, to)) /\ b = MinersOf(InWindow(old, from, to))
                     /\ c = MinersOf(now \ old)
  OBVIOUS
<1>2. PICK d : d = b \cup c
  OBVIOUS
<1>3. a \subseteq d
  BY <1>1, <1>2 DEF MinersOf, InWindow
<1>4. IsFiniteSet(b) /\ IsFiniteSet(c)
  <2>1. PICK u, v : u = InWindow(old, from, to) /\ v = now \ old
    OBVIOUS
  <2>2. IsFiniteSet(u) /\ IsFiniteSet(v)
    BY <2>1, FS_Subset DEF InWindow
  <2>3. QED
    BY <1>1, <2>1, <2>2, MinersFinite
<1>5. IsFiniteSet(d) /\ Cardinality(d) = Cardinality(b) + Cardinality(c) - Cardinality(b \cap c)
  BY <1>2, <1>4, FS_Union
<1>6. IsFiniteSet(a) /\ Cardinality(a) <= Cardinality(d)
  BY <1>3, <1>5, FS_Subset
<1>7. /\ Cardinality(a) \in Nat /\ Cardinality(b) \in Nat /\ Cardinality(c) \in Nat
      /\ Cardinality(d) \in Nat /\ Cardinality(b \cap c) \in Nat
  BY <1>4, <1>5, <1>6, FS_Intersection, FS_CardinalityType
<1>8. Cardinality(a) <= Cardinality(b) + Cardinality(c)
  BY <1>5, <1>6, <1>7
<1>9. QED
  BY <1>1, <1>8

LEMMA ListRank == ASSUME ListInv, StatsTypes, Rank PROVE ListInv'
<1>1. /\ pc = "rows" /\ UNCHANGED <<req, filter, clean, seen, blocks, states>>
      /\ total' = CASE req.op = "block"    -> Cardinality(InWindow(blocks, From, To))
                    [] req.op = "topBlock" -> MinedBy(rows')
                    [] OTHER               -> total
      /\ counted' = IF req.op \in {"block", "topBlock"} THEN blocks ELSE counted
  BY DEF Rank, CallWorks, Docs, blockVars
<1>2. SUFFICES ASSUME clean, req.op \in List \cup Ranking, pc' # "idle"
               PROVE  (StageInv /\ IsRows(rows) /\ CountInv /\ FigureInv /\ ShareInv)'
  BY <1>1 DEF ListInv
<1>3. StageInv /\ CountInv
  BY <1>1, <1>2 DEF ListInv
<1>4. total = 0 /\ IsFiniteSet(filter) /\ count \in Nat
  BY <1>1, <1>3 DEF StageInv, CountInv
<1>5. PICK g, figs : FiguresOf(figs) /\ Ranked(g, figs)
  BY <1>2, <1>3, RankIs
<1>6. /\ IsRows(rows') /\ Len(rows') = Len(g)
      /\ \A i \in DOMAIN rows' :
           rows'[i].blocks = IF req.op \in {"block", "topBlock"}
                             THEN Cardinality({b \in InWindow(blocks, From, To) :
                                                   b.miner = rows'[i].miner})
                             ELSE 0
  BY <1>5, RankedRows
<1>7. /\ Len(g) \in Nat /\ Len(g) <= Cardinality(DOMAIN figs) /\ Len(g) <= Limit
      /\ count' = IF req.op \in List THEN Cardinality(DOMAIN figs) ELSE count
      /\ pc' = CASE req.op = "topPower" -> "total"
                 [] req.op = "topOld"   -> "answered"
                 [] OTHER               -> "more"
  BY <1>5 DEF Ranked, IsPage
<1>8. PICK f, t : f = From /\ t = To
  OBVIOUS
<1>9. From' = f /\ To' = t /\ Limit' = Limit
  BY <1>1, <1>8 DEF From, To, Limit
<1>10. MinedBy(rows') \in Nat
  BY <1>6, RowsShare
<1>11. StageInv'
  BY <1>1, <1>2, <1>4, <1>6, <1>7, <1>9 DEF StageInv, List, Ranking
<1>12. CountInv'
  <2>1. /\ FedNow' = FedNow /\ FedBefore' = FedBefore
        /\ FedBefore \subseteq FedNow /\ IsFiniteSet(FedNow)
    BY <1>1, BlocksFinite DEF FedNow, FedBefore
  <2>2. PICK a, b, c : /\ a = Cardinality(MinersOf(InWindow(FedNow, f, t)))
                       /\ b = Cardinality(MinersOf(InWindow(FedBefore, f, t)))
                       /\ c = Cardinality(MinersOf(FedNow \ FedBefore))
    OBVIOUS
  <2>3. a <= b + c
    BY <2>1, <2>2, MinersSince
  <2>4. a \in Nat /\ b \in Nat /\ c \in Nat
    <3>1. PICK u, v, w : u = InWindow(FedNow, f, t) /\ v = InWindow(FedBefore, f, t) /\ w = FedNow \ FedBefore
      OBVIOUS
    <3>2. u \subseteq FedNow /\ v \subseteq FedNow /\ w \subseteq FedNow
      BY <2>1, <3>1 DEF InWindow
    <3>3. QED
      BY <2>1, <2>2, <3>1, <3>2, MinersFinite
  <2>5. Cardinality(DOMAIN figs) = a
    BY <1>5, <1>8, <2>2 DEF FiguresOf
  <2>6. req.op \in Ranking => b <= count
    BY <1>1, <1>3, <1>8, <2>2 DEF CountInv
  <2>7. count' \in Nat /\ Len(g) <= count' + c
    <3>1. CASE req.op \in List
      BY <1>7, <2>4, <2>5, <3>1
    <3>2. CASE req.op \notin List
      BY <1>2, <1>4, <1>7, <2>3, <2>4, <2>5, <2>6, <3>2
    <3>3. QED
      BY <3>1, <3>2
  <2>8. Cardinality(MinersOf(FedNow \ FedBefore))' = c
    BY <2>1, <2>2
  <2>9. pc' # "rows"
    BY <1>7
  <2>10. QED
    BY <1>6, <2>7, <2>8, <2>9 DEF CountInv
<1>13. ASSUME req.op \in {"block", "topBlock"}, NEW i \in DOMAIN rows'
       PROVE  /\ rows'[i].blocks = OwnedIn(req, f, t, blocks, rows'[i].miner)
              /\ rows'[i].blocks \in Nat
  <2>1. BlocksIn(req, f, t, blocks) = InWindow(blocks, From, To)
    BY <1>8, <1>13 DEF BlocksIn
  <2>2. rows'[i].blocks = Cardinality({b \in InWindow(blocks, From, To) : b.miner = rows'[i].miner})
    BY <1>6, <1>13
  <2>3. QED
    BY <1>6, <2>1, <2>2 DEF OwnedIn, IsRows
<1>14. FigureInv'
  <2>1. SUFFICES ASSUME req.op \in {"block", "topBlock"}, NEW i \in DOMAIN rows'
                 PROVE  Counted(rows'[i], req, f, t, blocks, seen.blocks)
    BY <1>1, <1>2, <1>7, <1>9 DEF FigureInv
  <2>2. OwnedIn(req, f, t, seen.blocks, rows'[i].miner) <= OwnedIn(req, f, t, blocks, rows'[i].miner)
    BY BlocksFinite, OwnedGrows
  <2>3. QED
    BY <1>13, <2>1, <2>2 DEF Counted
<1>15. ShareInv'
  <2>1. CASE req.op = "block"
    <3>1. PICK w : w = BlocksIn(req, f, t, blocks)
      OBVIOUS
    <3>2. w = InWindow(blocks, From, To) /\ IsFiniteSet(w)
      <4>1. w = InWindow(blocks, From, To)
        BY <1>8, <2>1, <3>1 DEF BlocksIn
      <4>2. IsFiniteSet(w)
        BY <3>1, BlocksFinite, OwnedGrows
      <4>3. QED
        BY <4>1, <4>2
    <3>3. total' = Cardinality(w) /\ counted' = blocks
      BY <1>1, <2>1, <3>2
    <3>4. \A i \in DOMAIN rows' : rows'[i].blocks <= Cardinality({b \in w : b.miner = rows'[i].miner})
      BY <1>13, <2>1, <3>1 DEF OwnedIn
    <3>5. MinedBy(rows') <= Cardinality(w)
      BY <1>6, <3>2, <3>4, RowsShare
    <3>6. Within(req, f, t, blocks) = Cardinality(w) /\ Cardinality(w) \in Nat
      BY <3>1, <3>2, FS_CardinalityType DEF Within
    <3>7. seen.blocks \subseteq blocks
      BY BlocksFinite
    <3>8. QED
      BY <1>1, <1>9, <1>10, <2>1, <3>3, <3>5, <3>6, <3>7 DEF ShareInv
  <2>2. CASE req.op = "topBlock"
    BY <1>1, <1>7, <1>10, <2>2 DEF ShareInv, List
  <2>3. CASE req.op \notin {"block", "topBlock"}
    <3>1. total' = 0
      BY <1>1, <1>4, <2>3
    <3>2. pc' # "answered" \/ req.op \notin List \cup {"topPower"}
      BY <1>7 DEF List
    <3>3. ~(pc' = "more" /\ req.op = "topPower")
      BY <1>7
    <3>4. QED
      BY <1>1, <1>10, <2>3, <3>1, <3>2, <3>3 DEF ShareInv
  <2>4. QED
    BY <2>1, <2>2, <2>3
<1>16. QED
  BY <1>6, <1>11, <1>12, <1>14, <1>15

LEMMA ListTotal == ASSUME ListInv, StatsTypes, TotalBlocks PROVE ListInv'
<1>1. /\ pc = "total" /\ pc' = "more"
      /\ total' = Cardinality(AfterWindow(blocks, From, To)) /\ counted' = blocks
      /\ UNCHANGED <<req, filter, rows, count, clean, seen, blocks, states>>
  BY DEF TotalBlocks, CallWorks, Docs, blockVars
<1>2. SUFFICES ASSUME clean, req.op \in List \cup Ranking
               PROVE  (StageInv /\ IsRows(rows) /\ CountInv /\ FigureInv /\ ShareInv)'
  BY <1>1 DEF ListInv
<1>3. StageInv /\ IsRows(rows) /\ CountInv /\ ShareInv
  BY <1>1, <1>2 DEF ListInv
<1>4. req.op = "topPower"
  BY <1>1, <1>3 DEF StageInv
<1>5. From' = From /\ To' = To /\ FedNow' = FedNow /\ FedBefore' = FedBefore
  BY <1>1 DEF From, To, FedNow, FedBefore
<1>6. StageInv' /\ IsRows(rows)'
  BY <1>1, <1>3, <1>4 DEF StageInv
<1>7. CountInv' /\ FigureInv'
  BY <1>1, <1>3, <1>4, <1>5 DEF CountInv, FigureInv
<1>8. ShareInv'
  <2>1. PICK f, t : f = From /\ t = To
    OBVIOUS
  <2>2. total' = Within(req, f, t, blocks)
    BY <1>1, <1>4, <2>1 DEF Within, BlocksIn
  <2>3. Within(req, f, t, blocks) \in Nat /\ seen.blocks \subseteq blocks
    BY BlocksFinite, OwnedGrows
  <2>4. MinedBy(rows) \in Nat
    BY <1>3 DEF ShareInv
  <2>5. QED
    BY <1>1, <1>4, <1>5, <2>1, <2>2, <2>3, <2>4 DEF ShareInv
<1>9. QED
  BY <1>6, <1>7, <1>8

(* The figures of the rows are put in. *)
PutIn(qs, rs, v) == qs = [i \in DOMAIN rs |-> [rs[i] EXCEPT !.blocks = v[i]]]

LEMMA FiguresPutIn ==
    ASSUME NEW rs, IsRows(rs), NEW v, \A i \in DOMAIN rs : v[i] \in Nat,
           NEW qs, PutIn(qs, rs, v)
    PROVE  /\ IsRows(qs) /\ Len(qs) = Len(rs) /\ DOMAIN qs = DOMAIN rs
           /\ \A i \in DOMAIN rs : qs[i].miner = rs[i].miner /\ qs[i].blocks = v[i]
<1>1. Len(rs) \in Nat /\ DOMAIN rs = 1..Len(rs)
  BY DEF IsRows
<1>2. qs = [i \in 1..Len(rs) |-> [rs[i] EXCEPT !.blocks = v[i]]]
  BY <1>1 DEF PutIn
<1>3. Len(qs) = Len(rs) /\ DOMAIN qs = DOMAIN rs
  <2>1. qs = [i \in 1..Len(rs) |-> qs[i]]
    BY <1>2
  <2>2. QED
    BY <1>1, <2>1, LenIs
<1>4. ASSUME NEW i \in DOMAIN rs
      PROVE  qs[i] = Row(rs[i].miner, v[i], rs[i].power)
  <2>1. PICK m, n, p : m = rs[i].miner /\ n = rs[i].blocks /\ p = rs[i].power
    OBVIOUS
  <2>2. rs[i] = [miner |-> m, blocks |-> n, power |-> p]
    BY <2>1 DEF IsRows, Row
  <2>3. [rs[i] EXCEPT !.blocks = v[i]] = [miner |-> m, blocks |-> v[i], power |-> p]
    BY <2>2
  <2>4. QED
    BY <1>1, <1>2, <2>1, <2>3 DEF Row
<1>5. ASSUME NEW i \in DOMAIN rs
      PROVE  /\ qs[i].miner = rs[i].miner /\ qs[i].blocks = v[i]
             /\ qs[i] = Row(qs[i].miner, qs[i].blocks, qs[i].power)
  <2>1. PICK m, n, p : m = rs[i].miner /\ n = v[i] /\ p = rs[i].power
    OBVIOUS
  <2>2. qs[i] = [miner |-> m, blocks |-> n, power |-> p]
    BY <1>4, <2>1 DEF Row
  <2>3. qs[i].miner = m /\ qs[i].blocks = n /\ qs[i].power = p
    BY <2>2
  <2>4. QED
    BY <2>1, <2>2, <2>3 DEF Row
<1>6. QED
  BY <1>3, <1>5 DEF IsRows

(* Whose figures are what they have mined by now. *)
LEMMA FiguresNow ==
    ASSUME ListInv, StatsTypes, clean, pc = "more", pc' = "answered",
           req.op \in {"topPower", "power", "search"},
           UNCHANGED <<req, filter, count, clean, seen, blocks, states>>,
           NEW v, PutIn(rows', rows, v),
           \A i \in DOMAIN rows :
                /\ v[i] \in Nat /\ v[i] <= OwnedIn(req, From, To, blocks, rows[i].miner)
                /\ req.offset = 0 => OwnedIn(req, From, To, seen.blocks, rows[i].miner) <= v[i],
           /\ counted' \subseteq blocks /\ total' \in Nat
           /\ \/ /\ total' = Within(req, From, To, counted')
                 /\ total' = 0 \/ seen.blocks \subseteq counted'
              \/ total' = 0 /\ counted' = blocks /\ \A i \in DOMAIN rows : v[i] = 0
    PROVE  ListInv'
<1>1. SUFFICES (StageInv /\ IsRows(rows) /\ CountInv /\ FigureInv /\ ShareInv)'
  BY DEF ListInv
<1>2. StageInv /\ IsRows(rows) /\ CountInv
  BY DEF ListInv, List, Ranking
<1>3. PICK f, t : f = From /\ t = To
  OBVIOUS
<1>4. From' = f /\ To' = t /\ Limit' = Limit /\ FedNow' = FedNow /\ FedBefore' = FedBefore
  BY <1>3 DEF From, To, Limit, FedNow, FedBefore
<1>5. /\ IsRows(rows') /\ Len(rows') = Len(rows) /\ DOMAIN rows' = DOMAIN rows
      /\ \A i \in DOMAIN rows : rows'[i].miner = rows[i].miner /\ rows'[i].blocks = v[i]
  BY <1>2, FiguresPutIn
<1>6. StageInv'
  BY <1>2 DEF StageInv
<1>7. CountInv'
  BY <1>2, <1>4, <1>5 DEF CountInv
<1>8. FigureInv'
  BY <1>3, <1>4, <1>5 DEF FigureInv, Counted
<1>9. PICK w : w = BlocksIn(req, f, t, blocks)
  OBVIOUS
<1>10. IsFiniteSet(w) /\ Within(req, f, t, blocks) = Cardinality(w) /\ Cardinality(w) \in Nat
  BY <1>9, BlocksFinite, OwnedGrows DEF Within
<1>11. \A i \in DOMAIN rows' : rows'[i].blocks <= Cardinality({b \in w : b.miner = rows'[i].miner})
  <2>1. SUFFICES ASSUME NEW i \in DOMAIN rows
                 PROVE  rows'[i].blocks <= Cardinality({b \in w : b.miner = rows'[i].miner})
    BY <1>5
  <2>2. PICK m : m = rows[i].miner
    OBVIOUS
  <2>3. rows'[i].miner = m /\ rows'[i].blocks = v[i]
    BY <1>5, <2>2
  <2>4. v[i] <= OwnedIn(req, f, t, blocks, m)
    BY <1>3, <2>2
  <2>5. OwnedIn(req, f, t, blocks, m) = Cardinality({b \in w : b.miner = m})
    BY <1>9 DEF OwnedIn
  <2>6. QED
    BY <2>3, <2>4, <2>5
<1>12. MinedBy(rows') \in Nat /\ MinedBy(rows') <= Cardinality(w)
  BY <1>5, <1>10, <1>11, RowsShare
<1>13. ShareInv'
  <2>1. Within(req, f, t, counted') \in Nat
    BY BlocksFinite, OwnedGrows
  <2>2. CASE /\ total' = Within(req, From, To, counted')
             /\ total' = 0 \/ seen.blocks \subseteq counted'
    BY <1>3, <1>4, <1>10, <1>12, <2>1, <2>2 DEF ShareInv
  <2>3. CASE total' = 0 /\ counted' = blocks /\ \A i \in DOMAIN rows : v[i] = 0
    <3>1. MinedBy(rows') = 0
      <4>1. \A i \in DOMAIN rows' : rows'[i].blocks <= Cardinality({d \in {} : d.miner = rows'[i].miner})
        <5>1. \A m : {d \in {} : d.miner = m} = {}
          OBVIOUS
        <5>2. Cardinality({}) = 0
          BY FS_EmptySet
        <5>3. QED
          BY <1>5, <2>3, <5>1, <5>2
      <4>2. MinedBy(rows') <= Cardinality({})
        BY <1>5, <4>1, FS_EmptySet, RowsShare
      <4>3. QED
        BY <1>12, <4>2, FS_EmptySet
    <3>2. QED
      BY <1>3, <1>4, <1>10, <1>12, <2>3, <3>1 DEF ShareInv
  <2>4. QED
    BY <2>2, <2>3
<1>14. QED
  BY <1>5, <1>6, <1>7, <1>8, <1>13

LEMMA ListTop == ASSUME ListInv, StatsTypes, RowsOfTop PROVE ListInv'
<1>1. /\ pc = "more" /\ pc' = "answered" /\ req.op = "topPower"
      /\ UNCHANGED <<req, filter, count, total, counted, clean, seen, blocks, states>>
      /\ rows' = LET mined == MinedByRows
                 IN  [i \in DOMAIN rows |-> [rows[i] EXCEPT !.blocks = mined[rows[i].miner]]]
  BY DEF RowsOfTop, CallWorks, Docs, blockVars
<1>2. SUFFICES ASSUME clean PROVE ListInv'
  BY <1>1 DEF ListInv
<1>3. IsRows(rows) /\ ShareInv
  BY <1>1, <1>2 DEF ListInv, Ranking
<1>4. PICK w : w = AfterWindow(blocks, From, To)
  OBVIOUS
<1>5. PICK ws : ws = {b \in w : b.miner \in RowMiners}
  OBVIOUS
<1>6. IsFiniteSet(ws) /\ BlocksIn(req, From, To, blocks) = w
  <2>1. ws \subseteq blocks
    BY <1>4, <1>5 DEF AfterWindow
  <2>2. QED
    BY <1>1, <1>4, <2>1, BlocksFinite, FS_Subset DEF BlocksIn
<1>7. ASSUME NEW m \in RowMiners
      PROVE  /\ MinedByRows[m] = OwnedIn(req, From, To, blocks, m)
             /\ MinedByRows[m] \in Nat
  <2>1. MinedByRows[m] = IF m \in DOMAIN Counts(ws) THEN Counts(ws)[m] ELSE 0
    BY <1>4, <1>5 DEF MinedByRows
  <2>2. PICK own : own = {b \in w : b.miner = m}
    OBVIOUS
  <2>3. own = {b \in ws : b.miner = m}
    BY <1>5, <2>2
  <2>4. OwnedIn(req, From, To, blocks, m) = Cardinality(own)
    BY <1>6, <2>2 DEF OwnedIn
  <2>5. CASE m \in MinersOf(ws)
    BY <1>6, <2>1, <2>3, <2>4, <2>5, CountsIs
  <2>6. CASE m \notin MinersOf(ws)
    <3>1. own = {}
      BY <2>3, <2>6 DEF MinersOf
    <3>2. Cardinality(own) = 0
      BY <3>1, FS_EmptySet
    <3>3. QED
      BY <1>6, <2>1, <2>4, <2>6, <3>2, CountsIs
  <2>7. QED
    BY <2>5, <2>6
<1>8. PICK v : v = [i \in DOMAIN rows |-> MinedByRows[rows[i].miner]]
  OBVIOUS
<1>9. PutIn(rows', rows, v)
  BY <1>1, <1>8 DEF PutIn
<1>10. ASSUME NEW i \in DOMAIN rows
       PROVE  /\ v[i] \in Nat /\ v[i] <= OwnedIn(req, From, To, blocks, rows[i].miner)
              /\ OwnedIn(req, From, To, seen.blocks, rows[i].miner) <= v[i]
  <2>1. v[i] = OwnedIn(req, From, To, blocks, rows[i].miner) /\ v[i] \in Nat
    BY <1>7, <1>8 DEF RowMiners
  <2>2. OwnedIn(req, From, To, seen.blocks, rows[i].miner) <= OwnedIn(req, From, To, blocks, rows[i].miner)
    BY BlocksFinite, OwnedGrows
  <2>3. QED
    BY <2>1, <2>2
<1>11. /\ counted' \subseteq blocks /\ total' \in Nat
       /\ total' = Within(req, From, To, counted')
       /\ total' = 0 \/ seen.blocks \subseteq counted'
  BY <1>1, <1>3 DEF ShareInv
<1>12. QED
  BY <1>1, <1>2, <1>9, <1>10, <1>11, FiguresNow

(* The list of blocks that SetBlockValues asks for shows every miner of    *)
(* the rows who has mined, if nothing is skipped.                          *)
LEMMA PageOfRows ==
    ASSUME ListInv, StatsTypes, clean, pc = "more", req.op \in {"power", "search"},
           NEW mined, IsFiniteSet(DOMAIN mined), NEW o \in Orders(Kept(mined, RowMiners), FALSE),
           req.offset = 0, NEW i \in DOMAIN rows, rows[i].miner \in DOMAIN mined
    PROVE  rows[i].miner \in ToSet(Page(o, req.offset))
<1>1. StageInv /\ IsRows(rows)
  BY DEF ListInv, List
<1>2. PICK S : S = DOMAIN Kept(mined, RowMiners)
  OBVIOUS
<1>3. rows[i].miner \in RowMiners
  BY DEF RowMiners
<1>4. S = DOMAIN mined \cap RowMiners /\ rows[i].miner \in S
  <2>1. RowMiners # {}
    BY <1>3
  <2>2. DOMAIN Kept(mined, RowMiners) = DOMAIN mined \cap RowMiners
    BY <2>1, KeptIs, Zenon
  <2>3. S = DOMAIN mined \cap RowMiners
    BY <1>2, <2>2, Zenon
  <2>4. QED
    BY <1>3, <2>3
<1>5. IsFiniteSet(S)
  BY <1>4, FS_Intersection
<1>6. IsFiniteSet(RowMiners) /\ Cardinality(RowMiners) <= Len(rows) /\ Len(rows) \in Nat
  <2>1. PICK f : f = [j \in DOMAIN rows |-> rows[j].miner]
    OBVIOUS
  <2>2. f \in Surjection(DOMAIN rows, RowMiners)
    BY <2>1 DEF Surjection, RowMiners
  <2>3. Len(rows) \in Nat /\ DOMAIN rows = 1..Len(rows)
    BY <1>1 DEF IsRows
  <2>4. IsFiniteSet(DOMAIN rows) /\ Cardinality(DOMAIN rows) = Len(rows)
    <3>1. PICK n : n = Len(rows)
      OBVIOUS
    <3>2. n \in Nat /\ DOMAIN rows = 1..n
      BY <2>3, <3>1
    <3>3. IsFiniteSet(1..n) /\ Cardinality(1..n) = n
      BY <3>2, FS_Interval
    <3>4. QED
      BY <3>1, <3>2, <3>3, Zenon
  <2>5. QED
    BY <2>2, <2>3, <2>4, FS_Surjection
<1>7. Cardinality(S) <= Cardinality(RowMiners)
  BY <1>4, <1>6, FS_Subset
<1>8. Len(rows) <= Limit
  BY <1>1 DEF StageInv
<1>9. Limit \in Nat
  BY <1>1, LimitIs DEF StageInv
<1>10. Cardinality(S) \in Nat /\ Cardinality(RowMiners) \in Nat
  BY <1>5, <1>6, FS_CardinalityType
<1>11. Cardinality(S) <= Limit
  BY <1>6, <1>7, <1>8, <1>9, <1>10
<1>12. o \in SetToSeqs(S)
  BY <1>2 DEF Orders
<1>13. PICK page : page = Page(o, req.offset)
  OBVIOUS
<1>14. IsPage(page, S) /\ Lists(page, S)
  BY <1>5, <1>9, <1>11, <1>12, <1>13, PageIs
<1>15. \E j \in 1..Len(page) : page[j] = rows[i].miner
  BY <1>4, <1>14 DEF Lists
<1>16. DOMAIN page = 1..Len(page)
  BY <1>14 DEF IsPage
<1>17. QED
  BY <1>13, <1>15, <1>16 DEF ToSet

LEMMA ListBlockValues == ASSUME ListInv, StatsTypes, SetBlockValues PROVE ListInv'
<1> DEFINE mined == Counts(InWindow(blocks, From, To))
<1>1. /\ pc = "more" /\ req.op \in {"power", "search"}
      /\ UNCHANGED <<req, filter, count, clean, seen, blocks, states>>
      /\ IF DOMAIN mined = {} THEN pc' = "idle" /\ UNCHANGED <<rows, total, counted>>
         ELSE \E o \in Orders(Kept(mined, RowMiners), FALSE) :
              LET page == Page(o, req.offset)
              IN  /\ rows' = [i \in DOMAIN rows |->
                                  [rows[i] EXCEPT !.blocks = BlockValue(i, page, mined)]]
                  /\ total' = IF page = <<>> THEN total
                              ELSE Cardinality(InWindow(blocks, From, To))
                  /\ counted' = blocks /\ pc' = "answered"
  BY DEF SetBlockValues, CallWorks, Docs, blockVars
<1>2. SUFFICES ASSUME clean, pc' # "idle" PROVE ListInv'
  BY <1>1 DEF ListInv
<1>3. StageInv /\ IsRows(rows) /\ ShareInv
  BY <1>1, <1>2 DEF ListInv, List
<1>4. PICK o \in Orders(Kept(mined, RowMiners), FALSE) : \E page :
        /\ page = Page(o, req.offset)
        /\ rows' = [i \in DOMAIN rows |-> [rows[i] EXCEPT !.blocks = BlockValue(i, page, mined)]]
        /\ total' = IF page = <<>> THEN total ELSE Cardinality(InWindow(blocks, From, To))
        /\ counted' = blocks /\ pc' = "answered"
  BY <1>1, <1>2
<1>5. PICK page :
        /\ page = Page(o, req.offset)
        /\ rows' = [i \in DOMAIN rows |-> [rows[i] EXCEPT !.blocks = BlockValue(i, page, mined)]]
        /\ total' = IF page = <<>> THEN total ELSE Cardinality(InWindow(blocks, From, To))
        /\ counted' = blocks /\ pc' = "answered"
  BY <1>4
<1>6. PICK w : w = InWindow(blocks, From, To)
  OBVIOUS
<1>7. IsFiniteSet(w) /\ BlocksIn(req, From, To, blocks) = w
  BY <1>1, <1>6, BlocksFinite, FS_Subset DEF InWindow, BlocksIn
<1>8. /\ DOMAIN mined = MinersOf(w) /\ IsFiniteSet(DOMAIN mined)
      /\ \A m \in MinersOf(w) : mined[m] = Cardinality({b \in w : b.miner = m}) /\ mined[m] \in Nat
  BY <1>6, <1>7, CountsIs, MinersFinite
<1>9. \A m : OwnedIn(req, From, To, blocks, m) = Cardinality({b \in w : b.miner = m})
  BY <1>7 DEF OwnedIn
<1> HIDE DEF mined
<1>10. ToSet(page) \subseteq DOMAIN mined
  <2>1. PICK S : S = DOMAIN Kept(mined, RowMiners)
    OBVIOUS
  <2>2. S \subseteq DOMAIN mined
    BY <2>1, KeptIs
  <2>3. IsFiniteSet(S) /\ o \in SetToSeqs(S)
    BY <1>8, <2>1, <2>2, FS_Subset DEF Orders
  <2>4. req.offset \in Nat /\ Limit \in Nat
    BY <1>1, <1>3, RequestIs, LimitIs DEF StatsTypes, StageInv
  <2>5. page \in Seq(S)
    BY <1>5, <2>3, <2>4, PageIs DEF IsPage
  <2>6. QED
    BY <2>2, <2>5 DEF ToSet
<1>11. PICK v : v = [i \in DOMAIN rows |-> BlockValue(i, page, mined)]
  OBVIOUS
<1>12. PutIn(rows', rows, v)
  BY <1>5, <1>11 DEF PutIn
<1>13. ASSUME NEW i \in DOMAIN rows
       PROVE  /\ v[i] \in Nat /\ v[i] <= OwnedIn(req, From, To, blocks, rows[i].miner)
              /\ req.offset = 0 => OwnedIn(req, From, To, seen.blocks, rows[i].miner) <= v[i]
  <2>1. PICK m : m = rows[i].miner
    OBVIOUS
  <2>2. v[i] = IF m \in ToSet(page) THEN mined[m] ELSE 0
    BY <1>11, <2>1 DEF BlockValue
  <2>3. /\ OwnedIn(req, From, To, blocks, m) \in Nat
        /\ OwnedIn(req, From, To, seen.blocks, m) <= OwnedIn(req, From, To, blocks, m)
        /\ OwnedIn(req, From, To, seen.blocks, m) \in Nat
    BY BlocksFinite, OwnedGrows
  <2>4. CASE m \in ToSet(page)
    <3>1. m \in MinersOf(w)
      BY <1>8, <1>10, <2>4
    <3>2. mined[m] = Cardinality({b \in w : b.miner = m})
      BY <1>8, <3>1
    <3>3. v[i] = OwnedIn(req, From, To, blocks, m)
      BY <1>9, <2>2, <2>4, <3>2
    <3>4. QED
      BY <2>1, <2>3, <3>3
  <2>5. CASE m \notin ToSet(page)
    <3>1. v[i] = 0
      BY <2>2, <2>5
    <3>2. ASSUME req.offset = 0 PROVE OwnedIn(req, From, To, blocks, m) = 0
      <4>1. m \notin MinersOf(w)
        BY <1>1, <1>2, <1>5, <1>8, <2>1, <2>5, <3>2, PageOfRows
      <4>2. {b \in w : b.miner = m} = {}
        BY <4>1 DEF MinersOf
      <4>3. QED
        BY <1>9, <4>2, FS_EmptySet
    <3>3. QED
      BY <2>1, <2>3, <3>1, <3>2
  <2>6. QED
    BY <2>4, <2>5
<1>14. /\ counted' \subseteq blocks /\ total' \in Nat
       /\ \/ /\ total' = Within(req, From, To, counted')
             /\ total' = 0 \/ seen.blocks \subseteq counted'
          \/ total' = 0 /\ counted' = blocks /\ \A i \in DOMAIN rows : v[i] = 0
  <2>1. CASE page = <<>>
    <3>1. ToSet(page) = {}
      BY <2>1 DEF ToSet
    <3>2. \A i \in DOMAIN rows : v[i] = 0
      BY <1>11, <3>1 DEF BlockValue
    <3>3. total' = 0
      BY <1>1, <1>3, <1>5, <2>1 DEF StageInv
    <3>4. QED
      BY <1>5, <3>2, <3>3
  <2>2. CASE page # <<>>
    <3>1. total' = Within(req, From, To, blocks) /\ counted' = blocks
      BY <1>5, <1>6, <1>7, <2>2 DEF Within
    <3>2. Within(req, From, To, blocks) \in Nat /\ seen.blocks \subseteq blocks
      BY BlocksFinite, OwnedGrows
    <3>3. QED
      BY <3>1, <3>2
  <2>3. QED
    BY <2>1, <2>2
<1>15. QED
  BY <1>1, <1>2, <1>5, <1>12, <1>13, <1>14, FiguresNow

LEMMA ListPowerValues == ASSUME ListInv, StatsTypes, SetPowerValues PROVE ListInv'
<1> DEFINE grown == Increases(InWindow(states, From, To))
<1>1. /\ pc = "more" /\ req.op \in {"block", "topBlock"}
      /\ UNCHANGED <<req, filter, count, total, counted, clean, seen, blocks, states>>
      /\ IF req.op = "block" /\ DOMAIN grown = {} THEN pc' = "idle" /\ UNCHANGED rows
         ELSE /\ rows' = [i \in DOMAIN rows |->
                              [rows[i] EXCEPT !.power =
                                  IF rows[i].miner \in DOMAIN grown
                                  THEN grown[rows[i].miner] ELSE 0]]
              /\ pc' = "answered"
  BY DEF SetPowerValues, CallWorks, Docs, blockVars
<1>2. SUFFICES ASSUME clean, pc' # "idle"
               PROVE  (StageInv /\ IsRows(rows) /\ CountInv /\ FigureInv /\ ShareInv)'
  BY <1>1 DEF ListInv
<1>3. StageInv /\ IsRows(rows) /\ CountInv /\ FigureInv /\ ShareInv
  BY <1>1, <1>2 DEF ListInv, List, Ranking
<1>4. PICK v : v = [i \in DOMAIN rows |-> IF rows[i].miner \in DOMAIN grown
                                          THEN grown[rows[i].miner] ELSE 0]
  OBVIOUS
<1>5. rows' = [i \in DOMAIN rows |-> [rows[i] EXCEPT !.power = v[i]]] /\ pc' = "answered"
  BY <1>1, <1>2, <1>4
<1>6. Len(rows) \in Nat /\ DOMAIN rows = 1..Len(rows)
  BY <1>3 DEF IsRows
<1>7. Len(rows') = Len(rows) /\ DOMAIN rows' = DOMAIN rows
  <2>1. rows' = [i \in 1..Len(rows) |-> rows'[i]]
    BY <1>5, <1>6
  <2>2. QED
    BY <1>6, <2>1, LenIs
<1>8. ASSUME NEW i \in DOMAIN rows
      PROVE  /\ rows'[i].miner = rows[i].miner /\ rows'[i].blocks = rows[i].blocks
             /\ rows'[i] = Row(rows'[i].miner, rows'[i].blocks, rows'[i].power)
  <2>1. PICK m, n, p, q : m = rows[i].miner /\ n = rows[i].blocks /\ p = rows[i].power /\ q = v[i]
    OBVIOUS
  <2>2. rows[i] = [miner |-> m, blocks |-> n, power |-> p]
    BY <1>3, <2>1 DEF IsRows, Row
  <2>3. rows'[i] = [rows[i] EXCEPT !.power = q]
    BY <1>5, <2>1
  <2>4. rows'[i] = [miner |-> m, blocks |-> n, power |-> q]
    BY <2>2, <2>3
  <2>5. rows'[i].miner = m /\ rows'[i].blocks = n /\ rows'[i].power = q
    BY <2>4
  <2>6. QED
    BY <2>1, <2>4, <2>5 DEF Row
<1>9. IsRows(rows')
  BY <1>3, <1>7, <1>8 DEF IsRows
<1>10. MinedBy(rows') = MinedBy(rows)
  <2>1. [i \in DOMAIN rows' |-> rows'[i].blocks] = [i \in DOMAIN rows |-> rows[i].blocks]
    BY <1>7, <1>8
  <2>2. QED
    BY <2>1 DEF MinedBy
<1>11. PICK f, t : f = From /\ t = To
  OBVIOUS
<1>12. From' = f /\ To' = t /\ FedNow' = FedNow /\ FedBefore' = FedBefore
  BY <1>1, <1>11 DEF From, To, FedNow, FedBefore
<1>13. StageInv' /\ CountInv'
  BY <1>1, <1>3, <1>5, <1>7, <1>12 DEF StageInv, CountInv
<1>14. FigureInv'
  <2>1. \A i \in DOMAIN rows : Counted(rows[i], req, f, t, blocks, seen.blocks)
    BY <1>1, <1>3, <1>11 DEF FigureInv
  <2>2. QED
    BY <1>1, <1>7, <1>8, <1>12, <2>1 DEF FigureInv, Counted
<1>15. ShareInv'
  BY <1>1, <1>3, <1>5, <1>10, <1>11, <1>12 DEF ShareInv, List
<1>16. QED
  BY <1>9, <1>13, <1>14, <1>15

LEMMA ListInitInv == StatsInit => ListInv
BY DEF StatsInit, ListInv

LEMMA ListStepInv ==
    ListInv /\ StatsTypes /\ StatsTypes' /\ [StatsNext]_statsVars => ListInv'
<1> SUFFICES ASSUME ListInv, StatsTypes, StatsTypes', [StatsNext]_statsVars PROVE ListInv'
  OBVIOUS
<1>1. CASE StoreMined \/ StoreState \/ UNCHANGED statsVars
  <2>1. /\ blocks \subseteq blocks' /\ states \subseteq states'
        /\ UNCHANGED <<req, pc, filter, rows, count, total, seen, counted, clean>>
    BY <1>1 DEF StoreMined, StoreBlock, StoreState, blockVars, reqVars, statsVars
  <2>2. QED
    BY <2>1, ListWaits
<1>2. CASE AskStats
  BY <1>2, ListAsk
<1>3. CASE Search
  BY <1>3, ListSearch
<1>4. CASE Count
  BY <1>4, ListCount
<1>5. CASE Rank
  BY <1>5, ListRank
<1>6. CASE TotalBlocks
  BY <1>6, ListTotal
<1>7. CASE RowsOfTop
  BY <1>7, ListTop
<1>8. CASE SetBlockValues
  BY <1>8, ListBlockValues
<1>9. CASE SetPowerValues
  BY <1>9, ListPowerValues
<1>10. CASE SeriesPoint \/ HomePoint \/ PointsEnd
  <2>1. pc = "points" /\ UNCHANGED <<req, clean>>
    BY <1>10 DEF SeriesPoint, HomePoint, PointsEnd, Wanted, CallWorks
  <2>2. QED
    BY <2>1 DEF ListInv, StageInv
<1>11. CASE Fails
  <2>1. CASE CallFails
    BY <1>11, <2>1 DEF CallFails, ListInv
  <2>2. CASE Refused
    <3>1. pc = "points" /\ UNCHANGED <<req, clean>>
      BY <1>11, <2>2 DEF Fails, Refused, Wanted
    <3>2. pc' \in {"idle", "answered"} /\ (pc' = "answered" => req.op = "active")
      BY <1>11, <3>1 DEF Fails
    <3>3. QED
      BY <3>1, <3>2 DEF ListInv, StageInv, List, Ranking
  <2>3. QED
    BY <1>11, <2>1, <2>2 DEF Fails
<1>12. QED
  BY <1>1, <1>2, <1>3, <1>4, <1>5, <1>6, <1>7, <1>8, <1>9, <1>10, <1>11 DEF StatsNext

(* While no call has failed, the rows of a list or ranking, their number,  *)
(* their figures and the whole are what the queries so far give of what    *)
(* was stored since the request came.                                      *)
THEOREM ListsFollow == StatsSpec => [](StatsTypes /\ ListInv)
BY ListInitInv, ListStepInv, StatsInitTypes, StatsStepTypes, PTL DEF StatsSpec

(* For every chain and every request: the rows of a list or ranking are of *)
(* different miners, and each says at least what its miner had mined when  *)
(* the request came and no more than it has mined by now.                  *)
THEOREM RowsInWindow == StatsSpec => []RowsOfTheWindow
<1>1. StatsTypes /\ ListInv => RowsOfTheWindow
  <2> SUFFICES ASSUME StatsTypes, ListInv, Answered, req.op \in List \cup Ranking
               PROVE  RowsOfTheWindow
    BY DEF RowsOfTheWindow
  <2>1. IsRows(rows) /\ CountInv /\ FigureInv /\ pc = "answered"
    BY DEF ListInv, Answered
  <2>2. \A i, j \in DOMAIN rows : rows[i].miner = rows[j].miner => i = j
    BY <2>1 DEF IsRows
  <2>3. PICK fed : fed = IF req.op \in {"block", "topBlock"} THEN blocks \ seen.blocks
                         ELSE states \ seen.states
    OBVIOUS
  <2>4. fed = FedNow \ FedBefore
    BY <2>3 DEF FedNow, FedBefore, Fed
  <2>5. Len(rows) <= count + Cardinality(MinersOf(fed))
    BY <2>1, <2>4 DEF CountInv
  <2>6. ASSUME req.op # "topOld", NEW i \in DOMAIN rows
        PROVE  /\ rows[i].blocks <= Cardinality({b \in BlocksOf(blocks) : b.miner = rows[i].miner})
               /\ req.offset = 0 =>
                    Cardinality({b \in BlocksOf(seen.blocks) : b.miner = rows[i].miner})
                      <= rows[i].blocks
    BY <2>1, <2>6 DEF FigureInv, Counted, OwnedIn, BlocksIn, BlocksOf
  <2>7. QED
    BY <2>2, <2>3, <2>5, <2>6 DEF RowsOfTheWindow
<1>2. QED
  BY <1>1, ListsFollow, PTL

(* The shares of the rows add up to no more than the whole, but for what   *)
(* is stored in between, and the whole is not short of what was stored.    *)
THEOREM SharesOfTheWhole == StatsSpec => []SharesAddUp
<1>1. StatsTypes /\ ListInv => SharesAddUp
  <2> SUFFICES ASSUME StatsTypes, ListInv, Answered, req.op \in List \cup {"topPower"}
               PROVE  /\ MinedBy(rows) <= total + (Cardinality(BlocksOf(blocks)) - Cardinality(BlocksOf(counted)))
                      /\ total = 0 \/ Cardinality(BlocksOf(seen.blocks)) <= total
    BY DEF SharesAddUp
  <2>1. ShareInv /\ pc = "answered"
    BY DEF ListInv, Answered, Ranking
  <2>2. PICK a, b, c : /\ a = Cardinality(BlocksOf(blocks)) /\ b = Cardinality(BlocksOf(counted))
                       /\ c = Cardinality(BlocksOf(seen.blocks))
    OBVIOUS
  <2>3. /\ a = Within(req, From, To, blocks) /\ b = Within(req, From, To, counted)
        /\ c = Within(req, From, To, seen.blocks)
    BY <2>2 DEF Within, BlocksIn, BlocksOf
  <2>4. /\ counted \subseteq blocks /\ MinedBy(rows) + b <= total + a
        /\ total \in Nat /\ MinedBy(rows) \in Nat
    BY <2>1, <2>3 DEF ShareInv
  <2>5. IsFiniteSet(blocks) /\ IsFiniteSet(counted)
    BY <2>4, BlocksFinite, FS_Subset
  <2>6. a \in Nat /\ b \in Nat
    BY <2>3, <2>4, <2>5, OwnedGrows
  <2>7. MinedBy(rows) <= total + (a - b)
    BY <2>4, <2>6
  <2>8. total = 0 \/ c <= total
    <3>1. SUFFICES ASSUME total # 0 PROVE c <= total
      OBVIOUS
    <3>2. seen.blocks \subseteq counted /\ total = b
      BY <2>1, <2>3, <3>1 DEF ShareInv, List
    <3>3. QED
      BY <2>3, <2>5, <3>2, OwnedGrows
  <2>9. QED
    BY <2>2, <2>7, <2>8
<1>2. QED
  BY <1>1, ListsFollow, PTL
=============================================================================
