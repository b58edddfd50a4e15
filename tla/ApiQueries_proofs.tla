------------------------- MODULE ApiQueries_proofs -------------------------
(***************************************************************************)
(* What is proved of ApiQueries, for every chain, cache size and filter:   *)
(* the answers put together from the cache and the collections.            *)
(***************************************************************************)
EXTENDS ApiQueries, FiniteSetTheorems, SequenceTheorems,
        WellFoundedInduction, TLAPS

-----------------------------------------------------------------------------
(* Facts about sequences and numbers. *)

(* A function over 1..n is a sequence. *)
LEMMA IntervalSeq ==
    ASSUME NEW S, NEW n \in Nat, NEW f \in [1..n -> S]
    PROVE  f \in Seq(S)
BY SeqDef

(* A set of numbers that is not empty has a least one.                     *)
LEMMA FirstOfNats ==
    ASSUME NEW S \in SUBSET Nat, S # {}
    PROVE  \E i \in S : \A j \in S : i <= j
<1>1. PICK i \in S : \A j \in S : <<j, i>> \notin OpToRel(<, Nat)
  BY NatLessThanWellFounded, WFMin
<1>2. \A j \in S : i \in Nat /\ j \in Nat /\ ~(j < i)
  BY <1>1 DEF OpToRel
<1>3. \A j \in S : i <= j
  BY <1>2
<1>4. QED
  BY <1>3

(* FlattenSeq.  Its value is the last of the sequences joined so far; that *)
(* there are such sequences is shown by extending them one by one.         *)
Joins(f, seqs, k) ==
    f = [i \in 1..k |-> IF i = 1 THEN seqs[i] ELSE f[i - 1] \o seqs[i]]

LEMMA JoinsExist ==
    ASSUME NEW seqs, NEW n \in Nat
    PROVE  \E f : Joins(f, seqs, n)
<1> DEFINE Bad == {k \in Nat : ~\E f : Joins(f, seqs, k)}
<1> SUFFICES ASSUME Bad # {} PROVE FALSE
  OBVIOUS
<1>1. PICK k \in Bad : \A j \in Bad : k <= j
  <2>1. Bad \in SUBSET Nat
    OBVIOUS
  <2> HIDE DEF Bad
  <2>2. QED
    BY <2>1, FirstOfNats
<1>2. CASE k = 0
  <2>1. Joins([i \in {} |-> 0], seqs, 0)
    BY DEF Joins
  <2>2. QED
    BY <1>2, <2>1
<1>3. CASE k # 0
  <2>1. k - 1 \in Nat /\ k - 1 \notin Bad /\ k \in Nat
    BY <1>1, <1>3
  <2>2. PICK f : Joins(f, seqs, k - 1)
    BY <2>1
  <2> DEFINE g == [i \in 1..k |-> IF i < k THEN f[i]
                                  ELSE IF k = 1 THEN seqs[k] ELSE f[k - 1] \o seqs[k]]
  <2>3. \A i \in 1..(k - 1) : g[i] = f[i]
    BY <2>1
  <2>4. g[k] = IF k = 1 THEN seqs[k] ELSE f[k - 1] \o seqs[k]
    BY <1>3, <2>1
  <2>5. \A i \in 1..k : g[i] = IF i = 1 THEN seqs[i] ELSE g[i - 1] \o seqs[i]
    <3> SUFFICES ASSUME NEW i \in 1..k
                 PROVE  g[i] = IF i = 1 THEN seqs[i] ELSE g[i - 1] \o seqs[i]
      OBVIOUS
    <3>1. CASE i = k
      <4>1. k # 1 => g[k - 1] = f[k - 1]
        BY <1>3, <2>1, <2>3
      <4> HIDE DEF g
      <4>2. QED
        BY <2>4, <3>1, <4>1
    <3>2. CASE i # k
      <4>1. i \in 1..(k - 1)
        BY <2>1, <3>2
      <4>2. f[i] = IF i = 1 THEN seqs[i] ELSE f[i - 1] \o seqs[i]
        BY <2>2, <4>1 DEF Joins
      <4>3. i # 1 => g[i - 1] = f[i - 1]
        BY <2>3, <4>1
      <4>4. g[i] = f[i]
        BY <2>3, <4>1
      <4> HIDE DEF g
      <4>5. QED
        BY <4>2, <4>3, <4>4
    <3>3. QED
      BY <3>1, <3>2
  <2>6. g = [i \in 1..k |-> IF i = 1 THEN seqs[i] ELSE g[i - 1] \o seqs[i]]
    <3>1. g = [i \in 1..k |-> g[i]]
      OBVIOUS
    <3> HIDE DEF g
    <3>2. QED
      BY <2>5, <3>1
  <2> HIDE DEF g
  <2>7. QED
    BY <1>1, <2>6 DEF Joins
<1>4. QED
  BY <1>2, <1>3

LEMMA FlattenUnfolds ==
    ASSUME NEW seqs, Len(seqs) \in Nat \ {0}
    PROVE  \E f : Joins(f, seqs, Len(seqs)) /\ FlattenSeq(seqs) = f[Len(seqs)]
<1> DEFINE f == CHOOSE g : Joins(g, seqs, Len(seqs))
<1>1. Joins(f, seqs, Len(seqs))
  BY JoinsExist
<1>2. FlattenSeq(seqs) = f[Len(seqs)]
  BY DEF FlattenSeq, Joins
<1> HIDE DEF f
<1>3. QED
  BY <1>1, <1>2

LEMMA ToSetIs ==
    ASSUME NEW S, NEW s \in Seq(S)
    PROVE  ToSet(s) = {s[i] : i \in 1..Len(s)} /\ ToSet(s) \subseteq S
<1>1. DOMAIN s = 1..Len(s)
  BY LenProperties
<1>2. QED
  BY <1>1, ElementOfSeq DEF ToSet

LEMMA ConcatToSet ==
    ASSUME NEW S, NEW s \in Seq(S), NEW t \in Seq(S)
    PROVE  s \o t \in Seq(S) /\ ToSet(s \o t) = ToSet(s) \cup ToSet(t)
<1> DEFINE u == s \o t
<1>1. /\ u \in Seq(S) /\ Len(u) = Len(s) + Len(t)
      /\ \A i \in 1..(Len(s) + Len(t)) : u[i] = IF i <= Len(s) THEN s[i] ELSE t[i - Len(s)]
  BY ConcatProperties
<1> HIDE DEF u
<1>2. Len(s) \in Nat /\ Len(t) \in Nat
  BY LenProperties
<1>3. /\ ToSet(s) = {s[i] : i \in 1..Len(s)} /\ ToSet(t) = {t[i] : i \in 1..Len(t)}
      /\ ToSet(u) = {u[i] : i \in 1..Len(u)}
  BY <1>1, ToSetIs
<1>4. ToSet(u) \subseteq ToSet(s) \cup ToSet(t)
  <2> SUFFICES ASSUME NEW i \in 1..Len(u) PROVE u[i] \in ToSet(s) \cup ToSet(t)
    BY <1>3
  <2>1. CASE i <= Len(s)
    BY <1>1, <1>2, <1>3, <2>1
  <2>2. CASE ~(i <= Len(s))
    <3>1. i - Len(s) \in 1..Len(t) /\ u[i] = t[i - Len(s)]
      BY <1>1, <1>2, <2>2
    <3>2. QED
      BY <1>3, <3>1
  <2>3. QED
    BY <2>1, <2>2
<1>5. ToSet(s) \subseteq ToSet(u)
  <2> SUFFICES ASSUME NEW i \in 1..Len(s) PROVE s[i] \in ToSet(u)
    BY <1>3
  <2>1. i \in 1..Len(u) /\ u[i] = s[i]
    BY <1>1, <1>2
  <2>2. QED
    BY <1>3, <2>1
<1>6. ToSet(t) \subseteq ToSet(u)
  <2> SUFFICES ASSUME NEW i \in 1..Len(t) PROVE t[i] \in ToSet(u)
    BY <1>3
  <2>1. i + Len(s) \in 1..Len(u) /\ u[i + Len(s)] = t[i]
    <3>1. PICK j : j = i + Len(s)
      OBVIOUS
    <3>2. /\ j \in 1..(Len(s) + Len(t)) /\ ~(j <= Len(s)) /\ j - Len(s) = i
      BY <1>2, <3>1
    <3>3. u[j] = IF j <= Len(s) THEN s[j] ELSE t[j - Len(s)]
      BY <1>1, <3>2
    <3>4. QED
      BY <1>1, <3>1, <3>2, <3>3
  <2>2. QED
    BY <1>3, <2>1
<1>7. QED
  BY <1>1, <1>4, <1>5, <1>6 DEF u

(* The elements of the first k sequences. *)
Within(seqs, k) == UNION {ToSet(seqs[i]) : i \in 1..k}

(* What was joined up to i has the elements of the first i sequences.      *)
LEMMA JoinsToSet ==
    ASSUME NEW S, NEW seqs \in Seq(Seq(S)), NEW f, Joins(f, seqs, Len(seqs)),
           NEW k \in 1..Len(seqs)
    PROVE  f[k] \in Seq(S) /\ ToSet(f[k]) = Within(seqs, k)
<1> DEFINE Good(i) == f[i] \in Seq(S) /\ ToSet(f[i]) = Within(seqs, i)
           Bad == {i \in 1..Len(seqs) : ~Good(i)}
<1>0. Len(seqs) \in Nat /\ \A i \in 1..Len(seqs) : seqs[i] \in Seq(S)
  BY LenProperties, ElementOfSeq
<1> SUFFICES ASSUME Bad # {} PROVE FALSE
  OBVIOUS
<1>1. PICK i \in Bad : \A j \in Bad : i <= j
  <2>1. Bad \in SUBSET Nat
    BY <1>0
  <2> HIDE DEF Bad
  <2>2. QED
    BY <2>1, FirstOfNats
<1>2. i \in 1..Len(seqs) /\ f[i] = IF i = 1 THEN seqs[i] ELSE f[i - 1] \o seqs[i]
  BY <1>1 DEF Joins
<1>3. CASE i = 1
  <2>1. Within(seqs, i) = ToSet(seqs[1])
    BY <1>3 DEF Within
  <2>2. Good(i)
    BY <1>0, <1>2, <1>3, <2>1
  <2> HIDE DEF Good
  <2>3. QED
    BY <1>1, <2>2
<1>4. CASE i # 1
  <2>1. i - 1 \in 1..Len(seqs) /\ i - 1 \notin Bad
    <3>1. i - 1 \in 1..Len(seqs) /\ ~(i <= i - 1)
      BY <1>0, <1>2, <1>4
    <3> HIDE DEF Bad
    <3>2. QED
      BY <1>1, <3>1
  <2>2. Good(i - 1)
    BY <2>1
  <2>3. f[i] \in Seq(S) /\ ToSet(f[i]) = ToSet(f[i - 1]) \cup ToSet(seqs[i])
    <3>1. f[i] = f[i - 1] \o seqs[i] /\ seqs[i] \in Seq(S)
      BY <1>0, <1>2, <1>4
    <3>2. QED
      BY <2>2, <3>1, ConcatToSet
  <2>4. Within(seqs, i) = Within(seqs, i - 1) \cup ToSet(seqs[i])
    <3>1. 1..i = 1..(i - 1) \cup {i}
      <4>1. i \in Nat /\ 1 <= i
        BY <1>0, <1>2
      <4>2. \A j \in Nat : j \in 1..i <=> j \in 1..(i - 1) \/ j = i
        BY <4>1
      <4>3. QED
        BY <4>1, <4>2
    <3>2. QED
      BY <3>1 DEF Within
  <2>5. Good(i)
    BY <2>2, <2>3, <2>4
  <2> HIDE DEF Good
  <2>6. QED
    BY <1>1, <2>5
<1>5. QED
  BY <1>3, <1>4

(* The elements of the joined sequence are those of the sequences. *)
LEMMA FlattenToSet ==
    ASSUME NEW S, NEW seqs \in Seq(Seq(S))
    PROVE  /\ FlattenSeq(seqs) \in Seq(S)
           /\ ToSet(FlattenSeq(seqs)) = Within(seqs, Len(seqs))
<1>0. Len(seqs) \in Nat
  BY LenProperties
<1>1. CASE Len(seqs) = 0
  <2>1. seqs = <<>> /\ FlattenSeq(seqs) = <<>>
    BY <1>1, EmptySeq DEF FlattenSeq
  <2>2. <<>> \in Seq(S) /\ Len(<<>>) = 0 /\ DOMAIN <<>> = {}
    BY EmptySeq
  <2>3. ToSet(<<>>) = {}
    BY <2>2 DEF ToSet
  <2>4. Within(seqs, Len(seqs)) = {}
    BY <1>1 DEF Within
  <2>5. QED
    BY <2>1, <2>2, <2>3, <2>4
<1>2. CASE Len(seqs) # 0
  <2>1. PICK f : Joins(f, seqs, Len(seqs)) /\ FlattenSeq(seqs) = f[Len(seqs)]
    BY <1>0, <1>2, FlattenUnfolds
  <2>2. Len(seqs) \in 1..Len(seqs)
    BY <1>0, <1>2
  <2>3. f[Len(seqs)] \in Seq(S) /\ ToSet(f[Len(seqs)]) = Within(seqs, Len(seqs))
    BY <2>1, <2>2, JoinsToSet
  <2>4. QED
    BY <2>1, <2>3
<1>3. QED
  BY <1>1, <1>2

(* What SelectLastInSeq returns when it finds something. *)
LEMMA LastOfNats ==
    ASSUME NEW n \in Nat, NEW S \in SUBSET (1..n), S # {}
    PROVE  Max(S) \in S /\ \A j \in S : Max(S) >= j
<1> DEFINE Back == {n - i : i \in S}
<1>1. Back \in SUBSET Nat /\ Back # {}
  <2>1. ASSUME NEW i \in S PROVE n - i \in Nat
    <3>1. i \in Nat /\ i <= n
      OBVIOUS
    <3>2. QED
      BY <3>1
  <2>2. QED
    BY <2>1
<1>2. PICK k \in Back : \A j \in Back : k <= j
  <2> HIDE DEF Back
  <2>1. QED
    BY <1>1, FirstOfNats
<1>3. PICK i \in S : k = n - i
  BY <1>2
<1>4. \A j \in S : i >= j
  <2> SUFFICES ASSUME NEW j \in S PROVE i >= j
    OBVIOUS
  <2>1. n - j \in Back
    OBVIOUS
  <2>2. n - i <= n - j
    <3> HIDE DEF Back
    <3>1. QED
      BY <1>2, <1>3, <2>1
  <2>3. QED
    BY <2>2
<1>5. QED
  BY <1>4 DEF Max

(* What SelectInSeq returns when it finds something. *)
LEMMA FirstIsLeast ==
    ASSUME NEW S \in SUBSET Nat, S # {}
    PROVE  Min(S) \in S /\ \A j \in S : Min(S) <= j
BY FirstOfNats DEF Min

-----------------------------------------------------------------------------
(* Ancestry, for every tree of tipsets: there is a function that satisfies *)
(* its definition, the tipsets that a walk along the parents comes to.     *)

IsWalk(s, n, t, u) ==
    /\ s \in [0..n -> Tipset] /\ s[0] = t /\ s[n] = u
    /\ \A i \in 0..(n - 1) : s[i] # Genesis /\ s[i + 1] = Parent[s[i]]

Reaches(t, u) == \E n \in Nat : \E s : IsWalk(s, n, t, u)

LEMMA ReachesItself ==
    ASSUME NEW t \in Tipset
    PROVE  Reaches(t, t)
<1>1. IsWalk([i \in 0..0 |-> t], 0, t, t)
  BY DEF IsWalk
<1>2. QED
  BY <1>1 DEF Reaches

LEMMA ReachesUnfolds ==
    ASSUME NEW t \in Tipset, NEW u \in Tipset
    PROVE  Reaches(t, u) <=> t = u \/ (t # Genesis /\ Reaches(Parent[t], u))
<1>1. ASSUME Reaches(t, u), t # u
      PROVE  t # Genesis /\ Reaches(Parent[t], u)
  <2>0. PICK n \in Nat : \E s : IsWalk(s, n, t, u)
    BY <1>1 DEF Reaches
  <2>1. PICK s : IsWalk(s, n, t, u)
    BY <2>0
  <2>2. n # 0 /\ n - 1 \in Nat
    BY <1>1, <2>1 DEF IsWalk
  <2> DEFINE rest == [i \in 0..(n - 1) |-> s[i + 1]]
  <2>3. \A i \in 0..(n - 1) : i + 1 \in 0..n /\ s[i + 1] \in Tipset
    BY <2>1, <2>2 DEF IsWalk
  <2>4. rest \in [0..(n - 1) -> Tipset] /\ rest[0] = Parent[t] /\ rest[n - 1] = u
    BY <2>1, <2>2, <2>3 DEF IsWalk
  <2>5. ASSUME NEW i \in 0..((n - 1) - 1)
        PROVE  rest[i] # Genesis /\ rest[i + 1] = Parent[rest[i]]
    <3>1. i \in 0..(n - 1) /\ i + 1 \in 0..(n - 1)
      BY <2>2
    <3>2. s[i + 1] # Genesis /\ s[(i + 1) + 1] = Parent[s[i + 1]]
      BY <2>1, <3>1 DEF IsWalk
    <3>3. QED
      BY <3>1, <3>2
  <2>6. IsWalk(rest, n - 1, Parent[t], u)
    BY <2>4, <2>5 DEF IsWalk
  <2>7. t # Genesis
    BY <2>1, <2>2 DEF IsWalk
  <2>8. QED
    BY <2>2, <2>6, <2>7 DEF Reaches
<1>2. ASSUME t # Genesis, Reaches(Parent[t], u)
      PROVE  Reaches(t, u)
  <2>0. PICK n \in Nat : \E s : IsWalk(s, n, Parent[t], u)
    BY <1>2 DEF Reaches
  <2>1. PICK s : IsWalk(s, n, Parent[t], u)
    BY <2>0
  <2> DEFINE all == [i \in 0..(n + 1) |-> IF i = 0 THEN t ELSE s[i - 1]]
  <2>2. \A i \in 1..(n + 1) : i - 1 \in 0..n /\ s[i - 1] \in Tipset
    BY <2>1 DEF IsWalk
  <2>3. all \in [0..(n + 1) -> Tipset] /\ all[0] = t /\ all[n + 1] = u
    BY <2>1, <2>2 DEF IsWalk
  <2>4. ASSUME NEW i \in 0..((n + 1) - 1)
        PROVE  all[i] # Genesis /\ all[i + 1] = Parent[all[i]]
    <3>1. CASE i = 0
      BY <1>2, <2>1, <3>1 DEF IsWalk
    <3>2. CASE i # 0
      <4>1. i - 1 \in 0..(n - 1) /\ i \in 0..(n + 1) /\ i + 1 \in 0..(n + 1)
        BY <3>2
      <4>2. s[i - 1] # Genesis /\ s[(i - 1) + 1] = Parent[s[i - 1]]
        BY <2>1, <4>1 DEF IsWalk
      <4>3. QED
        BY <3>2, <4>1, <4>2
    <3>3. QED
      BY <3>1, <3>2
  <2> HIDE DEF all
  <2>5. IsWalk(all, n + 1, t, u)
    BY <2>3, <2>4 DEF IsWalk
  <2>6. QED
    BY <2>5 DEF Reaches
<1>3. QED
  BY <1>1, <1>2, ReachesItself

LEMMA AncestryUnfolds ==
    ASSUME NEW t \in Tipset
    PROVE  Ancestry[t] = IF t = Genesis THEN {t} ELSE {t} \cup Ancestry[Parent[t]]
<1> DEFINE IsOne(f) == f = [s \in Tipset |-> IF s = Genesis THEN {s} ELSE {s} \cup f[Parent[s]]]
           reached == [s \in Tipset |-> {u \in Tipset : Reaches(s, u)}]
<1>1. ASSUME NEW s \in Tipset
      PROVE  reached[s] = IF s = Genesis THEN {s} ELSE {s} \cup reached[Parent[s]]
  <2>1. CASE s = Genesis
    <3>1. \A u \in Tipset : Reaches(s, u) <=> s = u
      BY <2>1, ReachesUnfolds
    <3>2. reached[s] = {u \in Tipset : Reaches(s, u)}
      OBVIOUS
    <3> HIDE DEF reached
    <3>3. reached[s] = {s}
      BY <3>1, <3>2
    <3>4. QED
      BY <2>1, <3>3
  <2>2. CASE s # Genesis
    <3>1. Parent[s] \in Tipset
      BY <2>2, ChainAssumption
    <3>2. \A u \in Tipset : Reaches(s, u) <=> s = u \/ Reaches(Parent[s], u)
      BY <2>2, ReachesUnfolds
    <3>3. /\ reached[s] = {u \in Tipset : Reaches(s, u)}
          /\ reached[Parent[s]] = {u \in Tipset : Reaches(Parent[s], u)}
      BY <3>1
    <3> HIDE DEF reached
    <3>4. reached[s] = {s} \cup reached[Parent[s]]
      BY <3>2, <3>3
    <3>5. QED
      BY <2>2, <3>4
  <2>3. QED
    BY <2>1, <2>2
<1>2. IsOne(reached)
  <2> HIDE DEF reached
  <2>1. reached = [s \in Tipset |-> reached[s]]
    BY DEF reached
  <2>2. QED
    BY <1>1, <2>1
<1>3. Ancestry = CHOOSE f : IsOne(f)
  BY DEF Ancestry
<1> HIDE DEF reached, IsOne
<1>4. IsOne(Ancestry)
  BY <1>2, <1>3
<1>5. QED
  BY <1>4 DEF IsOne

(* It goes down, and it ends. *)
LEMMA AncestryBelow ==
    ASSUME NEW t \in Tipset
    PROVE  /\ IsFiniteSet(Ancestry[t])
           /\ \A u \in Ancestry[t] : u \in Tipset /\ Height[u] <= Height[t]
<1> DEFINE Good(s) == /\ IsFiniteSet(Ancestry[s])
                      /\ \A u \in Ancestry[s] : u \in Tipset /\ Height[u] <= Height[s]
           Bad == {h \in Nat : \E s \in Tipset : Height[s] = h /\ ~Good(s)}
<1>1. ASSUME Bad # {} PROVE FALSE
  <2>1. PICK h \in Bad : \A k \in Bad : h <= k
    <3>1. Bad \in SUBSET Nat
      OBVIOUS
    <3> HIDE DEF Bad
    <3>2. QED
      BY <1>1, <3>1, FirstOfNats
  <2>2. PICK s \in Tipset : Height[s] = h /\ ~Good(s)
    OBVIOUS
  <2>3. CASE s = Genesis
    <3>1. Ancestry[s] = {s} /\ Height[s] \in Nat
      BY <2>3, AncestryUnfolds, ChainAssumption
    <3>2. QED
      BY <2>2, <3>1, FS_Singleton
  <2>4. CASE s # Genesis
    <3>1. Parent[s] \in Tipset /\ Height[Parent[s]] < Height[s] /\ Height[Parent[s]] \in Nat
          /\ Height[s] \in Nat
      BY <2>4, ChainAssumption
    <3>2. Good(Parent[s])
      <4>1. Height[Parent[s]] \notin Bad
        <5> HIDE DEF Bad
        <5>1. QED
          BY <2>1, <2>2, <3>1
      <4>2. QED
        BY <3>1, <4>1
    <3>3. Ancestry[s] = {s} \cup Ancestry[Parent[s]]
      BY <2>4, AncestryUnfolds
    <3>4. ASSUME NEW u \in Ancestry[s] PROVE u \in Tipset /\ Height[u] <= Height[s]
      <4>1. CASE u = s
        BY <3>1, <4>1
      <4>2. CASE u # s
        <5>1. u \in Tipset /\ Height[u] <= Height[Parent[s]] /\ Height[u] \in Nat
          BY <3>2, <3>3, <4>2, ChainAssumption
        <5>2. QED
          BY <3>1, <5>1
      <4>3. QED
        BY <4>1, <4>2
    <3>5. IsFiniteSet(Ancestry[Parent[s]] \cup {s})
      BY <3>2, FS_AddElement
    <3>6. Ancestry[s] = Ancestry[Parent[s]] \cup {s}
      BY <3>3
    <3>7. IsFiniteSet(Ancestry[s])
      BY <3>5, <3>6
    <3>8. QED
      BY <2>2, <3>4, <3>7
  <2>5. QED
    BY <2>3, <2>4
<1>2. Height[t] \in Nat
  BY ChainAssumption
<1>3. QED
  BY <1>1, <1>2

-----------------------------------------------------------------------------
(* The invariant. *)

(* The heights fall along a list of tipsets. *)
Descends(s) == \A i, j \in 1..Len(s) : i < j => Height[s[j]] < Height[s[i]]

(* Cached, stored: what is stored or on its way there lies below the       *)
(* cache; what run_syncer is storing lies above every stored tipset, and   *)
(* what sync_to_genesis is storing below.  So nothing is stored over       *)
(* another tipset of its height, and the collections only grow.            *)
StoreInv ==
    LET in   == writing["run_syncer"]
        down == writing["sync_to_genesis"]
    IN  /\ cache \in Seq(Tipset) /\ cache # <<>> /\ Descends(cache)
        /\ blocks \in SUBSET Tipset /\ IsFiniteSet(blocks) /\ tipsets \subseteq blocks
        /\ writing \in [Writer -> Tipset \cup {NoTipset}]
        /\ \A c \in ToSet(cache), x \in blocks \cup ({in, down} \ {NoTipset}) :
                Height[x] < Height[c]
        /\ \A t \in tipsets : /\ in # NoTipset => Height[t] < Height[in]
                              /\ down # NoTipset => Height[down] < Height[t]
        /\ in # NoTipset /\ down # NoTipset => Height[down] < Height[in]

(* Which request is at which step, and what it was asked with. *)
InSome(b, S) == \E t \in S : b \in ToSet(Blocks[t])

PageOps == {"messages", "method", "miner", "address", "latestblock", "latestmsg"}

CallInv ==
    /\ step = "tree" => req.op = "tree" /\ req.end \in Nat /\ req.count \in Nat
    /\ step = "find" => req.op \in {"look", "search", "methods", "confirm"}
    /\ step = "collection" => req.op = "search" /\ req.kind \in {"message", "block"}
    /\ step \in {"max", "newest"} => req.op = "search" /\ req.kind = "height"
    /\ step \in {"than", "size"} => req.op = "confirm" /\ InSome(req.block, tipsets)
    /\ step \in {"front", "range"} => req.op = "confirm" /\ InSome(req.block, Tipset)
    /\ step = "page" => /\ req.op \in PageOps
                        /\ req.begin \in Nat /\ req.count \in Nat \ {0}
    /\ step = "reward" => req.op = "reward"
    /\ step = "account" => req.op = "account"
    /\ step \in {"sums", "mesages", "tipsets"} => req.op = "base"
    /\ step \in {"chart", "stored"} => req.op \in {"blocktime", "blocksize"}

(* What a request for a block, a height or a message looks for: tipsets    *)
(* that have it, and MessagesMethods those with a document of its block.   *)
Sought(r, t) ==
    IF r.op = "methods" THEN \E i \in Documents[t] : Messages[t][i].block_cid = r.block
    ELSE Holds(r, t)

(* A tipset that stayed where it was since the request came is cached by   *)
(* the time the request has looked for it in the collection in vain.       *)
FoundInv ==
    /\ stayed \subseteq ToSet(cache) \cup blocks
    /\ step = "find" /\ req.op # "confirm" => {t \in stayed : Sought(req, t)} \subseteq ToSet(cache)
    /\ FoundUnlessMoved

(* What TipSetTree has not read from the cache will be found below.        *)
TreeInv ==
    step = "tree" =>
        /\ read \in Seq(Tipset)
        /\ {t \in seen : Start(req) <= Height[t] /\ Height[t] <= req.end} \subseteq
                ToSet(read) \cup {t \in TreeOfCollection : \A c \in ToSet(read) : Height[c] # Height[t]}

(* What has been counted in the cache makes up for what is not stored yet. *)
CountInv ==
    /\ seen \in SUBSET Tipset /\ IsFiniteSet(seen)
    /\ step = "page" => /\ read \in Seq(Tipset) /\ Descends(read)
                        /\ seen \subseteq ToSet(read) \cup tipsets
    /\ step = "reward" =>
        number \in Nat /\ Cardinality(Among(seen \ tipsets, ByMiner)) <= number

ChartInv ==
    /\ step \in {"chart", "stored"} => page \in Seq(Nat)
    /\ step = "stored" =>
        number \in Nat /\ Cardinality(CachedIn(seen \ tipsets, Len(page) + 1)) <= number

(* What has been counted in the collections is still there, and not cached. *)
OfDay == Both(Documents, Since(TimeNow - Day))

SumInv ==
    /\ known \in SUBSET Tipset /\ IsFiniteSet(known)
    /\ step = "find" /\ req.op = "confirm" => number = 0
    /\ step = "size" =>
        number \in Nat /\ number <= Cardinality(AtLeast(tipsets, BlockHeight[req.block]))
    /\ step = "range" => number \in Nat
    /\ step = "account" =>
        number \in Nat /\ number <= Cardinality(Among(blocks, Both(Documents, Matching)))
    /\ step \in {"sums", "mesages", "tipsets"} =>
        /\ page \in Seq(Nat)
        /\ \A i \in 1..3 : i <= Len(page) =>
                /\ page[i] <= Cardinality(Among(blocks, OfDay))
                /\ 3 <= Len(page) => page[i] <= page[3]
        /\ 4 <= Len(page) => page[4] <= Cardinality(tipsets)
    /\ step = "sums" => Len(page) < 4
    /\ step \in {"mesages", "tipsets"} => Len(page) = 4
    /\ step = "tipsets" =>
        number \in Nat /\ page[3] + number <= Cardinality(Among(seen \cup blocks, Every))
    /\ HasAnswer({"account"}) => number \in Nat
    /\ HasAnswer({"base"}) => page[3] \in Nat
    /\ NeverOverstates

-----------------------------------------------------------------------------
(* The store. *)

LEMMA PieceDescends ==
    ASSUME NEW s \in Seq(Tipset), Descends(s), NEW m \in 1..Len(s), NEW n \in 0..Len(s)
    PROVE  /\ SubSeq(s, m, n) \in Seq(Tipset) /\ Descends(SubSeq(s, m, n))
           /\ Len(SubSeq(s, m, n)) = IF m <= n THEN n - m + 1 ELSE 0
           /\ \A i \in 1..Len(SubSeq(s, m, n)) :
                 m + i - 1 \in m..n /\ SubSeq(s, m, n)[i] = s[m + i - 1]
<1> DEFINE p == SubSeq(s, m, n)
<1>1. Len(s) \in Nat /\ m \in Int /\ n \in Int
  BY LenProperties
<1>2. \A i \in m..n : s[i] \in Tipset
  BY <1>1, ElementOfSeq
<1>3. /\ p \in Seq(Tipset)
      /\ Len(p) = IF m <= n THEN n - m + 1 ELSE 0
      /\ \A i \in 1..(n - m + 1) : p[i] = s[m + i - 1]
  BY <1>1, <1>2, SubSeqProperties
<1> HIDE DEF p
<1>4. \A i \in 1..Len(p) : m + i - 1 \in m..n /\ p[i] = s[m + i - 1]
  BY <1>1, <1>3
<1>5. ASSUME NEW i \in 1..Len(p), NEW j \in 1..Len(p), i < j
      PROVE  Height[p[j]] < Height[p[i]]
  <2>1. PICK k, l : k = m + i - 1 /\ l = m + j - 1
    OBVIOUS
  <2>2. k \in 1..Len(s) /\ l \in 1..Len(s) /\ k < l
    BY <1>1, <1>3, <1>5, <2>1
  <2>3. p[i] = s[k] /\ p[j] = s[l]
    BY <1>4, <2>1
  <2>4. QED
    BY <2>2, <2>3 DEF Descends
<1>6. QED
  BY <1>3, <1>4, <1>5 DEF Descends, p

(* in falls before the trunk, which begins with its parent. *)
LEMMA GrownDescends ==
    ASSUME NEW c \in Seq(Tipset), Descends(c), NEW in \in Tipset, Parent[in] \in ToSet(c)
    PROVE  /\ Grown(c, in) \in Seq(Tipset) /\ Descends(Grown(c, in))
           /\ Len(Grown(c, in)) > 1 /\ Grown(c, in)[1] = in
           /\ \A i \in 2..Len(Grown(c, in)) : Grown(c, in)[i] \in ToSet(c)
<1> DEFINE At == {i \in 1..Len(c) : c[i] = Parent[in]}
           first == CHOOSE i \in 1..Len(c) :
                       c[i] = Parent[in] /\ \A j \in 1..(i - 1) : c[j] # Parent[in]
           trunk == Trunk(c, in)
           grown == Grown(c, in)
<1>1. Len(c) \in Nat /\ \E i \in 1..Len(c) : c[i] = Parent[in]
  BY ToSetIs, LenProperties
<1>2. \E i \in 1..Len(c) : c[i] = Parent[in] /\ \A j \in 1..(i - 1) : c[j] # Parent[in]
  <2>1. At \in SUBSET Nat /\ At # {}
    BY <1>1
  <2>2. PICK i \in At : \A j \in At : i <= j
    BY <2>1, FirstOfNats
  <2>3. QED
    BY <1>1, <2>2
<1>3. first \in 1..Len(c) /\ c[first] = Parent[in]
  BY <1>2
<1>4. trunk = SubSeq(c, first, Len(c))
  BY <1>1 DEF Trunk
<1> HIDE DEF first
<1>5. first <= Len(c) /\ Len(c) \in 0..Len(c)
  BY <1>1, <1>3
<1>6. /\ trunk \in Seq(Tipset) /\ Descends(trunk) /\ Len(trunk) = Len(c) - first + 1
      /\ \A i \in 1..Len(trunk) : first + i - 1 \in first..Len(c) /\ trunk[i] = c[first + i - 1]
  BY <1>3, <1>4, <1>5, PieceDescends
<1> HIDE DEF trunk
<1>7. /\ grown \in Seq(Tipset) /\ Len(grown) = 1 + Len(trunk)
      /\ \A i \in 1..(1 + Len(trunk)) : grown[i] = IF i <= 1 THEN in ELSE trunk[i - 1]
  <2>1. <<in>> \in Seq(Tipset) /\ Len(<<in>>) = 1 /\ <<in>>[1] = in
    OBVIOUS
  <2>2. grown = <<in>> \o trunk
    BY DEF Grown, trunk
  <2> HIDE DEF grown
  <2>3. QED
    BY <1>6, <2>1, <2>2, ConcatProperties
<1> HIDE DEF grown
<1>8. Len(trunk) \in Nat \ {0} /\ trunk[1] = Parent[in]
  BY <1>1, <1>3, <1>5, <1>6
<1>9. \A i \in 1..Len(trunk) : trunk[i] \in ToSet(c) /\ trunk[i] \in Tipset
  <2>1. \A i \in 1..Len(trunk) : first + i - 1 \in 1..Len(c)
    BY <1>1, <1>3, <1>6
  <2>2. QED
    BY <1>6, <2>1, ToSetIs
<1>10. Height[Parent[in]] < Height[in]
  <2>1. in # Genesis
    BY ToSetIs, ChainAssumption
  <2>2. QED
    BY <2>1, ChainAssumption
<1>11. \A i \in 1..Len(trunk) : Height[trunk[i]] <= Height[Parent[in]] /\ Height[trunk[i]] \in Nat
  <2> SUFFICES ASSUME NEW i \in 1..Len(trunk)
               PROVE  Height[trunk[i]] <= Height[Parent[in]] /\ Height[trunk[i]] \in Nat
    OBVIOUS
  <2>1. Height[trunk[i]] \in Nat /\ Height[trunk[1]] \in Nat
    BY <1>8, <1>9, ChainAssumption
  <2>2. CASE i = 1
    BY <1>8, <2>1, <2>2
  <2>3. CASE i # 1
    <3>1. Height[trunk[i]] < Height[trunk[1]]
      BY <1>6, <1>8, <2>3 DEF Descends
    <3>2. QED
      BY <1>8, <2>1, <3>1
  <2>4. QED
    BY <2>2, <2>3
<1>12. ASSUME NEW i \in 1..Len(grown), NEW j \in 1..Len(grown), i < j
       PROVE  Height[grown[j]] < Height[grown[i]]
  <2>1. j - 1 \in 1..Len(trunk) /\ grown[j] = trunk[j - 1]
    BY <1>7, <1>8, <1>12
  <2>2. CASE i = 1
    <3>1. grown[i] = in /\ Height[in] \in Nat /\ Height[Parent[in]] \in Int
      BY <1>7, <1>8, <1>9, <2>2, ChainAssumption
    <3>2. Height[trunk[j - 1]] <= Height[Parent[in]] /\ Height[trunk[j - 1]] \in Nat
      BY <1>11, <2>1
    <3>3. QED
      BY <1>10, <2>1, <3>1, <3>2
  <2>3. CASE i # 1
    <3>1. i - 1 \in 1..Len(trunk) /\ grown[i] = trunk[i - 1] /\ i - 1 < j - 1
      BY <1>7, <1>8, <1>12, <2>3
    <3>2. QED
      BY <1>6, <2>1, <3>1 DEF Descends
  <2>4. QED
    BY <2>2, <2>3
<1>13. \A i \in 2..Len(grown) : grown[i] \in ToSet(c)
  <2> SUFFICES ASSUME NEW i \in 2..Len(grown) PROVE grown[i] \in ToSet(c)
    OBVIOUS
  <2>1. i - 1 \in 1..Len(trunk) /\ grown[i] = trunk[i - 1]
    BY <1>7, <1>8
  <2>2. QED
    BY <1>9, <2>1
<1>14. QED
  BY <1>7, <1>8, <1>12, <1>13 DEF Descends, grown

(* What falls off the cache lies below what is left of it. *)
LEMMA PushDescends ==
    ASSUME NEW c \in Seq(Tipset), Descends(c), NEW in \in Tipset, Parent[in] \in ToSet(c),
           ~IsFront(c, in), NEW push, push = push_front(c, in)
    PROVE  /\ push.cache \in Seq(Tipset) /\ push.cache # <<>> /\ Descends(push.cache)
           /\ ToSet(push.cache) \subseteq {in} \cup ToSet(c)
           /\ push.evicted \in {NoTipset} \cup ToSet(c)
           /\ push.evicted # NoTipset =>
                \A t \in ToSet(push.cache) : Height[push.evicted] < Height[t]
<1>1. PICK g : g = Grown(c, in)
  OBVIOUS
<1>2. /\ g \in Seq(Tipset) /\ Descends(g) /\ Len(g) \in Nat /\ Len(g) > 1 /\ g[1] = in
      /\ \A i \in 2..Len(g) : g[i] \in ToSet(c)
  BY <1>1, GrownDescends, LenProperties
<1>3. ToSet(g) \subseteq {in} \cup ToSet(c)
  BY <1>2, ToSetIs
<1>4. CASE Len(g) > MaxSize
  <2>1. PICK p : p = SubSeq(g, 1, Len(g) - 1)
    OBVIOUS
  <2>2. push = [cache |-> p, evicted |-> g[Len(g)]]
    BY <1>1, <1>4, <2>1 DEF push_front
  <2>3. 1 \in 1..Len(g) /\ Len(g) - 1 \in 0..Len(g)
    BY <1>2
  <2>4. /\ p \in Seq(Tipset) /\ Descends(p) /\ Len(p) = Len(g) - 1
        /\ \A i \in 1..Len(p) : i \in 1..Len(g) /\ p[i] = g[i]
    <3>1. /\ p \in Seq(Tipset) /\ Descends(p) /\ Len(p) = (Len(g) - 1) - 1 + 1
          /\ \A i \in 1..Len(p) : p[i] = g[1 + i - 1]
      BY <1>2, <2>1, <2>3, PieceDescends
    <3>2. QED
      BY <1>2, <3>1
  <2>5. p # <<>>
    BY <1>2, <2>4, EmptySeq
  <2>6. ToSet(p) = {g[i] : i \in 1..(Len(g) - 1)}
    <3>1. ToSet(p) = {p[i] : i \in 1..Len(p)}
      BY <2>4, ToSetIs
    <3>2. QED
      BY <2>4, <3>1
  <2>7. \A t \in ToSet(p) : Height[g[Len(g)]] < Height[t]
    BY <1>2, <2>6 DEF Descends
  <2>8. ToSet(p) \subseteq ToSet(g)
    BY <1>2, <2>6, ToSetIs
  <2>9. g[Len(g)] \in ToSet(c)
    BY <1>2
  <2>10. QED
    BY <1>3, <2>2, <2>4, <2>5, <2>7, <2>8, <2>9
<1>5. CASE ~(Len(g) > MaxSize)
  <2>1. push = [cache |-> g, evicted |-> NoTipset]
    BY <1>1, <1>5 DEF push_front
  <2>2. g # <<>>
    BY <1>2, EmptySeq
  <2>3. QED
    BY <1>2, <1>3, <2>1, <2>2
<1>6. QED
  BY <1>4, <1>5

LEMMA StoreStarts == Init => StoreInv
<1> SUFFICES ASSUME Init PROVE StoreInv
  OBVIOUS
<1>1. PICK n \in 1..MaxSize :
        /\ cache \in Newest(FirstHead, n)
        /\ \/ /\ n = MaxSize /\ cache[n] # Genesis
              /\ \E tail \in Ancestry[Parent[cache[n]]] :
                    tipsets = {t \in Ancestry[Parent[cache[n]]] : Height[t] >= Height[tail]}
           \/ n < MaxSize /\ tipsets = {}
  BY DEF Init
<1>2. FirstHead \in Tipset /\ n \in Nat
  BY ApiAssumption, MaxSizeAssumption
<1>3. /\ cache \in [1..n -> Tipset] /\ cache[1] = FirstHead
      /\ \A i \in 1..(n - 1) : cache[i] # Genesis /\ cache[i + 1] = Parent[cache[i]]
  <2>1. cache \in [1..n -> Ancestry[FirstHead]]
    BY <1>1 DEF Newest
  <2>2. cache \in [1..n -> Tipset]
    BY <1>2, <2>1, AncestryBelow
  <2>3. QED
    BY <1>1, <2>2 DEF Newest
<1>4. cache \in Seq(Tipset) /\ Len(cache) = n /\ cache # <<>>
  BY <1>2, <1>3, IntervalSeq, LenProperties, EmptySeq
<1>5. ASSUME NEW i \in 1..n, NEW j \in 1..n, i < j
      PROVE  Height[cache[j]] < Height[cache[i]]
  <2> DEFINE Bad == {k \in Nat : i + k + 1 \in 1..n /\ ~(Height[cache[i + k + 1]] < Height[cache[i]])}
  <2>1. ASSUME Bad # {} PROVE FALSE
    <3>1. PICK k \in Bad : \A l \in Bad : k <= l
      <4>1. Bad \in SUBSET Nat
        OBVIOUS
      <4> HIDE DEF Bad
      <4>2. QED
        BY <2>1, <4>1, FirstOfNats
    <3>2. PICK m : m = i + k
      OBVIOUS
    <3>3. m \in 1..(n - 1) /\ m + 1 \in 1..n /\ m \in 1..n /\ k \in Nat /\ m + 1 = i + k + 1
      BY <1>2, <3>2
    <3>4. /\ cache[m] \in Tipset \ {Genesis} /\ cache[m + 1] = Parent[cache[m]]
          /\ cache[i] \in Tipset /\ cache[m + 1] \in Tipset
      BY <1>3, <3>3
    <3>5. /\ Height[cache[m + 1]] < Height[cache[m]] /\ Height[cache[m]] \in Nat
          /\ Height[cache[m + 1]] \in Nat /\ Height[cache[i]] \in Nat
      BY <3>4, ChainAssumption
    <3>6. CASE k = 0
      BY <3>2, <3>3, <3>5, <3>6
    <3>7. CASE k # 0
      <4>1. k - 1 \in Nat /\ k - 1 \notin Bad /\ i + (k - 1) + 1 = m
        BY <3>1, <3>2, <3>7
      <4>2. Height[cache[m]] < Height[cache[i]]
        BY <3>3, <4>1
      <4>3. QED
        BY <3>3, <3>5, <4>2
    <3>8. QED
      BY <3>6, <3>7
  <2>2. j - i - 1 \in Nat /\ i + (j - i - 1) + 1 = j
    BY <1>5
  <2>3. QED
    BY <2>1, <2>2
<1>6. Descends(cache)
  BY <1>4, <1>5 DEF Descends
<1>7. /\ tipsets \in SUBSET Tipset /\ IsFiniteSet(tipsets)
      /\ \A c \in ToSet(cache), x \in tipsets : Height[x] < Height[c]
  <2>1. CASE tipsets = {}
    BY <2>1, FS_EmptySet
  <2>2. CASE /\ n = MaxSize /\ cache[n] # Genesis
             /\ \E tail \in Ancestry[Parent[cache[n]]] :
                    tipsets = {t \in Ancestry[Parent[cache[n]]] : Height[t] >= Height[tail]}
    <3>1. PICK back : back = cache[n]
      OBVIOUS
    <3>2. back \in Tipset /\ Parent[back] \in Tipset /\ Height[Parent[back]] < Height[back]
      BY <1>2, <1>3, <2>2, <3>1, ChainAssumption
    <3>3. \A x \in tipsets : x \in Tipset /\ x \in Ancestry[Parent[back]]
                             /\ Height[x] <= Height[Parent[back]]
      BY <2>2, <3>1, <3>2, AncestryBelow
    <3>4. \A c \in ToSet(cache) : c \in Tipset /\ Height[back] <= Height[c]
      <4>1. \A i \in 1..n : cache[i] \in Tipset /\ Height[back] <= Height[cache[i]]
        <5> SUFFICES ASSUME NEW i \in 1..n
                     PROVE  cache[i] \in Tipset /\ Height[back] <= Height[cache[i]]
          OBVIOUS
        <5>1. cache[i] \in Tipset /\ Height[cache[i]] \in Nat /\ Height[back] \in Nat
          BY <1>3, <3>2, ChainAssumption
        <5>2. i < n => Height[back] < Height[cache[i]]
          BY <1>2, <1>5, <3>1
        <5>3. QED
          BY <1>2, <3>1, <5>1, <5>2
      <4>2. QED
        BY <1>4, <4>1, ToSetIs
    <3>5. \A c \in ToSet(cache), x \in tipsets : Height[x] < Height[c]
      <4> SUFFICES ASSUME NEW c \in ToSet(cache), NEW x \in tipsets PROVE Height[x] < Height[c]
        OBVIOUS
      <4>1. {Height[c], Height[x], Height[back], Height[Parent[back]]} \subseteq Nat
        BY <3>2, <3>3, <3>4, ChainAssumption
      <4>2. QED
        BY <3>2, <3>3, <3>4, <4>1
    <3>6. IsFiniteSet(tipsets)
      BY <3>2, <3>3, AncestryBelow, FS_Subset
    <3>7. QED
      BY <3>3, <3>5, <3>6
  <2>3. QED
    BY <1>1, <2>1, <2>2
<1>8. blocks = tipsets /\ writing = [w \in Writer |-> NoTipset]
  BY DEF Init
<1>9. writing["run_syncer"] = NoTipset /\ writing["sync_to_genesis"] = NoTipset
  BY <1>8 DEF Writer
<1>10. QED
  BY <1>4, <1>6, <1>7, <1>8, <1>9 DEF StoreInv

(* The requests only read. *)
LEMMA RequestsRead == Reads \/ Queries => UNCHANGED store
BY DEF Reads, Queries, TipSetTree, BlockByCid, BlockByHeight, MessageDetails, LookUp,
       BlockConfirmCount, Page, Latest, ReadPage, TreeAnswer, LookInCache, ThanHeightCount, AddSize,
       FindConfirmed, FrontHeight, CountRange, PageAnswer, PageOfCache, Call, SearchIndex,
       SearchCollection, SearchMax, SearchFront, SearchCache, MessagesMethods, FindMesage_blocks,
       BlockTotalFil, BlockTotalReward, RewardOfCache, AccountList, AccountMessages,
       BaseInformation, SumsOfDay, BaseMesageAll, BaseSize, Chart, ChartOfCache,
       ChartOfCollection, ChartAnswer, ReadFails

LEMMA StoreKept ==
    ASSUME StoreInv, UNCHANGED store
    PROVE  StoreInv'
BY DEF StoreInv, store, Descends

(* The writers: they keep the store in order, the collections only grow,   *)
(* what is asked is left alone, and a cached tipset that counts as having  *)
(* stayed is still cached.                                                 *)
Writing ==
    /\ StoreInv' /\ blocks \subseteq blocks' /\ tipsets \subseteq tipsets'
    /\ UNCHANGED <<req, step, read, number, answer, page, seen, known>>
    /\ stayed' \subseteq stayed
    /\ stayed' \cap ToSet(cache) \subseteq ToSet(cache')
    /\ stayed \subseteq ToSet(cache) \cup blocks => stayed' \subseteq ToSet(cache') \cup blocks'

LEMMA AdvanceStep ==
    ASSUME StoreInv, Advance
    PROVE  Writing
<1>1. PICK in \in Tipset :
        /\ Parent[in] \in ToSet(cache) /\ ~IsFront(cache, in)
        /\ cache' = push_front(cache, in).cache
        /\ writing' = [writing EXCEPT !["run_syncer"] = push_front(cache, in).evicted]
  BY DEF Advance
<1>2. PICK push : push = push_front(cache, in)
  OBVIOUS
<1>3. PICK down : down = writing["sync_to_genesis"]
  OBVIOUS
<1>4. cache \in Seq(Tipset) /\ Descends(cache) /\ cache # <<>>
  BY DEF StoreInv
<1>5. /\ push.cache \in Seq(Tipset) /\ push.cache # <<>> /\ Descends(push.cache)
      /\ ToSet(push.cache) \subseteq {in} \cup ToSet(cache)
      /\ push.evicted \in {NoTipset} \cup ToSet(cache)
      /\ push.evicted # NoTipset =>
            \A t \in ToSet(push.cache) : Height[push.evicted] < Height[t]
  BY <1>1, <1>2, <1>4, PushDescends
<1>6. /\ writing["run_syncer"] = NoTipset /\ writing \in [Writer -> Tipset \cup {NoTipset}]
      /\ "run_syncer" \in Writer /\ "sync_to_genesis" \in Writer
      /\ "run_syncer" # "sync_to_genesis"
  BY DEF StoreInv, Advance, Writer
<1>7. /\ writing' \in [Writer -> Tipset \cup {NoTipset}]
      /\ writing'["run_syncer"] = push.evicted /\ writing'["sync_to_genesis"] = down
  BY <1>1, <1>2, <1>3, <1>4, <1>5, <1>6, ToSetIs
<1>8. cache' = push.cache /\ UNCHANGED <<blocks, tipsets>>
  BY <1>1, <1>2 DEF Advance
<1>9. /\ blocks \in SUBSET Tipset /\ IsFiniteSet(blocks) /\ tipsets \subseteq blocks
      /\ \A c \in ToSet(cache), x \in blocks \cup ({down} \ {NoTipset}) : Height[x] < Height[c]
      /\ \A t \in tipsets : down # NoTipset => Height[down] < Height[t]
      /\ down \in Tipset \cup {NoTipset}
  BY <1>3, <1>6 DEF StoreInv
<1>10. ToSet(cache) \subseteq Tipset /\ Height \in [Tipset -> Nat]
  BY <1>4, ToSetIs, ChainAssumption
<1>11. \A x \in blocks \cup ({down} \ {NoTipset}) : Height[x] < Height[in]
  <2> SUFFICES ASSUME NEW x \in blocks \cup ({down} \ {NoTipset}) PROVE Height[x] < Height[in]
    OBVIOUS
  <2>1. x \in Tipset /\ Parent[in] \in Tipset /\ in # Genesis
    BY <1>1, <1>9, <1>10, ChainAssumption
  <2>2. Height[x] < Height[Parent[in]] /\ Height[Parent[in]] < Height[in]
    BY <1>1, <1>9, <2>1, ChainAssumption
  <2>3. QED
    BY <1>10, <2>1, <2>2
<1>12. \A c \in ToSet(push.cache), x \in blocks \cup ({push.evicted, down} \ {NoTipset}) :
            Height[x] < Height[c]
  BY <1>5, <1>9, <1>11
<1>13. \A t \in tipsets : push.evicted # NoTipset => Height[t] < Height[push.evicted]
  BY <1>5, <1>9
<1>14. push.evicted # NoTipset /\ down # NoTipset => Height[down] < Height[push.evicted]
  BY <1>5, <1>9
<1>15. StoreInv'
  BY <1>5, <1>7, <1>8, <1>9, <1>12, <1>13, <1>14 DEF StoreInv, Descends
<1>16. stayed' = stayed \cap (ToSet(cache') \cup blocks)
  BY DEF Advance
<1>17. ToSet(cache) \cap blocks = {}
  <2>1. \A t \in blocks : Height[t] \in Nat
    BY <1>9, <1>10
  <2>2. QED
    BY <1>9, <2>1
<1>18. UNCHANGED <<req, step, read, number, answer, page, seen, known>>
  BY DEF Advance, Asked
<1>19. QED
  BY <1>8, <1>15, <1>16, <1>17, <1>18 DEF Writing

LEMMA WalkDownStep ==
    ASSUME StoreInv, WalkDown
    PROVE  Writing
<1>1. PICK t \in tipsets \ {Genesis} :
        /\ \A s \in tipsets : Height[t] <= Height[s]
        /\ writing' = [writing EXCEPT !["sync_to_genesis"] = Parent[t]]
  BY DEF WalkDown
<1>2. PICK in : in = writing["run_syncer"]
  OBVIOUS
<1>3. /\ writing["sync_to_genesis"] = NoTipset
      /\ writing \in [Writer -> Tipset \cup {NoTipset}]
      /\ "run_syncer" \in Writer /\ "sync_to_genesis" \in Writer
  BY DEF StoreInv, WalkDown, Writer
<1>4. /\ cache \in Seq(Tipset) /\ blocks \in SUBSET Tipset /\ tipsets \subseteq blocks
      /\ \A c \in ToSet(cache), x \in blocks \cup ({in} \ {NoTipset}) : Height[x] < Height[c]
      /\ \A s \in tipsets : in # NoTipset => Height[s] < Height[in]
      /\ in \in Tipset \cup {NoTipset}
  BY <1>2, <1>3 DEF StoreInv
<1>5. t \in Tipset /\ Parent[t] \in Tipset /\ Height[Parent[t]] < Height[t]
      /\ Height \in [Tipset -> Nat] /\ ToSet(cache) \subseteq Tipset
  BY <1>1, <1>4, ToSetIs, ChainAssumption
<1>6. /\ writing' \in [Writer -> Tipset \cup {NoTipset}]
      /\ writing'["run_syncer"] = in /\ writing'["sync_to_genesis"] = Parent[t]
  BY <1>1, <1>2, <1>3, <1>5
<1>7. \A s \in tipsets : Height[Parent[t]] < Height[s]
  <2> SUFFICES ASSUME NEW s \in tipsets PROVE Height[Parent[t]] < Height[s]
    OBVIOUS
  <2>1. Height[s] \in Nat /\ Height[t] <= Height[s]
    BY <1>1, <1>4, <1>5
  <2>2. QED
    BY <1>5, <2>1
<1>8. \A c \in ToSet(cache) : Height[Parent[t]] < Height[c]
  <2> SUFFICES ASSUME NEW c \in ToSet(cache) PROVE Height[Parent[t]] < Height[c]
    OBVIOUS
  <2>1. Height[c] \in Nat /\ Height[t] < Height[c]
    BY <1>1, <1>4, <1>5
  <2>2. QED
    BY <1>5, <2>1
<1>9. in # NoTipset => Height[Parent[t]] < Height[in]
  <2> SUFFICES ASSUME in # NoTipset PROVE Height[Parent[t]] < Height[in]
    OBVIOUS
  <2>1. Height[in] \in Nat /\ Height[t] < Height[in]
    BY <1>1, <1>4, <1>5
  <2>2. QED
    BY <1>5, <2>1
<1>10. /\ UNCHANGED <<cache, blocks, tipsets, stayed>>
       /\ UNCHANGED <<req, step, read, number, answer, page, seen, known>>
  BY DEF WalkDown, Unread, Asked
<1>11. StoreInv'
  BY <1>4, <1>6, <1>7, <1>8, <1>9, <1>10 DEF StoreInv, Descends
<1>12. QED
  BY <1>10, <1>11 DEF Writing

LEMMA StoreStep ==
    ASSUME StoreInv, StoreFails \/ \E w \in Writer : StoreBlocks(w) \/ StoreTipset(w)
    PROVE  Writing
<1>1. PICK in, down : in = writing["run_syncer"] /\ down = writing["sync_to_genesis"]
  OBVIOUS
<1>2. /\ cache \in Seq(Tipset) /\ cache # <<>> /\ Descends(cache)
      /\ blocks \in SUBSET Tipset /\ IsFiniteSet(blocks) /\ tipsets \subseteq blocks
      /\ writing \in [Writer -> Tipset \cup {NoTipset}]
      /\ in \in Tipset \cup {NoTipset} /\ down \in Tipset \cup {NoTipset}
      /\ Writer = {"run_syncer", "sync_to_genesis"}
      /\ \A c \in ToSet(cache), x \in blocks \cup ({in, down} \ {NoTipset}) : Height[x] < Height[c]
      /\ \A t \in tipsets : /\ in # NoTipset => Height[t] < Height[in]
                            /\ down # NoTipset => Height[down] < Height[t]
      /\ in # NoTipset /\ down # NoTipset => Height[down] < Height[in]
      /\ Height \in [Tipset -> Nat]
  BY <1>1, ChainAssumption DEF StoreInv, Writer
<1>3. /\ UNCHANGED <<cache, stayed>>
      /\ UNCHANGED <<req, step, read, number, answer, page, seen, known>>
  BY DEF StoreFails, StoreBlocks, StoreTipset, Unread, Asked
<1>4. CASE StoreFails
  <2>1. /\ UNCHANGED <<blocks, tipsets>> /\ writing' \in [Writer -> Tipset \cup {NoTipset}]
        /\ writing'["run_syncer"] = NoTipset /\ writing'["sync_to_genesis"] = down
    BY <1>1, <1>2, <1>4 DEF StoreFails
  <2>2. StoreInv'
    BY <1>2, <1>3, <2>1 DEF StoreInv, Descends
  <2>3. QED
    BY <1>3, <2>1, <2>2 DEF Writing
<1>5. CASE \E w \in Writer : StoreBlocks(w)
  <2>1. PICK w \in Writer : StoreBlocks(w)
    BY <1>5
  <2>2. PICK t : t = writing[w]
    OBVIOUS
  <2>3. /\ t \in Tipset /\ t \in {in, down} /\ t # NoTipset
        /\ blocks' = blocks \cup {t} /\ UNCHANGED <<tipsets, writing>>
    BY <1>1, <1>2, <2>1, <2>2 DEF StoreBlocks
  <2>4. IsFiniteSet(blocks')
    BY <1>2, <2>3, FS_AddElement
  <2>5. StoreInv'
    BY <1>1, <1>2, <1>3, <2>3, <2>4 DEF StoreInv, Descends
  <2>6. QED
    BY <1>3, <2>3, <2>5 DEF Writing
<1>6. CASE \E w \in Writer : StoreTipset(w)
  <2>1. PICK w \in Writer : StoreTipset(w)
    BY <1>6
  <2>2. PICK t : t = writing[w]
    OBVIOUS
  <2>3. /\ t \in blocks /\ t \in Tipset /\ t # NoTipset /\ UNCHANGED blocks
        /\ tipsets' = {s \in tipsets : Height[s] # Height[t]} \cup {t}
        /\ writing' = [writing EXCEPT ![w] = NoTipset]
    BY <1>2, <2>1, <2>2, ChainAssumption DEF StoreTipset
  <2>4. \A s \in tipsets : Height[s] # Height[t]
    <3> SUFFICES ASSUME NEW s \in tipsets PROVE Height[s] # Height[t]
      OBVIOUS
    <3>1. Height[s] \in Nat /\ Height[t] \in Nat /\ (Height[s] < Height[t] \/ Height[t] < Height[s])
      BY <1>1, <1>2, <2>2, <2>3
    <3>2. QED
      BY <3>1
  <2>5. tipsets' = tipsets \cup {t} /\ writing' \in [Writer -> Tipset \cup {NoTipset}]
    BY <1>2, <2>3, <2>4
  <2>6. CASE w = "run_syncer"
    <3>1. t = in /\ writing'["run_syncer"] = NoTipset /\ writing'["sync_to_genesis"] = down
      BY <1>1, <1>2, <2>2, <2>3, <2>6
    <3>2. StoreInv'
      BY <1>2, <1>3, <2>3, <2>5, <3>1 DEF StoreInv, Descends
    <3>3. QED
      BY <1>3, <2>3, <2>5, <3>2 DEF Writing
  <2>7. CASE w = "sync_to_genesis"
    <3>1. t = down /\ writing'["sync_to_genesis"] = NoTipset /\ writing'["run_syncer"] = in
      BY <1>1, <1>2, <2>2, <2>3, <2>7
    <3>2. StoreInv'
      BY <1>2, <1>3, <2>3, <2>5, <3>1 DEF StoreInv, Descends
    <3>3. QED
      BY <1>3, <2>3, <2>5, <3>2 DEF Writing
  <2>8. QED
    BY <1>2, <2>6, <2>7
<1>7. QED
  BY <1>4, <1>5, <1>6

LEMMA WriterStep ==
    ASSUME StoreInv, Writers
    PROVE  Writing
BY AdvanceStep, WalkDownStep, StoreStep DEF Writers

-----------------------------------------------------------------------------
(* The steps of a request: where each begins, where it goes on, and what   *)
(* it leaves alone.                                                        *)

Goes(from, to) == step = from /\ step' \in to

LEMMA Beginnings ==
    /\ TipSetTree => /\ Goes("idle", {"tree"}) /\ req'.op = "tree"
                      /\ req'.end \in Ends /\ req'.count \in Counts
    /\ BlockByCid \/ BlockByHeight \/ MessageDetails =>
            Goes("idle", {"find", "answered"}) /\ req'.op = "look"
    /\ MessagesMethods => Goes("idle", {"find", "answered"}) /\ req'.op = "methods"
    /\ BlockConfirmCount => /\ Goes("idle", {"than", "find"}) /\ req'.op = "confirm"
                            /\ step' = "than" => InSome(req'.block, tipsets)
    /\ Page => /\ Goes("idle", {"page"}) /\ req'.op \in {"messages", "method", "miner", "address"}
               /\ req'.begin \in Begins /\ req'.count \in Counts
    /\ Latest => /\ Goes("idle", {"page"}) /\ req'.op \in {"latestblock", "latestmsg"}
                 /\ req'.begin = 0 /\ req'.count \in Counts
    /\ SearchIndex => /\ Goes("idle", {"max", "collection", "answered"}) /\ req'.op = "search"
                      /\ step' = "max" => req'.kind = "height"
                      /\ step' = "collection" => req'.kind \in {"message", "block"}
                      /\ step' = "answered" => ~Tries(req'.filter, req'.kind)
    /\ BlockTotalFil => Goes("idle", {"reward"}) /\ req'.op = "reward"
    /\ AccountList => Goes("idle", {"account"}) /\ req'.op = "account"
    /\ BaseInformation => Goes("idle", {"sums"}) /\ req'.op = "base"
    /\ Chart => Goes("idle", {"chart"}) /\ req'.op \in {"blocktime", "blocksize"}
<1>1. TipSetTree => /\ Goes("idle", {"tree"}) /\ req'.op = "tree"
                     /\ req'.end \in Ends /\ req'.count \in Counts
  BY DEF TipSetTree, Call, Goes
<1>2. BlockByCid \/ BlockByHeight \/ MessageDetails =>
            Goes("idle", {"find", "answered"}) /\ req'.op = "look"
  BY DEF BlockByCid, BlockByHeight, MessageDetails, LookUp, Call, Answered, Goes
<1>3. MessagesMethods => Goes("idle", {"find", "answered"}) /\ req'.op = "methods"
  BY DEF MessagesMethods, Call, Answered, Goes
<1>4. BlockConfirmCount => /\ Goes("idle", {"than", "find"}) /\ req'.op = "confirm"
                           /\ step' = "than" => InSome(req'.block, tipsets)
  BY DEF BlockConfirmCount, Call, Goes, InSome
<1>5. Page => /\ Goes("idle", {"page"}) /\ req'.op \in {"messages", "method", "miner", "address"}
              /\ req'.begin \in Begins /\ req'.count \in Counts
  BY DEF Page, ReadPage, Call, Goes
<1>6. Latest => /\ Goes("idle", {"page"}) /\ req'.op \in {"latestblock", "latestmsg"}
                /\ req'.begin = 0 /\ req'.count \in Counts
  BY DEF Latest, ReadPage, Call, Goes
<1>7. SearchIndex => /\ Goes("idle", {"max", "collection", "answered"}) /\ req'.op = "search"
                     /\ step' = "max" => req'.kind = "height"
                     /\ step' = "collection" => req'.kind \in {"message", "block"}
                     /\ step' = "answered" => ~Tries(req'.filter, req'.kind)
  BY DEF SearchIndex, Call, Answered, Goes
<1>8. BlockTotalFil => Goes("idle", {"reward"}) /\ req'.op = "reward"
  BY DEF BlockTotalFil, Call, Goes
<1>9. AccountList => Goes("idle", {"account"}) /\ req'.op = "account"
  BY DEF AccountList, Call, Goes
<1>10. BaseInformation => Goes("idle", {"sums"}) /\ req'.op = "base"
  BY DEF BaseInformation, Call, Goes
<1>11. Chart => Goes("idle", {"chart"}) /\ req'.op \in {"blocktime", "blocksize"}
  BY DEF Chart, Call, Goes
<1>12. QED
  BY <1>1, <1>2, <1>3, <1>4, <1>5, <1>6, <1>7, <1>8, <1>9, <1>10, <1>11

Looks == BlockByCid \/ BlockByHeight \/ MessageDetails

Arrives ==
    \/ TipSetTree \/ Looks \/ MessagesMethods \/ BlockConfirmCount
    \/ Page \/ Latest \/ SearchIndex \/ BlockTotalFil \/ AccountList \/ BaseInformation \/ Chart

(* Every request notes what it could see when it came. *)
LEMMA BeginningsNote ==
    ASSUME Arrives
    PROVE  /\ UNCHANGED store
           /\ seen' = Visible /\ stayed' = ToSet(cache) \cup blocks
BY DEF Arrives, TipSetTree, Looks, BlockByCid, BlockByHeight, MessageDetails, LookUp,
       MessagesMethods, BlockConfirmCount, Page, Latest, SearchIndex, BlockTotalFil, AccountList,
       BaseInformation, Chart, Call

LEMMA Continuations ==
    /\ TreeAnswer => Goes("tree", {"answered"}) /\ UNCHANGED <<store, req, seen, stayed>>
    /\ LookInCache => /\ Goes("find", {"answered"}) /\ UNCHANGED <<store, req, seen, stayed>>
                      /\ req.op = "look"
    /\ FindMesage_blocks => /\ Goes("find", {"answered"}) /\ UNCHANGED <<store, req, seen, stayed>>
                            /\ req.op = "methods"
    /\ ThanHeightCount => Goes("than", {"size"}) /\ UNCHANGED <<store, req, seen, stayed>>
    /\ AddSize => Goes("size", {"answered"}) /\ UNCHANGED <<store, req, seen, stayed>>
    /\ FindConfirmed => /\ Goes("find", {"front", "answered"})
                        /\ UNCHANGED <<store, req, seen, stayed>>
                        /\ req.op = "confirm"
                        /\ step' = "front" => InSome(req.block, ToSet(cache))
    /\ FrontHeight => Goes("front", {"range"}) /\ UNCHANGED <<store, req, seen, stayed>>
    /\ CountRange => Goes("range", {"answered"}) /\ UNCHANGED <<store, req, seen, stayed>>
    /\ PageAnswer => Goes("page", {"answered"}) /\ UNCHANGED <<store, req, seen, stayed>>
    /\ PageOfCache => Goes("page", {"partly"}) /\ UNCHANGED <<store, req, seen, stayed>>
    /\ SearchCollection =>
            Goes("collection", {"find", "answered"}) /\ UNCHANGED <<store, req, seen, stayed>>
    /\ SearchMax =>
            Goes("max", {"idle", "newest", "answered"}) /\ UNCHANGED <<store, req, seen, stayed>>
    /\ SearchFront =>
            Goes("newest", {"find", "answered"}) /\ UNCHANGED <<store, req, seen, stayed>>
    /\ SearchCache => /\ Goes("find", {"answered"}) /\ UNCHANGED <<store, req, seen, stayed>>
                      /\ req.op = "search"
    /\ BlockTotalReward => Goes("reward", {"answered"}) /\ UNCHANGED <<store, req, seen, stayed>>
    /\ RewardOfCache => Goes("reward", {"partly"}) /\ UNCHANGED <<store, req, seen, stayed>>
    /\ AccountMessages => Goes("account", {"answered"}) /\ UNCHANGED <<store, req, seen, stayed>>
    /\ SumsOfDay => Goes("sums", {"sums", "mesages"}) /\ UNCHANGED <<store, req, seen, stayed>>
    /\ BaseMesageAll =>
            Goes("mesages", {"tipsets"}) /\ UNCHANGED <<store, req, stayed>> /\ seen' = Visible
    /\ BaseSize => Goes("tipsets", {"answered"}) /\ UNCHANGED <<store, req, seen, stayed>>
    /\ ChartOfCache =>
            Goes("chart", {"stored"}) /\ UNCHANGED <<store, req, stayed>> /\ seen' = Visible
    /\ ChartOfCollection => Goes("stored", {"chart"}) /\ UNCHANGED <<store, req, seen, stayed>>
    /\ ChartAnswer => Goes("chart", {"answered"}) /\ UNCHANGED <<store, req, seen, stayed>>
    /\ ReadFails => step' = "failed" /\ UNCHANGED <<store, req, seen, stayed>>
BY DEF Goes, Answered, Partly, Silent, InSome, TreeAnswer, LookInCache, FindMesage_blocks,
       ThanHeightCount, AddSize, FindConfirmed, FrontHeight, CountRange, PageAnswer, PageOfCache,
       SearchCollection, SearchMax, SearchFront, SearchCache, BlockTotalReward, RewardOfCache,
       AccountMessages, SumsOfDay, BaseMesageAll, BaseSize, ChartOfCache, ChartOfCollection,
       ChartAnswer, ReadFails

(* Steps that end a request without an answer that is all it should be *)
Breaks == PageOfCache \/ RewardOfCache \/ ReadFails

GoesOn ==
    \/ TreeAnswer \/ LookInCache \/ FindMesage_blocks \/ ThanHeightCount \/ AddSize
    \/ FindConfirmed \/ FrontHeight
    \/ CountRange \/ PageAnswer \/ SearchCollection \/ SearchMax \/ SearchFront \/ SearchCache
    \/ BlockTotalReward \/ AccountMessages \/ SumsOfDay \/ BaseMesageAll \/ BaseSize
    \/ ChartOfCache \/ ChartOfCollection \/ ChartAnswer \/ Breaks

LEMMA BreaksIs ==
    ASSUME Breaks
    PROVE  step' \in {"partly", "failed"} /\ UNCHANGED <<store, req, seen, stayed>>
BY Continuations DEF Breaks, Goes

LEMMA RequestIs == Reads \/ Queries <=> Arrives \/ GoesOn
BY DEF Reads, Queries, Arrives, Looks, GoesOn, Breaks

LEMMA CallStarts == Init => CallInv
BY DEF Init, CallInv

LEMMA CallKept ==
    ASSUME StoreInv, CallInv, Reads \/ Queries
    PROVE  CallInv'
<1>1. CASE Arrives
  <2>1. tipsets' = tipsets
    BY <1>1, BeginningsNote DEF store
  <2>2. CASE step' = "find" /\ req'.op \in {"look", "methods", "confirm"}
    BY <2>2 DEF CallInv
  <2>3. CASE /\ step' = "page" /\ req'.op \in PageOps
             /\ req'.begin \in Nat /\ req'.count \in Nat \ {0}
    BY <2>3 DEF CallInv
  <2>4. CASE step' = "than" /\ req'.op = "confirm" /\ InSome(req'.block, tipsets')
    BY <2>4 DEF CallInv, InSome
  <2>5. CASE /\ SearchIndex /\ step' \in {"max", "collection", "answered"} /\ req'.op = "search"
             /\ step' = "max" => req'.kind = "height"
             /\ step' = "collection" => req'.kind \in {"message", "block"}
    BY <2>5 DEF CallInv
  <2>6. CASE \/ step' = "reward" /\ req'.op = "reward"
             \/ step' = "account" /\ req'.op = "account"
             \/ step' = "sums" /\ req'.op = "base"
             \/ step' = "chart" /\ req'.op \in {"blocktime", "blocksize"}
             \/ step' = "answered"
    BY <2>6 DEF CallInv
  <2>7. CASE Looks \/ MessagesMethods
    BY <2>2, <2>6, <2>7, Beginnings DEF Goes, Looks
  <2>8. CASE BlockConfirmCount
    BY <2>1, <2>2, <2>4, <2>8, Beginnings DEF Goes
  <2>9. CASE Page \/ Latest
    <3>1. step' = "page" /\ req'.count \in Counts /\ (req'.begin \in Begins \/ req'.begin = 0)
          /\ req'.op \in PageOps
      BY <2>9, Beginnings DEF Goes, PageOps
    <3>2. \A n \in Begins \cup {0} : n \in Nat
      BY ApiAssumption
    <3>3. \A n \in Counts : n \in Nat \ {0}
      BY ApiAssumption
    <3>4. req'.begin \in Nat
      BY <3>1, <3>2
    <3>5. req'.count \in Nat \ {0}
      BY <3>1, <3>3
    <3>6. QED
      BY <2>3, <3>1, <3>4, <3>5
  <2>10. CASE SearchIndex
    <3>1. Goes("idle", {"max", "collection", "answered"}) /\ req'.op = "search"
      BY <2>10, Beginnings
    <3>2. step' = "max" => req'.kind = "height"
      BY <2>10, Beginnings
    <3>3. step' = "collection" => req'.kind \in {"message", "block"}
      BY <2>10, Beginnings
    <3>4. QED
      BY <2>5, <2>10, <3>1, <3>2, <3>3 DEF Goes
  <2>11. CASE TipSetTree
    <3>1. step' = "tree" /\ req'.op = "tree" /\ req'.end \in Ends /\ req'.count \in Counts
      BY <2>11, Beginnings DEF Goes
    <3>2. \A n \in Ends \cup Counts : n \in Nat
      BY ApiAssumption
    <3>3. req'.end \in Nat /\ req'.count \in Nat
      BY <3>1, <3>2
    <3>4. QED
      BY <3>1, <3>3 DEF CallInv
  <2>12. CASE BlockTotalFil \/ AccountList \/ BaseInformation \/ Chart
    BY <2>6, <2>12, Beginnings DEF Goes
  <2>13. QED
    BY <1>1, <2>7, <2>8, <2>9, <2>10, <2>11, <2>12 DEF Arrives
<1>2. CASE GoesOn
  <2>1. ToSet(cache) \subseteq Tipset
    BY ToSetIs DEF StoreInv
  <2>2. UNCHANGED <<req, tipsets>>
    BY <1>2, Continuations, BreaksIs DEF GoesOn, store
  <2>3. CASE Goes("find", {"front", "answered"}) /\ (step' = "front" => InSome(req.block, ToSet(cache)))
             /\ req.op = "confirm"
    BY <2>1, <2>2, <2>3 DEF CallInv, Goes, InSome
  <2>4. CASE Goes("collection", {"find", "answered"}) \/ Goes("newest", {"find", "answered"})
    BY <2>2, <2>4 DEF CallInv, Goes
  <2>5. CASE \/ Goes("than", {"size"}) \/ Goes("front", {"range"})
             \/ Goes("max", {"idle", "newest", "answered"})
             \/ Goes("sums", {"sums", "mesages"}) \/ Goes("mesages", {"tipsets"})
             \/ Goes("chart", {"stored"}) \/ Goes("stored", {"chart"})
    BY <2>2, <2>5 DEF CallInv, Goes, InSome
  <2>6. CASE step' \in {"answered", "partly", "failed"}
    BY <2>6 DEF CallInv
  <2>7. QED
    <3>1. CASE Breaks
      BY <2>6, <3>1, BreaksIs
    <3>2. CASE ~Breaks
      BY <1>2, <2>3, <2>4, <2>5, <2>6, <3>2, Continuations DEF GoesOn, Goes
    <3>3. QED
      BY <3>1, <3>2
<1>3. QED
  BY <1>1, <1>2, RequestIs

LEMMA CallHeld ==
    ASSUME StoreInv, CallInv, Writers
    PROVE  CallInv'
BY WriterStep DEF Writing, CallInv, InSome

-----------------------------------------------------------------------------
(* What is asked for and stays where it is is found. *)

LEMMA FoundStarts == Init => FoundInv
BY DEF Init, FoundInv, FoundUnlessMoved, HasAnswer

(* A message is from a block of its tipset, and has the height of both.    *)
LEMMA MessageOfBlock ==
    ASSUME NEW t \in Tipset, NEW i \in DOMAIN Messages[t]
    PROVE  BlockHeight[Messages[t][i].block_cid] = Height[t]
<1>1. Messages[t][i] \in ToSet(Messages[t])
  BY DEF ToSet
<1>2. QED
  BY <1>1, BlockAssumption

LEMMA MethodsHold ==
    ASSUME NEW S \in SUBSET Tipset, NEW chosen, NEW r, NEW t \in S,
           NEW i \in DOMAIN Messages[t], i \in chosen[t], Messages[t][i].block_cid = r.block
    PROVE  Messages[t][i].cid \in MethodsOf(r, S, chosen)
<1>1. PICK both : both = Both(OfBlock(r.block), chosen)
  OBVIOUS
<1>2. i \in both[t]
  BY <1>1 DEF Both, OfBlock
<1>3. PICK p : p = <<t, i>>
  OBVIOUS
<1>4. p \in Among(S, both) /\ p[1] = t /\ p[2] = i
  BY <1>2, <1>3 DEF Among
<1>5. QED
  BY <1>1, <1>4 DEF MethodsOf

LEMMA MethodsFrom ==
    ASSUME NEW S \in SUBSET Tipset, NEW chosen, NEW r, NEW m \in MethodsOf(r, S, chosen)
    PROVE  \E t \in S : \E i \in DOMAIN Messages[t] :
                i \in chosen[t] /\ Messages[t][i].block_cid = r.block /\ m = Messages[t][i].cid
<1>1. PICK both : both = Both(OfBlock(r.block), chosen)
  OBVIOUS
<1>2. PICK p \in Among(S, both) : m = Messages[p[1]][p[2]].cid
  BY <1>1 DEF MethodsOf
<1>3. PICK t \in S : \E i \in both[t] : p = <<t, i>>
  BY DEF Among
<1>4. PICK i \in both[t] : p = <<t, i>>
  BY <1>3
<1>5. p[1] = t /\ p[2] = i
  BY <1>4
<1>6. i \in DOMAIN Messages[t] /\ Messages[t][i].block_cid = r.block /\ i \in chosen[t]
  BY <1>1 DEF Both, OfBlock
<1>7. QED
  BY <1>2, <1>5, <1>6

LEMMA FoundHeld ==
    ASSUME StoreInv, FoundInv, Writers
    PROVE  FoundInv'
<1>1. /\ stayed' \subseteq ToSet(cache') \cup blocks' /\ stayed' \subseteq stayed
      /\ stayed' \cap ToSet(cache) \subseteq ToSet(cache')
      /\ UNCHANGED <<req, step, number, answer>>
  BY WriterStep DEF Writing, FoundInv
<1>2. step' = "find" /\ req'.op # "confirm" => {t \in stayed' : Sought(req, t)} \subseteq ToSet(cache')
  BY <1>1 DEF FoundInv
<1>3. FoundUnlessMoved'
  <2>1. FoundUnlessMoved
    BY DEF FoundInv
  <2>2. /\ Wanted(req, stayed') \subseteq Wanted(req, stayed)
        /\ MethodsOf(req, stayed', Documents) \subseteq MethodsOf(req, stayed, Documents)
    BY <1>1 DEF Wanted, MethodsOf, Among
  <2>3. HasAnswer({"look"})' =>
            (Wanted(req, stayed') # {} => answer # {} /\ answer = Wanted(req, answer))
    BY <1>1, <2>1, <2>2 DEF FoundUnlessMoved, HasAnswer
  <2>4. HasAnswer({"search"})' /\ Tries(req.filter, req.kind) =>
            (Wanted(req, stayed') # {} => number = 1)
    BY <1>1, <2>1, <2>2 DEF FoundUnlessMoved, HasAnswer
  <2>5. HasAnswer({"methods"})' => /\ MethodsOf(req, stayed', Documents) \subseteq answer
                                   /\ answer \subseteq MethodsOf(req, Tipset, Every)
    BY <1>1, <2>1, <2>2 DEF FoundUnlessMoved, HasAnswer
  <2>6. QED
    BY <1>1, <2>3, <2>4, <2>5 DEF FoundUnlessMoved
<1>4. QED
  BY <1>1, <1>2, <1>3 DEF FoundInv

LEMMA LookUpFinds ==
    ASSUME NEW kind, NEW key, LookUp(kind, key)
    PROVE  FoundInv'
<1>1. /\ req'.op = "look" /\ stayed' = ToSet(cache) \cup blocks /\ UNCHANGED <<cache, blocks>>
      /\ answer' = Wanted(req', blocks)
      /\ IF answer' = {} THEN step' = "find" ELSE step' = "answered"
  BY DEF LookUp, Call, Answered, store
<1>2. step' = "find" => {t \in stayed' : Sought(req', t)} \subseteq ToSet(cache')
  BY <1>1 DEF Sought, Wanted
<1>3. Wanted(req', answer') = answer'
  BY <1>1 DEF Wanted
<1>4. FoundUnlessMoved'
  BY <1>1, <1>3 DEF FoundUnlessMoved, HasAnswer
<1>5. QED
  BY <1>1, <1>2, <1>4 DEF FoundInv

(* A block with a stored document is in no cached tipset. *)
LEMMA MethodsFind ==
    ASSUME StoreInv, MessagesMethods
    PROVE  FoundInv'
<1>1. PICK r : r = req'
  OBVIOUS
<1>2. /\ r.op = "methods" /\ stayed' = ToSet(cache) \cup blocks /\ UNCHANGED <<cache, blocks>>
      /\ answer' = MethodsOf(r, blocks, Documents)
      /\ IF answer' = {} THEN step' = "find" ELSE step' = "answered"
  BY <1>1 DEF MessagesMethods, Call, Answered, store
<1>3. /\ ToSet(cache) \in SUBSET Tipset /\ blocks \in SUBSET Tipset
      /\ ToSet(cache) \cup blocks \in SUBSET Tipset
      /\ \A c \in ToSet(cache), x \in blocks : Height[x] < Height[c]
      /\ \A x \in blocks : Height[x] \in Nat
  BY ToSetIs, ChainAssumption DEF StoreInv
<1>4. \A t \in Tipset : Documents[t] \subseteq DOMAIN Messages[t]
  BY DEF Documents
<1>5. CASE answer' = {}
  <2>1. ASSUME NEW t \in blocks PROVE ~Sought(r, t)
    <3>1. ASSUME NEW i \in Documents[t], Messages[t][i].block_cid = r.block PROVE FALSE
      <4>1. t \in Tipset /\ i \in DOMAIN Messages[t]
        BY <1>3, <1>4
      <4>2. Messages[t][i].cid \in MethodsOf(r, blocks, Documents)
        BY <1>3, <3>1, <4>1, MethodsHold
      <4>3. QED
        BY <1>2, <1>5, <4>2
    <3>2. QED
      BY <1>2, <3>1 DEF Sought
  <2>2. {t \in stayed' : Sought(r, t)} \subseteq ToSet(cache')
    BY <1>2, <2>1
  <2>3. QED
    BY <1>1, <1>2, <1>5, <2>2 DEF FoundInv, FoundUnlessMoved, HasAnswer
<1>6. CASE answer' # {}
  <2>1. PICK s \in blocks : \E i \in DOMAIN Messages[s] : Messages[s][i].block_cid = r.block
    BY <1>2, <1>3, <1>6, MethodsFrom
  <2>2. BlockHeight[r.block] = Height[s]
    BY <1>3, <2>1, MessageOfBlock
  <2>3. MethodsOf(r, stayed', Documents) \subseteq answer'
    <3> SUFFICES ASSUME NEW m \in MethodsOf(r, ToSet(cache) \cup blocks, Documents)
                 PROVE  m \in MethodsOf(r, blocks, Documents)
      BY <1>2
    <3>0. PICK S \in SUBSET Tipset : S = ToSet(cache) \cup blocks
      BY <1>3
    <3>1. PICK t \in S : \E i \in DOMAIN Messages[t] :
              i \in Documents[t] /\ Messages[t][i].block_cid = r.block /\ m = Messages[t][i].cid
      BY <3>0, MethodsFrom
    <3>2. Height[t] = Height[s] /\ t \in Tipset
      BY <1>3, <2>2, <3>1, MessageOfBlock
    <3>3. t \in blocks
      BY <1>3, <3>0, <3>2
    <3>4. QED
      BY <1>3, <3>1, <3>3, MethodsHold
  <2>4. answer' \subseteq MethodsOf(r, Tipset, Every)
    <3> SUFFICES ASSUME NEW m \in MethodsOf(r, blocks, Documents)
                 PROVE  m \in MethodsOf(r, Tipset, Every)
      BY <1>2
    <3>1. PICK t \in blocks : \E i \in DOMAIN Messages[t] :
              i \in Documents[t] /\ Messages[t][i].block_cid = r.block /\ m = Messages[t][i].cid
      BY <1>3, MethodsFrom
    <3>2. t \in Tipset /\ Every[t] = DOMAIN Messages[t]
      BY <1>3 DEF Every
    <3>3. QED
      BY <3>1, <3>2, MethodsHold
  <2>5. FoundUnlessMoved'
    BY <1>1, <1>2, <1>6, <2>3, <2>4 DEF FoundUnlessMoved, HasAnswer
  <2>6. QED
    BY <1>2, <1>6, <2>5 DEF FoundInv
<1>7. QED
  BY <1>5, <1>6

LEMMA FoundArrives ==
    ASSUME StoreInv, FoundInv, Arrives
    PROVE  FoundInv'
<1>1. CASE Looks
  BY <1>1, LookUpFinds DEF Looks, BlockByCid, BlockByHeight, MessageDetails
<1>2. stayed' = ToSet(cache) \cup blocks /\ UNCHANGED <<cache, blocks>>
  BY BeginningsNote DEF store
<1>3. CASE SearchIndex
  <2>1. step' # "find" /\ req'.op = "search"
        /\ (step' = "answered" => ~Tries(req'.filter, req'.kind))
    BY <1>3, Beginnings DEF Goes
  <2>2. FoundUnlessMoved'
    BY <2>1 DEF FoundUnlessMoved, HasAnswer
  <2>3. QED
    BY <1>2, <2>1, <2>2 DEF FoundInv
<1>4. CASE \/ BlockConfirmCount \/ Page \/ Latest \/ TipSetTree \/ BlockTotalFil
           \/ AccountList \/ BaseInformation \/ Chart
  <2>1. step' # "answered" /\ (step' = "find" => req'.op = "confirm")
    BY <1>4, Beginnings DEF Goes
  <2>2. QED
    BY <1>2, <2>1 DEF FoundInv, FoundUnlessMoved, HasAnswer
<1>5. QED
  BY <1>1, <1>3, <1>4, MethodsFind DEF Arrives

(* A step that neither answers one of these requests nor turns to the cache *)
LEMMA FoundElsewhere ==
    ASSUME FoundInv, UNCHANGED <<cache, blocks, req, stayed>>, step' # "find",
           step' = "answered" => req.op \notin {"look", "methods", "search"}
    PROVE  FoundInv'
BY DEF FoundInv, FoundUnlessMoved, HasAnswer

LEMMA FoundKept ==
    ASSUME StoreInv, CallInv, FoundInv, GoesOn
    PROVE  FoundInv'
<1>1. /\ UNCHANGED <<cache, blocks, req, stayed>> /\ stayed \subseteq ToSet(cache) \cup blocks
  BY Continuations DEF GoesOn, Breaks, FoundInv, store
<1>2. CASE LookInCache
  <2>1. /\ step = "find" /\ step' = "answered" /\ req.op = "look"
        /\ answer' = Wanted(req, ToSet(cache))
    BY <1>2 DEF LookInCache, Answered
  <2>2. Wanted(req, stayed) \subseteq answer'
    BY <2>1 DEF FoundInv, Sought, Wanted
  <2>3. Wanted(req, answer') = answer'
    BY <2>1 DEF Wanted
  <2>4. FoundUnlessMoved'
    BY <1>1, <2>1, <2>2, <2>3 DEF FoundUnlessMoved, HasAnswer
  <2>5. QED
    BY <1>1, <2>1, <2>4 DEF FoundInv
<1>3. CASE FindMesage_blocks
  <2>1. /\ step = "find" /\ step' = "answered" /\ req.op = "methods"
        /\ answer' = MethodsOf(req, ToSet(cache), Every)
    BY <1>3 DEF FindMesage_blocks, Answered
  <2>2. /\ ToSet(cache) \in SUBSET Tipset /\ stayed \in SUBSET Tipset
        /\ \A t \in Tipset : Every[t] = DOMAIN Messages[t]
    BY <1>1, ToSetIs DEF StoreInv, Every
  <2>3. MethodsOf(req, stayed, Documents) \subseteq answer'
    <3> SUFFICES ASSUME NEW m \in MethodsOf(req, stayed, Documents)
                 PROVE  m \in MethodsOf(req, ToSet(cache), Every)
      BY <2>1
    <3>1. PICK t \in stayed : \E i \in DOMAIN Messages[t] :
              i \in Documents[t] /\ Messages[t][i].block_cid = req.block /\ m = Messages[t][i].cid
      BY <2>2, MethodsFrom
    <3>2. t \in ToSet(cache)
      BY <2>1, <3>1 DEF FoundInv, Sought
    <3>3. QED
      BY <2>2, <3>1, <3>2, MethodsHold
  <2>4. answer' \subseteq MethodsOf(req, Tipset, Every)
    BY <2>1, <2>2 DEF MethodsOf, Among
  <2>5. FoundUnlessMoved'
    BY <1>1, <2>1, <2>3, <2>4 DEF FoundUnlessMoved, HasAnswer
  <2>6. QED
    BY <1>1, <2>1, <2>5 DEF FoundInv
<1>4. ASSUME req.op = "search", step' = "answered", Wanted(req, stayed) # {} => number' = 1
      PROVE  FoundInv'
  BY <1>1, <1>4 DEF FoundInv, FoundUnlessMoved, HasAnswer
<1>5. ASSUME req.op = "search", step' = "find", \A t \in blocks : ~Holds(req, t)
      PROVE  FoundInv'
  BY <1>1, <1>5 DEF FoundInv, FoundUnlessMoved, HasAnswer, Sought
<1>6. CASE SearchCollection
  <2>1. req.op = "search"
    BY <1>6 DEF CallInv, SearchCollection
  <2>2. CASE Wanted(req, blocks) # {}
    BY <1>4, <1>6, <2>1, <2>2 DEF SearchCollection, Answered
  <2>3. CASE Wanted(req, blocks) = {}
    BY <1>5, <1>6, <2>1, <2>3 DEF SearchCollection, Wanted
  <2>4. QED
    BY <2>2, <2>3
<1>7. CASE SearchFront
  <2>1. req.op = "search" /\ req.kind = "height"
    BY <1>7 DEF CallInv, SearchFront
  <2>2. CASE req.key < Height[cache[1]]
    BY <1>4, <1>7, <2>1, <2>2 DEF SearchFront, Answered
  <2>3. CASE ~(req.key < Height[cache[1]])
    <3>1. step' = "find"
      BY <1>7, <2>3 DEF SearchFront
    <3>2. \A t \in blocks : Height[t] # req.key
      <4>1. cache[1] \in ToSet(cache)
        <5>1. cache \in Seq(Tipset) /\ cache # <<>>
          BY DEF StoreInv
        <5>2. 1 \in 1..Len(cache)
          BY <5>1, LenProperties, EmptySeq
        <5>3. QED
          BY <5>1, <5>2, ToSetIs
      <4>2. \A t \in blocks : Height[t] < Height[cache[1]]
        BY <4>1 DEF StoreInv
      <4>3. QED
        BY <2>3, <4>2
    <3>3. \A t \in blocks : ~Holds(req, t)
      BY <2>1, <3>2 DEF Holds
    <3>4. QED
      BY <1>5, <2>1, <3>1, <3>3
  <2>4. QED
    BY <2>2, <2>3
<1>8. CASE SearchMax
  <2>1. req.op = "search" /\ step' \in {"idle", "newest", "answered"}
        /\ (step' = "answered" => number' = 1)
    BY <1>8 DEF CallInv, SearchMax, Answered
  <2>2. QED
    BY <1>1, <1>4, <2>1 DEF FoundInv, FoundUnlessMoved, HasAnswer
<1>9. CASE SearchCache
  <2>1. /\ step = "find" /\ req.op = "search" /\ step' = "answered"
        /\ number' = IF Wanted(req, ToSet(cache)) # {} THEN 1 ELSE 0
    BY <1>9 DEF SearchCache, Answered
  <2>2. Wanted(req, stayed) \subseteq Wanted(req, ToSet(cache))
    BY <2>1 DEF FoundInv, Sought, Wanted
  <2>3. QED
    BY <1>4, <2>1, <2>2
<1>10. CASE ~(\/ LookInCache \/ FindMesage_blocks \/ SearchCollection \/ SearchFront \/ SearchMax
             \/ SearchCache)
  <2>1. CASE FindConfirmed \/ Breaks
    BY <1>1, <2>1, Continuations, BreaksIs, FoundElsewhere DEF Goes
  <2>2. CASE ~(FindConfirmed \/ Breaks)
    <3>1. step' # "find" /\ step \in {"tree", "than", "size", "front", "range", "page", "reward",
                                      "account", "sums", "mesages", "tipsets", "chart", "stored"}
      BY <1>10, <2>2, Continuations DEF GoesOn, Goes
    <3>2. req.op \notin {"look", "methods", "search"}
      BY <3>1 DEF CallInv, PageOps
    <3>3. QED
      BY <1>1, <3>1, <3>2, FoundElsewhere
  <2>3. QED
    BY <2>1, <2>2
<1>11. QED
  BY <1>2, <1>3, <1>6, <1>7, <1>8, <1>9, <1>10

-----------------------------------------------------------------------------
(* Counting rows.  A list without repetitions has a row for every chosen   *)
(* message of a tipset of it.                                              *)

Repeats(s) == \E i, j \in 1..Len(s) : i # j /\ s[i] = s[j]

LEMMA SetToSeqIs ==
    ASSUME NEW S, IsFiniteSet(S)
    PROVE  /\ SetToSeq(S) \in Seq(S) /\ Len(SetToSeq(S)) = Cardinality(S)
           /\ ToSet(SetToSeq(S)) = S /\ ~Repeats(SetToSeq(S))
<1> DEFINE n == Cardinality(S)
           s == SetToSeq(S)
<1>1. n \in Nat /\ ExistsBijection(1..n, S)
  BY FS_CardinalityType
<1>2. \E f \in [1..n -> S] : IsInjective(f)
  BY <1>1 DEF ExistsBijection, Bijection, Injection
<1>3. s \in [1..n -> S] /\ IsInjective(s)
  BY <1>2 DEF SetToSeq
<1> HIDE DEF s
<1>4. s \in Seq(S) /\ Len(s) = n
  BY <1>1, <1>3, IntervalSeq, LenProperties
<1>5. IsFiniteSet(1..n) /\ Cardinality(1..n) = n
  BY <1>1, FS_Interval
<1>6. s \in Injection(1..n, S)
  BY <1>3 DEF Injection
<1>7. s \in Surjection(1..n, S)
  BY <1>5, <1>6, FS_Injection
<1>8. ToSet(s) = S
  <2>1. \A x \in S : \E i \in 1..n : s[i] = x
    BY <1>7 DEF Surjection
  <2>2. ToSet(s) = {s[i] : i \in 1..n}
    BY <1>4, ToSetIs
  <2>3. QED
    BY <1>3, <2>1, <2>2
<1>9. ~Repeats(s)
  BY <1>3, <1>4 DEF Repeats, IsInjective
<1>10. QED
  BY <1>4, <1>8, <1>9 DEF s

LEMMA DescendsOnce ==
    ASSUME NEW s \in Seq(Tipset), Descends(s)
    PROVE  ~Repeats(s)
<1> SUFFICES ASSUME NEW i \in 1..Len(s), NEW j \in 1..Len(s), i # j, s[i] = s[j] PROVE FALSE
  BY DEF Repeats
<1>1. Height[s[i]] \in Nat /\ i \in Nat /\ j \in Nat
  BY ElementOfSeq, ChainAssumption
<1>2. i < j \/ j < i
  BY <1>1
<1>3. Height[s[j]] < Height[s[i]] \/ Height[s[i]] < Height[s[j]]
  BY <1>2 DEF Descends
<1>4. QED
  BY <1>1, <1>3

(* A list without repetitions is as long as its set is large. *)
LEMMA LengthOfSet ==
    ASSUME NEW T, NEW s \in Seq(T), ~Repeats(s)
    PROVE  /\ IsFiniteSet(ToSet(s)) /\ Cardinality(ToSet(s)) = Len(s)
<1>1. Len(s) \in Nat /\ s \in [1..Len(s) -> T] /\ ToSet(s) = {s[i] : i \in 1..Len(s)}
  BY LenProperties, ToSetIs
<1>2. s \in [1..Len(s) -> ToSet(s)]
  BY <1>1
<1>3. s \in Bijection(1..Len(s), ToSet(s))
  <2>1. IsInjective(s)
    BY <1>1 DEF IsInjective, Repeats
  <2>2. s \in Injection(1..Len(s), ToSet(s))
    BY <1>2, <2>1 DEF Injection
  <2>3. s \in Surjection(1..Len(s), ToSet(s))
    BY <1>1, <1>2 DEF Surjection
  <2>4. QED
    BY <2>2, <2>3 DEF Bijection
<1>4. IsFiniteSet(1..Len(s)) /\ Cardinality(1..Len(s)) = Len(s)
  BY <1>1, FS_Interval
<1>5. ExistsBijection(1..Len(s), ToSet(s))
  BY <1>3 DEF ExistsBijection
<1>6. QED
  BY <1>4, <1>5, FS_Bijection

(* Picking the least of what is left, one after the other, comes to every  *)
(* member once.                                                            *)
Picks(f, S, key, k) ==
    f = [n \in 0..k |-> IF n = 0 THEN <<>> ELSE WithLeast(f[n - 1], S, key)]

LEMMA PicksExist ==
    ASSUME NEW S, NEW key, NEW n \in Nat
    PROVE  \E f : Picks(f, S, key, n)
<1> DEFINE Bad == {k \in Nat : ~\E f : Picks(f, S, key, k)}
<1> SUFFICES ASSUME Bad # {} PROVE FALSE
  OBVIOUS
<1>1. PICK k \in Bad : \A j \in Bad : k <= j
  <2>1. Bad \in SUBSET Nat
    OBVIOUS
  <2> HIDE DEF Bad
  <2>2. QED
    BY <2>1, FirstOfNats
<1>2. CASE k = 0
  <2>1. Picks([i \in 0..0 |-> <<>>], S, key, 0)
    BY DEF Picks
  <2>2. QED
    BY <1>2, <2>1
<1>3. CASE k # 0
  <2>1. k - 1 \in Nat /\ k - 1 \notin Bad /\ k \in Nat
    BY <1>1, <1>3
  <2>2. PICK f : Picks(f, S, key, k - 1)
    BY <2>1
  <2> DEFINE g == [i \in 0..k |-> IF i < k THEN f[i] ELSE WithLeast(f[k - 1], S, key)]
  <2>3. \A i \in 0..(k - 1) : g[i] = f[i]
    BY <2>1
  <2>4. g[k] = WithLeast(f[k - 1], S, key)
    BY <2>1
  <2>5. g = [i \in 0..k |-> g[i]]
    OBVIOUS
  <2> HIDE DEF g
  <2>6. \A i \in 0..k : g[i] = IF i = 0 THEN <<>> ELSE WithLeast(g[i - 1], S, key)
    <3> SUFFICES ASSUME NEW i \in 0..k
                 PROVE  g[i] = IF i = 0 THEN <<>> ELSE WithLeast(g[i - 1], S, key)
      OBVIOUS
    <3>1. CASE i = k
      <4>1. k - 1 \in 0..(k - 1) /\ i # 0
        BY <1>3, <2>1, <3>1
      <4>2. g[k - 1] = f[k - 1]
        BY <2>3, <4>1
      <4>3. QED
        BY <2>4, <3>1, <4>1, <4>2
    <3>2. CASE i # k
      <4>1. i \in 0..(k - 1) /\ (i # 0 => i - 1 \in 0..(k - 1))
        BY <2>1, <3>2
      <4>2. f[i] = IF i = 0 THEN <<>> ELSE WithLeast(f[i - 1], S, key)
        BY <2>2, <4>1 DEF Picks
      <4>3. g[i] = f[i] /\ (i # 0 => g[i - 1] = f[i - 1])
        BY <2>3, <4>1
      <4>4. QED
        BY <4>2, <4>3
    <3>3. QED
      BY <3>1, <3>2
  <2>7. Picks(g, S, key, k)
    BY <2>5, <2>6 DEF Picks
  <2>8. QED
    BY <1>1, <2>7
<1>4. QED
  BY <1>2, <1>3

LEMMA RisingIs ==
    ASSUME NEW S, IsFiniteSet(S), NEW key, \A x \in S : key[x] \in Nat
    PROVE  /\ Rising(S, key) \in Seq(S) /\ Len(Rising(S, key)) = Cardinality(S)
           /\ ToSet(Rising(S, key)) = S /\ ~Repeats(Rising(S, key))
<1> DEFINE N == Cardinality(S)
           f == CHOOSE g : Picks(g, S, key, N)
<1>1. N \in Nat
  BY FS_CardinalityType
<1>2. Picks(f, S, key, N)
  BY <1>1, PicksExist
<1>3. Rising(S, key) = f[N]
  BY DEF Rising, Picks
<1> HIDE DEF f
<1>4. f[0] = <<>> /\ \A n \in 1..N : f[n] = WithLeast(f[n - 1], S, key)
  <2>1. \A n \in 0..N : f[n] = IF n = 0 THEN <<>> ELSE WithLeast(f[n - 1], S, key)
    BY <1>2 DEF Picks
  <2>2. QED
    BY <1>1, <2>1
<1> DEFINE Good(n) == f[n] \in Seq(S) /\ Len(f[n]) = n /\ ~Repeats(f[n])
           Bad == {n \in 0..N : ~Good(n)}
<1>5. Good(0)
  BY <1>4 DEF Repeats
<1>6. ASSUME NEW n \in 1..N, Good(n - 1) PROVE Good(n)
  <2>1. PICK s, rest, x : /\ s = f[n - 1] /\ rest = S \ ToSet(s)
                          /\ x = CHOOSE z \in rest : \A y \in rest : key[z] <= key[y]
    OBVIOUS
  <2>2. s \in Seq(S) /\ Len(s) = n - 1 /\ ~Repeats(s) /\ n \in Nat
    BY <1>1, <1>6, <2>1
  <2>3. rest # {}
    <3>1. IsFiniteSet(ToSet(s)) /\ Cardinality(ToSet(s)) = n - 1 /\ ToSet(s) \subseteq S
      BY <2>2, LengthOfSet, ToSetIs
    <3>2. Cardinality(ToSet(s)) # N
      BY <1>1, <3>1
    <3>3. QED
      BY <2>1, <3>1, <3>2
  <2>4. x \in rest
    <3> DEFINE keys == {key[z] : z \in rest}
    <3>1. keys \in SUBSET Nat /\ keys # {}
      BY <2>1, <2>3
    <3>2. \E i \in keys : \A j \in keys : i <= j
      <4> HIDE DEF keys
      <4>1. QED
        BY <3>1, FirstOfNats
    <3>3. \E z \in rest : \A y \in rest : key[z] <= key[y]
      BY <3>2
    <3>4. QED
      BY <2>1, <3>3
  <2>5. f[n] = Append(s, x)
    BY <1>4, <2>1 DEF WithLeast
  <2>6. x \in S /\ x \notin ToSet(s)
    BY <2>1, <2>4
  <2>7. /\ f[n] \in Seq(S) /\ Len(f[n]) = n /\ f[n][n] = x
        /\ \A i \in 1..(n - 1) : f[n][i] = s[i]
    <3>1. /\ Append(s, x) \in Seq(S) /\ Len(Append(s, x)) = Len(s) + 1
          /\ \A i \in 1..Len(s) : Append(s, x)[i] = s[i]
          /\ Append(s, x)[Len(s) + 1] = x
      BY <2>2, <2>6, AppendProperties
    <3>2. Len(s) + 1 = n
      BY <2>2
    <3>3. QED
      BY <2>2, <2>5, <3>1, <3>2
  <2>8. \A i \in 1..(n - 1) : s[i] # x
    BY <2>2, <2>6, ToSetIs
  <2>9. ASSUME NEW i \in 1..n, NEW j \in 1..n, i # j PROVE f[n][i] # f[n][j]
    <3>1. CASE i = n
      <4>1. j \in 1..(n - 1)
        BY <2>2, <2>9, <3>1
      <4>2. QED
        BY <2>7, <2>8, <3>1, <4>1
    <3>2. CASE j = n
      <4>1. i \in 1..(n - 1)
        BY <2>2, <2>9, <3>2
      <4>2. QED
        BY <2>7, <2>8, <3>2, <4>1
    <3>3. CASE i # n /\ j # n
      <4>1. i \in 1..(n - 1) /\ j \in 1..(n - 1) /\ i \in 1..Len(s) /\ j \in 1..Len(s)
        BY <2>2, <3>3
      <4>2. s[i] # s[j]
        BY <2>2, <2>9, <4>1 DEF Repeats
      <4>3. QED
        BY <2>7, <4>1, <4>2
    <3>4. QED
      BY <3>1, <3>2, <3>3
  <2>10. ~Repeats(f[n])
    BY <2>7, <2>9 DEF Repeats
  <2>11. QED
    BY <2>7, <2>10
<1>7. Good(N)
  <2>1. ASSUME Bad # {} PROVE FALSE
    <3>1. PICK n \in Bad : \A j \in Bad : n <= j
      <4>1. Bad \in SUBSET Nat
        BY <1>1
      <4> HIDE DEF Bad
      <4>2. QED
        BY <2>1, <4>1, FirstOfNats
    <3>2. n \in 0..N /\ ~Good(n)
      OBVIOUS
    <3>3. n # 0
      <4> HIDE DEF Good
      <4>1. QED
        BY <1>5, <3>2
    <3>4. n \in 1..N /\ n - 1 \in 0..N /\ n - 1 \notin Bad
      <4> HIDE DEF Bad
      <4>1. QED
        BY <1>1, <3>1, <3>2, <3>3
    <3>5. Good(n - 1)
      BY <3>4
    <3> HIDE DEF Good
    <3>6. QED
      BY <1>6, <3>2, <3>4, <3>5
  <2>2. N \in 0..N
    BY <1>1
  <2>3. QED
    BY <2>1, <2>2
<1>8. PICK r : r = f[N]
  OBVIOUS
<1>9. r \in Seq(S) /\ Len(r) = N /\ ~Repeats(r)
  BY <1>7, <1>8
<1>10. ToSet(r) = S
  <2>1. IsFiniteSet(ToSet(r)) /\ Cardinality(ToSet(r)) = N /\ ToSet(r) \in SUBSET S
    BY <1>9, LengthOfSet, ToSetIs
  <2>2. QED
    BY <2>1, FS_Subset
<1>11. QED
  BY <1>3, <1>8, <1>9, <1>10

(* A choice of blocks or messages for every tipset *)
Choice(chosen) ==
    chosen \in [Tipset -> SUBSET Nat] /\ \A t \in Tipset : IsFiniteSet(chosen[t])

LEMMA PlacesAre ==
    ASSUME NEW t \in Tipset
    PROVE  \A S \in {DOMAIN Messages[t], DOMAIN Blocks[t]} : S \subseteq Nat /\ IsFiniteSet(S)
<1>1. ASSUME NEW R, NEW s \in Seq(R) PROVE DOMAIN s \subseteq Nat /\ IsFiniteSet(DOMAIN s)
  <2>1. DOMAIN s = 1..Len(s) /\ Len(s) \in Nat
    BY LenProperties
  <2>2. QED
    BY <2>1, FS_Interval
<1>2. PICK m : m = Messages[t]
  OBVIOUS
<1>3. PICK b : b = Blocks[t]
  OBVIOUS
<1>4. m \in Seq([cid : Message, block_cid : Block]) /\ b \in Seq(Block)
  BY <1>2, <1>3, ApiAssumption
<1>5. /\ DOMAIN m \subseteq Nat /\ IsFiniteSet(DOMAIN m)
      /\ DOMAIN b \subseteq Nat /\ IsFiniteSet(DOMAIN b)
  BY <1>1, <1>4
<1>6. QED
  BY <1>2, <1>3, <1>5

LEMMA ChoiceIs ==
    ASSUME NEW chosen, chosen = [t \in Tipset |-> chosen[t]],
           \A t \in Tipset : \/ chosen[t] \subseteq DOMAIN Messages[t]
                             \/ chosen[t] \subseteq DOMAIN Blocks[t]
    PROVE  Choice(chosen)
<1>1. ASSUME NEW t \in Tipset PROVE chosen[t] \subseteq Nat /\ IsFiniteSet(chosen[t])
  <2>1. PICK S \in {DOMAIN Messages[t], DOMAIN Blocks[t]} : chosen[t] \subseteq S
    OBVIOUS
  <2>2. S \subseteq Nat /\ IsFiniteSet(S)
    BY PlacesAre
  <2>3. QED
    BY <2>1, <2>2, FS_Subset
<1>2. QED
  BY <1>1 DEF Choice

LEMMA BothIs ==
    ASSUME NEW chosen, NEW other, Choice(chosen) \/ Choice(other)
    PROVE  /\ Choice(Both(chosen, other))
           /\ \A t \in Tipset : Both(chosen, other)[t] = chosen[t] \cap other[t]
<1>1. PICK both : both = Both(chosen, other)
  OBVIOUS
<1>2. both = [t \in Tipset |-> chosen[t] \cap other[t]]
  BY <1>1 DEF Both
<1>3. ASSUME NEW t \in Tipset
      PROVE  both[t] = chosen[t] \cap other[t] /\ both[t] \subseteq Nat /\ IsFiniteSet(both[t])
  <2>1. PICK S \in {chosen[t], other[t]} : S \subseteq Nat /\ IsFiniteSet(S)
    BY DEF Choice
  <2>2. both[t] = chosen[t] \cap other[t] /\ both[t] \subseteq S
    BY <1>2
  <2>3. QED
    BY <2>1, <2>2, FS_Subset
<1>4. both \in [Tipset -> SUBSET Nat]
  BY <1>2, <1>3
<1>5. QED
  BY <1>1, <1>3, <1>4 DEF Choice

LEMMA ChoicesAre ==
    /\ Choice(EveryBlock) /\ Choice(ByMiner)
    /\ Choice(Every) /\ Choice(Matching) /\ Choice(Leading) /\ Choice(Documents)
    /\ \A t \in Tipset : /\ Matching[t] \subseteq Every[t] /\ Leading[t] \subseteq Matching[t]
                         /\ Documents[t] \subseteq Every[t]
<1>1. /\ EveryBlock = [t \in Tipset |-> EveryBlock[t]]
      /\ \A t \in Tipset : EveryBlock[t] \subseteq DOMAIN Blocks[t]
  BY DEF EveryBlock
<1>2. /\ ByMiner = [t \in Tipset |-> ByMiner[t]]
      /\ \A t \in Tipset : ByMiner[t] \subseteq DOMAIN Blocks[t]
  BY DEF ByMiner
<1>3. /\ Every = [t \in Tipset |-> Every[t]]
      /\ \A t \in Tipset : Every[t] = DOMAIN Messages[t]
  BY DEF Every
<1>4. /\ Matching = [t \in Tipset |-> Matching[t]]
      /\ \A t \in Tipset : Matching[t] \subseteq DOMAIN Messages[t]
  BY DEF Matching
<1>5. /\ Leading = [t \in Tipset |-> Leading[t]]
      /\ \A t \in Tipset : Leading[t] \subseteq Matching[t]
  BY DEF Leading
<1>6. /\ Documents = [t \in Tipset |-> Documents[t]]
      /\ \A t \in Tipset : Documents[t] \subseteq DOMAIN Messages[t]
  BY DEF Documents
<1>7. Choice(EveryBlock) /\ Choice(ByMiner)
  BY <1>1, <1>2, ChoiceIs
<1>8. Choice(Every) /\ Choice(Matching)
  BY <1>3, <1>4, ChoiceIs
<1>9. \A t \in Tipset : Leading[t] \subseteq DOMAIN Messages[t]
  BY <1>4, <1>5
<1>10. Choice(Leading) /\ Choice(Documents)
  BY <1>5, <1>6, <1>9, ChoiceIs
<1>11. QED
  BY <1>3, <1>4, <1>5, <1>6, <1>7, <1>8, <1>10

(* What a request asks of the collections for its counts is, for these     *)
(* requests, a part of what it asks of the cache.                          *)
LEMMA AsksAre ==
    ASSUME NEW r, r.op \in PageOps \cup {"reward", "account"}
    PROVE  /\ Choice(Cached(r)) /\ Choice(Stored(r))
           /\ r.op \in {"messages", "method", "miner", "reward"} =>
                \A t \in Tipset : Stored(r)[t] \subseteq Cached(r)[t]
<1>1. CASE r.op \in {"miner", "reward"}
  <2>1. Cached(r) = ByMiner /\ Stored(r) = ByMiner
    BY <1>1 DEF Cached, Stored
  <2>2. QED
    BY <2>1, ChoicesAre
<1>2. CASE r.op \in {"address", "account"}
  <2>1. Cached(r) = Leading /\ Stored(r) = Both(Documents, Matching)
    BY <1>2 DEF Cached, Stored
  <2>2. QED
    BY <1>2, <2>1, ChoicesAre, BothIs
<1>3. CASE r.op = "messages"
  <2>1. /\ Cached(r) = Both(OfBlock(r.block), Matching)
        /\ Stored(r) = Both(OfBlock(r.block), Matching)
    BY <1>3 DEF Cached, Stored
  <2>2. QED
    BY <2>1, ChoicesAre, BothIs
<1>4. CASE r.op = "method"
  <2>1. PICK both, since : /\ both = Both(Documents, Matching)
                           /\ since = Since(TimeNow - Week + 1)
    OBVIOUS
  <2>2. Cached(r) = Matching /\ Stored(r) = Both(both, since)
    BY <1>4, <2>1 DEF Cached, Stored
  <2>3. Choice(both) /\ \A t \in Tipset : both[t] \subseteq Matching[t]
    BY <2>1, ChoicesAre, BothIs
  <2>4. Choice(Both(both, since)) /\ \A t \in Tipset : Both(both, since)[t] \subseteq both[t]
    BY <2>3, BothIs
  <2>5. QED
    BY <2>2, <2>3, <2>4, ChoicesAre
<1>5. CASE r.op = "latestblock"
  <2>1. Cached(r) = EveryBlock /\ Stored(r) = EveryBlock
    BY <1>5 DEF Cached, Stored
  <2>2. QED
    BY <1>5, <2>1, ChoicesAre
<1>6. CASE r.op = "latestmsg"
  <2>1. Cached(r) = Every /\ Stored(r) = Documents
    BY <1>6 DEF Cached, Stored
  <2>2. QED
    BY <1>6, <2>1, ChoicesAre
<1>7. QED
  BY <1>1, <1>2, <1>3, <1>4, <1>5, <1>6 DEF PageOps

LEMMA AmongOf ==
    ASSUME NEW chosen, Choice(chosen), NEW S \in SUBSET Tipset, NEW t \in Tipset, t \notin S,
           IsFiniteSet(Among(S, chosen))
    PROVE  /\ IsFiniteSet(Among(S \cup {t}, chosen))
           /\ Cardinality(Among(S \cup {t}, chosen)) =
                Cardinality(Among(S, chosen)) + Cardinality(chosen[t])
<1> DEFINE own == {t} \X chosen[t]
<1>1. IsFiniteSet(own) /\ Cardinality(own) = Cardinality(chosen[t]) /\ Cardinality(own) \in Nat
  <2>1. IsFiniteSet({t}) /\ Cardinality({t}) = 1 /\ IsFiniteSet(chosen[t])
    BY FS_Singleton DEF Choice
  <2>2. IsFiniteSet(own) /\ Cardinality(own) = 1 * Cardinality(chosen[t])
    BY <2>1, FS_Product
  <2>3. Cardinality(chosen[t]) \in Nat
    BY <2>1, FS_CardinalityType
  <2>4. QED
    BY <2>2, <2>3
<1>2. Among(S \cup {t}, chosen) = Among(S, chosen) \cup own
  BY DEF Among
<1>3. Among(S, chosen) \cap own = {}
  BY DEF Among
<1> HIDE DEF own
<1>4. /\ IsFiniteSet(Among(S, chosen) \cup own)
      /\ Cardinality(Among(S, chosen) \cup own) =
            Cardinality(Among(S, chosen)) + Cardinality(own) - Cardinality({})
  <2>1. PICK a : a = Among(S, chosen)
    OBVIOUS
  <2>2. PICK o : o = own
    OBVIOUS
  <2>3. IsFiniteSet(a) /\ IsFiniteSet(o) /\ a \cap o = {}
    BY <1>1, <1>3, <2>1, <2>2
  <2>4. /\ IsFiniteSet(a \cup o)
        /\ Cardinality(a \cup o) = Cardinality(a) + Cardinality(o) - Cardinality(a \cap o)
    BY <2>3, FS_Union
  <2>5. QED
    BY <2>1, <2>2, <2>3, <2>4
<1>5. Cardinality({}) = 0 /\ Cardinality(Among(S, chosen)) \in Nat
  BY FS_EmptySet, FS_CardinalityType
<1>6. PICK m, n : m = Cardinality(Among(S, chosen)) /\ n = Cardinality(own)
  OBVIOUS
<1>7. m + n - 0 = m + n
  BY <1>1, <1>5, <1>6
<1>8. QED
  BY <1>1, <1>2, <1>4, <1>5, <1>6, <1>7

(* The rows of a list: one for each pair. *)
LEMMA RowsAre ==
    ASSUME NEW chosen, Choice(chosen), NEW list \in Seq(Tipset), ~Repeats(list)
    PROVE  /\ RowsOf(list, chosen) \in Seq(Tipset \X Nat)
           /\ IsFiniteSet(Among(ToSet(list), chosen))
           /\ Len(RowsOf(list, chosen)) = Cardinality(Among(ToSet(list), chosen))
<1> DEFINE R == Tipset \X Nat
           n == Len(list)
           seqs == [k \in DOMAIN list |->
                        LET is == Rising(chosen[list[k]], [i \in chosen[list[k]] |-> i])
                        IN  [j \in DOMAIN is |-> <<list[k], is[j]>>]]
           First(k) == {list[i] : i \in 1..k}
<1>1. n \in Nat /\ DOMAIN list = 1..n /\ \A k \in 1..n : list[k] \in Tipset
  BY LenProperties, ElementOfSeq
<1>2. ASSUME NEW k \in 1..n
      PROVE  seqs[k] \in Seq(R) /\ Len(seqs[k]) = Cardinality(chosen[list[k]])
  <2>1. PICK is, key : key = [i \in chosen[list[k]] |-> i] /\ is = Rising(chosen[list[k]], key)
    OBVIOUS
  <2>2. is \in Seq(chosen[list[k]]) /\ Len(is) = Cardinality(chosen[list[k]])
        /\ chosen[list[k]] \subseteq Nat
    <3>1. IsFiniteSet(chosen[list[k]]) /\ chosen[list[k]] \subseteq Nat
      BY <1>1 DEF Choice
    <3>2. \A i \in chosen[list[k]] : key[i] \in Nat
      BY <2>1, <3>1
    <3>3. QED
      BY <2>1, <3>1, <3>2, RisingIs
  <2>3. Len(is) \in Nat /\ DOMAIN is = 1..Len(is) /\ \A j \in 1..Len(is) : is[j] \in Nat
    BY <2>2, LenProperties, ElementOfSeq
  <2>4. seqs[k] = [j \in 1..Len(is) |-> <<list[k], is[j]>>]
    BY <1>1, <2>1, <2>3
  <2>5. seqs[k] \in [1..Len(is) -> R]
    BY <1>1, <2>3, <2>4
  <2>6. seqs[k] \in Seq(R)
    BY <2>3, <2>5, IntervalSeq
  <2>7. Len(seqs[k]) = Len(is)
    BY <2>3, <2>5, <2>6, LenProperties
  <2>8. QED
    BY <2>2, <2>6, <2>7
<1>3. seqs \in Seq(Seq(R)) /\ Len(seqs) = n
  <2>1. seqs \in [1..n -> Seq(R)]
    BY <1>1, <1>2
  <2> HIDE DEF seqs
  <2>2. seqs \in Seq(Seq(R))
    BY <1>1, <2>1, IntervalSeq
  <2>3. 1..Len(seqs) = 1..n /\ Len(seqs) \in Nat
    BY <2>1, <2>2, LenProperties
  <2>4. QED
    BY <1>1, <2>1, <2>2, LenProperties
<1>4. RowsOf(list, chosen) = FlattenSeq(seqs)
  BY DEF RowsOf
<1> HIDE DEF seqs
<1>5. RowsOf(list, chosen) \in Seq(R)
  BY <1>3, <1>4, FlattenToSet
<1>6. ToSet(list) = First(n)
  BY ToSetIs
<1>7. CASE n = 0
  <2>1. First(n) = {} /\ Among({}, chosen) = {}
    BY <1>7 DEF Among
  <2>2. seqs = <<>> /\ FlattenSeq(seqs) = seqs
    BY <1>3, <1>7, EmptySeq DEF FlattenSeq
  <2>3. QED
    BY <1>3, <1>4, <1>5, <1>6, <1>7, <2>1, <2>2, FS_EmptySet
<1>8. CASE n # 0
  <2>1. PICK f : Joins(f, seqs, n) /\ FlattenSeq(seqs) = f[n]
    BY <1>1, <1>3, <1>8, FlattenUnfolds
  <2> DEFINE Good(k) == /\ IsFiniteSet(Among(First(k), chosen))
                        /\ Len(f[k]) = Cardinality(Among(First(k), chosen))
             Bad == {k \in 1..n : ~Good(k)}
  <2>2. \A k \in 1..n : f[k] \in Seq(R)
    BY <1>3, <2>1, JoinsToSet
  <2>3. ASSUME NEW k \in 1..n, k > 1 => Good(k - 1)
        PROVE  Good(k)
    <3> DEFINE S == First(k - 1)
    <3>1. IsFiniteSet(Among(S, chosen)) /\ (k = 1 => Cardinality(Among(S, chosen)) = 0)
      <4>1. CASE k = 1
        <5>1. Among(S, chosen) = {}
          BY <4>1 DEF Among
        <5>2. QED
          BY <5>1, FS_EmptySet
      <4>2. CASE k # 1
        <5>1. k > 1
          BY <1>1, <4>2
        <5>2. Good(k - 1)
          BY <2>3, <5>1
        <5>3. QED
          BY <4>2, <5>2
      <4>3. QED
        BY <4>1, <4>2
    <3>2. /\ S \in SUBSET Tipset /\ list[k] \in Tipset /\ list[k] \notin S
          /\ First(k) = S \cup {list[k]}
      <4>1. 1..k = 1..(k - 1) \cup {k} /\ k \notin 1..(k - 1) /\ 1..(k - 1) \subseteq 1..n
        BY <1>1
      <4>2. \A i \in 1..(k - 1) : list[i] # list[k]
        BY <4>1 DEF Repeats
      <4>3. QED
        BY <1>1, <4>1, <4>2
    <3> HIDE DEF S, First
    <3>3. /\ IsFiniteSet(Among(First(k), chosen))
          /\ Cardinality(Among(First(k), chosen)) =
                Cardinality(Among(S, chosen)) + Cardinality(chosen[list[k]])
      BY <3>1, <3>2, AmongOf
    <3>4. Len(seqs[k]) = Cardinality(chosen[list[k]]) /\ Len(seqs[k]) \in Nat
      BY <1>2, LenProperties
    <3>5. f[k] = IF k = 1 THEN seqs[k] ELSE f[k - 1] \o seqs[k]
      BY <2>1 DEF Joins
    <3>6. CASE k = 1
      BY <3>1, <3>3, <3>4, <3>5, <3>6
    <3>7. CASE k # 1
      <4>1. k - 1 \in 1..n /\ k > 1
        BY <1>1, <3>7
      <4>2. Len(f[k - 1]) = Cardinality(Among(S, chosen))
        BY <2>3, <4>1 DEF S
      <4>3. Len(f[k - 1] \o seqs[k]) = Len(f[k - 1]) + Len(seqs[k])
        BY <1>2, <2>2, <4>1, ConcatProperties
      <4>4. QED
        BY <3>3, <3>4, <3>5, <3>7, <4>2, <4>3
    <3>8. QED
      BY <3>6, <3>7
  <2>4. ASSUME Bad # {} PROVE FALSE
    <3>1. PICK k \in Bad : \A j \in Bad : k <= j
      <4>1. Bad \in SUBSET Nat
        BY <1>1
      <4> HIDE DEF Bad
      <4>2. QED
        BY <2>4, <4>1, FirstOfNats
    <3>2. k \in 1..n /\ ~Good(k)
      OBVIOUS
    <3>3. k > 1 => k - 1 \in 1..n /\ k - 1 \notin Bad
      <4> HIDE DEF Bad
      <4>1. QED
        BY <1>1, <3>1, <3>2
    <3>4. k > 1 => Good(k - 1)
      BY <3>3
    <3> HIDE DEF Good
    <3>5. QED
      BY <2>3, <3>2, <3>4
  <2>5. n \in 1..n
    BY <1>1, <1>8
  <2>6. Good(n)
    BY <2>4, <2>5
  <2> HIDE DEF First
  <2>7. QED
    BY <1>4, <1>5, <1>6, <2>1, <2>6
<1>9. QED
  BY <1>7, <1>8

-----------------------------------------------------------------------------
(* Sizes. *)

LEMMA SizeGrows ==
    ASSUME NEW B, IsFiniteSet(B), NEW A, A \subseteq B
    PROVE  IsFiniteSet(A) /\ Cardinality(A) \in Nat /\ Cardinality(B) \in Nat
           /\ Cardinality(A) <= Cardinality(B)
BY FS_Subset, FS_CardinalityType

LEMMA SizeOfTwo ==
    ASSUME NEW A, NEW B, IsFiniteSet(A), IsFiniteSet(B)
    PROVE  /\ IsFiniteSet(A \cup B) /\ Cardinality(A) \in Nat /\ Cardinality(B) \in Nat
           /\ Cardinality(A \cup B) \in Nat
           /\ Cardinality(A \cup B) <= Cardinality(A) + Cardinality(B)
           /\ A \cap B = {} => Cardinality(A \cup B) = Cardinality(A) + Cardinality(B)
<1>1. PICK a, b, c, d : /\ a = Cardinality(A) /\ b = Cardinality(B) /\ c = Cardinality(A \cup B)
                        /\ d = Cardinality(A \cap B)
  OBVIOUS
<1>2. IsFiniteSet(A \cup B) /\ c = a + b - d
  BY <1>1, FS_Union
<1>3. IsFiniteSet(A \cap B)
  BY FS_Intersection
<1>4. a \in Nat /\ b \in Nat /\ c \in Nat /\ d \in Nat
  BY <1>1, <1>2, <1>3, FS_CardinalityType
<1>5. A \cap B = {} => d = 0
  BY <1>1, FS_EmptySet
<1>6. c <= a + b /\ (d = 0 => c = a + b)
  BY <1>2, <1>4
<1>7. QED
  BY <1>1, <1>2, <1>4, <1>5, <1>6

LEMMA RowsOfSet ==
    ASSUME NEW chosen, Choice(chosen), NEW S \in SUBSET Tipset, IsFiniteSet(S)
    PROVE  /\ RowsOf(SetToSeq(S), chosen) \in Seq(Tipset \X Nat)
           /\ IsFiniteSet(Among(S, chosen))
           /\ Len(RowsOf(SetToSeq(S), chosen)) = Cardinality(Among(S, chosen))
<1>1. SetToSeq(S) \in Seq(Tipset)
  <2>1. SetToSeq(S) \in Seq(S)
    BY SetToSeqIs
  <2>2. QED
    BY <2>1, SeqDef
<1>2. QED
  BY <1>1, SetToSeqIs, RowsAre

LEMMA ReverseIs ==
    ASSUME NEW s \in Seq(Tipset)
    PROVE  /\ Reverse(s) \in Seq(Tipset) /\ Len(Reverse(s)) = Len(s) /\ ToSet(Reverse(s)) = ToSet(s)
           /\ \A i \in 1..Len(s) : Reverse(s)[i] = s[Len(s) + 1 - i]
<1> DEFINE r == Reverse(s)
           n == Len(s)
<1>1. n \in Nat /\ \A i \in 1..n : s[i] \in Tipset
  BY LenProperties, ElementOfSeq
<1>2. r = [i \in 1..n |-> s[(n - i) + 1]]
  BY DEF Reverse
<1>3. \A i \in 1..n : (n - i) + 1 = n + 1 - i /\ n + 1 - i \in 1..n
  BY <1>1
<1>4. r \in [1..n -> Tipset] /\ \A i \in 1..n : r[i] = s[n + 1 - i]
  BY <1>1, <1>2, <1>3
<1> HIDE DEF r
<1>5. r \in Seq(Tipset)
  BY <1>1, <1>4, IntervalSeq
<1>6. 1..Len(r) = 1..n /\ Len(r) \in Nat
  BY <1>4, <1>5, LenProperties
<1>7. Len(r) = n
  BY <1>1, <1>4, <1>5, LenProperties
<1>8. \A i \in 1..n : s[i] = r[n + 1 - i]
  <2> SUFFICES ASSUME NEW i \in 1..n PROVE s[i] = r[n + 1 - i]
    OBVIOUS
  <2>1. PICK j : j = n + 1 - i
    OBVIOUS
  <2>2. j \in 1..n /\ n + 1 - j = i
    BY <1>1, <2>1
  <2>3. QED
    BY <1>4, <2>1, <2>2
<1>9. ToSet(r) = {r[i] : i \in 1..n} /\ ToSet(s) = {s[i] : i \in 1..n}
  BY <1>5, <1>7, ToSetIs
<1>10. ToSet(r) = ToSet(s)
  BY <1>3, <1>4, <1>8, <1>9
<1>11. QED
  BY <1>4, <1>5, <1>7, <1>10 DEF r

LEMMA ReverseOnce ==
    ASSUME NEW s \in Seq(Tipset), ~Repeats(s)
    PROVE  ~Repeats(Reverse(s))
<1>1. PICK r : r = Reverse(s)
  OBVIOUS
<1>2. Len(r) = Len(s) /\ Len(s) \in Nat /\ \A i \in 1..Len(s) : r[i] = s[Len(s) + 1 - i]
  BY <1>1, ReverseIs, LenProperties
<1>3. ASSUME NEW i \in 1..Len(r), NEW j \in 1..Len(r), i # j PROVE r[i] # r[j]
  <2>1. PICK k, l : k = Len(s) + 1 - i /\ l = Len(s) + 1 - j
    OBVIOUS
  <2>2. k \in 1..Len(s) /\ l \in 1..Len(s) /\ k # l
    BY <1>2, <1>3, <2>1
  <2>3. r[i] = s[k] /\ r[j] = s[l]
    BY <1>2, <2>1
  <2>4. QED
    BY <2>2, <2>3 DEF Repeats
<1>4. QED
  BY <1>1, <1>3 DEF Repeats

LEMMA RowsOfSorted ==
    ASSUME NEW chosen, Choice(chosen), NEW S \in SUBSET Tipset, IsFiniteSet(S)
    PROVE  /\ RowsOf(NewestFirst(S), chosen) \in Seq(Tipset \X Nat)
           /\ IsFiniteSet(Among(S, chosen))
           /\ Len(RowsOf(NewestFirst(S), chosen)) = Cardinality(Among(S, chosen))
<1>1. PICK r : r = Rising(S, Height)
  OBVIOUS
<1>2. \A t \in S : Height[t] \in Nat
  BY ChainAssumption
<1>3. r \in Seq(S) /\ ToSet(r) = S /\ ~Repeats(r)
  BY <1>1, <1>2, RisingIs
<1>4. r \in Seq(Tipset)
  BY <1>3, SeqDef
<1>5. /\ Reverse(r) \in Seq(Tipset) /\ ToSet(Reverse(r)) = S /\ ~Repeats(Reverse(r))
  BY <1>3, <1>4, ReverseIs, ReverseOnce
<1>6. QED
  BY <1>1, <1>5, RowsAre DEF NewestFirst

(* What is read of the cache between two heights *)
LEMMA FindIs ==
    ASSUME StoreInv, NEW low \in Int, NEW high \in Int
    PROVE  LET found == FindTipset_in_height(low, high)
           IN  /\ found \in Seq(Tipset) /\ ~Repeats(found)
               /\ ToSet(found) = {t \in ToSet(cache) : low <= Height[t] /\ Height[t] <= high}
<1> DEFINE found == {i \in DOMAIN cache : low <= Height[cache[i]] /\ Height[cache[i]] <= high}
<1>1. PICK f : f = FindTipset_in_height(low, high)
  OBVIOUS
<1>2. /\ cache \in Seq(Tipset) /\ Descends(cache) /\ Len(cache) \in Nat
      /\ DOMAIN cache = 1..Len(cache) /\ ToSet(cache) = {cache[i] : i \in 1..Len(cache)}
      /\ \A i \in 1..Len(cache) : cache[i] \in Tipset /\ Height[cache[i]] \in Nat
  <2>1. cache \in Seq(Tipset) /\ Descends(cache)
    BY DEF StoreInv
  <2>2. QED
    BY <2>1, LenProperties, ElementOfSeq, ToSetIs, ChainAssumption
<1>3. CASE found = {}
  <2>1. f = <<>>
    BY <1>1, <1>3 DEF FindTipset_in_height
  <2>2. f \in Seq(Tipset) /\ Len(f) = 0
    BY <2>1
  <2>3. ToSet(f) = {}
    <3>1. ToSet(f) = {f[i] : i \in 1..0}
      BY <2>2, ToSetIs
    <3>2. QED
      BY <3>1
  <2>4. {t \in ToSet(cache) : low <= Height[t] /\ Height[t] <= high} = {}
    BY <1>2, <1>3
  <2>5. QED
    BY <1>1, <2>2, <2>3, <2>4 DEF Repeats
<1>4. CASE found # {}
  <2>1. PICK m, n : m = Min(found) /\ n = Max(found)
    OBVIOUS
  <2>2. found \in SUBSET Nat /\ found \in SUBSET (1..Len(cache))
    BY <1>2
  <2>3. m \in found /\ n \in found /\ \A i \in found : m <= i /\ i <= n
    <3> HIDE DEF found
    <3>1. m \in found /\ \A i \in found : m <= i
      BY <1>4, <2>1, <2>2, FirstIsLeast
    <3>2. n \in found /\ \A i \in found : n >= i
      BY <1>2, <1>4, <2>1, <2>2, LastOfNats
    <3>3. QED
      BY <2>2, <3>1, <3>2
  <2>4. m \in 1..Len(cache) /\ n \in 0..Len(cache) /\ n \in 1..Len(cache) /\ m <= n
    BY <1>2, <2>3
  <2>5. found = m..n
    <3>1. ASSUME NEW i \in m..n PROVE i \in found
      <4>1. i \in 1..Len(cache)
        BY <1>2, <2>4
      <4>2. Height[cache[i]] <= Height[cache[m]] /\ Height[cache[n]] <= Height[cache[i]]
        BY <1>2, <2>4, <4>1 DEF Descends
      <4>3. low <= Height[cache[n]] /\ Height[cache[m]] <= high
        BY <2>3
      <4>4. QED
        BY <1>2, <2>4, <4>1, <4>2, <4>3
    <3>2. QED
      BY <2>2, <2>3, <2>4, <3>1
  <2>6. PICK p : p = SubSeq(cache, m, n)
    OBVIOUS
  <2>7. f = Reverse(p)
    BY <1>1, <1>4, <2>1, <2>6 DEF FindTipset_in_height
  <2>8. /\ p \in Seq(Tipset) /\ Descends(p) /\ Len(p) = n - m + 1
        /\ \A i \in 1..Len(p) : m + i - 1 \in m..n /\ p[i] = cache[m + i - 1]
    BY <1>2, <2>4, <2>6, PieceDescends
  <2>9. ToSet(p) = {cache[i] : i \in m..n}
    <3>1. ToSet(p) = {p[i] : i \in 1..Len(p)}
      BY <2>8, ToSetIs
    <3>2. \A i \in m..n : i - m + 1 \in 1..Len(p) /\ p[i - m + 1] = cache[i]
      <4> SUFFICES ASSUME NEW i \in m..n
                   PROVE  i - m + 1 \in 1..Len(p) /\ p[i - m + 1] = cache[i]
        OBVIOUS
      <4>1. PICK j : j = i - m + 1
        OBVIOUS
      <4>2. j \in 1..Len(p) /\ m + j - 1 = i
        BY <2>4, <2>8, <4>1
      <4>3. QED
        BY <2>8, <4>1, <4>2
    <3>3. ToSet(p) \subseteq {cache[i] : i \in m..n}
      BY <2>8, <3>1
    <3>4. {cache[i] : i \in m..n} \subseteq ToSet(p)
      BY <3>1, <3>2
    <3>5. QED
      BY <3>3, <3>4
  <2>10. f \in Seq(Tipset) /\ ToSet(f) = ToSet(p) /\ ~Repeats(f)
    <3>1. /\ f \in Seq(Tipset) /\ Len(f) = Len(p) /\ ToSet(f) = ToSet(p)
          /\ \A i \in 1..Len(p) : f[i] = p[Len(p) + 1 - i]
      BY <2>7, <2>8, ReverseIs
    <3>2. ~Repeats(p)
      BY <2>8, DescendsOnce
    <3>3. QED
      BY <2>7, <2>8, <3>1, <3>2, ReverseOnce
  <2>11. {cache[i] : i \in found} = {t \in ToSet(cache) : low <= Height[t] /\ Height[t] <= high}
    BY <1>2
  <2> HIDE DEF found
  <2>12. ToSet(f) = {t \in ToSet(cache) : low <= Height[t] /\ Height[t] <= high}
    BY <2>5, <2>9, <2>10, <2>11
  <2>13. QED
    BY <1>1, <2>10, <2>12
<1>5. QED
  BY <1>3, <1>4

-----------------------------------------------------------------------------
(* A request that reads the cache first misses nothing. *)

CacheInv == TreeInv /\ CountInv /\ ChartInv /\ CacheFirstMissesNothing

LEMMA CacheStarts == Init => CacheInv
BY FS_EmptySet DEF Init, CacheInv, TreeInv, CountInv, ChartInv, CacheFirstMissesNothing, HasAnswer

(* Windows of charts *)
LEMMA MinedAre ==
    ASSUME NEW start, NEW end
    PROVE  Choice(MinedIn(start, end))
<1>1. PICK mined : mined = MinedIn(start, end)
  OBVIOUS
<1>2. mined = [t \in Tipset |-> mined[t]] /\ \A t \in Tipset : mined[t] \subseteq DOMAIN Blocks[t]
  BY <1>1 DEF MinedIn
<1>3. QED
  BY <1>1, <1>2, ChoiceIs

LEMMA WindowsAre ==
    ASSUME NEW S \in SUBSET Tipset, IsFiniteSet(S), NEW k
    PROVE  IsFiniteSet(StoredIn(S, k)) /\ IsFiniteSet(CachedIn(S, k))
<1>1. IsFiniteSet(InTime(S, Hours[k], WindowEnd(k)))
  <2>1. InTime(S, Hours[k], WindowEnd(k)) \subseteq S
    BY DEF InTime
  <2>2. QED
    BY <2>1, FS_Subset
<1>2. IsFiniteSet(Among(S, MinedIn(Hours[k], WindowEnd(k))))
  BY MinedAre, RowsOfSet
<1>3. IsFiniteSet(StoredIn(S, k))
  BY <1>1, <1>2 DEF StoredIn
<1>4. CachedIn(S, k) \subseteq StoredIn(S, k)
  BY DEF CachedIn
<1>5. QED
  BY <1>3, <1>4, FS_Subset

LEMMA WindowsCover ==
    ASSUME NEW A \in SUBSET Tipset, NEW B \in SUBSET Tipset, NEW S \in SUBSET Tipset,
           S \subseteq A \cup B, NEW k
    PROVE  CachedIn(S, k) \subseteq CachedIn(A, k) \cup StoredIn(B, k)
<1>1. CASE req.op = "blocktime"
  BY <1>1 DEF CachedIn, StoredIn, InTime
<1>2. CASE req.op # "blocktime"
  <2>1. PICK in, at : in = MinedIn(Hours[k], WindowEnd(k)) /\ at = MinedAt(Hours[k])
    OBVIOUS
  <2>2. \A T \in {A, B, S} : StoredIn(T, k) = Among(T, in)
    BY <1>2, <2>1 DEF StoredIn
  <2>3. \A T \in {A, S} : CachedIn(T, k) = Among(T, in) \ Among(T, at)
    BY <1>2, <2>1, <2>2 DEF CachedIn
  <2>4. ASSUME NEW p \in Among(S, in), p \notin Among(S, at), p \notin Among(B, in)
        PROVE  p \in Among(A, in) /\ p \notin Among(A, at)
    <3>1. PICK t \in S : \E i \in in[t] : p = <<t, i>>
      BY DEF Among
    <3>2. PICK i \in in[t] : p = <<t, i>>
      BY <3>1
    <3>3. t \in A /\ t \notin B /\ i \notin at[t]
      BY <2>4, <3>2 DEF Among
    <3>4. QED
      BY <3>2, <3>3 DEF Among
  <2>5. QED
    BY <2>2, <2>3, <2>4
<1>3. QED
  BY <1>1, <1>2

LEMMA WindowsGrow ==
    ASSUME NEW B \in SUBSET Tipset, NEW A \in SUBSET B, NEW k
    PROVE  CachedIn(A, k) \subseteq CachedIn(B, k)
<1>1. A \in SUBSET Tipset /\ {} \in SUBSET Tipset /\ A \subseteq B \cup {}
  OBVIOUS
<1>2. CachedIn(A, k) \subseteq CachedIn(B, k) \cup StoredIn({}, k)
  BY <1>1, WindowsCover
<1>3. StoredIn({}, k) = {}
  BY DEF StoredIn, InTime, Among
<1>4. QED
  BY <1>2, <1>3

(* They depend on what is asked and on nothing else. *)
LEMMA WindowsStay ==
    ASSUME UNCHANGED req, NEW S, NEW k
    PROVE  CachedIn(S, k)' = CachedIn(S', k') /\ StoredIn(S, k)' = StoredIn(S', k')
BY DEF CachedIn, StoredIn, Hours, WindowEnd

LEMMA CacheHeld ==
    ASSUME StoreInv, CacheInv, Writers
    PROVE  CacheInv'
<1>1. tipsets \subseteq tipsets' /\ UNCHANGED <<req, step, read, number, answer, page, seen>>
  BY WriterStep DEF Writing
<1>2. TreeInv'
  BY <1>1 DEF CacheInv, TreeInv, TreeOfCollection, Start
<1>3. /\ seen \ tipsets' \in SUBSET (seen \ tipsets) /\ IsFiniteSet(seen) /\ seen \in SUBSET Tipset
      /\ seen \ tipsets \in SUBSET Tipset /\ IsFiniteSet(seen \ tipsets)
  <2>1. IsFiniteSet(seen) /\ seen \in SUBSET Tipset
    BY DEF CacheInv, CountInv
  <2>2. QED
    BY <1>1, <2>1, FS_Subset
<1>4. CountInv'
  <2>1. step = "page" => seen \subseteq ToSet(read) \cup tipsets'
    BY <1>1 DEF CacheInv, CountInv
  <2>2. ASSUME step = "reward"
        PROVE  number \in Nat /\ Cardinality(Among(seen \ tipsets', ByMiner)) <= number
    <3>1. Among(seen \ tipsets', ByMiner) \subseteq Among(seen \ tipsets, ByMiner)
      BY <1>3 DEF Among
    <3>2. IsFiniteSet(Among(seen \ tipsets, ByMiner))
      BY <1>3, ChoicesAre, RowsOfSet
    <3>3. /\ Cardinality(Among(seen \ tipsets', ByMiner)) \in Nat
          /\ Cardinality(Among(seen \ tipsets, ByMiner)) \in Nat
          /\ Cardinality(Among(seen \ tipsets', ByMiner)) <= Cardinality(Among(seen \ tipsets, ByMiner))
      BY <3>1, <3>2, SizeGrows
    <3>4. number \in Nat /\ Cardinality(Among(seen \ tipsets, ByMiner)) <= number
      BY <2>2 DEF CacheInv, CountInv
    <3>5. QED
      BY <3>3, <3>4
  <2>3. QED
    BY <1>1, <2>1, <2>2 DEF CacheInv, CountInv, Descends, Among
<1>5. ChartInv'
  <2>1. ASSUME step = "stored"
        PROVE  number \in Nat /\ Cardinality(CachedIn(seen \ tipsets', Len(page) + 1)) <= number
    <3>1. PICK a, b : /\ a = CachedIn(seen \ tipsets', Len(page) + 1)
                      /\ b = CachedIn(seen \ tipsets, Len(page) + 1)
      OBVIOUS
    <3>2. a \subseteq b
      BY <1>3, <3>1, WindowsGrow
    <3>3. IsFiniteSet(b)
      BY <1>3, <3>1, WindowsAre
    <3>4. Cardinality(a) \in Nat /\ Cardinality(b) \in Nat /\ Cardinality(a) <= Cardinality(b)
      BY <3>2, <3>3, SizeGrows
    <3>5. number \in Nat /\ Cardinality(b) <= number
      BY <2>1, <3>1 DEF CacheInv, ChartInv
    <3>6. QED
      BY <3>1, <3>4, <3>5
  <2>2. (CachedIn(seen \ tipsets, Len(page) + 1))' = CachedIn(seen \ tipsets', Len(page) + 1)
    BY <1>1, WindowsStay
  <2>3. QED
    BY <1>1, <2>1, <2>2 DEF CacheInv, ChartInv
<1>6. CacheFirstMissesNothing'
  <2>1. (CachedIn(seen, Len(page)))' = CachedIn(seen, Len(page))
    BY <1>1, WindowsStay
  <2>2. QED
    BY <1>1, <2>1 DEF CacheInv, CacheFirstMissesNothing, HasAnswer, Start
<1>7. QED
  BY <1>2, <1>4, <1>5, <1>6 DEF CacheInv

(* What a request sees when it comes *)
LEMMA VisibleIs ==
    ASSUME StoreInv
    PROVE  /\ Visible = ToSet(cache) \cup tipsets /\ Visible \in SUBSET Tipset
           /\ IsFiniteSet(Visible) /\ IsFiniteSet(ToSet(cache)) /\ IsFiniteSet(tipsets)
           /\ IsFiniteSet(blocks) /\ ~Repeats(cache) /\ cache \in Seq(Tipset)
           /\ ToSet(cache) \subseteq Tipset /\ tipsets \subseteq blocks /\ blocks \subseteq Tipset
           /\ ToSet(cache) \cap blocks = {} /\ Cardinality(ToSet(cache)) = Len(cache)
<1>1. /\ cache \in Seq(Tipset) /\ Descends(cache) /\ blocks \in SUBSET Tipset
      /\ IsFiniteSet(blocks) /\ tipsets \subseteq blocks
      /\ \A c \in ToSet(cache), x \in blocks : Height[x] < Height[c]
  BY DEF StoreInv
<1>2. ~Repeats(cache)
  BY <1>1, DescendsOnce
<1>3. IsFiniteSet(ToSet(cache)) /\ Cardinality(ToSet(cache)) = Len(cache) /\ ToSet(cache) \subseteq Tipset
  BY <1>1, <1>2, LengthOfSet, ToSetIs
<1>4. IsFiniteSet(tipsets)
  BY <1>1, FS_Subset
<1>5. IsFiniteSet(Visible)
  BY <1>3, <1>4, FS_Union DEF Visible
<1>6. ToSet(cache) \cap blocks = {}
  <2>1. \A x \in blocks : Height[x] \in Nat
    BY <1>1, ChainAssumption
  <2>2. QED
    BY <1>1, <2>1
<1>7. QED
  BY <1>1, <1>2, <1>3, <1>4, <1>5, <1>6 DEF Visible

LEMMA TreeArrives ==
    ASSUME StoreInv, CallInv, TipSetTree
    PROVE  TreeInv'
<1>1. /\ UNCHANGED store /\ seen' = Visible
      /\ read' = FindTipset_in_height(Start(req'), req'.end)
  BY DEF TipSetTree, Call
<1>2. PICK low, high : low = Start(req') /\ high = req'.end
  OBVIOUS
<1>3. low \in Int /\ high \in Int
  <2>1. step' = "tree" /\ CallInv'
    BY Beginnings, CallKept, RequestIs DEF Goes, Arrives
  <2>2. req'.end \in Nat /\ req'.count \in Nat
    BY <2>1 DEF CallInv
  <2>3. Word \in Nat \ {0}
    BY ApiAssumption
  <2>4. PICK sum : sum = req'.end + Word + 1 - req'.count
    OBVIOUS
  <2>5. sum \in Int /\ sum % Word \in Int
    BY <2>2, <2>3, <2>4
  <2>6. QED
    BY <1>2, <2>2, <2>4, <2>5 DEF Start
<1>4. /\ read' \in Seq(Tipset)
      /\ ToSet(read') = {t \in ToSet(cache) : low <= Height[t] /\ Height[t] <= high}
  BY <1>1, <1>2, <1>3, FindIs
<1>5. /\ read' # <<>> => read'[1] \in ToSet(read')
  <2>1. read' # <<>> => 1 \in 1..Len(read')
    BY <1>4, LenProperties, EmptySeq
  <2>2. QED
    BY <1>4, <2>1, ToSetIs
<1>6. Visible = ToSet(cache) \cup tipsets /\ Visible \in SUBSET Tipset
  BY VisibleIs
<1>7. ASSUME NEW t \in tipsets, low <= Height[t], Height[t] <= high
      PROVE  /\ \A c \in ToSet(read') : Height[c] # Height[t]
             /\ Height[t] <= IF read' # <<>> THEN Height[read'[1]] ELSE high
  <2>1. \A c \in ToSet(cache) : Height[t] < Height[c] /\ c \in Tipset
    <3>1. t \in blocks
      BY DEF StoreInv
    <3>2. QED
      BY <1>6, <3>1 DEF StoreInv
  <2>2. t \in Tipset /\ Height \in [Tipset -> Nat]
    BY <1>6, ChainAssumption
  <2>3. \A c \in ToSet(read') : Height[t] < Height[c] /\ Height[c] \in Nat
    BY <1>4, <2>1, <2>2
  <2>4. Height[t] \in Nat
    BY <2>2
  <2>5. \A c \in ToSet(read') : Height[c] # Height[t] /\ Height[t] <= Height[c]
    BY <2>3, <2>4
  <2>6. QED
    BY <1>5, <1>7, <2>5
<1>8. ASSUME NEW t \in seen', Start(req)' <= Height[t], Height[t] <= req'.end
      PROVE  t \in (ToSet(read) \cup {s \in TreeOfCollection : \A c \in ToSet(read) : Height[c] # Height[s]})'
  <2>1. Start(req)' = low /\ tipsets' = tipsets
    BY <1>1, <1>2 DEF Start, store
  <2>2. CASE t \in ToSet(cache)
    BY <1>2, <1>4, <1>8, <2>1, <2>2
  <2>3. CASE t \in tipsets
    BY <1>2, <1>7, <1>8, <2>1, <2>3 DEF TreeOfCollection
  <2>4. QED
    BY <1>1, <1>6, <2>2, <2>3
<1>9. QED
  BY <1>4, <1>8 DEF TreeInv

LEMMA CacheArrives ==
    ASSUME StoreInv, CallInv, CacheInv, Arrives
    PROVE  CacheInv'
<1>1. UNCHANGED store /\ seen' = Visible
  BY BeginningsNote
<1>2. /\ Visible = ToSet(cache) \cup tipsets /\ Visible \in SUBSET Tipset /\ IsFiniteSet(Visible)
      /\ IsFiniteSet(ToSet(cache)) /\ ~Repeats(cache) /\ cache \in Seq(Tipset) /\ tipsets' = tipsets
      /\ Descends(cache)
  <2>1. tipsets' = tipsets
    BY <1>1 DEF store
  <2>2. Descends(cache)
    BY DEF StoreInv
  <2>3. QED
    BY <2>1, <2>2, VisibleIs
<1>3. CASE TipSetTree
  <2>1. TreeInv' /\ step' = "tree"
    BY <1>3, TreeArrives, Beginnings DEF Goes
  <2>2. QED
    BY <1>1, <1>2, <2>1 DEF CacheInv, CountInv, ChartInv, CacheFirstMissesNothing, HasAnswer
<1>4. CASE Looks \/ MessagesMethods \/ BlockConfirmCount \/ SearchIndex
  <2>1. /\ step' \in {"find", "answered", "than", "max", "collection"}
        /\ req'.op \in {"look", "methods", "confirm", "search"}
    BY <1>4, Beginnings DEF Goes, Looks
  <2>2. QED
    BY <1>1, <1>2, <2>1 DEF CacheInv, TreeInv, CountInv, ChartInv, CacheFirstMissesNothing, HasAnswer
<1>5. CASE Page \/ Latest
  <2>1. step' = "page" /\ read' = cache
    BY <1>5 DEF Page, Latest, ReadPage
  <2>2. Descends(read)'
    BY <1>2, <2>1 DEF Descends
  <2>3. QED
    BY <1>1, <1>2, <2>1, <2>2
       DEF CacheInv, TreeInv, CountInv, ChartInv, CacheFirstMissesNothing, HasAnswer
<1>6. CASE BlockTotalFil
  <2>1. step' = "reward" /\ number' = Len(RowsOf(cache, ByMiner))
    BY <1>6 DEF BlockTotalFil, Call, Rows, Cached
  <2>2. /\ IsFiniteSet(Among(ToSet(cache), ByMiner))
        /\ number' = Cardinality(Among(ToSet(cache), ByMiner))
    BY <1>2, <2>1, ChoicesAre, RowsAre
  <2>3. Among(seen' \ tipsets', ByMiner) \subseteq Among(ToSet(cache), ByMiner)
    BY <1>1, <1>2 DEF Among
  <2>4. number' \in Nat /\ Cardinality(Among(seen' \ tipsets', ByMiner)) <= number'
    BY <2>2, <2>3, SizeGrows
  <2>5. (Among(seen \ tipsets, ByMiner))' = Among(seen' \ tipsets', ByMiner)
    BY DEF Among
  <2>6. QED
    BY <1>1, <1>2, <2>1, <2>4, <2>5
       DEF CacheInv, TreeInv, CountInv, ChartInv, CacheFirstMissesNothing, HasAnswer
<1>7. CASE AccountList \/ BaseInformation
  <2>1. step' \in {"account", "sums"}
    BY <1>7, Beginnings DEF Goes
  <2>2. QED
    BY <1>1, <1>2, <2>1 DEF CacheInv, TreeInv, CountInv, ChartInv, CacheFirstMissesNothing, HasAnswer
<1>8. CASE Chart
  <2>1. step' = "chart" /\ page' = <<>>
    BY <1>8 DEF Chart, Fresh
  <2>2. page' \in Seq(Nat)
    BY <2>1
  <2>3. QED
    BY <1>1, <1>2, <2>1, <2>2
       DEF CacheInv, TreeInv, CountInv, ChartInv, CacheFirstMissesNothing, HasAnswer
<1>9. QED
  BY <1>3, <1>4, <1>5, <1>6, <1>7, <1>8 DEF Arrives

(* A step of a request that reads nothing of this kind *)
LEMMA CacheElsewhere ==
    ASSUME CacheInv, UNCHANGED <<store, req, seen>>,
           step' \notin {"tree", "page", "reward", "chart", "stored"},
           step' = "answered" =>
                req.op \notin {"tree", "messages", "method", "miner", "reward"}
    PROVE  CacheInv'
BY DEF CacheInv, TreeInv, CountInv, ChartInv, CacheFirstMissesNothing, HasAnswer

LEMMA RowsCover ==
    ASSUME NEW A \in SUBSET Tipset, NEW B \in SUBSET Tipset, NEW S \in SUBSET Tipset,
           IsFiniteSet(A), IsFiniteSet(B), S \subseteq A \cup B,
           NEW chosen, NEW other, Choice(chosen), Choice(other),
           \A t \in Tipset : other[t] \subseteq chosen[t]
    PROVE  /\ Cardinality(Among(S, other)) \in Nat
           /\ Cardinality(Among(A, chosen)) \in Nat /\ Cardinality(Among(B, other)) \in Nat
           /\ Cardinality(Among(S, other)) <=
                Cardinality(Among(A, chosen)) + Cardinality(Among(B, other))
<1>1. PICK a, b, s : /\ a = Among(A, chosen) /\ b = Among(B, other) /\ s = Among(S, other)
  OBVIOUS
<1>2. IsFiniteSet(a) /\ IsFiniteSet(b)
  BY <1>1, RowsOfSet
<1>3. s \subseteq a \cup b
  BY <1>1 DEF Among
<1>4. /\ IsFiniteSet(a \cup b) /\ Cardinality(a) \in Nat /\ Cardinality(b) \in Nat
      /\ Cardinality(a \cup b) \in Nat /\ Cardinality(a \cup b) <= Cardinality(a) + Cardinality(b)
  BY <1>2, SizeOfTwo
<1>5. Cardinality(s) \in Nat /\ Cardinality(s) <= Cardinality(a \cup b)
  BY <1>3, <1>4, SizeGrows
<1>6. QED
  BY <1>1, <1>4, <1>5

LEMMA CacheKept ==
    ASSUME StoreInv, CallInv, CacheInv, GoesOn
    PROVE  CacheInv'
<1>1. /\ tipsets \subseteq blocks /\ blocks \subseteq Tipset /\ IsFiniteSet(blocks)
      /\ IsFiniteSet(tipsets) /\ IsFiniteSet(ToSet(cache)) /\ Visible = ToSet(cache) \cup tipsets
      /\ Visible \in SUBSET Tipset /\ IsFiniteSet(Visible) /\ ToSet(cache) \subseteq Tipset
  BY VisibleIs
<1>2. seen \in SUBSET Tipset /\ IsFiniteSet(seen) /\ TreeInv /\ CountInv /\ ChartInv
  BY DEF CacheInv, CountInv
<1>3. UNCHANGED <<cache, blocks, tipsets, req>>
  BY Continuations DEF GoesOn, Breaks, store
<1>4. CASE TreeAnswer
  <2>1. /\ step = "tree" /\ step' = "answered" /\ seen' = seen /\ req.op = "tree"
        /\ answer' = ToSet(read) \cup
                 {t \in TreeOfCollection : \A c \in ToSet(read) : Height[c] # Height[t]}
    BY <1>4 DEF CallInv, TreeAnswer, Answered
  <2>2. {t \in seen : Start(req) <= Height[t] /\ Height[t] <= req.end} \subseteq answer'
    BY <1>2, <2>1 DEF TreeInv
  <2>3. CacheFirstMissesNothing'
    BY <1>3, <2>1, <2>2 DEF CacheFirstMissesNothing, HasAnswer, Start
  <2>4. QED
    BY <1>2, <2>1, <2>3 DEF CacheInv, TreeInv, CountInv, ChartInv
<1>5. ASSUME step' = "answered", seen' = seen,
             req.op \in {"messages", "method", "miner", "reward"},
             number' \in Nat, Cardinality(Among(seen, Stored(req))) <= number'
      PROVE  CacheInv'
  <2>1. Choice(Stored(req))
    BY <1>5, AsksAre DEF PageOps
  <2>2. Len(RowsOf(SetToSeq(seen), Stored(req))) = Cardinality(Among(seen, Stored(req)))
    BY <1>2, <2>1, RowsOfSet
  <2>3. CacheFirstMissesNothing'
    BY <1>3, <1>5, <2>2 DEF CacheFirstMissesNothing, HasAnswer
  <2>4. QED
    BY <1>2, <1>5, <2>3 DEF CacheInv, TreeInv, CountInv, ChartInv
<1>6. CASE PageAnswer
  <2>1. step = "page" /\ step' = "answered" /\ seen' = seen /\ req.op \in PageOps
    BY <1>6 DEF CallInv, PageAnswer, Answered
  <2>2. CASE req.op \in {"address", "latestblock", "latestmsg"}
    BY <1>2, <1>3, <2>1, <2>2
       DEF CacheInv, TreeInv, CountInv, ChartInv, CacheFirstMissesNothing, HasAnswer
  <2>3. CASE req.op \in {"messages", "method", "miner"}
    <3>1. PICK chosen, other : chosen = Cached(req) /\ other = Stored(req)
      OBVIOUS
    <3>2. /\ Choice(chosen) /\ Choice(other)
          /\ \A t \in Tipset : other[t] \subseteq chosen[t]
      BY <2>1, <2>3, <3>1, AsksAre
    <3>3. number' = Len(RowsOf(read, chosen)) + Len(RowsOf(NewestFirst(blocks), other))
      BY <1>6, <2>3, <3>1 DEF PageAnswer, Rows, Found
    <3>4. read \in Seq(Tipset) /\ ~Repeats(read) /\ seen \subseteq ToSet(read) \cup tipsets
      BY <1>2, <2>1, DescendsOnce DEF CountInv
    <3>5. PICK a : a = ToSet(read)
      OBVIOUS
    <3>6. /\ a \in SUBSET Tipset /\ blocks \in SUBSET Tipset /\ seen \in SUBSET Tipset
          /\ IsFiniteSet(a) /\ IsFiniteSet(blocks) /\ seen \subseteq a \cup blocks
      BY <1>1, <1>2, <3>4, <3>5, ToSetIs, LengthOfSet
    <3>7. Len(RowsOf(read, chosen)) = Cardinality(Among(a, chosen))
      BY <3>2, <3>4, <3>5, RowsAre
    <3>8. Len(RowsOf(NewestFirst(blocks), other)) = Cardinality(Among(blocks, other))
      BY <3>2, <3>6, RowsOfSorted
    <3>9. number' \in Nat /\ Cardinality(Among(seen, other)) <= number'
      BY <3>2, <3>3, <3>6, <3>7, <3>8, RowsCover
    <3>10. QED
      BY <1>5, <2>1, <2>3, <3>1, <3>9
  <2>4. QED
    BY <2>1, <2>2, <2>3 DEF PageOps
<1>7. CASE BlockTotalReward
  <2>1. /\ step = "reward" /\ step' = "answered" /\ seen' = seen /\ req.op = "reward"
        /\ number' = number + Len(RowsOf(NewestFirst(blocks), ByMiner)) /\ Stored(req) = ByMiner
    BY <1>7 DEF CallInv, BlockTotalReward, Answered, Found, Stored, Cached
  <2>2. Len(RowsOf(NewestFirst(blocks), ByMiner)) = Cardinality(Among(blocks, ByMiner))
    BY <1>1, ChoicesAre, RowsOfSorted
  <2>3. number \in Nat /\ Cardinality(Among(seen \ tipsets, ByMiner)) <= number
    BY <1>2, <2>1 DEF CountInv
  <2>4. PICK A : A = seen \ tipsets
    OBVIOUS
  <2>5. A \in SUBSET Tipset /\ A \in SUBSET seen /\ seen \subseteq A \cup blocks
    BY <1>1, <1>2, <2>4
  <2>6. IsFiniteSet(A)
    BY <1>2, <2>5, FS_Subset
  <2>7. /\ Cardinality(Among(seen, ByMiner)) \in Nat
        /\ Cardinality(Among(A, ByMiner)) \in Nat /\ Cardinality(Among(blocks, ByMiner)) \in Nat
        /\ Cardinality(Among(seen, ByMiner)) <=
                Cardinality(Among(A, ByMiner)) + Cardinality(Among(blocks, ByMiner))
    BY <1>1, <1>2, <2>5, <2>6, ChoicesAre, RowsCover
  <2>8. number' \in Nat /\ Cardinality(Among(seen, ByMiner)) <= number'
    BY <2>1, <2>2, <2>3, <2>4, <2>7
  <2>9. QED
    BY <1>5, <2>1, <2>8
<1>8. CASE ChartOfCache
  <2>1. PICK k : k = Len(page) + 1
    OBVIOUS
  <2>2. /\ step = "chart" /\ step' = "stored" /\ seen' = Visible /\ page' = page
        /\ page \in Seq(Nat) /\ req.op \in {"blocktime", "blocksize"}
        /\ number' = Cardinality(CachedIn(ToSet(cache), k))
    BY <1>2, <1>8, <2>1 DEF CallInv, ChartInv, ChartOfCache
  <2>3. Visible \ tipsets \in SUBSET ToSet(cache)
    BY <1>1
  <2>4. CachedIn(Visible \ tipsets, k) \subseteq CachedIn(ToSet(cache), k)
    BY <1>1, <2>3, WindowsGrow
  <2>5. IsFiniteSet(CachedIn(ToSet(cache), k))
    BY <1>1, WindowsAre
  <2>6. number' \in Nat /\ Cardinality(CachedIn(Visible \ tipsets, k)) <= number'
    BY <2>2, <2>4, <2>5, SizeGrows
  <2>7. (CachedIn(seen \ tipsets, Len(page) + 1))' = CachedIn(Visible \ tipsets, k)
    BY <1>3, <2>1, <2>2, WindowsStay
  <2>8. QED
    BY <1>1, <2>2, <2>6, <2>7
       DEF CacheInv, TreeInv, CountInv, ChartInv, CacheFirstMissesNothing, HasAnswer
<1>9. CASE ChartOfCollection
  <2>1. PICK k, S, B : /\ k = Len(page) + 1
                       /\ S = IF req.op = "blocktime" THEN tipsets ELSE blocks
                       /\ B = StoredIn(S, k)
    OBVIOUS
  <2>2. /\ step = "stored" /\ step' = "chart" /\ seen' = seen /\ page \in Seq(Nat)
        /\ page' = Append(page, number + Cardinality(B)) /\ number \in Nat
    BY <1>2, <1>9, <2>1 DEF ChartInv, ChartOfCollection
  <2>3. PICK a, w, A : a = CachedIn(A, k) /\ w = CachedIn(seen, k) /\ A = seen \ tipsets
    OBVIOUS
  <2>4. /\ A \in SUBSET Tipset /\ A \in SUBSET seen /\ S \in SUBSET Tipset /\ S \in SUBSET blocks
        /\ seen \subseteq A \cup S
    BY <1>1, <1>2, <2>1, <2>3
  <2>5. IsFiniteSet(A) /\ IsFiniteSet(S)
    BY <1>1, <1>2, <2>4, FS_Subset
  <2>6. w \subseteq a \cup B
    BY <1>2, <2>1, <2>3, <2>4, WindowsCover
  <2>7. IsFiniteSet(a) /\ IsFiniteSet(B)
    BY <2>1, <2>3, <2>4, <2>5, WindowsAre
  <2>8. /\ IsFiniteSet(a \cup B) /\ Cardinality(a) \in Nat /\ Cardinality(B) \in Nat
        /\ Cardinality(a \cup B) \in Nat /\ Cardinality(a \cup B) <= Cardinality(a) + Cardinality(B)
    BY <2>7, SizeOfTwo
  <2>9. Cardinality(w) \in Nat /\ Cardinality(w) <= Cardinality(a \cup B)
    BY <2>6, <2>8, SizeGrows
  <2>10. Cardinality(a) <= number
    BY <1>2, <2>1, <2>2, <2>3 DEF ChartInv
  <2>11. PICK v : v = number + Cardinality(B)
    OBVIOUS
  <2>12. v \in Nat /\ Cardinality(w) <= v
    BY <2>2, <2>8, <2>9, <2>10, <2>11
  <2>13. page' \in Seq(Nat) /\ Len(page') = k /\ page'[k] = v
    BY <2>1, <2>2, <2>11, <2>12, AppendProperties
  <2>14. (CachedIn(seen, Len(page)))' = w
    BY <1>3, <2>2, <2>3, <2>13, WindowsStay
  <2>15. (Cardinality(CachedIn(seen, Len(page))) <= page[Len(page)])'
    BY <2>12, <2>13, <2>14
  <2>16. CacheFirstMissesNothing'
    BY <2>2, <2>15 DEF CacheFirstMissesNothing, HasAnswer
  <2>17. QED
    BY <1>2, <2>2, <2>13, <2>16 DEF CacheInv, TreeInv, CountInv, ChartInv
<1>10. CASE ChartAnswer
  <2>1. step' = "answered" /\ req.op \in {"blocktime", "blocksize"} /\ seen' = seen
    BY <1>10 DEF CallInv, ChartAnswer, Answered
  <2>2. QED
    BY <1>2, <1>3, <2>1 DEF CacheInv, TreeInv, CountInv, ChartInv, CacheFirstMissesNothing, HasAnswer
<1>11. CASE BaseMesageAll
  <2>1. step' = "tipsets" /\ seen' = Visible
    BY <1>11 DEF BaseMesageAll
  <2>2. QED
    BY <1>1, <2>1 DEF CacheInv, TreeInv, CountInv, ChartInv, CacheFirstMissesNothing, HasAnswer
<1>12. CASE \/ LookInCache \/ FindMesage_blocks \/ FindConfirmed \/ SearchCache
            \/ SearchCollection \/ SearchFront \/ SearchMax
  <2>1. /\ step' \in {"answered", "front", "find", "newest", "idle"} /\ UNCHANGED <<store, req, seen>>
        /\ req.op \in {"look", "methods", "confirm", "search"}
    BY <1>12, Continuations DEF Goes, CallInv
  <2>2. QED
    BY <2>1, CacheElsewhere
<1>13. CASE \/ ThanHeightCount \/ AddSize \/ FrontHeight \/ CountRange
            \/ AccountMessages \/ SumsOfDay \/ BaseSize
  <2>1. /\ step' \in {"answered", "size", "range", "sums", "mesages"}
        /\ req.op \in {"confirm", "account", "base"}
    BY <1>13, Continuations DEF Goes, CallInv
  <2>2. UNCHANGED <<store, req, seen>>
    BY <1>13, Continuations
  <2>3. QED
    BY <2>1, <2>2, CacheElsewhere
<1>14. CASE Breaks
  BY <1>14, BreaksIs, CacheElsewhere
<1>15. QED
  BY <1>4, <1>6, <1>7, <1>8, <1>9, <1>10, <1>11, <1>12, <1>13, <1>14 DEF GoesOn

-----------------------------------------------------------------------------
(* And it counts nothing twice. *)

LEMMA KnownIs ==
    ASSUME StoreInv
    PROVE  Visible \subseteq Known /\ Known \in SUBSET Tipset /\ IsFiniteSet(Known)
<1>1. Visible \in SUBSET Tipset /\ IsFiniteSet(Visible)
  BY VisibleIs
<1>2. PICK a, b : a = writing["run_syncer"] /\ b = writing["sync_to_genesis"]
  OBVIOUS
<1>3. a \in Tipset \cup {NoTipset} /\ b \in Tipset \cup {NoTipset}
  BY <1>2 DEF StoreInv, Writer
<1>4. Known = (Visible \cup {a, b}) \ {NoTipset}
  BY <1>2 DEF Known, Writer
<1>5. IsFiniteSet((Visible \cup {a}) \cup {b})
  BY <1>1, FS_AddElement
<1>6. Known \in SUBSET ((Visible \cup {a}) \cup {b})
  BY <1>4
<1>7. IsFiniteSet(Known)
  BY <1>5, <1>6, FS_Subset
<1>8. NoTipset \notin Tipset
  BY ChainAssumption
<1>9. QED
  BY <1>1, <1>3, <1>4, <1>7, <1>8

LEMMA AmongGrow ==
    ASSUME NEW chosen, Choice(chosen), NEW B \in SUBSET Tipset, IsFiniteSet(B), NEW A \in SUBSET B
    PROVE  /\ IsFiniteSet(A) /\ IsFiniteSet(Among(A, chosen)) /\ IsFiniteSet(Among(B, chosen))
           /\ Among(A, chosen) \subseteq Among(B, chosen)
           /\ Cardinality(Among(A, chosen)) \in Nat /\ Cardinality(Among(B, chosen)) \in Nat
           /\ Cardinality(Among(A, chosen)) <= Cardinality(Among(B, chosen))
<1>1. IsFiniteSet(A) /\ IsFiniteSet(Among(B, chosen))
  BY FS_Subset, RowsOfSet
<1>2. Among(A, chosen) \subseteq Among(B, chosen)
  BY DEF Among
<1>3. QED
  BY <1>1, <1>2, SizeGrows

LEMMA OfDayIs ==
    /\ Choice(OfDay) /\ Choice(Both(Documents, Matching))
    /\ \A t \in Tipset : /\ OfDay[t] \subseteq Every[t]
                         /\ Both(Documents, Matching)[t] \subseteq Matching[t]
BY ChoicesAre, BothIs DEF OfDay

(* A request for a block that some tipset has *)
LEMMA HeightOfBlock ==
    ASSUME NEW b, NEW S \in SUBSET Tipset, InSome(b, S)
    PROVE  BlockHeight[b] \in Nat /\ \E t \in S : BlockHeight[b] = Height[t]
BY BlockAssumption, ChainAssumption DEF InSome

LEMMA SumStarts == Init => SumInv
BY FS_EmptySet DEF Init, SumInv, NeverOverstates, HasAnswer

LEMMA SumHeld ==
    ASSUME StoreInv, CountInv, SumInv, Writers
    PROVE  SumInv'
<1>1. /\ blocks \subseteq blocks' /\ tipsets \subseteq tipsets' /\ StoreInv'
      /\ UNCHANGED <<req, step, read, number, answer, page, seen, known>>
  BY WriterStep DEF Writing
<1>2. /\ blocks' \in SUBSET Tipset /\ IsFiniteSet(blocks') /\ tipsets' \in SUBSET Tipset
      /\ IsFiniteSet(tipsets')
  <2>1. blocks' \in SUBSET Tipset /\ IsFiniteSet(blocks') /\ tipsets' \subseteq blocks'
    BY <1>1 DEF StoreInv
  <2>2. QED
    BY <2>1, FS_Subset
<1>3. ASSUME step = "size"
      PROVE  number <= Cardinality(AtLeast(tipsets', BlockHeight[req.block]))
  <2>1. PICK a, b : /\ a = AtLeast(tipsets, BlockHeight[req.block])
                    /\ b = AtLeast(tipsets', BlockHeight[req.block])
    OBVIOUS
  <2>2. a \subseteq b /\ b \in SUBSET tipsets'
    BY <1>1, <2>1 DEF AtLeast
  <2>3. IsFiniteSet(b)
    BY <1>2, <2>2, FS_Subset
  <2>4. Cardinality(a) \in Nat /\ Cardinality(b) \in Nat /\ Cardinality(a) <= Cardinality(b)
    BY <2>2, <2>3, SizeGrows
  <2>5. number \in Nat /\ number <= Cardinality(a)
    BY <1>3, <2>1 DEF SumInv
  <2>6. QED
    BY <2>1, <2>4, <2>5
<1>4. ASSUME step = "account"
      PROVE  number <= Cardinality(Among(blocks', Both(Documents, Matching)))
  <2>1. PICK both : both = Both(Documents, Matching)
    OBVIOUS
  <2>2. /\ Cardinality(Among(blocks, both)) \in Nat /\ Cardinality(Among(blocks', both)) \in Nat
        /\ Cardinality(Among(blocks, both)) <= Cardinality(Among(blocks', both))
    BY <1>1, <1>2, <2>1, OfDayIs, AmongGrow
  <2>3. number \in Nat /\ number <= Cardinality(Among(blocks, both))
    BY <1>4, <2>1 DEF SumInv
  <2>4. QED
    BY <2>1, <2>2, <2>3
<1>5. Cardinality(Among(blocks, OfDay)) \in Nat /\ Cardinality(Among(blocks', OfDay)) \in Nat
      /\ Cardinality(Among(blocks, OfDay)) <= Cardinality(Among(blocks', OfDay))
  BY <1>1, <1>2, OfDayIs, AmongGrow
<1>6. Cardinality(tipsets) \in Nat /\ Cardinality(tipsets') \in Nat
      /\ Cardinality(tipsets) <= Cardinality(tipsets')
  BY <1>1, <1>2, SizeGrows
<1>7. ASSUME step \in {"sums", "mesages", "tipsets"}
      PROVE  /\ page \in Seq(Nat)
             /\ \A i \in 1..3 : i <= Len(page) =>
                    /\ page[i] <= Cardinality(Among(blocks', OfDay))
                    /\ 3 <= Len(page) => page[i] <= page[3]
             /\ 4 <= Len(page) => page[4] <= Cardinality(tipsets')
  <2>1. /\ page \in Seq(Nat)
        /\ \A i \in 1..3 : i <= Len(page) =>
                /\ page[i] <= Cardinality(Among(blocks, OfDay))
                /\ 3 <= Len(page) => page[i] <= page[3]
        /\ 4 <= Len(page) => page[4] <= Cardinality(tipsets)
    BY <1>7 DEF SumInv
  <2>2. \A i \in 1..4 : i <= Len(page) => page[i] \in Nat
    <3>1. \A i \in 1..4 : i <= Len(page) => i \in 1..Len(page)
      BY <2>1, LenProperties
    <3>2. QED
      BY <2>1, <3>1, ElementOfSeq
  <2>3. PICK m, n, p, q : /\ m = Cardinality(Among(blocks, OfDay)) /\ p = Cardinality(tipsets)
                          /\ n = Cardinality(Among(blocks', OfDay)) /\ q = Cardinality(tipsets')
    OBVIOUS
  <2>4. m \in Nat /\ n \in Nat /\ m <= n /\ p \in Nat /\ q \in Nat /\ p <= q
    BY <1>5, <1>6, <2>3
  <2>5. ASSUME NEW i \in 1..3, i <= Len(page) PROVE page[i] <= n /\ (3 <= Len(page) => page[i] <= page[3])
    <3>1. i \in 1..4 /\ page[i] \in Nat
      BY <2>2, <2>5
    <3>2. page[i] <= m /\ (3 <= Len(page) => page[i] <= page[3])
      BY <2>1, <2>3, <2>5
    <3>3. QED
      BY <2>4, <3>1, <3>2
  <2>6. 4 <= Len(page) => page[4] <= q
    <3>1. 4 <= Len(page) => page[4] \in Nat /\ page[4] <= p
      BY <2>1, <2>2, <2>3
    <3>2. QED
      BY <2>4, <3>1
  <2>7. QED
    BY <2>1, <2>3, <2>5, <2>6
<1>8. /\ seen \in SUBSET Tipset /\ IsFiniteSet(seen) /\ known \in SUBSET Tipset /\ IsFiniteSet(known)
      /\ blocks \in SUBSET Tipset /\ IsFiniteSet(blocks)
  BY DEF CountInv, SumInv, StoreInv
<1>9. ASSUME NEW R \in SUBSET Tipset, IsFiniteSet(R)
      PROVE  /\ Cardinality(Among(R \cup blocks, Every)) \in Nat
             /\ Cardinality(Among(R \cup blocks', Every)) \in Nat
             /\ Cardinality(Among(R \cup blocks, Every)) <= Cardinality(Among(R \cup blocks', Every))
             /\ Len(RowsOf(SetToSeq(R \cup blocks), Matching)) \in Nat
             /\ Len(RowsOf(SetToSeq(R \cup blocks'), Matching)) \in Nat
             /\ Len(RowsOf(SetToSeq(R \cup blocks), Matching)) <=
                    Len(RowsOf(SetToSeq(R \cup blocks'), Matching))
  <2>1. PICK a, b : a = R \cup blocks /\ b = R \cup blocks'
    OBVIOUS
  <2>2. a \in SUBSET b /\ b \in SUBSET Tipset /\ a \in SUBSET Tipset
    BY <1>1, <1>2, <2>1
  <2>3. IsFiniteSet(b)
    BY <1>2, <1>9, <2>1, FS_Union
  <2>4. IsFiniteSet(a)
    BY <2>2, <2>3, FS_Subset
  <2>5. /\ Len(RowsOf(SetToSeq(a), Matching)) = Cardinality(Among(a, Matching))
        /\ Len(RowsOf(SetToSeq(b), Matching)) = Cardinality(Among(b, Matching))
    BY <2>2, <2>3, <2>4, ChoicesAre, RowsOfSet
  <2>6. /\ Cardinality(Among(a, Matching)) \in Nat /\ Cardinality(Among(b, Matching)) \in Nat
        /\ Cardinality(Among(a, Matching)) <= Cardinality(Among(b, Matching))
    BY <2>2, <2>3, ChoicesAre, AmongGrow
  <2>7. /\ Cardinality(Among(a, Every)) \in Nat /\ Cardinality(Among(b, Every)) \in Nat
        /\ Cardinality(Among(a, Every)) <= Cardinality(Among(b, Every))
    BY <2>2, <2>3, ChoicesAre, AmongGrow
  <2>8. QED
    BY <2>1, <2>5, <2>6, <2>7
<1>10. ASSUME step = "tipsets"
       PROVE  number \in Nat /\ page[3] + number <= Cardinality(Among(seen \cup blocks', Every))
  <2>1. /\ number \in Nat /\ page[3] + number <= Cardinality(Among(seen \cup blocks, Every))
        /\ page \in Seq(Nat) /\ Len(page) = 4
    BY <1>10 DEF SumInv
  <2>2. page[3] \in Nat
    <3>1. 3 \in 1..Len(page)
      BY <2>1
    <3>2. QED
      BY <2>1, <3>1, ElementOfSeq
  <2>3. PICK m, n : /\ m = Cardinality(Among(seen \cup blocks, Every))
                    /\ n = Cardinality(Among(seen \cup blocks', Every))
    OBVIOUS
  <2>4. m \in Nat /\ n \in Nat /\ m <= n
    BY <1>8, <1>9, <2>3
  <2>5. number \in Nat /\ page[3] + number <= m
    BY <2>1, <2>3
  <2>6. page[3] + number <= n
    BY <2>2, <2>4, <2>5
  <2>7. QED
    BY <2>3, <2>5, <2>6
<1>11. NeverOverstates'
  <2>1. NeverOverstates
    BY DEF SumInv
  <2>2. HasAnswer({"confirm"})' => number' <= Cardinality(AtLeast(known, BlockHeight[req.block]))'
    BY <1>1, <2>1 DEF NeverOverstates, HasAnswer, AtLeast
  <2>3. ASSUME HasAnswer({"account"})
        PROVE  number <= Len(RowsOf(SetToSeq(known \cup blocks'), Matching))
    <3>1. PICK m, n : /\ m = Len(RowsOf(SetToSeq(known \cup blocks), Matching))
                      /\ n = Len(RowsOf(SetToSeq(known \cup blocks'), Matching))
      OBVIOUS
    <3>2. m \in Nat /\ n \in Nat /\ m <= n
      BY <1>8, <1>9, <3>1
    <3>3. number \in Nat /\ number <= m
      BY <2>1, <2>3, <3>1 DEF SumInv, NeverOverstates
    <3>4. QED
      BY <3>1, <3>2, <3>3
  <2>4. ASSUME HasAnswer({"base"})
        PROVE  /\ page[1] <= page[3] /\ page[2] <= page[3]
               /\ page[3] <= Cardinality(Among(seen \cup known \cup blocks', Every))
               /\ page[4] <= Cardinality(known)
    <3>1. seen \cup known \in SUBSET Tipset /\ IsFiniteSet(seen \cup known)
      BY <1>8, FS_Union
    <3>2. PICK m, n : /\ m = Cardinality(Among(seen \cup known \cup blocks, Every))
                      /\ n = Cardinality(Among(seen \cup known \cup blocks', Every))
      OBVIOUS
    <3>3. m \in Nat /\ n \in Nat /\ m <= n
      BY <1>9, <3>1, <3>2
    <3>4. page[3] \in Nat /\ page[3] <= m
      BY <2>1, <2>4, <3>2 DEF SumInv, NeverOverstates
    <3>5. page[3] <= n
      BY <3>3, <3>4
    <3>6. QED
      BY <2>1, <2>4, <3>2, <3>5 DEF NeverOverstates
  <2>5. UNCHANGED <<req, step, number, page, seen, known>>
    BY <1>1
  <2>6. HasAnswer({"account"})' = HasAnswer({"account"}) /\ HasAnswer({"base"})' = HasAnswer({"base"})
    BY <2>5 DEF HasAnswer
  <2>7. QED
    BY <2>2, <2>3, <2>4, <2>5, <2>6 DEF NeverOverstates, Among
<1>12. QED
  BY <1>1, <1>3, <1>4, <1>7, <1>8, <1>10, <1>11 DEF SumInv, AtLeast, Among, HasAnswer

(* What the explorer has when a request is answered *)
LEMMA KnownStays ==
    ASSUME StoreInv, SumInv, Reads \/ Queries
    PROVE  known' \in SUBSET Tipset /\ IsFiniteSet(known')
<1>1. known' = known \/ known' = {} \/ known' = Known
  <2>1. CASE Arrives
    BY <2>1 DEF Arrives, TipSetTree, Looks, BlockByCid, BlockByHeight, MessageDetails, LookUp,
                MessagesMethods, BlockConfirmCount, Page, Latest, ReadPage, SearchIndex,
                BlockTotalFil, AccountList, BaseInformation, Chart, Fresh, Answered
  <2>2. CASE GoesOn
    BY <2>2 DEF GoesOn, Breaks, Answered, Partly, TreeAnswer, LookInCache, FindMesage_blocks,
                ThanHeightCount, AddSize, FindConfirmed, FrontHeight, CountRange, PageAnswer,
                PageOfCache, SearchCollection, SearchMax, SearchFront, SearchCache,
                BlockTotalReward, RewardOfCache, AccountMessages, SumsOfDay, BaseMesageAll,
                BaseSize, ChartOfCache, ChartOfCollection, ChartAnswer, ReadFails
  <2>3. QED
    BY <2>1, <2>2, RequestIs
<1>2. known \in SUBSET Tipset /\ IsFiniteSet(known)
  BY DEF SumInv
<1>3. QED
  BY <1>1, <1>2, KnownIs, FS_EmptySet

(* A step of a request that counts for none of these answers *)
LEMMA SumElsewhere ==
    ASSUME known' \in SUBSET Tipset, IsFiniteSet(known'),
           step' \notin {"size", "range", "account", "sums", "mesages", "tipsets"},
           step' \in {"find", "answered"} => req'.op \notin {"confirm", "account", "base"}
    PROVE  SumInv'
BY DEF SumInv, NeverOverstates, HasAnswer

LEMMA SumArrives ==
    ASSUME StoreInv, SumInv, Arrives
    PROVE  SumInv'
<1>1. known' \in SUBSET Tipset /\ IsFiniteSet(known') /\ UNCHANGED <<blocks, tipsets>>
  BY KnownStays, RequestIs, BeginningsNote DEF store
<1>2. CASE BlockConfirmCount
  <2>1. step' \in {"than", "find"} /\ number' = 0
    BY <1>2, Beginnings DEF Goes, BlockConfirmCount, Fresh
  <2>2. QED
    BY <1>1, <2>1 DEF SumInv, NeverOverstates, HasAnswer
<1>3. CASE AccountList
  <2>1. PICK both : both = Both(Documents, Matching)
    OBVIOUS
  <2>2. step' = "account" /\ number' = Len(RowsOf(NewestFirst(blocks), both))
    BY <1>3, <2>1 DEF AccountList, Call, Stored
  <2>3. /\ IsFiniteSet(Among(blocks, both))
        /\ number' = Cardinality(Among(blocks, both))
    BY <2>1, <2>2, VisibleIs, OfDayIs, RowsOfSorted
  <2>4. number' \in Nat
    BY <2>3, FS_CardinalityType
  <2>5. number' <= Cardinality(Among(blocks', Both(Documents, Matching)))
    BY <1>1, <2>1, <2>3, <2>4
  <2>6. QED
    BY <1>1, <2>2, <2>4, <2>5 DEF SumInv, NeverOverstates, HasAnswer, Among
<1>4. CASE BaseInformation
  <2>1. step' = "sums" /\ page' = <<>>
    BY <1>4 DEF BaseInformation, Fresh
  <2>2. page' \in Seq(Nat) /\ Len(page') = 0
    BY <2>1
  <2>3. QED
    BY <1>1, <2>1, <2>2 DEF SumInv, NeverOverstates, HasAnswer
<1>5. CASE \/ Looks \/ MessagesMethods \/ Page \/ Latest \/ SearchIndex
           \/ TipSetTree \/ BlockTotalFil \/ Chart
  <2>1. /\ step' \in {"find", "answered", "page", "max", "collection", "tree", "reward", "chart"}
        /\ step' \in {"find", "answered"} => req'.op \in {"look", "methods", "search"}
    BY <1>5, Beginnings DEF Goes, Looks
  <2>2. QED
    BY <1>1, <2>1, SumElsewhere
<1>6. QED
  BY <1>2, <1>3, <1>4, <1>5 DEF Arrives

LEMMA ConfirmedKept ==
    ASSUME StoreInv, CallInv, SumInv,
           ThanHeightCount \/ AddSize \/ FindConfirmed \/ FrontHeight \/ CountRange
    PROVE  SumInv'
<1>1. /\ known' \in SUBSET Tipset /\ IsFiniteSet(known') /\ UNCHANGED <<req, cache, blocks, tipsets>>
      /\ req.op = "confirm"
  <2>1. req.op = "confirm"
    BY DEF CallInv, ThanHeightCount, AddSize, FindConfirmed, FrontHeight, CountRange
  <2>2. UNCHANGED <<req, store>>
    BY Continuations
  <2>3. QED
    BY <2>1, <2>2, KnownStays DEF Reads, store
<1>2. /\ tipsets \subseteq blocks /\ blocks \subseteq Tipset /\ IsFiniteSet(tipsets)
      /\ IsFiniteSet(ToSet(cache)) /\ ToSet(cache) \subseteq Tipset /\ cache \in Seq(Tipset)
      /\ ToSet(cache) \cap blocks = {} /\ Cardinality(ToSet(cache)) = Len(cache)
      /\ Visible = ToSet(cache) \cup tipsets
  BY VisibleIs
<1>3. Visible \subseteq Known /\ Known \in SUBSET Tipset /\ IsFiniteSet(Known)
  BY KnownIs
<1>4. PICK h, all : h = BlockHeight[req.block] /\ all = AtLeast(Known, h)
  OBVIOUS
<1>5. all \in SUBSET Known /\ IsFiniteSet(all) /\ Cardinality(all) \in Nat
  <2>1. all \in SUBSET Known
    BY <1>4 DEF AtLeast
  <2>2. IsFiniteSet(all)
    BY <1>3, <2>1, FS_Subset
  <2>3. QED
    BY <2>1, <2>2, FS_CardinalityType
<1>6. ASSUME step' = "answered", known' = Known, number' <= Cardinality(all)
      PROVE  SumInv'
  BY <1>1, <1>4, <1>6 DEF SumInv, NeverOverstates, HasAnswer, AtLeast
<1>7. CASE ThanHeightCount
  <2>1. step' = "size" /\ number' = Cardinality(AtLeast(tipsets, h))
    BY <1>4, <1>7 DEF ThanHeightCount
  <2>2. AtLeast(tipsets, h) \in SUBSET tipsets
    BY DEF AtLeast
  <2>3. number' \in Nat
    BY <1>2, <2>1, <2>2, FS_Subset, FS_CardinalityType
  <2>4. number' <= Cardinality(AtLeast(tipsets', BlockHeight[req'.block]))
    BY <1>1, <1>4, <2>1, <2>3
  <2>5. QED
    BY <1>1, <2>1, <2>3, <2>4 DEF SumInv, NeverOverstates, HasAnswer, AtLeast
<1>8. CASE AddSize
  <2>1. /\ step = "size" /\ step' = "answered" /\ known' = Known /\ number' = number + Len(cache)
        /\ InSome(req.block, tipsets)
    BY <1>8 DEF AddSize, Answered, CallInv
  <2>2. PICK a : a = AtLeast(tipsets, h)
    OBVIOUS
  <2>3. number \in Nat /\ number <= Cardinality(a)
    BY <1>4, <2>1, <2>2 DEF SumInv
  <2>4. a \in SUBSET tipsets
    BY <2>2 DEF AtLeast
  <2>5. IsFiniteSet(a) /\ a \cap ToSet(cache) = {}
    BY <1>2, <2>4, FS_Subset
  <2>6. \A c \in ToSet(cache) : Height[c] >= h
    <3> SUFFICES ASSUME NEW c \in ToSet(cache) PROVE Height[c] >= h
      OBVIOUS
    <3>1. Height[c] \in Nat /\ h \in Nat /\ \E t \in tipsets : h = Height[t]
      BY <1>2, <1>4, <2>1, HeightOfBlock, ChainAssumption
    <3>2. h < Height[c]
      BY <1>2, <3>1 DEF StoreInv
    <3>3. QED
      BY <3>1, <3>2
  <2>7. a \cup ToSet(cache) \subseteq all
    BY <1>2, <1>3, <1>4, <2>2, <2>6 DEF AtLeast
  <2>8. /\ Cardinality(a) \in Nat /\ Cardinality(ToSet(cache)) \in Nat
        /\ Cardinality(a \cup ToSet(cache)) = Cardinality(a) + Cardinality(ToSet(cache))
    BY <1>2, <2>5, SizeOfTwo
  <2>9. Cardinality(a \cup ToSet(cache)) <= Cardinality(all)
    BY <1>5, <2>7, SizeGrows
  <2>10. number' <= Cardinality(all)
    BY <1>2, <1>5, <2>1, <2>3, <2>8, <2>9
  <2>11. QED
    BY <1>6, <2>1, <2>10
<1>9. CASE FindConfirmed
  <2>1. step = "find" /\ number = 0 /\ number' = 0
    BY <1>1, <1>9 DEF FindConfirmed, Silent, SumInv
  <2>2. CASE \E t \in ToSet(cache) : req.block \in ToSet(Blocks[t])
    <3>1. step' = "front"
      BY <1>9, <2>2 DEF FindConfirmed
    <3>2. QED
      BY <1>1, <3>1, SumElsewhere
  <2>3. CASE ~\E t \in ToSet(cache) : req.block \in ToSet(Blocks[t])
    <3>1. step' = "answered" /\ known' = Known /\ number' <= Cardinality(all)
      BY <1>5, <1>9, <2>1, <2>3 DEF FindConfirmed, Answered
    <3>2. QED
      BY <1>6, <3>1
  <2>4. QED
    BY <2>2, <2>3
<1>10. CASE FrontHeight
  <2>1. step' = "range" /\ number' = Height[cache[1]]
    BY <1>10 DEF FrontHeight
  <2>2. cache[1] \in Tipset
    <3>1. 1 \in 1..Len(cache)
      BY <1>2, LenProperties, EmptySeq DEF StoreInv
    <3>2. QED
      BY <1>2, <3>1, ElementOfSeq
  <2>3. number' \in Nat
    BY <2>1, <2>2, ChainAssumption
  <2>4. QED
    BY <1>1, <2>1, <2>3 DEF SumInv, NeverOverstates, HasAnswer
<1>11. CASE CountRange
  <2>1. /\ step = "range" /\ step' = "answered" /\ known' = Known /\ InSome(req.block, Tipset)
        /\ number' = Len(FindTipset_in_height(h, number)) /\ number \in Nat
    BY <1>4, <1>11 DEF CountRange, Answered, CallInv, SumInv
  <2>2. PICK f : f = FindTipset_in_height(h, number)
    OBVIOUS
  <2>3. h \in Int /\ number \in Int
    BY <1>4, <2>1, HeightOfBlock
  <2>4. /\ f \in Seq(Tipset) /\ ~Repeats(f)
        /\ ToSet(f) = {t \in ToSet(cache) : h <= Height[t] /\ Height[t] <= number}
    BY <2>2, <2>3, FindIs
  <2>5. number' = Cardinality(ToSet(f))
    BY <2>1, <2>2, <2>4, LengthOfSet
  <2>6. ToSet(f) \subseteq all
    <3>1. \A t \in ToSet(f) : t \in Visible /\ t \in Tipset /\ Height[t] >= h
      <4>1. \A t \in ToSet(f) : t \in ToSet(cache) /\ h <= Height[t] /\ Height[t] \in Nat
        BY <1>2, <2>4, ChainAssumption
      <4>2. QED
        BY <1>2, <2>3, <4>1
    <3>2. QED
      BY <1>3, <1>4, <3>1 DEF AtLeast
  <2>7. number' <= Cardinality(all)
    BY <1>5, <2>5, <2>6, SizeGrows
  <2>8. QED
    BY <1>6, <2>1, <2>7
<1>12. QED
  BY <1>7, <1>8, <1>9, <1>10, <1>11

LEMMA AccountKept ==
    ASSUME StoreInv, CallInv, SumInv, AccountMessages
    PROVE  SumInv'
<1>1. /\ known' \in SUBSET Tipset /\ IsFiniteSet(known') /\ UNCHANGED <<req, cache, blocks, tipsets>>
      /\ req.op = "account" /\ known' = Known /\ step = "account" /\ step' = "answered"
      /\ number' = number + Len(RowsOf(cache, Leading))
  <2>1. UNCHANGED <<req, store>>
    BY Continuations
  <2>2. known' \in SUBSET Tipset /\ IsFiniteSet(known')
    BY KnownStays DEF Queries
  <2>3. QED
    BY <2>1, <2>2 DEF CallInv, AccountMessages, Answered, Rows, Cached, store
<1>2. /\ blocks \in SUBSET Tipset /\ IsFiniteSet(blocks) /\ ToSet(cache) \in SUBSET Tipset
      /\ IsFiniteSet(ToSet(cache)) /\ cache \in Seq(Tipset) /\ ~Repeats(cache)
      /\ ToSet(cache) \cap blocks = {} /\ Visible = ToSet(cache) \cup tipsets
  BY VisibleIs
<1>3. Visible \subseteq Known /\ Known \in SUBSET Tipset /\ IsFiniteSet(Known)
  BY KnownIs
<1>4. PICK a, c, m, all, both :
        /\ a = Among(blocks, both) /\ both = Both(Documents, Matching)
        /\ c = Among(ToSet(cache), Leading)
        /\ m = Among(Known \cup blocks, Matching) /\ all = Known \cup blocks
  OBVIOUS
<1>5. all \in SUBSET Tipset /\ IsFiniteSet(all)
  BY <1>2, <1>3, <1>4, FS_Union
<1>6. /\ IsFiniteSet(m) /\ Len(RowsOf(SetToSeq(all), Matching)) = Cardinality(m)
      /\ IsFiniteSet(a) /\ IsFiniteSet(c) /\ Len(RowsOf(cache, Leading)) = Cardinality(c)
  BY <1>2, <1>4, <1>5, ChoicesAre, OfDayIs, RowsOfSet, RowsAre
<1>7. a \cap c = {} /\ a \cup c \subseteq m
  <2>1. \A t \in ToSet(cache) : Leading[t] \subseteq Matching[t]
    BY <1>2, ChoicesAre
  <2>2. ToSet(cache) \subseteq all
    BY <1>2, <1>3, <1>4
  <2>3. \A t \in Tipset : both[t] \subseteq Matching[t]
    BY <1>4, OfDayIs
  <2>4. QED
    BY <1>2, <1>4, <2>1, <2>2, <2>3 DEF Among
<1>8. /\ Cardinality(a) \in Nat /\ Cardinality(c) \in Nat
      /\ Cardinality(a \cup c) = Cardinality(a) + Cardinality(c)
  BY <1>6, <1>7, SizeOfTwo
<1>9. Cardinality(m) \in Nat /\ Cardinality(a \cup c) <= Cardinality(m)
  BY <1>6, <1>7, SizeGrows
<1>10. number \in Nat /\ number <= Cardinality(a)
  BY <1>1, <1>4 DEF SumInv
<1>11. number' \in Nat /\ number' <= Cardinality(m)
  BY <1>1, <1>6, <1>8, <1>9, <1>10
<1>12. Len(RowsOf(SetToSeq(known \cup blocks), Matching))' = Cardinality(m)
  BY <1>1, <1>4, <1>6
<1>13. QED
  BY <1>1, <1>11, <1>12 DEF SumInv, NeverOverstates, HasAnswer

LEMMA SumsKept ==
    ASSUME StoreInv, SumInv, SumsOfDay
    PROVE  SumInv'
<1>1. /\ known' \in SUBSET Tipset /\ IsFiniteSet(known') /\ UNCHANGED <<req, blocks, tipsets>>
      /\ step = "sums" /\ step' \in {"sums", "mesages"}
      /\ step' = IF Len(page') < 4 THEN "sums" ELSE "mesages"
  <2>1. UNCHANGED <<req, store>>
    BY Continuations
  <2>2. known' \in SUBSET Tipset /\ IsFiniteSet(known')
    BY KnownStays DEF Queries
  <2>3. QED
    BY <2>1, <2>2 DEF SumsOfDay, store
<1>2. /\ blocks \in SUBSET Tipset /\ IsFiniteSet(blocks) /\ tipsets \in SUBSET Tipset
      /\ IsFiniteSet(tipsets)
  BY VisibleIs
<1>3. PICK m, d, n, young :
        /\ m = Cardinality(Among(blocks, OfDay)) /\ d = Cardinality(young)
        /\ young = {t \in tipsets : TimeNow - Day <= MinTimestamp(t)} /\ n = Len(page)
  OBVIOUS
<1>4. m \in Nat
  BY <1>2, <1>3, OfDayIs, AmongGrow
<1>5. d \in Nat /\ d <= Cardinality(tipsets)
  <2>1. young \subseteq tipsets
    BY <1>3
  <2>2. QED
    BY <1>2, <1>3, <2>1, SizeGrows
<1>6. /\ page \in Seq(Nat) /\ n < 4 /\ n \in Nat
      /\ \A i \in 1..3 : i <= n => page[i] <= m /\ (3 <= n => page[i] <= page[3])
  <2>1. page \in Seq(Nat)
    BY <1>1 DEF SumInv
  <2>2. n \in Nat
    BY <1>3, <2>1, LenProperties
  <2>3. QED
    BY <1>1, <1>3, <2>1, <2>2 DEF SumInv
<1>7. page' = Append(page, IF n < 3 THEN m ELSE d)
  BY <1>3 DEF SumsOfDay, OfDay
<1>8. /\ page' \in Seq(Nat) /\ Len(page') = n + 1
      /\ \A i \in 1..n : page'[i] = page[i]
      /\ page'[n + 1] = IF n < 3 THEN m ELSE d
  <2>1. PICK v : v = IF n < 3 THEN m ELSE d
    OBVIOUS
  <2>2. v \in Nat /\ page' = Append(page, v)
    BY <1>4, <1>5, <1>7, <2>1
  <2>3. /\ Append(page, v) \in Seq(Nat) /\ Len(Append(page, v)) = n + 1
        /\ \A i \in 1..n : Append(page, v)[i] = page[i]
        /\ Append(page, v)[n + 1] = v
    BY <1>3, <1>6, <2>2, AppendProperties
  <2>4. QED
    BY <2>1, <2>2, <2>3
<1>9. \A i \in 1..n : page[i] \in Nat
  BY <1>3, <1>6, ElementOfSeq
<1>10. \A i \in 1..3 : i <= n + 1 => page'[i] <= m /\ (3 <= n + 1 => page'[i] <= page'[3])
  <2>1. CASE n = 2
    <3>1. page'[3] = m /\ page'[1] = page[1] /\ page'[2] = page[2]
      BY <1>8, <2>1
    <3>2. page[1] <= m /\ page[2] <= m
      BY <1>6, <2>1
    <3>3. QED
      BY <1>4, <2>1, <3>1, <3>2
  <2>2. CASE n = 3
    <3>1. page'[3] = page[3] /\ page'[1] = page[1] /\ page'[2] = page[2]
      BY <1>8, <2>2
    <3>2. QED
      BY <1>6, <2>2, <3>1
  <2>3. CASE n = 0
    <3>1. page'[1] = m
      BY <1>8, <2>3
    <3>2. QED
      BY <1>4, <2>3, <3>1
  <2>4. CASE n = 1
    <3>1. page'[1] = page[1] /\ page'[2] = m /\ page[1] <= m
      BY <1>6, <1>8, <2>4
    <3>2. QED
      BY <1>4, <2>4, <3>1
  <2>5. QED
    BY <1>6, <2>1, <2>2, <2>3, <2>4
<1>11. 4 <= Len(page') => page'[4] <= Cardinality(tipsets)
  BY <1>5, <1>6, <1>8
<1>12. (step' = "sums" => Len(page') < 4) /\ (step' = "mesages" => Len(page') = 4)
  BY <1>1, <1>6, <1>8
<1>13. QED
  BY <1>1, <1>3, <1>8, <1>10, <1>11, <1>12 DEF SumInv, NeverOverstates, HasAnswer, Among

LEMMA MesagesKept ==
    ASSUME StoreInv, SumInv, BaseMesageAll
    PROVE  SumInv'
<1>1. /\ known' \in SUBSET Tipset /\ IsFiniteSet(known') /\ UNCHANGED <<req, cache, blocks, tipsets>>
      /\ step = "mesages" /\ step' = "tipsets" /\ page' = page /\ seen' = Visible
      /\ number' = Len(RowsOf(cache, Every))
  <2>1. UNCHANGED <<req, store>>
    BY Continuations
  <2>2. known' \in SUBSET Tipset /\ IsFiniteSet(known')
    BY KnownStays DEF Queries
  <2>3. QED
    BY <2>1, <2>2 DEF BaseMesageAll, store
<1>2. /\ blocks \in SUBSET Tipset /\ IsFiniteSet(blocks) /\ ToSet(cache) \in SUBSET Tipset
      /\ IsFiniteSet(ToSet(cache)) /\ cache \in Seq(Tipset) /\ ~Repeats(cache)
      /\ ToSet(cache) \cap blocks = {} /\ Visible = ToSet(cache) \cup tipsets
      /\ Visible \in SUBSET Tipset /\ IsFiniteSet(Visible)
  BY VisibleIs
<1>3. PICK a, c, m, all : /\ a = Among(blocks, OfDay) /\ c = Among(ToSet(cache), Every)
                          /\ m = Among(Visible \cup blocks, Every) /\ all = Visible \cup blocks
  OBVIOUS
<1>4. all \in SUBSET Tipset /\ IsFiniteSet(all) /\ ToSet(cache) \in SUBSET all
  <2>1. IsFiniteSet(all) /\ all \in SUBSET Tipset
    BY <1>2, <1>3, FS_Union
  <2>2. QED
    BY <1>2, <1>3, <2>1
<1>5. /\ IsFiniteSet(m) /\ IsFiniteSet(a) /\ IsFiniteSet(c) /\ a \subseteq m /\ c \subseteq m
      /\ Len(RowsOf(cache, Every)) = Cardinality(c)
  <2>1. IsFiniteSet(m) /\ IsFiniteSet(c) /\ c \subseteq m
    BY <1>3, <1>4, ChoicesAre, AmongGrow
  <2>2. Len(RowsOf(cache, Every)) = Cardinality(c)
    BY <1>2, <1>3, ChoicesAre, RowsAre
  <2>3. IsFiniteSet(a)
    BY <1>2, <1>3, OfDayIs, AmongGrow
  <2>4. a \subseteq m
    BY <1>2, <1>3, OfDayIs DEF Among
  <2>5. QED
    BY <2>1, <2>2, <2>3, <2>4
<1>6. a \cap c = {}
  BY <1>2, <1>3 DEF Among
<1>7. /\ Cardinality(a) \in Nat /\ Cardinality(c) \in Nat
      /\ Cardinality(a \cup c) = Cardinality(a) + Cardinality(c)
  BY <1>5, <1>6, SizeOfTwo
<1>8. Cardinality(m) \in Nat /\ Cardinality(a \cup c) <= Cardinality(m)
  BY <1>5, SizeGrows
<1>9. /\ page \in Seq(Nat) /\ Len(page) = 4 /\ page[3] <= Cardinality(Among(blocks, OfDay))
  <2>1. page \in Seq(Nat) /\ Len(page) = 4
    BY <1>1 DEF SumInv
  <2>2. QED
    BY <1>1, <2>1 DEF SumInv
<1>10. page[3] \in Nat
  <2>1. 3 \in 1..Len(page)
    BY <1>9
  <2>2. QED
    BY <1>9, <2>1, ElementOfSeq
<1>11. number' \in Nat /\ page[3] + number' <= Cardinality(Among(all, Every))
  BY <1>1, <1>3, <1>5, <1>7, <1>8, <1>9, <1>10
<1>12. Among(seen \cup blocks, Every)' = Among(all, Every)
  BY <1>1, <1>3 DEF Among
<1>13. number' \in Nat /\ page'[3] + number' <= Cardinality(Among(seen \cup blocks, Every))'
  BY <1>1, <1>11, <1>12
<1>14. /\ \A i \in 1..3 : i <= Len(page') =>
                /\ page'[i] <= Cardinality(Among(blocks, OfDay))'
                /\ 3 <= Len(page') => page'[i] <= page'[3]
       /\ 4 <= Len(page') => page'[4] <= Cardinality(tipsets')
  BY <1>1 DEF SumInv, Among
<1>15. QED
  BY <1>1, <1>9, <1>13, <1>14 DEF SumInv, NeverOverstates, HasAnswer

LEMMA BaseKept ==
    ASSUME StoreInv, CountInv, CallInv, SumInv, BaseSize
    PROVE  SumInv'
<1>1. /\ known' \in SUBSET Tipset /\ IsFiniteSet(known') /\ UNCHANGED <<req, cache, blocks, tipsets>>
      /\ step = "tipsets" /\ step' = "answered" /\ seen' = seen /\ known' = Known
      /\ number' = number /\ req.op = "base"
      /\ page' = [i \in DOMAIN page |-> page[i] + IF i < 4 THEN number ELSE Len(cache)]
  <2>1. UNCHANGED <<req, store>>
    BY Continuations
  <2>2. known' \in SUBSET Tipset /\ IsFiniteSet(known')
    BY KnownStays DEF Queries
  <2>3. QED
    BY <2>1, <2>2 DEF BaseSize, CallInv, Answered, store
<1>2. /\ blocks \in SUBSET Tipset /\ IsFiniteSet(blocks) /\ IsFiniteSet(tipsets)
      /\ IsFiniteSet(ToSet(cache)) /\ ToSet(cache) \cap blocks = {} /\ tipsets \subseteq blocks
      /\ Visible = ToSet(cache) \cup tipsets /\ Cardinality(ToSet(cache)) = Len(cache)
  BY VisibleIs
<1>3. Visible \subseteq Known /\ Known \in SUBSET Tipset /\ IsFiniteSet(Known)
  BY KnownIs
<1>4. /\ page \in Seq(Nat) /\ Len(page) = 4 /\ number \in Nat
      /\ page[3] + number <= Cardinality(Among(seen \cup blocks, Every))
  BY <1>1 DEF SumInv
<1>5. /\ page[1] <= page[3] /\ page[2] <= page[3] /\ page[4] <= Cardinality(tipsets)
  BY <1>1, <1>4 DEF SumInv
<1>6. DOMAIN page = 1..4 /\ page[1] \in Nat /\ page[2] \in Nat /\ page[3] \in Nat /\ page[4] \in Nat
  <2>1. DOMAIN page = 1..4
    BY <1>4, LenProperties
  <2>2. \A i \in 1..4 : page[i] \in Nat
    BY <1>4, ElementOfSeq
  <2>3. QED
    BY <2>1, <2>2
<1>7. /\ page'[1] = page[1] + number /\ page'[2] = page[2] + number
      /\ page'[3] = page[3] + number /\ page'[4] = page[4] + Len(cache)
  BY <1>1, <1>6
<1>8. page'[1] <= page'[3] /\ page'[2] <= page'[3] /\ page'[3] \in Nat
  BY <1>4, <1>5, <1>6, <1>7
<1>9. page'[3] <= Cardinality(Among(seen \cup known' \cup blocks, Every))
  <2>1. PICK R, S : R = seen \cup blocks /\ S = seen \cup known' \cup blocks
    OBVIOUS
  <2>2. S \in SUBSET Tipset /\ R \in SUBSET S /\ R \in SUBSET Tipset /\ IsFiniteSet(S)
    <3>1. seen \in SUBSET Tipset /\ IsFiniteSet(seen)
      BY DEF CountInv
    <3>2. IsFiniteSet(seen \cup known')
      BY <1>1, <3>1, FS_Union
    <3>3. IsFiniteSet((seen \cup known') \cup blocks)
      BY <1>2, <3>2, FS_Union
    <3>4. QED
      BY <1>1, <1>2, <2>1, <3>1, <3>3
  <2>3. /\ Cardinality(Among(R, Every)) \in Nat /\ Cardinality(Among(S, Every)) \in Nat
        /\ Cardinality(Among(R, Every)) <= Cardinality(Among(S, Every))
    BY <2>2, ChoicesAre, AmongGrow
  <2>4. page'[3] <= Cardinality(Among(R, Every))
    BY <1>4, <1>7, <2>1
  <2>5. page'[3] <= Cardinality(Among(S, Every))
    BY <1>8, <2>3, <2>4
  <2>6. QED
    BY <2>1, <2>5
<1>10. page'[4] <= Cardinality(known')
  <2>1. tipsets \cap ToSet(cache) = {} /\ tipsets \cup ToSet(cache) \subseteq known'
    BY <1>1, <1>2, <1>3
  <2>2. /\ Cardinality(tipsets) \in Nat /\ Cardinality(ToSet(cache)) \in Nat
        /\ Cardinality(tipsets \cup ToSet(cache)) = Cardinality(tipsets) + Cardinality(ToSet(cache))
    BY <1>2, <2>1, SizeOfTwo
  <2>3. Cardinality(known') \in Nat
        /\ Cardinality(tipsets \cup ToSet(cache)) <= Cardinality(known')
    BY <1>1, <2>1, SizeGrows
  <2>4. QED
    BY <1>2, <1>5, <1>6, <1>7, <2>2, <2>3
<1>11. NeverOverstates'
  BY <1>1, <1>8, <1>9, <1>10 DEF NeverOverstates, HasAnswer, Among
<1>12. QED
  BY <1>1, <1>8, <1>11 DEF SumInv, HasAnswer

LEMMA SumKept ==
    ASSUME StoreInv, CallInv, CountInv, SumInv, GoesOn
    PROVE  SumInv'
<1>1. known' \in SUBSET Tipset /\ IsFiniteSet(known')
  BY KnownStays, RequestIs
<1>2. CASE \/ LookInCache \/ FindMesage_blocks \/ SearchCache \/ SearchCollection \/ SearchFront
           \/ SearchMax \/ TreeAnswer \/ PageAnswer \/ BlockTotalReward \/ ChartOfCache
           \/ ChartOfCollection \/ ChartAnswer
  <2>1. /\ step' \in {"answered", "find", "newest", "idle", "stored", "chart"} /\ req' = req
        /\ step \in {"tree", "page", "collection", "max", "newest", "reward", "chart", "stored"}
             \/ req.op \in {"look", "methods", "search"}
    BY <1>2, Continuations DEF Goes
  <2>2. req.op \notin {"confirm", "account", "base"}
    BY <2>1 DEF CallInv, PageOps
  <2>3. QED
    BY <1>1, <2>1, <2>2, SumElsewhere
<1>3. CASE Breaks
  BY <1>1, <1>3, BreaksIs, SumElsewhere
<1>4. QED
  BY <1>2, <1>3, ConfirmedKept, AccountKept, SumsKept, MesagesKept, BaseKept DEF GoesOn

-----------------------------------------------------------------------------
(* Pages. *)

LEMMA MinOfTwo ==
    ASSUME NEW a \in Int, NEW b \in Int
    PROVE  Min({a, b}) = IF a <= b THEN a ELSE b
<1>1. PICK m : m = IF a <= b THEN a ELSE b
  OBVIOUS
<1>2. m \in {a, b} /\ \A y \in {a, b} : m <= y
  BY <1>1
<1>3. PICK n : n = Min({a, b})
  OBVIOUS
<1>4. n \in {a, b} /\ \A y \in {a, b} : n <= y
  BY <1>2, <1>3 DEF Min
<1>5. m = n
  BY <1>2, <1>4
<1>6. QED
  BY <1>1, <1>3, <1>5

LEMMA SliceIs ==
    ASSUME NEW R, NEW s \in Seq(R), NEW offset \in Nat, NEW count \in Nat
    PROVE  /\ Slice(s, offset, count) \in Seq(R)
           /\ Len(Slice(s, offset, count)) =
                IF offset + count <= Len(s) THEN count
                ELSE IF offset <= Len(s) THEN Len(s) - offset ELSE 0
           /\ \A i \in 1..Len(Slice(s, offset, count)) :
                /\ offset + i \in 1..Len(s)
                /\ Slice(s, offset, count)[i] = s[offset + i]
<1>1. PICK n, p : n = Min({offset + count, Len(s)}) /\ p = Slice(s, offset, count)
  OBVIOUS
<1>2. Len(s) \in Nat
  BY LenProperties
<1>3. n = IF offset + count <= Len(s) THEN offset + count ELSE Len(s)
  <2>1. PICK a, b : a = offset + count /\ b = Len(s)
    OBVIOUS
  <2>2. a \in Int /\ b \in Int
    BY <1>2, <2>1
  <2>3. Min({a, b}) = IF a <= b THEN a ELSE b
    BY <2>2, MinOfTwo
  <2>4. QED
    BY <1>1, <2>1, <2>3
<1>4. n \in Nat /\ n <= Len(s)
  BY <1>2, <1>3
<1>5. PICK m : m = offset + 1
  OBVIOUS
<1>6. \A i \in m..n : s[i] \in R
  <2>1. \A i \in m..n : i \in 1..Len(s)
    BY <1>2, <1>4, <1>5
  <2>2. QED
    BY <2>1, ElementOfSeq
<1>7. p = SubSeq(s, m, n)
  BY <1>1, <1>5 DEF Slice
<1>8. /\ p \in Seq(R) /\ Len(p) = IF m <= n THEN n - m + 1 ELSE 0
      /\ \A i \in 1..(n - m + 1) : p[i] = s[m + i - 1]
  BY <1>4, <1>5, <1>6, <1>7, SubSeqProperties
<1>9. Len(p) = IF offset + count <= Len(s) THEN count
               ELSE IF offset <= Len(s) THEN Len(s) - offset ELSE 0
  <2>1. PICK b : b = Len(s) /\ b \in Nat
    BY <1>2
  <2>2. Len(p) = IF offset + 1 <= n THEN n - offset ELSE 0
    BY <1>4, <1>5, <1>8
  <2>3. CASE offset + count <= b
    <3>1. n = offset + count
      BY <1>3, <2>1, <2>3
    <3>2. QED
      BY <2>1, <2>2, <2>3, <3>1
  <2>4. CASE ~(offset + count <= b)
    <3>1. n = b
      BY <1>3, <2>1, <2>4
    <3>2. QED
      BY <2>1, <2>2, <2>4, <3>1
  <2>5. QED
    BY <2>3, <2>4
<1>10. ASSUME NEW i \in 1..Len(p)
       PROVE  offset + i \in 1..Len(s) /\ p[i] = s[offset + i]
  <2>1. i \in 1..(n - m + 1) /\ m + i - 1 = offset + i /\ offset + i \in 1..Len(s)
    BY <1>2, <1>4, <1>5, <1>8
  <2>2. QED
    BY <1>8, <2>1
<1>11. QED
  BY <1>1, <1>8, <1>9, <1>10

LEMMA PagesHold ==
    ASSUME StoreInv, CallInv, CountInv
    PROVE  PagesOffTheSeam
<1> SUFFICES ASSUME AsksPage,
                    \/ req.begin + req.count <= Len(Rows(req, read))
                    \/ req.op \in {"messages", "method"} /\ Len(Rows(req, read)) <= req.begin
             PROVE  PageOf(req.op, Rows(req, read), Found(req), req.begin, req.count) = Wholly(req)
  BY DEF PagesOffTheSeam
<1>1. PICK R, cached, stored, begin, count :
        /\ R = Tipset \X Nat /\ cached = Rows(req, read) /\ stored = Found(req)
        /\ begin = req.begin /\ count = req.count
  OBVIOUS
<1>2. /\ req.op \in PageOps /\ begin \in Nat /\ count \in Nat \ {0}
      /\ read \in Seq(Tipset) /\ Descends(read)
      /\ Choice(Cached(req)) /\ Choice(Stored(req))
  BY <1>1, AsksAre DEF AsksPage, CallInv, CountInv
<1>3. cached \in Seq(R)
  BY <1>1, <1>2, DescendsOnce, RowsAre DEF Rows
<1>4. stored \in Seq(R)
  BY <1>1, <1>2, RowsOfSorted DEF Found, StoreInv
<1>5. PICK total, more, all, whole :
        /\ total = Len(cached) /\ more = Len(stored) /\ all = cached \o stored
        /\ whole = Slice(all, begin, count)
  OBVIOUS
<1>6. /\ total \in Nat /\ more \in Nat /\ all \in Seq(R) /\ Len(all) = total + more
      /\ \A i \in 1..(total + more) : all[i] = IF i <= total THEN cached[i] ELSE stored[i - total]
  BY <1>3, <1>4, <1>5, LenProperties, ConcatProperties
<1>7. /\ whole \in Seq(R)
      /\ Len(whole) = IF begin + count <= total + more THEN count
                      ELSE IF begin <= total + more THEN total + more - begin ELSE 0
      /\ \A i \in 1..Len(whole) : begin + i \in 1..(total + more) /\ whole[i] = all[begin + i]
  <2>1. begin \in Nat /\ count \in Nat /\ all \in Seq(R)
    BY <1>2, <1>6
  <2>2. /\ Slice(all, begin, count) \in Seq(R)
        /\ Len(Slice(all, begin, count)) =
              IF begin + count <= Len(all) THEN count
              ELSE IF begin <= Len(all) THEN Len(all) - begin ELSE 0
        /\ \A i \in 1..Len(Slice(all, begin, count)) :
              begin + i \in 1..Len(all) /\ Slice(all, begin, count)[i] = all[begin + i]
    BY ONLY <2>1, SliceIs
  <2>3. Len(all) = total + more
    BY <1>6
  <2>4. whole = Slice(all, begin, count)
    BY <1>5
  <2>5. /\ whole \in Seq(R)
        /\ Len(whole) = IF begin + count <= Len(all) THEN count
                        ELSE IF begin <= Len(all) THEN Len(all) - begin ELSE 0
        /\ \A i \in 1..Len(whole) : begin + i \in 1..Len(all) /\ whole[i] = all[begin + i]
    BY ONLY <2>2, <2>4
  <2>6. QED
    BY <1>6, <2>1, <2>3, <2>5
<1>8. CASE begin + count <= total
  <2>1. PICK cash, d : /\ cash = Slice(cached, begin, count)
                       /\ d = Distance(begin, (IF req.op = "address" THEN total ELSE Len(cash)) + 0)
    OBVIOUS
  <2>2. /\ cash \in Seq(R) /\ Len(cash) = count
        /\ \A i \in 1..Len(cash) : begin + i \in 1..total /\ cash[i] = cached[begin + i]
    BY <1>2, <1>3, <1>5, <1>6, <1>8, <2>1, SliceIs
  <2>3. begin < total
    BY <1>2, <1>6, <1>8
  <2>4. PageOf(req.op, cached, stored, begin, count) = cash \o Slice(stored, d, count - Len(cash))
    BY <1>5, <2>1, <2>3 DEF PageOf
  <2>5. d \in Nat /\ count - Len(cash) = 0
    BY <1>2, <1>6, <2>1, <2>2 DEF Distance
  <2>6. Slice(stored, d, 0) \in Seq(R) /\ Len(Slice(stored, d, 0)) = 0
    <3>0. d \in Nat /\ 0 \in Nat
      BY <2>5
    <3>1. /\ Slice(stored, d, 0) \in Seq(R)
          /\ Len(Slice(stored, d, 0)) = IF d + 0 <= Len(stored) THEN 0
                                        ELSE IF d <= Len(stored) THEN Len(stored) - d ELSE 0
      BY <1>4, <3>0, SliceIs
    <3>2. QED
      BY <1>5, <1>6, <2>5, <3>1
  <2>7. Slice(stored, d, 0) = <<>>
    BY <2>6, EmptySeq
  <2>8. PageOf(req.op, cached, stored, begin, count) = cash
    BY <2>2, <2>4, <2>5, <2>7, ConcatEmptySeq
  <2>9. Len(whole) = count
    BY <1>2, <1>6, <1>7, <1>8
  <2>10. \A i \in 1..Len(cash) : cash[i] = whole[i]
    <3> SUFFICES ASSUME NEW i \in 1..Len(cash) PROVE cash[i] = whole[i]
      OBVIOUS
    <3>1. PICK k : k = begin + i
      OBVIOUS
    <3>2. k \in 1..total /\ cash[i] = cached[k] /\ i \in 1..Len(whole)
      BY <2>2, <2>9, <3>1
    <3>3. k \in 1..(total + more) /\ whole[i] = all[k]
      BY <1>7, <3>1, <3>2
    <3>4. all[k] = cached[k]
      BY <1>6, <3>2, <3>3
    <3>5. QED
      BY <3>2, <3>3, <3>4
  <2>11. cash = whole
    BY <1>7, <2>2, <2>9, <2>10, SeqEqual
  <2>12. QED
    BY <1>1, <1>5, <2>8, <2>11 DEF Wholly
<1>9. CASE req.op \in {"messages", "method"} /\ total <= begin
  <2>1. PICK rest, d : rest = Slice(stored, d, count) /\ d = begin - total
    OBVIOUS
  <2>2. d \in Nat /\ begin = total + d
    BY <1>2, <1>6, <1>9, <2>1
  <2>3. /\ rest \in Seq(R)
        /\ Len(rest) = IF d + count <= more THEN count ELSE IF d <= more THEN more - d ELSE 0
        /\ \A i \in 1..Len(rest) : d + i \in 1..more /\ rest[i] = stored[d + i]
    <3>1. count \in Nat
      BY <1>2
    <3>2. /\ Slice(stored, d, count) \in Seq(R)
          /\ Len(Slice(stored, d, count)) =
                IF d + count <= Len(stored) THEN count
                ELSE IF d <= Len(stored) THEN Len(stored) - d ELSE 0
          /\ \A i \in 1..Len(Slice(stored, d, count)) :
                d + i \in 1..Len(stored) /\ Slice(stored, d, count)[i] = stored[d + i]
      BY <1>4, <2>2, <3>1, SliceIs
    <3>3. QED
      BY <1>5, <2>1, <3>2
  <2>4. Len(<<>>) = 0 /\ count - 0 = count /\ ~(begin < total)
    BY <1>2, <1>6, <1>9
  <2>5. Distance(begin, 0 + total) = d
    BY <1>2, <1>6, <2>2 DEF Distance
  <2>6. PageOf(req.op, cached, stored, begin, count) =
            <<>> \o Slice(stored, Distance(begin, 0 + total), count - 0)
    BY <1>5, <1>9, <2>4 DEF PageOf
  <2>7. PageOf(req.op, cached, stored, begin, count) = rest
    BY <2>1, <2>3, <2>4, <2>5, <2>6, ConcatEmptySeq
  <2>8. Len(whole) = Len(rest)
    BY <1>2, <1>6, <1>7, <2>2, <2>3
  <2>9. \A i \in 1..Len(rest) : rest[i] = whole[i]
    <3> SUFFICES ASSUME NEW i \in 1..Len(rest) PROVE rest[i] = whole[i]
      OBVIOUS
    <3>1. PICK k, j : k = begin + i /\ j = d + i
      OBVIOUS
    <3>2. j \in 1..more /\ rest[i] = stored[j] /\ k = total + j
      BY <1>6, <2>2, <2>3, <3>1
    <3>3. k \in 1..(total + more) /\ whole[i] = all[k]
      BY <1>7, <2>8, <3>1
    <3>4. all[k] = stored[j]
      <4>1. ~(k <= total) /\ k - total = j
        BY <1>6, <3>2
      <4>2. QED
        BY <1>6, <3>3, <4>1
    <3>5. QED
      BY <3>2, <3>3, <3>4
  <2>10. rest = whole
    BY <1>7, <2>3, <2>8, <2>9, SeqEqual
  <2>11. QED
    BY <1>1, <1>5, <2>7, <2>10 DEF Wholly
<1>10. QED
  BY <1>1, <1>5, <1>8, <1>9

-----------------------------------------------------------------------------
(* The theorems. *)

IInv == StoreInv /\ CallInv /\ FoundInv /\ CacheInv /\ SumInv

LEMMA InvariantStarts == Init => IInv
BY StoreStarts, CallStarts, FoundStarts, CacheStarts, SumStarts DEF IInv

LEMMA InvariantKept == IInv /\ [Next]_vars => IInv'
<1> SUFFICES ASSUME IInv, [Next]_vars PROVE IInv'
  OBVIOUS
<1>1. StoreInv /\ CallInv /\ FoundInv /\ CacheInv /\ SumInv /\ CountInv
  BY DEF IInv, CacheInv
<1>2. CASE Writers
  <2>1. StoreInv'
    BY <1>1, <1>2, WriterStep DEF Writing
  <2>2. QED
    BY <1>1, <1>2, <2>1, CallHeld, FoundHeld, CacheHeld, SumHeld DEF IInv
<1>3. CASE Reads \/ Queries
  <2>1. StoreInv' /\ CallInv'
    BY <1>1, <1>3, RequestsRead, StoreKept, CallKept
  <2>2. CASE Arrives
    BY <1>1, <2>1, <2>2, FoundArrives, CacheArrives, SumArrives DEF IInv
  <2>3. CASE GoesOn
    BY <1>1, <2>1, <2>3, FoundKept, CacheKept, SumKept DEF IInv
  <2>4. QED
    BY <1>3, <2>2, <2>3, RequestIs
<1>4. CASE UNCHANGED vars
  <2>1. /\ UNCHANGED <<cache, writing, blocks, tipsets>>
        /\ UNCHANGED <<req, step, read, number, answer, page, seen, stayed, known>>
    BY <1>4 DEF vars, store
  <2>2. StoreInv' /\ CallInv'
    BY <1>1, <2>1 DEF StoreInv, Descends, CallInv, InSome
  <2>3. FoundInv'
    BY <1>1, <2>1 DEF FoundInv, FoundUnlessMoved, HasAnswer
  <2>4. CacheInv'
    <3>1. /\ (CachedIn(seen, Len(page)))' = CachedIn(seen, Len(page))
          /\ (CachedIn(seen \ tipsets, Len(page) + 1))' = CachedIn(seen \ tipsets, Len(page) + 1)
      BY <2>1, WindowsStay
    <3>2. TreeInv' /\ CountInv' /\ ChartInv'
      BY <1>1, <2>1, <3>1 DEF CacheInv, TreeInv, TreeOfCollection, Start, CountInv, Descends, Among,
                              ChartInv
    <3>3. CacheFirstMissesNothing'
      BY <1>1, <2>1, <3>1 DEF CacheInv, CacheFirstMissesNothing, HasAnswer, Start
    <3>4. QED
      BY <3>2, <3>3 DEF CacheInv
  <2>5. SumInv'
    BY <1>1, <2>1 DEF SumInv, AtLeast, Among, NeverOverstates, HasAnswer
  <2>6. QED
    BY <2>2, <2>3, <2>4, <2>5 DEF IInv
<1>5. QED
  BY <1>2, <1>3, <1>4 DEF Next

THEOREM AlwaysInvariant == Spec => []IInv
<1>1. Init => IInv
  BY InvariantStarts
<1>2. IInv /\ [Next]_vars => IInv'
  BY InvariantKept
<1>3. QED
  BY <1>1, <1>2, PTL DEF Spec

(* The cache lies above everything that is stored or on its way there, in  *)
(* falling heights, and the goroutines store below and above each other:   *)
(* TipsetCache and the collections of models/, while run_syncer and        *)
(* sync_to_genesis write.                                                  *)
THEOREM StoreInOrder == Spec => []StoreInv
<1>1. IInv => StoreInv
  BY DEF IInv
<1>2. QED
  BY <1>1, AlwaysInvariant, PTL

(* For every chain, cache and request: TipSetTree, the totals of a page, a *)
(* miner's reward and the charts, which read the cache first, miss nothing *)
(* that was cached or stored then, when no query fails or the handler says *)
(* that one did.                                                           *)
THEOREM NothingIsMissed == Spec => []CacheFirstMissesNothing
<1>1. IInv => CacheFirstMissesNothing
  BY DEF IInv, CacheInv
<1>2. QED
  BY <1>1, AlwaysInvariant, PTL

(* BlockByCid, BlockByHeight, MessageDetails, SearchIndex and              *)
(* MessagesMethods, which read a collection first, find what stays where   *)
(* it is, wherever the documents of shared messages point to.              *)
THEOREM WhatStaysIsFound == Spec => []FoundUnlessMoved
<1>1. IInv => FoundUnlessMoved
  BY DEF IInv, FoundInv
<1>2. QED
  BY <1>1, AlwaysInvariant, PTL

(* BlockConfirmCount, AccountList and BaseInformation count no tipset and  *)
(* no message of a block twice.                                            *)
THEOREM NothingIsOverstated == Spec => []NeverOverstates
<1>1. IInv => NeverOverstates
  BY DEF IInv, SumInv
<1>2. QED
  BY <1>1, AlwaysInvariant, PTL

(* A page that lies within the cached rows, or with BlockMessages behind   *)
(* them, is the rows asked for.                                            *)
THEOREM PagesAreWhole == Spec => []PagesOffTheSeam
<1>1. IInv => PagesOffTheSeam
  BY PagesHold DEF IInv, CacheInv
<1>2. QED
  BY <1>1, AlwaysInvariant, PTL
=============================================================================
