----------------------- MODULE StoredDocuments_proofs -----------------------
(***************************************************************************)
(* Proofs about StoredDocuments and, in the first sections, about          *)
(* MinerPipeline alone: for any tipsets, blocks, messages and lists, any   *)
(* number of miners, any size of the bulks, the buffer and the channel,    *)
(* any number of puts and goroutines, and any number of failures.          *)
(***************************************************************************)
EXTENDS StoredDocuments, FiniteSetTheorems, SequenceTheorems,
        WellFoundedInduction, TLAPS

-----------------------------------------------------------------------------
(* Facts about sequences and numbers. *)

(* A function over 1..n is a sequence. *)
LEMMA IntervalSeq ==
    ASSUME NEW S, NEW n \in Nat, NEW f \in [1..n -> S]
    PROVE  f \in Seq(S)
BY SeqDef

(* A set of numbers that is not empty has a least one.                     *)
LEMMA FirstOfNats ==
    ASSUME NEW S \in SUBSET Nat, S # {}
    PROVE  \E i \in S : \A j \in S : i <= j
<1>1. PICK i \in S : \A j \in S : <<j, i>> \notin OpToRel(<, Nat)
  BY NatLessThanWellFounded, WFMin
<1>2. \A j \in S : i \in Nat /\ j \in Nat /\ ~(j < i)
  BY <1>1 DEF OpToRel
<1>3. \A j \in S : i <= j
  BY <1>2
<1>4. QED
  BY <1>3

(* FlattenSeq.  Its value is the last of the sequences joined so far; that *)
(* there are such sequences is shown by extending them one by one.         *)
Joins(f, seqs, k) ==
    f = [i \in 1..k |-> IF i = 1 THEN seqs[i] ELSE f[i - 1] \o seqs[i]]

LEMMA JoinsExist ==
    ASSUME NEW seqs, NEW n \in Nat
    PROVE  \E f : Joins(f, seqs, n)
<1> DEFINE Bad == {k \in Nat : ~\E f : Joins(f, seqs, k)}
<1> SUFFICES ASSUME Bad # {} PROVE FALSE
  OBVIOUS
<1>1. PICK k \in Bad : \A j \in Bad : k <= j
  <2>1. Bad \in SUBSET Nat
    OBVIOUS
  <2> HIDE DEF Bad
  <2>2. QED
    BY <2>1, FirstOfNats
<1>2. CASE k = 0
  <2>1. Joins([i \in {} |-> 0], seqs, 0)
    BY DEF Joins
  <2>2. QED
    BY <1>2, <2>1
<1>3. CASE k # 0
  <2>1. k - 1 \in Nat /\ k - 1 \notin Bad /\ k \in Nat
    BY <1>1, <1>3
  <2>2. PICK f : Joins(f, seqs, k - 1)
    BY <2>1
  <2> DEFINE g == [i \in 1..k |-> IF i < k THEN f[i]
                                  ELSE IF k = 1 THEN seqs[k] ELSE f[k - 1] \o seqs[k]]
  <2>3. \A i \in 1..(k - 1) : g[i] = f[i]
    BY <2>1
  <2>4. g[k] = IF k = 1 THEN seqs[k] ELSE f[k - 1] \o seqs[k]
    BY <1>3, <2>1
  <2>5. \A i \in 1..k : g[i] = IF i = 1 THEN seqs[i] ELSE g[i - 1] \o seqs[i]
    <3> SUFFICES ASSUME NEW i \in 1..k
                 PROVE  g[i] = IF i = 1 THEN seqs[i] ELSE g[i - 1] \o seqs[i]
      OBVIOUS
    <3>1. CASE i = k
      <4>1. k # 1 => g[k - 1] = f[k - 1]
        BY <1>3, <2>1, <2>3
      <4> HIDE DEF g
      <4>2. QED
        BY <2>4, <3>1, <4>1
    <3>2. CASE i # k
      <4>1. i \in 1..(k - 1)
        BY <2>1, <3>2
      <4>2. f[i] = IF i = 1 THEN seqs[i] ELSE f[i - 1] \o seqs[i]
        BY <2>2, <4>1 DEF Joins
      <4>3. i # 1 => g[i - 1] = f[i - 1]
        BY <2>3, <4>1
      <4>4. g[i] = f[i]
        BY <2>3, <4>1
      <4> HIDE DEF g
      <4>5. QED
        BY <4>2, <4>3, <4>4
    <3>3. QED
      BY <3>1, <3>2
  <2>6. g = [i \in 1..k |-> IF i = 1 THEN seqs[i] ELSE g[i - 1] \o seqs[i]]
    <3>1. g = [i \in 1..k |-> g[i]]
      OBVIOUS
    <3> HIDE DEF g
    <3>2. QED
      BY <2>5, <3>1
  <2> HIDE DEF g
  <2>7. QED
    BY <1>1, <2>6 DEF Joins
<1>4. QED
  BY <1>2, <1>3

LEMMA FlattenUnfolds ==
    ASSUME NEW seqs, Len(seqs) \in Nat \ {0}
    PROVE  \E f : Joins(f, seqs, Len(seqs)) /\ FlattenSeq(seqs) = f[Len(seqs)]
<1> DEFINE f == CHOOSE g : Joins(g, seqs, Len(seqs))
<1>1. Joins(f, seqs, Len(seqs))
  BY JoinsExist
<1>2. FlattenSeq(seqs) = f[Len(seqs)]
  BY DEF FlattenSeq, Joins
<1> HIDE DEF f
<1>3. QED
  BY <1>1, <1>2

LEMMA ToSetIs ==
    ASSUME NEW S, NEW s \in Seq(S)
    PROVE  ToSet(s) = {s[i] : i \in 1..Len(s)} /\ ToSet(s) \subseteq S
<1>1. DOMAIN s = 1..Len(s)
  BY LenProperties
<1>2. QED
  BY <1>1, ElementOfSeq DEF ToSet

LEMMA ConcatToSet ==
    ASSUME NEW S, NEW s \in Seq(S), NEW t \in Seq(S)
    PROVE  s \o t \in Seq(S) /\ ToSet(s \o t) = ToSet(s) \cup ToSet(t)
<1> DEFINE u == s \o t
<1>1. /\ u \in Seq(S) /\ Len(u) = Len(s) + Len(t)
      /\ \A i \in 1..(Len(s) + Len(t)) : u[i] = IF i <= Len(s) THEN s[i] ELSE t[i - Len(s)]
  BY ConcatProperties
<1> HIDE DEF u
<1>2. Len(s) \in Nat /\ Len(t) \in Nat
  BY LenProperties
<1>3. /\ ToSet(s) = {s[i] : i \in 1..Len(s)} /\ ToSet(t) = {t[i] : i \in 1..Len(t)}
      /\ ToSet(u) = {u[i] : i \in 1..Len(u)}
  BY <1>1, ToSetIs
<1>4. ToSet(u) \subseteq ToSet(s) \cup ToSet(t)
  <2> SUFFICES ASSUME NEW i \in 1..Len(u) PROVE u[i] \in ToSet(s) \cup ToSet(t)
    BY <1>3
  <2>1. CASE i <= Len(s)
    BY <1>1, <1>2, <1>3, <2>1
  <2>2. CASE ~(i <= Len(s))
    <3>1. i - Len(s) \in 1..Len(t) /\ u[i] = t[i - Len(s)]
      BY <1>1, <1>2, <2>2
    <3>2. QED
      BY <1>3, <3>1
  <2>3. QED
    BY <2>1, <2>2
<1>5. ToSet(s) \subseteq ToSet(u)
  <2> SUFFICES ASSUME NEW i \in 1..Len(s) PROVE s[i] \in ToSet(u)
    BY <1>3
  <2>1. i \in 1..Len(u) /\ u[i] = s[i]
    BY <1>1, <1>2
  <2>2. QED
    BY <1>3, <2>1
<1>6. ToSet(t) \subseteq ToSet(u)
  <2> SUFFICES ASSUME NEW i \in 1..Len(t) PROVE t[i] \in ToSet(u)
    BY <1>3
  <2>1. i + Len(s) \in 1..Len(u) /\ u[i + Len(s)] = t[i]
    <3>1. PICK j : j = i + Len(s)
      OBVIOUS
    <3>2. /\ j \in 1..(Len(s) + Len(t)) /\ ~(j <= Len(s)) /\ j - Len(s) = i
      BY <1>2, <3>1
    <3>3. u[j] = IF j <= Len(s) THEN s[j] ELSE t[j - Len(s)]
      BY <1>1, <3>2
    <3>4. QED
      BY <1>1, <3>1, <3>2, <3>3
  <2>2. QED
    BY <1>3, <2>1
<1>7. QED
  BY <1>1, <1>4, <1>5, <1>6 DEF u

(* The elements of the first k sequences. *)
Within(seqs, k) == UNION {ToSet(seqs[i]) : i \in 1..k}

(* What was joined up to i has the elements of the first i sequences.      *)
LEMMA JoinsToSet ==
    ASSUME NEW S, NEW seqs \in Seq(Seq(S)), NEW f, Joins(f, seqs, Len(seqs)),
           NEW k \in 1..Len(seqs)
    PROVE  f[k] \in Seq(S) /\ ToSet(f[k]) = Within(seqs, k)
<1> DEFINE Good(i) == f[i] \in Seq(S) /\ ToSet(f[i]) = Within(seqs, i)
           Bad == {i \in 1..Len(seqs) : ~Good(i)}
<1>0. Len(seqs) \in Nat /\ \A i \in 1..Len(seqs) : seqs[i] \in Seq(S)
  BY LenProperties, ElementOfSeq
<1> SUFFICES ASSUME Bad # {} PROVE FALSE
  OBVIOUS
<1>1. PICK i \in Bad : \A j \in Bad : i <= j
  <2>1. Bad \in SUBSET Nat
    BY <1>0
  <2> HIDE DEF Bad
  <2>2. QED
    BY <2>1, FirstOfNats
<1>2. i \in 1..Len(seqs) /\ f[i] = IF i = 1 THEN seqs[i] ELSE f[i - 1] \o seqs[i]
  BY <1>1 DEF Joins
<1>3. CASE i = 1
  <2>1. Within(seqs, i) = ToSet(seqs[1])
    BY <1>3 DEF Within
  <2>2. Good(i)
    BY <1>0, <1>2, <1>3, <2>1
  <2> HIDE DEF Good
  <2>3. QED
    BY <1>1, <2>2
<1>4. CASE i # 1
  <2>1. i - 1 \in 1..Len(seqs) /\ i - 1 \notin Bad
    <3>1. i - 1 \in 1..Len(seqs) /\ ~(i <= i - 1)
      BY <1>0, <1>2, <1>4
    <3> HIDE DEF Bad
    <3>2. QED
      BY <1>1, <3>1
  <2>2. Good(i - 1)
    BY <2>1
  <2>3. f[i] \in Seq(S) /\ ToSet(f[i]) = ToSet(f[i - 1]) \cup ToSet(seqs[i])
    <3>1. f[i] = f[i - 1] \o seqs[i] /\ seqs[i] \in Seq(S)
      BY <1>0, <1>2, <1>4
    <3>2. QED
      BY <2>2, <3>1, ConcatToSet
  <2>4. Within(seqs, i) = Within(seqs, i - 1) \cup ToSet(seqs[i])
    <3>1. 1..i = 1..(i - 1) \cup {i}
      <4>1. i \in Nat /\ 1 <= i
        BY <1>0, <1>2
      <4>2. \A j \in Nat : j \in 1..i <=> j \in 1..(i - 1) \/ j = i
        BY <4>1
      <4>3. QED
        BY <4>1, <4>2
    <3>2. QED
      BY <3>1 DEF Within
  <2>5. Good(i)
    BY <2>2, <2>3, <2>4
  <2> HIDE DEF Good
  <2>6. QED
    BY <1>1, <2>5
<1>5. QED
  BY <1>3, <1>4

(* The elements of the joined sequence are those of the sequences. *)
LEMMA FlattenToSet ==
    ASSUME NEW S, NEW seqs \in Seq(Seq(S))
    PROVE  /\ FlattenSeq(seqs) \in Seq(S)
           /\ ToSet(FlattenSeq(seqs)) = Within(seqs, Len(seqs))
<1>0. Len(seqs) \in Nat
  BY LenProperties
<1>1. CASE Len(seqs) = 0
  <2>1. seqs = <<>> /\ FlattenSeq(seqs) = <<>>
    BY <1>1, EmptySeq DEF FlattenSeq
  <2>2. <<>> \in Seq(S) /\ Len(<<>>) = 0 /\ DOMAIN <<>> = {}
    BY EmptySeq
  <2>3. ToSet(<<>>) = {}
    BY <2>2 DEF ToSet
  <2>4. Within(seqs, Len(seqs)) = {}
    BY <1>1 DEF Within
  <2>5. QED
    BY <2>1, <2>2, <2>3, <2>4
<1>2. CASE Len(seqs) # 0
  <2>1. PICK f : Joins(f, seqs, Len(seqs)) /\ FlattenSeq(seqs) = f[Len(seqs)]
    BY <1>0, <1>2, FlattenUnfolds
  <2>2. Len(seqs) \in 1..Len(seqs)
    BY <1>0, <1>2
  <2>3. f[Len(seqs)] \in Seq(S) /\ ToSet(f[Len(seqs)]) = Within(seqs, Len(seqs))
    BY <2>1, <2>2, JoinsToSet
  <2>4. QED
    BY <2>1, <2>3
<1>3. QED
  BY <1>1, <1>2

(* What SelectLastInSeq returns when it finds something. *)
LEMMA LastOfNats ==
    ASSUME NEW n \in Nat, NEW S \in SUBSET (1..n), S # {}
    PROVE  Max(S) \in S /\ \A j \in S : Max(S) >= j
<1> DEFINE Back == {n - i : i \in S}
<1>1. Back \in SUBSET Nat /\ Back # {}
  <2>1. ASSUME NEW i \in S PROVE n - i \in Nat
    <3>1. i \in Nat /\ i <= n
      OBVIOUS
    <3>2. QED
      BY <3>1
  <2>2. QED
    BY <2>1
<1>2. PICK k \in Back : \A j \in Back : k <= j
  <2> HIDE DEF Back
  <2>1. QED
    BY <1>1, FirstOfNats
<1>3. PICK i \in S : k = n - i
  BY <1>2
<1>4. \A j \in S : i >= j
  <2> SUFFICES ASSUME NEW j \in S PROVE i >= j
    OBVIOUS
  <2>1. n - j \in Back
    OBVIOUS
  <2>2. n - i <= n - j
    <3> HIDE DEF Back
    <3>1. QED
      BY <1>2, <1>3, <2>1
  <2>3. QED
    BY <2>2
<1>5. QED
  BY <1>4 DEF Max

(* A sequence is what comes first and the rest. *)
LEMMA FirstAndRest ==
    ASSUME NEW S, NEW s \in Seq(S), NEW n \in 0..Len(s)
    PROVE  /\ SubSeq(s, 1, n) \in Seq(S) /\ ToSet(SubSeq(s, 1, n)) = {s[i] : i \in 1..n}
           /\ SubSeq(s, n + 1, Len(s)) \in Seq(S)
           /\ ToSet(s) = ToSet(SubSeq(s, 1, n)) \cup ToSet(SubSeq(s, n + 1, Len(s)))
<1> DEFINE a == SubSeq(s, 1, n)
           z == SubSeq(s, n + 1, Len(s))
<1>0. Len(s) \in Nat /\ n \in Nat /\ n <= Len(s) /\ \A i \in 1..Len(s) : s[i] \in S
  BY LenProperties, ElementOfSeq
<1>1. /\ a \in Seq(S) /\ Len(a) = n /\ \A i \in 1..n : a[i] = s[i]
  <2>1. \A i \in 1..n : s[i] \in S
    BY <1>0
  <2>2. /\ a \in Seq(S) /\ Len(a) = (IF 1 <= n THEN n - 1 + 1 ELSE 0)
        /\ \A i \in 1..(n - 1 + 1) : a[i] = s[1 + i - 1]
    BY <1>0, <2>1, SubSeqProperties
  <2> HIDE DEF a
  <2>3. QED
    BY <1>0, <2>2
<1>2. /\ z \in Seq(S) /\ Len(z) = Len(s) - n /\ \A i \in 1..(Len(s) - n) : z[i] = s[n + i]
  <2>1. \A i \in (n + 1)..Len(s) : s[i] \in S
    BY <1>0
  <2>2. /\ z \in Seq(S)
        /\ Len(z) = (IF n + 1 <= Len(s) THEN Len(s) - (n + 1) + 1 ELSE 0)
        /\ \A i \in 1..(Len(s) - (n + 1) + 1) : z[i] = s[n + 1 + i - 1]
    BY <1>0, <2>1, SubSeqProperties
  <2> HIDE DEF z
  <2>3. Len(z) = Len(s) - n
    BY <1>0, <2>2
  <2>4. ASSUME NEW i \in 1..(Len(s) - n) PROVE z[i] = s[n + i]
    <3>1. i \in 1..(Len(s) - (n + 1) + 1) /\ n + 1 + i - 1 = n + i
      BY <1>0
    <3>2. QED
      BY <2>2, <3>1
  <2>5. QED
    BY <2>2, <2>3, <2>4
<1> HIDE DEF a, z
<1>3. /\ ToSet(a) = {a[i] : i \in 1..n} /\ ToSet(z) = {z[i] : i \in 1..(Len(s) - n)}
      /\ ToSet(s) = {s[i] : i \in 1..Len(s)}
  BY <1>1, <1>2, ToSetIs
<1>4. ToSet(a) = {s[i] : i \in 1..n}
  BY <1>1, <1>3
<1>5. ToSet(z) = {s[i] : i \in (n + 1)..Len(s)}
  <2>1. ASSUME NEW i \in 1..(Len(s) - n) PROVE \E j \in (n + 1)..Len(s) : z[i] = s[j]
    <3>1. n + i \in (n + 1)..Len(s) /\ z[i] = s[n + i]
      BY <1>0, <1>2
    <3>2. QED
      BY <3>1
  <2>2. ASSUME NEW j \in (n + 1)..Len(s) PROVE \E i \in 1..(Len(s) - n) : z[i] = s[j]
    <3>1. j - n \in 1..(Len(s) - n) /\ z[j - n] = s[n + (j - n)] /\ n + (j - n) = j
      BY <1>0, <1>2
    <3>2. QED
      BY <3>1
  <2>3. ToSet(z) \subseteq {s[i] : i \in (n + 1)..Len(s)}
    BY <1>3, <2>1
  <2>4. {s[i] : i \in (n + 1)..Len(s)} \subseteq ToSet(z)
    BY <1>3, <2>2
  <2>5. QED
    BY <2>3, <2>4
<1>6. 1..Len(s) = 1..n \cup (n + 1)..Len(s)
  BY <1>0
<1>7. ToSet(s) = ToSet(a) \cup ToSet(z)
  BY <1>3, <1>4, <1>5, <1>6
<1>8. QED
  BY <1>1, <1>2, <1>4, <1>7 DEF a, z

LEMMA HeadAndTail ==
    ASSUME NEW S, NEW s \in Seq(S), s # <<>>
    PROVE  s[1] \in S /\ Tail(s) \in Seq(S) /\ ToSet(s) = {s[1]} \cup ToSet(Tail(s))
<1>1. Len(s) \in Nat /\ Len(s) # 0
  BY LenProperties, EmptySeq
<1>2. 1 \in 0..Len(s) /\ 1 \in 1..Len(s)
  BY <1>1
<1>3. /\ ToSet(SubSeq(s, 1, 1)) = {s[i] : i \in 1..1}
      /\ ToSet(s) = ToSet(SubSeq(s, 1, 1)) \cup ToSet(SubSeq(s, 1 + 1, Len(s)))
  BY <1>2, FirstAndRest
<1>4. {s[i] : i \in 1..1} = {s[1]}
  OBVIOUS
<1>5. Tail(s) = SubSeq(s, 1 + 1, Len(s)) /\ Tail(s) \in Seq(S)
  BY TailIsSubSeq, HeadTailProperties
<1>6. QED
  BY <1>2, <1>3, <1>4, <1>5, ElementOfSeq

(* What SelectInSeq returns when it finds something. *)
LEMMA FirstIsLeast ==
    ASSUME NEW S \in SUBSET Nat, S # {}
    PROVE  Min(S) \in S /\ \A j \in S : Min(S) <= j
BY FirstOfNats DEF Min


USE DEF Elements

(* What appending adds to the elements of a sequence. *)
LEMMA AppendElements ==
    ASSUME NEW S, NEW seq \in Seq(S), NEW x \in S
    PROVE  /\ Append(seq, x) \in Seq(S)
           /\ Elements(Append(seq, x)) = Elements(seq) \cup {x}
<1>1. Append(seq, x) \in Seq(S) /\ Len(Append(seq, x)) = Len(seq) + 1
  BY AppendProperties
<1>2. Len(seq) \in Nat
  BY LenProperties
<1>3. \A i \in 1..Len(seq) : Append(seq, x)[i] = seq[i]
  BY AppendProperties
<1>4. Append(seq, x)[Len(seq) + 1] = x
  BY AppendProperties
<1> QED
  BY <1>1, <1>2, <1>3, <1>4

(* A sequence has the elements of its tail and its head. *)
LEMMA TailElements ==
    ASSUME NEW S, NEW seq \in Seq(S), seq # <<>>
    PROVE  /\ Tail(seq) \in Seq(S) /\ Head(seq) \in S
           /\ Elements(seq) = Elements(Tail(seq)) \cup {Head(seq)}
<1>1. /\ Tail(seq) \in Seq(S) /\ Head(seq) \in S /\ Head(seq) = seq[1]
      /\ Len(Tail(seq)) = Len(seq) - 1
      /\ \A i \in 1..Len(Tail(seq)) : Tail(seq)[i] = seq[i + 1]
  BY HeadTailProperties
<1>2. Len(seq) \in Nat /\ Len(seq) # 0
  BY LenProperties, EmptySeq
<1>3. \A i \in 1..Len(seq) : i = 1 \/ ((i - 1) \in 1..Len(Tail(seq)) /\ seq[i] = Tail(seq)[i - 1])
  BY <1>1, <1>2
<1>4. \A i \in 1..Len(Tail(seq)) : (i + 1) \in 1..Len(seq)
  BY <1>1, <1>2
<1>5. Elements(seq) \subseteq Elements(Tail(seq)) \cup {Head(seq)}
  BY <1>1, <1>3
<1>6. Elements(Tail(seq)) \cup {Head(seq)} \subseteq Elements(seq)
  BY <1>1, <1>2, <1>4
<1> QED
  BY <1>1, <1>5, <1>6

LEMMA ElementsIn ==
    ASSUME NEW S, NEW seq \in Seq(S)
    PROVE  Elements(seq) \subseteq S
  BY ElementOfSeq

USE DEF TypeOK, Init, Receive, ListGenesis, Handle, SendState, EndOfBatch, Tick,
        Refresh, Batch

(* What do_upsert_miners and models_update_miner do to the buffer.         *)
LEMMA UpsertStep ==
    ASSUME TypeOK, do_upsert_miners
    PROVE  /\ buffer' \in Seq(State) /\ stored' \subseteq State /\ fails' \in Nat
           /\ fails' >= fails
           /\ stored \subseteq stored'
           /\ stored' \cup Elements(buffer') \subseteq stored \cup Elements(buffer)
           /\ Len(buffer') <= Len(buffer)
           /\ stored \cup Elements(buffer) \subseteq stored' \cup Elements(buffer')
<1>0. Elements(buffer) \subseteq State
  BY ElementsIn
<1>1. Len(buffer) \in Nat
  BY LenProperties
<1>2. <<>> \in Seq(State) /\ Len(<<>>) = 0
  BY EmptySeq
<1>3. Elements(<<>>) = {}
  BY <1>2
<1>4. CASE buffer = <<>> /\ UNCHANGED <<buffer, stored, fails>>
  BY <1>0, <1>1, <1>4
<1>5. CASE WriteFull /\ buffer' = <<>>
  BY <1>0, <1>1, <1>2, <1>3, <1>5 DEF WriteFull
<1>6. CASE UpsertError /\ UNCHANGED buffer
  BY <1>0, <1>1, <1>6 DEF UpsertError, Fail
<1> QED
  BY <1>4, <1>5, <1>6 DEF do_upsert_miners

LEMMA UpdateStep ==
    ASSUME TypeOK, NEW m \in State, models_update_miner(m), Len(buffer) <= BufferSize
    PROVE  /\ buffer' \in Seq(State) /\ stored' \subseteq State /\ fails' \in Nat
           /\ fails' >= fails
           /\ stored' \cup Elements(buffer') \subseteq stored \cup Elements(buffer) \cup {m}
           /\ Len(buffer') <= BufferSize
           /\ stored \cup Elements(buffer) \subseteq stored' \cup Elements(buffer')
           /\ m \in stored' \cup Elements(buffer') \/ fails' = fails + 1
<1>0. Elements(buffer) \subseteq State
  BY ElementsIn
<1>1. Len(buffer) \in Nat /\ BufferSize \in Nat \ {0}
  BY LenProperties, PipelineAssumption
<1>2. CASE ~IsFull /\ buffer' = Append(buffer, m) /\ UNCHANGED <<stored, fails>>
  <2>0. buffer \in Seq(State)
    OBVIOUS
  <2>1. buffer' \in Seq(State) /\ Elements(buffer') = Elements(buffer) \cup {m}
    BY <1>2, <2>0, AppendElements
  <2>2. Len(buffer') = Len(buffer) + 1
    BY <1>2, AppendProperties
  <2>3. Len(buffer') <= BufferSize
    BY <1>1, <1>2, <2>2 DEF IsFull
  <2>4. stored' = stored /\ fails' = fails
    BY <1>2
  <2> HIDE DEF Elements
  <2> QED
    BY <1>0, <2>1, <2>3, <2>4
<1>3. CASE WriteFull /\ buffer' = <<m>>
  <2>1. <<m>> \in Seq(State) /\ Len(<<m>>) = 1 /\ <<m>>[1] = m
    OBVIOUS
  <2>2. Elements(buffer') = {m}
    BY <1>3, <2>1
  <2> QED
    BY <1>0, <1>1, <1>3, <2>1, <2>2 DEF WriteFull
<1>4. CASE IsFull /\ UpsertError /\ UNCHANGED buffer
  <2>1. fails' = fails + 1 /\ UNCHANGED stored
    BY <1>4 DEF UpsertError, Fail
  <2> QED
    BY <1>0, <1>1, <1>4, <2>1
<1> QED
  BY <1>2, <1>3, <1>4 DEF models_update_miner

(* The inductive invariant: the handler holds a state exactly while it     *)
(* waits for the channel, so what it puts into the buffer is the state it  *)
(* sends next.                                                             *)
HoldsToSend == hpc = "send" <=> miner \in State

PipelineInv == TypeOK /\ HoldsToSend /\ BufferInRange /\ StoredIsCached

LEMMA InitInv == Init => PipelineInv
<1> SUFFICES ASSUME Init PROVE PipelineInv
  OBVIOUS
<1>1. <<>> \in Seq(State) /\ Len(<<>>) = 0
  BY EmptySeq
<1>2. Elements(<<>>) = {}
  BY <1>1
<1>3. TypeOK /\ HoldsToSend
  BY <1>1, PipelineAssumption DEF HoldsToSend
<1>4. BufferInRange
  BY <1>1, PipelineAssumption DEF BufferInRange
<1>5. StoredIsCached
  BY <1>2 DEF StoredIsCached
<1> QED
  BY <1>3, <1>4, <1>5 DEF PipelineInv

(* Every action keeps it. *)
LEMMA NextInv == PipelineInv /\ [Next]_vars => PipelineInv'
<1> SUFFICES ASSUME PipelineInv, [Next]_vars PROVE PipelineInv'
  OBVIOUS
<1> USE DEF PipelineInv, HoldsToSend, BufferInRange, StoredIsCached
<1>0. NoState \notin State
  BY PipelineAssumption
<1>1. ASSUME NEW s \in Sender, Receive(s) PROVE PipelineInv'
  <2>1. todo[s] \in Seq(Batch)
    OBVIOUS
  <2>2. Head(todo[s]) \in Batch /\ Tail(todo[s]) \in Seq(Batch)
    BY <1>1, <2>1, HeadTailProperties
  <2>3. todo' \in [Sender -> Seq(Batch)]
    BY <1>1, <2>2
  <2>4. ASSUME NEW b \in Batch, b # NilBatch PROVE b \subseteq State
    BY <2>4 DEF Batch
  <2>5. hand' \subseteq State /\ isNil' \in BOOLEAN /\ hpc' \in {"genesis", "range"}
    <3>1. CASE Head(todo[s]) = NilBatch
      BY <1>1, <3>1
    <3>2. CASE Head(todo[s]) # NilBatch
      BY <1>1, <2>2, <2>4, <3>2
    <3> QED
      BY <3>1, <3>2
  <2>6. UNCHANGED <<miner, buffer, stored, chan, cached, asked, fails, ticks>>
    BY <1>1
  <2>7. TypeOK' /\ HoldsToSend'
    BY <1>1, <2>3, <2>5, <2>6
  <2>8. BufferInRange'
    BY <2>6
  <2>9. Elements(buffer') = Elements(buffer) /\ Elements(chan') = Elements(chan)
    BY <2>6
  <2> HIDE DEF Elements
  <2>10. StoredIsCached'
    BY <2>6, <2>9
  <2> QED
    BY <2>7, <2>8, <2>10
<1>2. CASE ListGenesis
  BY <1>2, PipelineAssumption DEF Fail
<1>3. ASSUME NEW m \in State, Handle(m) PROVE PipelineInv'
  <2>1. CASE models_update_miner(m) /\ miner' = m /\ hpc' = "send"
    <3>1. /\ buffer' \in Seq(State) /\ stored' \subseteq State /\ fails' \in Nat
          /\ stored' \cup Elements(buffer') \subseteq stored \cup Elements(buffer) \cup {m}
          /\ Len(buffer') <= BufferSize
      BY <2>1, UpdateStep
    <3>2. miner = NoState
      BY <1>0, <1>3
    <3>3. stored \cup Elements(buffer) \subseteq State
      BY ElementsIn
    <3>4. TypeOK' /\ HoldsToSend' /\ BufferInRange'
      BY <1>3, <2>1, <3>1
    <3>5. stored \cup Elements(buffer) \subseteq cached \cup Elements(chan)
      BY <1>0, <3>2, <3>3
    <3>6. cached' = cached /\ Elements(chan') = Elements(chan)
      BY <1>3
    <3> HIDE DEF Elements
    <3>7. StoredIsCached'
      BY <2>1, <3>1, <3>5, <3>6
    <3> QED
      BY <3>4, <3>7
  <2>2. CASE Fail /\ UNCHANGED <<buffer, stored, miner, hpc>>
    BY <1>3, <2>2 DEF Fail
  <2> QED
    BY <1>3, <2>1, <2>2
<1>4. CASE SendState
  <2>1. miner \in State
    BY <1>4
  <2>2. chan' \in Seq(State) /\ Elements(chan') = Elements(chan) \cup {miner}
    BY <1>4, <2>1, AppendElements
  <2>3. TypeOK' /\ HoldsToSend' /\ BufferInRange'
    BY <1>0, <1>4, <2>2
  <2>4. stored' = stored /\ Elements(buffer') = Elements(buffer) /\ cached' = cached
    BY <1>4
  <2> HIDE DEF Elements
  <2>5. StoredIsCached'
    BY <2>2, <2>4
  <2> QED
    BY <2>3, <2>5
<1>5. CASE EndOfBatch \/ Tick
  <2>1. \/ do_upsert_miners
        \/ UNCHANGED <<buffer, stored, fails>>
    BY <1>5
  <2>2. Len(buffer) \in Nat /\ BufferSize \in Nat
    BY LenProperties, PipelineAssumption
  <2>3. /\ buffer' \in Seq(State) /\ stored' \subseteq State /\ fails' \in Nat
        /\ stored' \cup Elements(buffer') \subseteq stored \cup Elements(buffer)
        /\ Len(buffer') <= Len(buffer)
    <3>1. CASE do_upsert_miners
      BY <3>1, UpsertStep
    <3>2. CASE UNCHANGED <<buffer, stored, fails>>
      BY <2>2, <3>2
    <3> QED
      BY <2>1, <3>1, <3>2
  <2>4. Len(buffer') \in Nat
    BY <2>3, LenProperties
  <2>5. TypeOK' /\ HoldsToSend'
    <3>1. CASE EndOfBatch
      BY <2>3, <3>1
    <3>2. CASE Tick
      BY <2>3, <3>2
    <3> QED
      BY <1>5, <3>1, <3>2
  <2>6. BufferInRange'
    BY <2>2, <2>3, <2>4
  <2>7. Elements(chan') = Elements(chan) /\ cached' = cached /\ miner' = miner
    BY <1>5
  <2> HIDE DEF Elements
  <2>8. StoredIsCached'
    BY <2>3, <2>7
  <2> QED
    BY <2>5, <2>6, <2>8
<1>6. CASE Refresh
  <2>1. /\ Tail(chan) \in Seq(State) /\ Head(chan) \in State
        /\ Elements(chan) = Elements(Tail(chan)) \cup {Head(chan)}
    BY <1>6, TailElements
  <2>2. TypeOK' /\ HoldsToSend' /\ BufferInRange'
    BY <1>6, <2>1
  <2>3. /\ stored' = stored /\ Elements(buffer') = Elements(buffer) /\ miner' = miner
        /\ cached' = cached \cup {Head(chan)} /\ Elements(chan') = Elements(Tail(chan))
    BY <1>6
  <2> HIDE DEF Elements
  <2>4. StoredIsCached'
    BY <2>1, <2>3
  <2> QED
    BY <2>2, <2>4
<1>7. CASE UNCHANGED vars
  BY <1>7 DEF vars
<1> QED
  BY <1>1, <1>2, <1>3, <1>4, <1>5, <1>6, <1>7 DEF Next, Handler

LEMMA PipelineInvariant == Spec => []PipelineInv
  BY InitInv, NextInv, PTL DEF Spec

(* The states have their types in every reachable state. *)
THEOREM TypeCorrect == Spec => []TypeOK
<1>1. PipelineInv => TypeOK
  BY DEF PipelineInv
<1> QED
  BY <1>1, PipelineInvariant, PTL

(* models_update_miner never writes behind the end of to_upsert_miners,    *)
(* whichever upserts fail.                                                 *)
THEOREM BufferStaysInRange == Spec => []BufferInRange
<1>1. PipelineInv => BufferInRange
  BY DEF PipelineInv
<1> QED
  BY <1>1, PipelineInvariant, PTL

(* Nothing is written to the collection that the caches do not hear of.    *)
THEOREM CachesHearOfStored == Spec => []StoredIsCached
<1>1. PipelineInv => StoredIsCached
  BY DEF PipelineInv
<1> QED
  BY <1>1, PipelineInvariant, PTL

-----------------------------------------------------------------------------
Lost == asked \ (stored \cup Elements(buffer))

(* A step loses at most one state, and none unless it counts a failure.    *)
LEMMA LostStep ==
    ASSUME PipelineInv, Next
    PROVE  \/ Lost' \subseteq Lost /\ fails' \in Nat /\ fails' >= fails
           \/ fails' = fails + 1 /\ \E m \in State : Lost' \subseteq Lost \cup {m}
<1> USE DEF PipelineInv, BufferInRange, Lost
<1>1. ASSUME asked' = asked, buffer' = buffer, stored' = stored,
             fails' = fails \/ fails' = fails + 1
      PROVE  Lost' \subseteq Lost /\ fails' \in Nat /\ fails' >= fails
  BY <1>1
<1>2. ASSUME asked' = asked, do_upsert_miners
      PROVE  Lost' \subseteq Lost /\ fails' \in Nat /\ fails' >= fails
  <2>1. /\ stored \cup Elements(buffer) \subseteq stored' \cup Elements(buffer')
        /\ fails' \in Nat /\ fails' >= fails
    BY <1>2, UpsertStep
  <2> HIDE DEF Elements
  <2> QED
    BY <1>2, <2>1
<1>3. ASSUME NEW m \in State, Handle(m)
      PROVE  \/ Lost' \subseteq Lost /\ fails' \in Nat /\ fails' >= fails
             \/ fails' = fails + 1 /\ Lost' \subseteq Lost \cup {m}
  <2>1. CASE models_update_miner(m)
    <3>1. /\ stored \cup Elements(buffer) \subseteq stored' \cup Elements(buffer')
          /\ m \in stored' \cup Elements(buffer') \/ fails' = fails + 1
          /\ fails' \in Nat /\ fails' >= fails
      BY <2>1, UpdateStep
    <3>2. asked' = asked \cup {m}
      BY <1>3
    <3> HIDE DEF Elements
    <3> QED
      BY <3>1, <3>2
  <2>2. CASE Fail /\ UNCHANGED <<buffer, stored, miner, hpc>>
    BY <1>3, <2>2 DEF Fail
  <2> QED
    BY <1>3, <2>1, <2>2
<1>4. CASE \E s \in Sender : Receive(s)
  BY <1>1, <1>4
<1>5. CASE ListGenesis
  BY <1>1, <1>5 DEF Fail
<1>6. CASE \E m \in State : Handle(m)
  BY <1>3, <1>6
<1>7. CASE SendState \/ Refresh
  BY <1>1, <1>7
<1>8. CASE EndOfBatch \/ Tick
  <2>1. asked' = asked
    BY <1>8
  <2>2. do_upsert_miners \/ UNCHANGED <<buffer, stored, fails>>
    BY <1>8
  <2> QED
    BY <1>1, <1>2, <2>1, <2>2
<1> QED
  BY <1>4, <1>5, <1>6, <1>7, <1>8 DEF Next, Handler

(* A step that loses a state counts a failure.                              *)
LEMMA FailureStep ==
    ASSUME PipelineInv, EachFailureLosesOne, [Next]_vars
    PROVE  EachFailureLosesOne'
<1>0. IsFiniteSet(State) /\ Lost \subseteq State /\ fails \in Nat
  BY PipelineAssumption DEF PipelineInv, Lost
<1>1. IsFiniteSet(Lost) /\ Cardinality(Lost) \in Nat /\ Cardinality(Lost) <= fails
  BY <1>0, FS_Subset, FS_CardinalityType DEF EachFailureLosesOne, Lost
<1>2. CASE UNCHANGED vars
  BY <1>2 DEF vars, EachFailureLosesOne
<1>3. CASE Next
  <2>1. ASSUME Lost' \subseteq Lost, fails' \in Nat, fails' >= fails
        PROVE  Cardinality(Lost') <= fails'
    <3>1. Cardinality(Lost') <= Cardinality(Lost) /\ IsFiniteSet(Lost')
      BY <1>1, <2>1, FS_Subset
    <3>2. Cardinality(Lost') \in Nat
      BY <3>1, FS_CardinalityType
    <3> QED
      BY <1>0, <1>1, <2>1, <3>1, <3>2
  <2>2. ASSUME fails' = fails + 1, NEW m \in State, Lost' \subseteq Lost \cup {m}
        PROVE  Cardinality(Lost') <= fails'
    <3>1. /\ IsFiniteSet(Lost \cup {m})
          /\ Cardinality(Lost \cup {m}) <= Cardinality(Lost) + 1
      BY <1>1, FS_AddElement
    <3>2. Cardinality(Lost') <= Cardinality(Lost \cup {m}) /\ IsFiniteSet(Lost')
      BY <2>2, <3>1, FS_Subset
    <3>3. Cardinality(Lost') \in Nat /\ Cardinality(Lost \cup {m}) \in Nat
      BY <3>1, <3>2, FS_CardinalityType
    <3> QED
      BY <1>0, <1>1, <2>2, <3>1, <3>2, <3>3
  <2>3. Cardinality(Lost') <= fails'
    BY <1>3, <2>1, <2>2, LostStep
  <2> QED
    BY <2>3 DEF EachFailureLosesOne, Lost
<1> QED
  BY <1>2, <1>3

(* A failed call costs at most one state.                                  *)
THEOREM FailuresLoseOneEach == Spec => []EachFailureLosesOne
<1> DEFINE Inv == PipelineInv /\ EachFailureLosesOne
<1>1. Init => EachFailureLosesOne
  <2> SUFFICES ASSUME Init PROVE EachFailureLosesOne
    OBVIOUS
  <2>1. asked \ (stored \cup Elements(buffer)) = {}
    OBVIOUS
  <2> QED
    BY <2>1, FS_EmptySet DEF EachFailureLosesOne
<1>2. Inv /\ [Next]_vars => Inv'
  BY FailureStep, NextInv
<1>3. Init => Inv
  BY <1>1, InitInv
<1>4. Inv => EachFailureLosesOne
  OBVIOUS
<1> HIDE DEF Inv
<1> QED
  BY <1>2, <1>3, <1>4, PTL DEF Spec

-----------------------------------------------------------------------------
HIDE DEF Elements, TypeOK, Init, Receive, ListGenesis, Handle, SendState, EndOfBatch,
         Tick, Refresh, Batch

(* What the syncer makes of what lotus says. *)

LEMMA TipsetTypes ==
    ASSUME NEW t \in Tipset
    PROVE  /\ Height[t] \in Nat /\ Blocks[t] \in Seq(DOMAIN Msgs)
           /\ ToSet(Blocks[t]) \subseteq DOMAIN Msgs
           /\ DOMAIN Blocks[t] = 1..Len(Blocks[t]) /\ Len(Blocks[t]) \in Nat
           /\ ParentMessages[t] \in Seq(Msg)
           /\ DOMAIN ParentMessages[t] = 1..Len(ParentMessages[t])
           /\ Len(ParentMessages[t]) \in Nat
<1>1. /\ Height[t] \in Nat /\ Blocks[t] \in Seq(DOMAIN Msgs)
      /\ ParentMessages[t] \in Seq(Msg)
  BY DataAssumption
<1>2. QED
  BY <1>1, ToSetIs, LenProperties

LEMMA BlockTypes ==
    ASSUME NEW b \in DOMAIN Msgs
    PROVE  /\ Msgs[b] \in Seq(Msg) /\ ToSet(Msgs[b]) \subseteq Msg
           /\ DOMAIN Msgs[b] = 1..Len(Msgs[b]) /\ Len(Msgs[b]) \in Nat
<1>1. Msgs[b] \in Seq(Msg)
  BY DataAssumption
<1>2. QED
  BY <1>1, ToSetIs, LenProperties

(* The receipt of a message is the one ChainGetParentReceipts has for it. *)
LEMMA ReceiptIs ==
    ASSUME NEW t \in Tipset, NEW m \in ToSet(ParentMessages[t])
    PROVE  receipts_ref(t)[m] = <<t, m>>
<1> DEFINE given == ParentMessages[t]
           I == {i \in 1..Len(given) : given[i] = m}
<1>1. DOMAIN given = 1..Len(given) /\ Len(given) \in Nat
  BY TipsetTypes
<1>2. I \in SUBSET (1..Len(given)) /\ I # {}
  BY <1>1 DEF ToSet
<1>3. Max(I) \in I
  <2> HIDE DEF I, given
  <2>1. QED
    BY <1>1, <1>2, LastOfNats
<1>4. SelectLastInSeq(given, LAMBDA g : g = m) = Max(I)
  BY <1>2 DEF SelectLastInSeq
<1>5. receipts_ref(t)[m] = ParentReceipts(t)[SelectLastInSeq(given, LAMBDA g : g = m)]
  BY DEF receipts_ref
<1>6. \A i \in I : ParentReceipts(t)[i] = <<t, m>>
  BY <1>1 DEF ParentReceipts
<1> HIDE DEF I
<1>7. QED
  BY <1>3, <1>4, <1>5, <1>6

(* The documents the syncer makes. *)
Docs == UNION {UNION {ToSet(fs_messages(t, b)) : b \in ToSet(Blocks[t])} : t \in Tipset}

(* A document has the block it was found in, and the receipt with which    *)
(* the tipset of the block has executed its message.                       *)
FromLotus(d) ==
    \E u \in Tipset :
        /\ d.block \in ToSet(Blocks[u])
        /\ d.receipt = IF d.cid \in ToSet(ParentMessages[u]) THEN <<u, d.cid>> ELSE <<>>

LEMMA FsMessages ==
    ASSUME NEW t \in Tipset, NEW b \in ToSet(Blocks[t])
    PROVE  /\ fs_messages(t, b) \in Seq(Docs)
           /\ {d.cid : d \in ToSet(fs_messages(t, b))} = ToSet(Msgs[b])
           /\ \A d \in ToSet(fs_messages(t, b)) : FromLotus(d) /\ d.cid \in Msg
<1>0. b \in DOMAIN Msgs
  BY TipsetTypes
<1>1. DOMAIN Msgs[b] = 1..Len(Msgs[b]) /\ Len(Msgs[b]) \in Nat /\ ToSet(Msgs[b]) \subseteq Msg
  BY <1>0, BlockTypes
<1> DEFINE f == fs_messages(t, b)
<1>2. /\ DOMAIN f = 1..Len(Msgs[b]) /\ f = [i \in 1..Len(Msgs[b]) |-> f[i]]
      /\ \A i \in 1..Len(Msgs[b]) :
            /\ f[i].cid = Msgs[b][i] /\ f[i].block = b
            /\ f[i].receipt = IF Msgs[b][i] \in ToSet(ParentMessages[t])
                              THEN receipts_ref(t)[Msgs[b][i]] ELSE <<>>
  BY <1>1 DEF fs_messages
<1>3. ToSet(Msgs[b]) = {Msgs[b][i] : i \in 1..Len(Msgs[b])}
  BY <1>1 DEF ToSet
<1>4. ToSet(f) = {f[i] : i \in 1..Len(Msgs[b])} /\ ToSet(f) \subseteq Docs
  BY <1>2 DEF ToSet, Docs
<1>5. f \in Seq(Docs)
  <2>1. f \in [1..Len(Msgs[b]) -> Docs]
    BY <1>2, <1>4
  <2> HIDE DEF f
  <2>2. QED
    BY <1>1, <2>1, IntervalSeq
<1>6. \A i \in 1..Len(Msgs[b]) : FromLotus(f[i])
  BY <1>2, ReceiptIs DEF FromLotus
<1> HIDE DEF f
<1>7. {d.cid : d \in ToSet(f)} = ToSet(Msgs[b])
  <2>1. ASSUME NEW d \in ToSet(f) PROVE d.cid \in ToSet(Msgs[b])
    <3>1. PICK i \in 1..Len(Msgs[b]) : d = f[i]
      BY <1>4
    <3>2. f[i].cid = Msgs[b][i] /\ Msgs[b][i] \in ToSet(Msgs[b])
      BY <1>2, <1>3
    <3>3. QED
      BY <3>1, <3>2
  <2>2. ASSUME NEW m \in ToSet(Msgs[b]) PROVE \E d \in ToSet(f) : m = d.cid
    <3>1. PICK i \in 1..Len(Msgs[b]) : m = Msgs[b][i]
      BY <1>3
    <3>2. f[i] \in ToSet(f) /\ f[i].cid = m
      BY <1>2, <1>4, <3>1
    <3>3. QED
      BY <3>2
  <2>3. QED
    BY <2>1, <2>2
<1>8. ASSUME NEW d \in ToSet(f) PROVE FromLotus(d) /\ d.cid \in Msg
  <2>1. PICK i \in 1..Len(Msgs[b]) : d = f[i]
    BY <1>4
  <2>2. Msgs[b][i] \in Msg /\ f[i].cid = Msgs[b][i]
    BY <1>1, <1>2, <1>3
  <2>3. QED
    BY <1>6, <2>1, <2>2
<1>9. QED
  BY <1>5, <1>7, <1>8 DEF f

LEMMA DocIs ==
    ASSUME NEW d \in Docs
    PROVE  FromLotus(d) /\ d.cid \in Msg
<1>1. PICK t \in Tipset : d \in UNION {ToSet(fs_messages(t, b)) : b \in ToSet(Blocks[t])}
  BY DEF Docs
<1>2. PICK b \in ToSet(Blocks[t]) : d \in ToSet(fs_messages(t, b))
  BY <1>1
<1>3. QED
  BY <1>2, FsMessages

LEMMA FsMsgs ==
    ASSUME NEW t \in Tipset
    PROVE  /\ fs_msgs(t) \in Seq(Docs)
           /\ \A b \in ToSet(Blocks[t]) : \A m \in ToSet(Msgs[b]) :
                  \E d \in ToSet(fs_msgs(t)) : d.cid = m
<1> DEFINE parts == [i \in DOMAIN Blocks[t] |-> fs_messages(t, Blocks[t][i])]
<1>1. DOMAIN Blocks[t] = 1..Len(Blocks[t]) /\ Len(Blocks[t]) \in Nat
  BY TipsetTypes
<1>2. \A i \in 1..Len(Blocks[t]) : Blocks[t][i] \in ToSet(Blocks[t])
  BY <1>1 DEF ToSet
<1>3. parts \in [1..Len(Blocks[t]) -> Seq(Docs)]
  BY <1>1, <1>2, FsMessages
<1>4. parts \in Seq(Seq(Docs)) /\ DOMAIN parts = 1..Len(Blocks[t]) /\ Len(parts) = Len(Blocks[t])
  <2>1. parts \in Seq(Seq(Docs)) /\ DOMAIN parts = 1..Len(Blocks[t])
    <3>1. DOMAIN parts = 1..Len(Blocks[t])
      BY <1>1
    <3> HIDE DEF parts
    <3>2. QED
      BY <1>1, <1>3, <3>1, IntervalSeq
  <2> HIDE DEF parts
  <2>2. QED
    BY <1>1, <2>1, LenProperties
<1>5. \A i \in 1..Len(Blocks[t]) : parts[i] = fs_messages(t, Blocks[t][i])
  BY <1>1
<1>6. fs_msgs(t) = FlattenSeq(parts)
  BY DEF fs_msgs
<1> HIDE DEF parts
<1>7. fs_msgs(t) \in Seq(Docs) /\ ToSet(fs_msgs(t)) = Within(parts, Len(parts))
  BY <1>4, <1>6, FlattenToSet
<1>8. ASSUME NEW b \in ToSet(Blocks[t]), NEW m \in ToSet(Msgs[b])
      PROVE  \E d \in ToSet(fs_msgs(t)) : d.cid = m
  <2>1. PICK i \in 1..Len(Blocks[t]) : b = Blocks[t][i]
    BY <1>1 DEF ToSet
  <2>2. PICK d \in ToSet(parts[i]) : d.cid = m
    <3>1. Blocks[t][i] \in ToSet(Blocks[t]) /\ parts[i] = fs_messages(t, Blocks[t][i])
      BY <1>5, <2>1
    <3>2. \E d \in ToSet(fs_messages(t, b)) : d.cid = m
      BY <2>1, <3>1, FsMessages
    <3>3. QED
      BY <2>1, <3>1, <3>2
  <2>3. d \in ToSet(fs_msgs(t))
    BY <1>4, <1>7, <2>2 DEF Within
  <2>4. QED
    BY <2>2, <2>3
<1>9. QED
  BY <1>7, <1>8

LEMMA ListTypes ==
    ASSUME NEW w \in Writer, NEW i \in 1..Len(Lists[w])
    PROVE  /\ Lists[w][i] \in Seq(Tipset) /\ ToSet(Lists[w][i]) \subseteq Tipset
           /\ DOMAIN Lists[w][i] = 1..Len(Lists[w][i]) /\ Len(Lists[w][i]) \in Nat
           /\ DOMAIN Lists[w] = 1..Len(Lists[w]) /\ Len(Lists[w]) \in Nat
<1>1. Lists[w] \in Seq(Seq(Tipset))
  BY DataAssumption
<1>2. Lists[w][i] \in Seq(Tipset)
  BY <1>1, ElementOfSeq
<1>3. QED
  BY <1>1, <1>2, ToSetIs, LenProperties

(* What is to be upserted for a list has a document for every message.     *)
LEMMA BuiltIs ==
    ASSUME NEW w \in Writer, NEW i \in 1..Len(Lists[w])
    PROVE  /\ Built[w][i] \in Seq(Docs)
           /\ \A t \in ToSet(Lists[w][i]) : \A b \in ToSet(Blocks[t]) : \A m \in ToSet(Msgs[b]) :
                  \E d \in ToSet(Built[w][i]) : d.cid = m
<1> DEFINE list == Lists[w][i]
           parts == [k \in DOMAIN list |-> fs_msgs(list[k])]
<1>1. /\ DOMAIN list = 1..Len(list) /\ Len(list) \in Nat
      /\ DOMAIN Lists[w] = 1..Len(Lists[w])
      /\ ToSet(list) \subseteq Tipset
  BY ListTypes
<1>2. \A k \in 1..Len(list) : list[k] \in ToSet(list) /\ list[k] \in Tipset
  BY <1>1 DEF ToSet
<1>6. Built[w][i] = FlattenSeq(parts)
  BY <1>1 DEF Built
<1> HIDE DEF list
<1>3. parts \in [1..Len(list) -> Seq(Docs)] /\ DOMAIN parts = 1..Len(list)
  BY <1>1, <1>2, FsMsgs
<1>5. \A k \in 1..Len(list) : parts[k] = fs_msgs(list[k])
  BY <1>1
<1> HIDE DEF parts
<1>4. parts \in Seq(Seq(Docs)) /\ Len(parts) = Len(list)
  BY <1>1, <1>3, IntervalSeq, LenProperties
<1>7. Built[w][i] \in Seq(Docs) /\ ToSet(Built[w][i]) = Within(parts, Len(parts))
  BY <1>4, <1>6, FlattenToSet
<1>8. ASSUME NEW t \in ToSet(list), NEW b \in ToSet(Blocks[t]), NEW m \in ToSet(Msgs[b])
      PROVE  \E d \in ToSet(Built[w][i]) : d.cid = m
  <2>1. PICK k \in 1..Len(list) : t = list[k]
    BY <1>1 DEF ToSet
  <2>2. PICK d \in ToSet(parts[k]) : d.cid = m
    <3>1. parts[k] = fs_msgs(t) /\ t \in Tipset
      BY <1>2, <1>5, <2>1
    <3>2. \E d \in ToSet(fs_msgs(t)) : d.cid = m
      BY <3>1, FsMsgs
    <3>3. QED
      BY <3>1, <3>2
  <2>3. d \in ToSet(Built[w][i])
    BY <1>4, <1>7, <2>2 DEF Within
  <2>4. QED
    BY <2>2, <2>3
<1>9. QED
  BY <1>7, <1>8 DEF list

(* The blocks of a list *)
LEMMA ListBlocksAre ==
    ASSUME NEW w \in Writer, NEW i \in 1..Len(Lists[w]), writer[w].i = i
    PROVE  \A t \in ToSet(List(w)) : ToSet(Blocks[t]) \subseteq ToSet(ListBlocks(w))
<1> DEFINE list == Lists[w][i]
           parts == [k \in DOMAIN list |-> Blocks[list[k]]]
<1>1. /\ DOMAIN list = 1..Len(list) /\ Len(list) \in Nat
      /\ ToSet(list) \subseteq Tipset
  BY ListTypes
<1>2. \A k \in 1..Len(list) : list[k] \in ToSet(list) /\ list[k] \in Tipset
  BY <1>1 DEF ToSet
<1>6. ListBlocks(w) = FlattenSeq(parts) /\ List(w) = list
  BY DEF ListBlocks, List
<1> HIDE DEF list
<1>3. parts \in [1..Len(list) -> Seq(DOMAIN Msgs)] /\ DOMAIN parts = 1..Len(list)
  BY <1>1, <1>2, TipsetTypes
<1>5. \A k \in 1..Len(list) : parts[k] = Blocks[list[k]]
  BY <1>1
<1> HIDE DEF parts
<1>4. parts \in Seq(Seq(DOMAIN Msgs)) /\ Len(parts) = Len(list)
  BY <1>1, <1>3, IntervalSeq, LenProperties
<1>7. ToSet(ListBlocks(w)) = Within(parts, Len(parts))
  BY <1>4, <1>6, FlattenToSet
<1>8. ASSUME NEW t \in ToSet(list) PROVE ToSet(Blocks[t]) \subseteq ToSet(ListBlocks(w))
  <2>1. PICK k \in 1..Len(list) : t = list[k]
    BY <1>1 DEF ToSet
  <2>2. QED
    BY <1>4, <1>5, <1>7, <2>1 DEF Within
<1>9. QED
  BY <1>6, <1>8

(* An ordered upsert leaves what it has no document for. *)
LEMMA UpsertedIs ==
    ASSUME NEW collection, NEW S, NEW docs \in Seq(S), NEW key,
           NEW after, after = Upserted(collection, docs, key)
    PROVE  /\ \A h : h \in DOMAIN after <=>
                 h \in DOMAIN collection \/ \E d \in ToSet(docs) : key[d] = h
           /\ \A h \in DOMAIN after :
                 \/ h \in DOMAIN collection /\ after[h] = collection[h]
                 \/ after[h] \in ToSet(docs) /\ key[after[h]] = h
<1>1. DOMAIN docs = 1..Len(docs) /\ Len(docs) \in Nat
  BY LenProperties
<1>2. ToSet(docs) = {docs[i] : i \in 1..Len(docs)}
  BY <1>1 DEF ToSet
<1>3. DOMAIN after = DOMAIN collection \cup {key[d] : d \in ToSet(docs)}
  <2>1. DOMAIN after = DOMAIN collection \cup {key[docs[i]] : i \in DOMAIN docs}
    BY DEF Upserted
  <2>2. {key[docs[i]] : i \in DOMAIN docs} = {key[d] : d \in ToSet(docs)}
    BY <1>1, <1>2
  <2>3. QED
    BY <2>1, <2>2
<1>4. ASSUME NEW h \in DOMAIN after
      PROVE  \/ h \in DOMAIN collection /\ after[h] = collection[h]
             \/ after[h] \in ToSet(docs) /\ key[after[h]] = h
  <2> DEFINE I == {i \in 1..Len(docs) : key[docs[i]] = h}
             last == SelectLastInSeq(docs, LAMBDA d : key[d] = h)
  <2>1. after[h] = IF last = 0 THEN collection[h] ELSE docs[last]
    BY <1>3 DEF Upserted
  <2>2. last = IF I # {} THEN Max(I) ELSE 0
    BY DEF SelectLastInSeq
  <2> HIDE DEF last
  <2>3. CASE I # {}
    <3>1. Max(I) \in I
      BY <1>1, <2>3, LastOfNats
    <3> DEFINE i == Max(I)
    <3>2. i \in 1..Len(docs) /\ key[docs[i]] = h /\ last = i
      BY <2>2, <2>3, <3>1
    <3> HIDE DEF I, i
    <3>3. docs[i] \in ToSet(docs) /\ after[h] = docs[i]
      BY <1>1, <1>2, <2>1, <3>2
    <3>4. QED
      BY <3>2, <3>3
  <2>4. CASE I = {}
    <3>1. h \in DOMAIN collection /\ last = 0
      BY <1>2, <1>3, <2>2, <2>4
    <3>2. QED
      BY <2>1, <3>1
  <2>5. QED
    BY <2>3, <2>4
<1>5. QED
  BY <1>3, <1>4

-----------------------------------------------------------------------------
(* Where the writers are. *)

Stages == {"off", "build", "send", "nil", "messages", "blocks", "tipsets", "ended"}

Writing == {"messages", "blocks", "tipsets"}

At == [pc : Stages, i : Nat \ {0}, left : Seq(Docs)]

(* A writer is at one of its lists, or behind the last of them.            *)
Placed(w, at) ==
    /\ at.i <= Len(Lists[w]) + 1
    /\ at.pc \in Writing \cup {"send"} => at.i <= Len(Lists[w])
    /\ at.pc = "off" => w = "sync_to_genesis" /\ at.i = 1
    /\ at.pc = "nil" => w = "sync_to_genesis" /\ at.i = Len(Lists[w]) + 1

WriterInv ==
    /\ writer \in [Writer -> At]
    /\ \A w \in Writer : Placed(w, writer[w])

(* A step of a writer gives it a new place; the first tipset that is       *)
(* stored gives sync_to_genesis one as well.                               *)
LEMMA PlaceStep ==
    ASSUME WriterInv, NEW w \in Writer, NEW at \in At, Placed(w, at),
           writer' = [writer EXCEPT ![w] = at]
    PROVE  WriterInv'
BY DEF WriterInv

LEMMA PlaceTo ==
    ASSUME WriterInv, NEW w \in Writer, NEW pc \in Stages, GoTo(w, pc),
           Placed(w, [writer[w] EXCEPT !.pc = pc])
    PROVE  WriterInv'
<1>1. writer' = [writer EXCEPT ![w] = [writer[w] EXCEPT !.pc = pc]]
  BY DEF GoTo
<1>2. [writer[w] EXCEPT !.pc = pc] \in At
  BY DEF WriterInv, At
<1>3. QED
  BY <1>1, <1>2, PlaceStep

LEMMA ListsAre ==
    /\ \A w \in Writer : Len(Lists[w]) \in Nat
    /\ Writer = {"run_syncer", "sync_to_genesis"}
    /\ <<>> \in Seq(Docs)
BY DataAssumption, LenProperties, EmptySeq

LEMMA PlaceDone ==
    ASSUME WriterInv, NEW w \in Writer, NEW ok \in BOOLEAN, writer' = Done(w, ok),
           writer[w].i <= Len(Lists[w])
    PROVE  WriterInv'
<1> DEFINE at == [pc |-> IF w = "sync_to_genesis" /\ ~ok THEN "ended" ELSE "build",
                  i |-> writer[w].i + 1, left |-> <<>>]
<1>1. writer' = [writer EXCEPT ![w] = at]
  BY DEF Done
<1>2. writer[w].i \in Nat \ {0}
  BY DEF WriterInv, At
<1>3. at \in At
  BY <1>2, ListsAre DEF At, Stages
<1>4. Placed(w, at)
  BY <1>2, ListsAre DEF Placed, Writing
<1> HIDE DEF at
<1>5. QED
  BY <1>1, <1>3, <1>4, PlaceStep

LEMMA WriterStep ==
    ASSUME WriterInv, NEW w \in Writer, Write(w) \/ Sent(w)
    PROVE  WriterInv'
<1>0. /\ writer[w] \in At /\ Placed(w, writer[w]) /\ writer[w].i \in Nat \ {0}
      /\ writer[w].left \in Seq(Docs)
  BY DEF WriterInv, At
<1>1. CASE Build(w)
  <2>1. writer[w].i \in 1..Len(Lists[w])
    BY <1>0, <1>1, ListsAre DEF Build
  <2>2. Built[w][writer[w].i] \in Seq(Docs)
    BY <2>1, BuiltIs
  <2> DEFINE at == [writer[w] EXCEPT !.pc = IF First(w) THEN "messages" ELSE "send",
                                     !.left = Built[w][writer[w].i]]
  <2>3. writer' = [writer EXCEPT ![w] = at]
    BY <1>1 DEF Build
  <2>4. at \in At
    BY <1>0, <2>2 DEF At, Stages
  <2>5. Placed(w, at)
    <3>1. at.i = writer[w].i /\ at.pc \in {"messages", "send"}
      BY <1>0 DEF At
    <3> HIDE DEF at
    <3>2. QED
      BY <2>1, <3>1, ListsAre DEF Placed
  <2> HIDE DEF at
  <2>6. QED
    BY <2>3, <2>4, <2>5, PlaceStep
<1>2. ASSUME NEW pc \in Stages, GoTo(w, pc), pc # "off",
             \/ pc \notin Writing \cup {"send", "nil"}
             \/ pc \in Writing /\ writer[w].pc \in Writing \cup {"send"}
             \/ pc = "nil" /\ w = "sync_to_genesis" /\ writer[w].i > Len(Lists[w])
      PROVE  WriterInv'
  <2> DEFINE at == [writer[w] EXCEPT !.pc = pc]
  <2>1. at.i = writer[w].i /\ at.pc = pc
    BY <1>0 DEF At
  <2> HIDE DEF at
  <2>2. Placed(w, at)
    BY <1>0, <1>2, <2>1, ListsAre DEF Placed, Writing
  <2>3. QED
    BY <1>2, <2>2, PlaceTo DEF at
<1>3. ASSUME NEW ok \in BOOLEAN, writer' = Done(w, ok), writer[w].pc \in Writing
      PROVE  WriterInv'
  BY <1>0, <1>3, PlaceDone DEF Placed
<1>4. CASE SendNil(w)
  BY <1>2, <1>4 DEF SendNil, Stages, Writing
<1>5. CASE Sent(w)
  BY <1>2, <1>5 DEF Sent, Stages, Writing
<1>6. CASE UpsertMessages(w)
  <2> DEFINE left == writer[w].left
             bulk == IF Len(left) > MaxSize THEN MaxSize ELSE Len(left)
             at == [writer[w] EXCEPT !.left = SubSeq(left, bulk + 1, Len(left)),
                                     !.pc = IF bulk = Len(left) THEN "blocks" ELSE @]
  <2>1. left \in Seq(Docs) /\ Len(left) \in Nat /\ bulk \in Nat /\ bulk <= Len(left)
    BY <1>0, DataAssumption, LenProperties
  <2>2. SubSeq(left, bulk + 1, Len(left)) \in Seq(Docs)
    <3>1. \A i \in (bulk + 1)..Len(left) : left[i] \in Docs
      BY <2>1, ElementOfSeq
    <3> HIDE DEF left, bulk
    <3>2. QED
      BY <2>1, <3>1, SubSeqProperties
  <2>3. \/ writer' = Done(w, FALSE)
        \/ writer' = [writer EXCEPT ![w] = at]
    BY <1>6 DEF UpsertMessages
  <2>4. writer[w].pc = "messages"
    BY <1>6 DEF UpsertMessages
  <2>5. at \in At /\ at.i = writer[w].i /\ at.pc \in {"messages", "blocks"}
    <3> HIDE DEF left, bulk
    <3>1. QED
      BY <1>0, <2>2, <2>4 DEF At, Stages
  <2> HIDE DEF at
  <2>6. Placed(w, at)
    BY <1>0, <2>4, <2>5 DEF Placed, Writing
  <2>7. QED
    BY <1>3, <2>3, <2>4, <2>5, <2>6, PlaceStep DEF Writing
<1>7. CASE UpsertBlocks(w)
  <2>1. writer[w].pc = "blocks" /\ (GoTo(w, "tipsets") \/ writer' = Done(w, FALSE))
    BY <1>7 DEF UpsertBlocks
  <2>2. QED
    BY <1>2, <1>3, <2>1 DEF Stages, Writing
<1>8. CASE UpsertTipsets(w)
  <2>0. writer[w].pc = "tipsets"
    BY <1>8 DEF UpsertTipsets
  <2>1. CASE writer' = [Done(w, TRUE) EXCEPT !["sync_to_genesis"].pc = "build"] /\ First(w)
    <3> DEFINE g == "sync_to_genesis"
               at == [pc |-> "build", i |-> writer[w].i + 1, left |-> <<>>]
               ag == [writer[g] EXCEPT !.pc = "build"]
    <3>1. w = "run_syncer" /\ writer[g].pc = "off" /\ writer[g] \in At /\ Placed(g, writer[g])
      BY <2>1, ListsAre DEF First, WriterInv
    <3>2. \A u \in Writer : writer'[u] = IF u = g THEN ag ELSE at
      BY <2>1, <3>1, ListsAre DEF Done, WriterInv
    <3>3. writer' = [u \in Writer |-> writer'[u]]
      BY <2>1 DEF Done, WriterInv
    <3>4. at \in At /\ Placed(w, at)
      BY <1>0, <2>0, <3>1, ListsAre DEF At, Placed, Stages, Writing
    <3>5. ag \in At /\ ag.pc = "build" /\ ag.i = writer[g].i
      BY <3>1 DEF At, Stages
    <3> HIDE DEF ag, at
    <3>6. Placed(g, ag)
      BY <3>1, <3>5 DEF Placed, Writing
    <3>7. QED
      BY <3>1, <3>2, <3>3, <3>4, <3>5, <3>6, ListsAre DEF WriterInv
  <2>2. QED
    BY <1>3, <1>8, <2>0, <2>1 DEF UpsertTipsets, Writing
<1>9. CASE BuildFails(w)
  BY <1>9, PlaceDone DEF BuildFails
<1>10. QED
  BY <1>1, <1>4, <1>5, <1>6, <1>7, <1>8, <1>9 DEF Write

-----------------------------------------------------------------------------
(* What has been upserted when a writer goes on to the next collection. *)

(* The documents of "msg" are those the syncer makes. *)
MessagesInv == \A m \in DOMAIN messages : messages[m] \in Docs /\ messages[m].cid = m

(* The messages of a list *)
Messages(w, i) ==
    UNION {UNION {ToSet(Msgs[b]) : b \in ToSet(Blocks[t])} : t \in ToSet(Lists[w][i])}

BlocksOf(w, i) == UNION {ToSet(Blocks[t]) : t \in ToSet(Lists[w][i])}

Ready(w, at) ==
    /\ at.pc \in {"send", "messages"} =>
         \A m \in Messages(w, at.i) : m \in DOMAIN messages \/ \E d \in ToSet(at.left) : d.cid = m
    /\ at.pc \in {"blocks", "tipsets"} => Messages(w, at.i) \subseteq DOMAIN messages
    /\ at.pc = "tipsets" => BlocksOf(w, at.i) \subseteq blocks

ReadyInv == \A w \in Writer : Ready(w, writer[w])

(* A tipset that is stored is stored with its blocks and messages.         *)
Whole(t) ==
    /\ ToSet(Blocks[t]) \subseteq blocks
    /\ \A b \in ToSet(Blocks[t]) : ToSet(Msgs[b]) \subseteq DOMAIN messages

StoredInv ==
    \A h \in DOMAIN tipsets :
        tipsets[h] \in Tipset /\ Height[tipsets[h]] = h /\ Whole(tipsets[h])

(* sync_to_genesis is started by the first tipset that is stored.          *)
OffInv == writer["sync_to_genesis"].pc = "off" => DOMAIN tipsets = {}

DataInv == WriterInv /\ MessagesInv /\ ReadyInv /\ StoredInv /\ OffInv

LEMMA WriterTypes ==
    ASSUME WriterInv, NEW w \in Writer
    PROVE  /\ writer[w] \in At /\ Placed(w, writer[w])
           /\ writer[w].i \in Nat \ {0} /\ writer[w].left \in Seq(Docs)
           /\ writer[w].pc \in Writing \cup {"send"} =>
                writer[w].i \in 1..Len(Lists[w]) /\ List(w) \in Seq(Tipset)
<1>1. writer[w] \in At /\ Placed(w, writer[w]) /\ writer[w].i \in Nat \ {0}
      /\ writer[w].left \in Seq(Docs)
  BY DEF WriterInv, At
<1>2. ASSUME writer[w].pc \in Writing \cup {"send"}
      PROVE  writer[w].i \in 1..Len(Lists[w]) /\ List(w) \in Seq(Tipset)
  <2>1. writer[w].i \in 1..Len(Lists[w])
    BY <1>1, <1>2, ListsAre DEF Placed
  <2>2. QED
    BY <2>1, ListTypes DEF List
<1>3. QED
  BY <1>1, <1>2

(* What an upsert of messages leaves. *)
LEMMA MessagesStep ==
    ASSUME WriterInv, MessagesInv, NEW w \in Writer, UpsertMessages(w)
    PROVE  /\ MessagesInv' /\ DOMAIN messages \subseteq DOMAIN messages'
           /\ \/ writer' = Done(w, FALSE)
              \/ \E n \in 0..Len(writer[w].left) :
                   /\ writer' = [writer EXCEPT
                        ![w].left = SubSeq(writer[w].left, n + 1, Len(writer[w].left)),
                        ![w].pc = IF n = Len(writer[w].left) THEN "blocks" ELSE @]
                   /\ {d.cid : d \in ToSet(SubSeq(writer[w].left, 1, n))} \subseteq DOMAIN messages'
<1> DEFINE left == writer[w].left
           bulk == IF Len(left) > MaxSize THEN MaxSize ELSE Len(left)
           key == [d \in ToSet(left) |-> d.cid]
           After(n) == Upserted(messages, SubSeq(left, 1, n), key)
<1>0. left \in Seq(Docs) /\ Len(left) \in Nat /\ bulk \in 0..Len(left)
  BY WriterTypes, DataAssumption, LenProperties
<1>1. ASSUME NEW n \in 0..Len(left), messages' = After(n)
      PROVE  /\ MessagesInv' /\ DOMAIN messages \subseteq DOMAIN messages'
             /\ {d.cid : d \in ToSet(SubSeq(left, 1, n))} \subseteq DOMAIN messages'
  <2> DEFINE docs == SubSeq(left, 1, n)
             after == messages'
  <2>1. docs \in Seq(Docs)
    BY <1>0, FirstAndRest
  <2>2. after = Upserted(messages, docs, key)
    BY <1>1
  <2> HIDE DEF after, docs, left, key
  <2>3. \A m \in DOMAIN messages : messages[m] \in Docs /\ messages[m].cid = m
    BY DEF MessagesInv
  <2>4. /\ DOMAIN after = DOMAIN messages \cup {d.cid : d \in ToSet(docs)}
        /\ \A m \in DOMAIN after : after[m] \in Docs /\ after[m].cid = m
    <3>1. /\ \A m : m \in DOMAIN after <=>
                m \in DOMAIN messages \/ \E d \in ToSet(docs) : key[d] = m
          /\ \A m \in DOMAIN after :
                \/ m \in DOMAIN messages /\ after[m] = messages[m]
                \/ after[m] \in ToSet(docs) /\ key[after[m]] = m
      BY ONLY <2>1, <2>2, UpsertedIs
    <3>2. \A d \in ToSet(docs) : d \in Docs /\ key[d] = d.cid
      BY <1>0, FirstAndRest, ToSetIs DEF docs, key
    <3>3. \A m : m \in DOMAIN after <=>
                m \in DOMAIN messages \/ \E d \in ToSet(docs) : d.cid = m
      BY ONLY <3>1, <3>2
    <3>4. DOMAIN after = DOMAIN messages \cup {d.cid : d \in ToSet(docs)}
      BY ONLY <3>3
    <3>5. QED
      BY <2>3, <3>1, <3>2, <3>4
  <2>5. QED
    BY <2>4 DEF MessagesInv, docs, after
<1>2. \/ writer' = Done(w, FALSE) /\ \E n \in 0..(bulk - 1) : messages' = After(n)
      \/ /\ writer' = [writer EXCEPT ![w].left = SubSeq(left, bulk + 1, Len(left)),
                                     ![w].pc = IF bulk = Len(left) THEN "blocks" ELSE @]
         /\ messages' = After(bulk)
  BY DEF UpsertMessages
<1> HIDE DEF After, bulk, left
<1>3. ASSUME writer' = Done(w, FALSE), NEW n \in 0..(bulk - 1), messages' = After(n)
      PROVE  MessagesInv' /\ DOMAIN messages \subseteq DOMAIN messages'
  BY <1>0, <1>1, <1>3
<1>4. QED
  BY <1>0, <1>1, <1>2, <1>3 DEF left

(* What only grows in a step of a writer, and the messages stay documents. *)
LEMMA DataGrows ==
    ASSUME WriterInv, MessagesInv, NEW w \in Writer, Write(w) \/ Sent(w)
    PROVE  /\ MessagesInv' /\ DOMAIN messages \subseteq DOMAIN messages'
           /\ blocks \subseteq blocks'
<1>1. CASE UpsertMessages(w)
  BY <1>1, MessagesStep DEF UpsertMessages
<1>2. CASE ~UpsertMessages(w)
  <2>1. UNCHANGED messages /\ blocks \subseteq blocks'
    BY <1>2 DEF Write, Sent, Build, BuildFails, SendNil, UpsertBlocks, UpsertTipsets
  <2>2. QED
    BY <2>1 DEF MessagesInv
<1>3. QED
  BY <1>1, <1>2

(* A writer that does not step stays where it is, but for sync_to_genesis  *)
(* when it is started.                                                     *)
LEMMA OthersStay ==
    ASSUME WriterInv, NEW w \in Writer, Write(w) \/ Sent(w), NEW u \in Writer, u # w
    PROVE  \/ writer'[u] = writer[u]
           \/ /\ u = "sync_to_genesis" /\ writer[u].pc = "off" /\ writer'[u].pc = "build"
              /\ writer'[u].i = writer[u].i
              /\ UpsertTipsets(w) /\ First(w)
<1>1. CASE UpsertTipsets(w) /\ writer' = [Done(w, TRUE) EXCEPT !["sync_to_genesis"].pc = "build"]
            /\ First(w)
  <2>1. writer[u] \in At
    BY WriterTypes
  <2>2. w = "run_syncer" /\ u = "sync_to_genesis" /\ writer[u].pc = "off"
    BY <1>1, ListsAre DEF First
  <2>3. writer'[u].pc = "build" /\ writer'[u].i = writer[u].i
    BY <1>1, <2>1, <2>2 DEF Done, WriterInv, At
  <2>4. QED
    BY <1>1, <2>2, <2>3
<1>2. CASE \E ok \in BOOLEAN : writer' = Done(w, ok)
  BY <1>2 DEF Done, WriterInv
<1>3. CASE Build(w) \/ SendNil(w) \/ Sent(w)
  BY <1>3 DEF Build, SendNil, Sent, GoTo, WriterInv
<1>4. CASE UpsertMessages(w)
  BY <1>2, <1>4, MessagesStep DEF WriterInv, UpsertMessages
<1>5. CASE UpsertBlocks(w)
  BY <1>2, <1>5 DEF UpsertBlocks, GoTo, WriterInv
<1>6. CASE BuildFails(w)
  BY <1>2, <1>6 DEF BuildFails
<1>7. CASE UpsertTipsets(w)
  BY <1>1, <1>2, <1>7 DEF UpsertTipsets
<1>8. QED
  BY <1>3, <1>4, <1>5, <1>6, <1>7 DEF Write

LEMMA DoneBuilds ==
    ASSUME WriterInv, NEW w \in Writer, NEW ok \in BOOLEAN, writer' = Done(w, ok)
    PROVE  writer'[w].pc \in {"build", "ended"}
BY DEF WriterInv, Done

LEMMA ReadyStep ==
    ASSUME WriterInv, MessagesInv, ReadyInv, NEW w \in Writer, Write(w) \/ Sent(w)
    PROVE  ReadyInv'
<1>0. DOMAIN messages \subseteq DOMAIN messages' /\ blocks \subseteq blocks'
  BY DataGrows
<1>2. ASSUME NEW u \in Writer, u # w PROVE Ready(u, writer[u])'
  <2>1. CASE writer'[u] = writer[u]
    BY <1>0, <2>1 DEF ReadyInv, Ready
  <2>2. CASE writer'[u].pc = "build"
    BY <2>2 DEF Ready
  <2>3. QED
    BY <1>2, <2>1, <2>2, OthersStay
<1> SUFFICES Ready(w, writer[w])'
  BY <1>2 DEF ReadyInv
<1>3. /\ Ready(w, writer[w]) /\ writer[w] \in At
      /\ writer[w].pc \in Writing \cup {"send"} => writer[w].i \in 1..Len(Lists[w])
  BY WriterTypes DEF ReadyInv
<1>4. ASSUME NEW ok \in BOOLEAN, writer' = Done(w, ok) PROVE Ready(w, writer[w])'
  BY <1>4, DoneBuilds DEF Ready
<1>5. CASE Build(w)
  <2> DEFINE i == writer[w].i
  <2>1. i \in 1..Len(Lists[w])
    BY <1>5, WriterTypes, ListsAre DEF Build
  <2>2. /\ writer'[w].pc \in {"messages", "send"} /\ writer'[w].i = i
        /\ writer'[w].left = Built[w][i]
    BY <1>3, <1>5 DEF Build, WriterInv, At
  <2> HIDE DEF i
  <2>3. ASSUME NEW m \in Messages(w, i) PROVE \E d \in ToSet(Built[w][i]) : d.cid = m
    <3>1. PICK t \in ToSet(Lists[w][i]) : m \in UNION {ToSet(Msgs[b]) : b \in ToSet(Blocks[t])}
      BY DEF Messages
    <3>2. PICK b \in ToSet(Blocks[t]) : m \in ToSet(Msgs[b])
      BY <3>1
    <3>3. \A v \in ToSet(Lists[w][i]) : \A c \in ToSet(Blocks[v]) : \A n \in ToSet(Msgs[c]) :
             \E d \in ToSet(Built[w][i]) : d.cid = n
      BY <2>1, BuiltIs
    <3>4. QED
      BY <3>2, <3>3
  <2>4. QED
    BY <2>2, <2>3 DEF Ready
<1>6. CASE SendNil(w)
  <2>1. writer'[w].pc = "nil"
    BY <1>6 DEF SendNil, GoTo, WriterInv, At
  <2>2. QED
    BY <2>1 DEF Ready
<1>7. CASE Sent(w)
  <2>1. CASE writer[w].pc = "send"
    <3>1. /\ writer'[w].pc = "messages" /\ writer'[w].i = writer[w].i
          /\ writer'[w].left = writer[w].left
      BY <1>3, <1>7, <2>1 DEF Sent, GoTo, WriterInv, At
    <3>2. QED
      BY <1>0, <1>3, <2>1, <3>1 DEF Ready
  <2>2. CASE writer[w].pc # "send"
    <3>1. writer'[w].pc = "ended"
      BY <1>3, <1>7, <2>2 DEF Sent, GoTo, WriterInv, At
    <3>2. QED
      BY <3>1 DEF Ready
  <2>3. QED
    BY <2>1, <2>2
<1>8. CASE UpsertMessages(w)
  <2> DEFINE left == writer[w].left
  <2>0. left \in Seq(Docs) /\ writer[w].pc = "messages"
    BY <1>8, WriterTypes DEF UpsertMessages
  <2>1. CASE writer' = Done(w, FALSE)
    BY <1>4, <2>1
  <2>2. ASSUME NEW n \in 0..Len(left),
               writer' = [writer EXCEPT ![w].left = SubSeq(left, n + 1, Len(left)),
                                        ![w].pc = IF n = Len(left) THEN "blocks" ELSE @],
               {d.cid : d \in ToSet(SubSeq(left, 1, n))} \subseteq DOMAIN messages'
        PROVE  Ready(w, writer[w])'
    <3> DEFINE rest == SubSeq(left, n + 1, Len(left))
               done == SubSeq(left, 1, n)
    <3>1. /\ writer'[w].pc = IF n = Len(left) THEN "blocks" ELSE "messages"
          /\ writer'[w].i = writer[w].i /\ writer'[w].left = rest
      BY <1>3, <2>0, <2>2 DEF WriterInv, At
    <3>2. ToSet(left) = ToSet(done) \cup ToSet(rest)
      BY <2>0, FirstAndRest
    <3>3. \A m \in Messages(w, writer[w].i) :
             m \in DOMAIN messages \/ \E d \in ToSet(left) : d.cid = m
      BY <1>3, <2>0 DEF Ready
    <3>4. \A d \in ToSet(done) : d.cid \in DOMAIN messages'
      BY <2>2
    <3>6. n = Len(left) => ToSet(rest) = {}
      <4>1. ASSUME n = Len(left) PROVE rest = <<>>
        <5>1. Len(left) \in Nat
          BY <2>0, LenProperties
        <5>2. QED
          BY <4>1, <5>1, SubSeqEmpty
      <4>2. ToSet(<<>>) = {}
        BY DEF ToSet
      <4>3. QED
        BY <4>1, <4>2
    <3> HIDE DEF rest, done, left
    <3>5. \A m \in Messages(w, writer[w].i) :
             m \in DOMAIN messages' \/ \E d \in ToSet(rest) : d.cid = m
      BY <1>0, <3>2, <3>3, <3>4
    <3>7. QED
      BY <3>1, <3>5, <3>6 DEF Ready
  <2>3. QED
    BY <1>8, <2>1, <2>2, MessagesStep
<1>9. CASE UpsertBlocks(w)
  <2>1. writer[w].pc = "blocks" /\ writer[w].i \in 1..Len(Lists[w])
    BY <1>3, <1>9 DEF UpsertBlocks, Writing
  <2>2. CASE GoTo(w, "tipsets") /\ blocks' = blocks \cup ToSet(ListBlocks(w))
    <3>1. writer'[w].pc = "tipsets" /\ writer'[w].i = writer[w].i
      BY <1>3, <2>2 DEF GoTo, WriterInv, At
    <3>2. BlocksOf(w, writer[w].i) \subseteq blocks'
      BY <2>1, <2>2, ListBlocksAre DEF BlocksOf, List
    <3>3. Messages(w, writer[w].i) \subseteq DOMAIN messages'
      BY <1>0, <1>3, <2>1 DEF Ready
    <3>4. QED
      BY <3>1, <3>2, <3>3 DEF Ready
  <2>3. QED
    BY <1>4, <1>9, <2>2 DEF UpsertBlocks
<1>10. CASE UpsertTipsets(w)
  <2>1. CASE writer' = [Done(w, TRUE) EXCEPT !["sync_to_genesis"].pc = "build"] /\ First(w)
    <3>1. writer'[w].pc = "build"
      BY <2>1, ListsAre DEF First, Done, WriterInv
    <3>2. QED
      BY <3>1 DEF Ready
  <2>2. QED
    BY <1>4, <1>10, <2>1 DEF UpsertTipsets
<1>11. CASE BuildFails(w)
  BY <1>4, <1>11 DEF BuildFails
<1>12. QED
  BY <1>5, <1>6, <1>7, <1>8, <1>9, <1>10, <1>11 DEF Write

(* An upsert of tipsets puts tipsets of the list under their heights.      *)
LEMMA TipsetsStep ==
    ASSUME WriterInv, NEW w \in Writer, UpsertTipsets(w)
    PROVE  \E n \in 0..Len(List(w)) :
             /\ \A h \in DOMAIN tipsets' :
                   \/ h \in DOMAIN tipsets /\ tipsets'[h] = tipsets[h]
                   \/ tipsets'[h] \in {List(w)[i] : i \in 1..n} /\ Height[tipsets'[h]] = h
             /\ {List(w)[i] : i \in 1..n} \subseteq ToSet(List(w))
             /\ ToSet(List(w)) \subseteq Tipset
             /\ DOMAIN tipsets' = DOMAIN tipsets \cup {Height[List(w)[i]] : i \in 1..n}
             /\ \/ n = Len(List(w))
                   /\ writer' = IF First(w)
                                THEN [Done(w, TRUE) EXCEPT !["sync_to_genesis"].pc = "build"]
                                ELSE Done(w, TRUE)
                \/ n < Len(List(w)) /\ writer' = Done(w, FALSE)
<1> DEFINE list == List(w)
           After(n) == Upserted(tipsets, SubSeq(list, 1, n), Height)
<1>0. list \in Seq(Tipset) /\ Len(list) \in Nat /\ DOMAIN list = 1..Len(list)
  BY WriterTypes, LenProperties DEF UpsertTipsets, Writing
<1>1. ASSUME NEW n \in 0..Len(list), tipsets' = After(n)
      PROVE  /\ \A h \in DOMAIN tipsets' :
                   \/ h \in DOMAIN tipsets /\ tipsets'[h] = tipsets[h]
                   \/ tipsets'[h] \in {list[i] : i \in 1..n} /\ Height[tipsets'[h]] = h
             /\ DOMAIN tipsets' = DOMAIN tipsets \cup {Height[list[i]] : i \in 1..n}
  <2> DEFINE docs == SubSeq(list, 1, n)
             after == tipsets'
             key == Height
  <2>1. docs \in Seq(Tipset) /\ ToSet(docs) = {list[i] : i \in 1..n}
    BY <1>0, FirstAndRest
  <2>2. after = Upserted(tipsets, docs, key)
    BY <1>1
  <2> HIDE DEF after, docs, list, key
  <2>3. /\ \A h : h \in DOMAIN after <=>
              h \in DOMAIN tipsets \/ \E t \in ToSet(docs) : key[t] = h
        /\ \A h \in DOMAIN after :
              \/ h \in DOMAIN tipsets /\ after[h] = tipsets[h]
              \/ after[h] \in ToSet(docs) /\ key[after[h]] = h
    <3>1. docs \in Seq(Tipset)
      BY <2>1
    <3>2. QED
      BY ONLY <3>1, <2>2, UpsertedIs
  <2>4. \A h : h \in DOMAIN after <=>
              h \in DOMAIN tipsets \/ \E i \in 1..n : key[list[i]] = h
    <3>1. \A t : t \in ToSet(docs) <=> \E i \in 1..n : list[i] = t
      BY ONLY <2>1
    <3>2. QED
      BY ONLY <2>3, <3>1
  <2>5. DOMAIN after = DOMAIN tipsets \cup {Height[list[i]] : i \in 1..n}
    BY ONLY <2>4 DEF key
  <2>6. QED
    BY <2>1, <2>3, <2>5 DEF after, key
<1>2. \/ /\ tipsets' = After(Len(list))
         /\ writer' = IF First(w)
                      THEN [Done(w, TRUE) EXCEPT !["sync_to_genesis"].pc = "build"]
                      ELSE Done(w, TRUE)
      \/ /\ writer' = Done(w, FALSE)
         /\ \E n \in 0..(Len(list) - 1) : tipsets' = After(n)
  BY DEF UpsertTipsets
<1>3. \A n \in 0..Len(list) : {list[i] : i \in 1..n} \subseteq ToSet(list)
  BY <1>0 DEF ToSet
<1>4. ToSet(list) \subseteq Tipset
  BY <1>0, ToSetIs
<1> HIDE DEF After, list
<1>5. CASE /\ tipsets' = After(Len(list))
           /\ writer' = IF First(w)
                        THEN [Done(w, TRUE) EXCEPT !["sync_to_genesis"].pc = "build"]
                        ELSE Done(w, TRUE)
  <2>1. Len(list) \in 0..Len(list)
    BY <1>0
  <2>2. QED
    BY <1>1, <1>3, <1>4, <1>5, <2>1 DEF list
<1>6. CASE /\ writer' = Done(w, FALSE)
           /\ \E n \in 0..(Len(list) - 1) : tipsets' = After(n)
  <2>1. PICK n \in 0..(Len(list) - 1) : tipsets' = After(n)
    BY <1>6
  <2>2. n \in 0..Len(list) /\ n < Len(list)
    BY <1>0
  <2>3. QED
    BY <1>1, <1>3, <1>4, <1>6, <2>1, <2>2 DEF list
<1>7. QED
  BY <1>2, <1>5, <1>6

LEMMA StoredStep ==
    ASSUME WriterInv, MessagesInv, ReadyInv, StoredInv, NEW w \in Writer, Write(w) \/ Sent(w)
    PROVE  StoredInv'
<1>0. DOMAIN messages \subseteq DOMAIN messages' /\ blocks \subseteq blocks'
  BY DataGrows
<1>1. \A t : Whole(t) => Whole(t)'
  BY <1>0 DEF Whole
<1>2. CASE UNCHANGED tipsets
  BY <1>1, <1>2 DEF StoredInv
<1>3. CASE UpsertTipsets(w)
  <2>1. writer[w].pc = "tipsets"
    BY <1>3 DEF UpsertTipsets
  <2>2. /\ Messages(w, writer[w].i) \subseteq DOMAIN messages
        /\ BlocksOf(w, writer[w].i) \subseteq blocks
    BY <2>1 DEF ReadyInv, Ready
  <2>3. ASSUME NEW t \in ToSet(List(w)) PROVE Whole(t)
    <3>1. ToSet(Blocks[t]) \subseteq blocks
      BY <2>2 DEF BlocksOf, List
    <3>2. ASSUME NEW b \in ToSet(Blocks[t]) PROVE ToSet(Msgs[b]) \subseteq DOMAIN messages
      BY <2>2 DEF Messages, List
    <3>3. QED
      BY <3>1, <3>2 DEF Whole
  <2>4. ASSUME NEW h \in DOMAIN tipsets'
        PROVE  /\ tipsets'[h] \in Tipset /\ Height[tipsets'[h]] = h
               /\ Whole(tipsets'[h])
    <3>1. CASE h \in DOMAIN tipsets /\ tipsets'[h] = tipsets[h]
      BY <3>1 DEF StoredInv
    <3>2. CASE tipsets'[h] \in ToSet(List(w)) /\ Height[tipsets'[h]] = h /\ ToSet(List(w)) \subseteq Tipset
      BY <2>3, <3>2
    <3>3. QED
      BY <1>3, <3>1, <3>2, TipsetsStep
  <2>5. UNCHANGED <<messages, blocks>>
    BY <1>3 DEF UpsertTipsets
  <2>6. QED
    BY <2>4, <2>5 DEF StoredInv, Whole
<1>4. QED
  BY <1>2, <1>3 DEF Write, Sent, Build, BuildFails, SendNil, UpsertMessages, UpsertBlocks

(* The first tipset that is stored starts sync_to_genesis in the same step. *)
LEMMA OffStep ==
    ASSUME WriterInv, OffInv, NEW w \in Writer, Write(w) \/ Sent(w)
    PROVE  OffInv'
<1> DEFINE g == "sync_to_genesis"
<1> SUFFICES ASSUME writer'[g].pc = "off" PROVE DOMAIN tipsets' = {}
  BY DEF OffInv
<1>1. g \in Writer /\ writer[g] \in At
  BY ListsAre, WriterTypes
<1>2. w # g /\ writer[g].pc = "off"
  <2>1. w = g => writer'[g].pc # "off"
    <3> SUFFICES ASSUME w = g PROVE writer'[g].pc # "off"
      OBVIOUS
    <3>1. CASE \E ok \in BOOLEAN : writer' = Done(w, ok)
      BY <1>1, <3>1, DoneBuilds
    <3>2. CASE Build(w) \/ SendNil(w) \/ Sent(w) \/ GoTo(w, "tipsets")
      BY <1>1, <3>2 DEF Build, SendNil, Sent, GoTo, WriterInv, At
    <3>3. CASE UpsertMessages(w)
      <4>1. ASSUME NEW rest, NEW pc \in {"blocks", writer[w].pc},
                   writer' = [writer EXCEPT ![w].left = rest, ![w].pc = pc],
                   writer[w].pc = "messages"
            PROVE  writer'[w].pc # "off"
        BY <1>1, <4>1 DEF WriterInv, At
      <4>2. QED
        BY <3>1, <3>3, <4>1 DEF UpsertMessages
    <3>4. CASE UpsertTipsets(w)
      BY <1>1, <3>1, <3>4 DEF UpsertTipsets, First
    <3>5. CASE BuildFails(w)
      BY <3>1, <3>5 DEF BuildFails
    <3>6. CASE UpsertBlocks(w)
      BY <3>1, <3>2, <3>6 DEF UpsertBlocks
    <3>7. QED
      BY <3>2, <3>3, <3>4, <3>5, <3>6 DEF Write
  <2>2. w # g
    BY <2>1
  <2>3. QED
    BY <1>1, <2>2, OthersStay
<1>3. CASE UNCHANGED tipsets
  BY <1>2, <1>3 DEF OffInv
<1>4. CASE UpsertTipsets(w)
  <2>1. w = "run_syncer" /\ First(w)
    BY <1>2, ListsAre DEF First
  <2>2. PICK n \in 0..Len(List(w)) :
          /\ DOMAIN tipsets' = DOMAIN tipsets \cup {Height[List(w)[i]] : i \in 1..n}
          /\ \/ writer' = [Done(w, TRUE) EXCEPT ![g].pc = "build"]
             \/ n < Len(List(w))
    BY <1>4, <2>1, TipsetsStep
  <2>3. writer' # [Done(w, TRUE) EXCEPT ![g].pc = "build"]
    BY <1>1 DEF Done, WriterInv, At
  <2>4. Len(List(w)) = 1
    <3>1. writer[w].i \in DOMAIN Lists[w]
      BY <1>4, WriterTypes, ListTypes DEF UpsertTipsets, Writing
    <3>2. QED
      BY <2>1, <3>1, DataAssumption DEF List
  <2>5. n = 0
    <3>1. n < Len(List(w))
      BY <2>2, <2>3
    <3>2. QED
      BY <2>2, <2>4, <3>1
  <2>6. {Height[List(w)[i]] : i \in 1..n} = {}
    BY <2>5
  <2>7. QED
    BY <1>2, <2>2, <2>6 DEF OffInv
<1>5. QED
  BY <1>3, <1>4 DEF Write, Sent, Build, BuildFails, SendNil, UpsertMessages, UpsertBlocks

LEMMA DataStep ==
    ASSUME DataInv, NEW w \in Writer, Write(w) \/ Sent(w)
    PROVE  DataInv'
BY WriterStep, DataGrows, ReadyStep, StoredStep, OffStep DEF DataInv

LEMMA DataStart == DataInit => DataInv
<1> SUFFICES ASSUME DataInit PROVE DataInv
  OBVIOUS
<1>1. ASSUME NEW w \in Writer
      PROVE  \E p \in {"build", "off"} :
                /\ writer[w] = [pc |-> p, i |-> 1, left |-> <<>>]
                /\ p = "off" => w = "sync_to_genesis"
  <2>1. CASE w = "run_syncer"
    BY <2>1 DEF DataInit
  <2>2. CASE w = "sync_to_genesis"
    BY <2>2 DEF DataInit
  <2>3. QED
    BY <2>1, <2>2, ListsAre
<1>2. WriterInv
  <2>1. ASSUME NEW w \in Writer PROVE writer[w] \in At /\ Placed(w, writer[w])
    <3>0. PICK p \in {"build", "off"} :
             /\ writer[w] = [pc |-> p, i |-> 1, left |-> <<>>]
             /\ p = "off" => w = "sync_to_genesis"
      BY <1>1
    <3>1. /\ writer[w].i = 1 /\ writer[w].pc \in {"build", "off"}
          /\ writer[w].pc = "off" => w = "sync_to_genesis"
      BY <3>0
    <3>2. Placed(w, writer[w])
      BY <3>1, ListsAre DEF Placed, Writing
    <3>3. writer[w] \in At
      BY <3>0, ListsAre DEF At, Stages
    <3>4. QED
      BY <3>2, <3>3
  <2>2. QED
    BY <2>1 DEF WriterInv, DataInit
<1>3. MessagesInv /\ StoredInv /\ OffInv
  BY DEF DataInit, MessagesInv, StoredInv, OffInv
<1>4. ReadyInv
  <2>1. \A w \in Writer : writer[w].pc \in {"build", "off"}
    BY <1>1
  <2>2. QED
    BY <2>1 DEF ReadyInv, Ready
<1>5. QED
  BY <1>2, <1>3, <1>4 DEF DataInv

-----------------------------------------------------------------------------
(* What the writers send. *)

LEMMA WorkIs ==
    ASSUME NEW w \in Writer
    PROVE  /\ Work[w] \in Seq(Batch) /\ Len(Work[w]) \in Nat
           /\ Len(Work[w]) = Len(Lists[w]) + (IF w = "sync_to_genesis" THEN 1 ELSE 0)
           /\ \A i \in 1..Len(Lists[w]) :
                /\ Work[w][i] = UNION {fs_miners(t) : t \in ToSet(Lists[w][i])}
                /\ Work[w][i] # NilBatch
<1> DEFINE Sends(i) == UNION {fs_miners(t) : t \in ToSet(Lists[w][i])}
           f == [i \in DOMAIN Lists[w] |-> Sends(i)]
           z == IF w = "sync_to_genesis" THEN <<NilBatch>> ELSE <<>>
<1>1. Work[w] = f \o z
  BY WorkAssumption
<1>2. DOMAIN Lists[w] = 1..Len(Lists[w]) /\ Len(Lists[w]) \in Nat
  BY DataAssumption, LenProperties
<1>3. ASSUME NEW i \in 1..Len(Lists[w]) PROVE Sends(i) \in Batch /\ Sends(i) # NilBatch
  <2>1. ToSet(Lists[w][i]) \subseteq Tipset
    BY ListTypes
  <2>2. Sends(i) \subseteq State
    BY <2>1, WorkAssumption
  <2>3. NoState \notin State
    BY PipelineAssumption
  <2> HIDE DEF Sends
  <2>4. QED
    BY <2>2, <2>3 DEF Batch, NilBatch
<1>4. f \in Seq(Batch) /\ Len(f) = Len(Lists[w]) /\ \A i \in 1..Len(Lists[w]) : f[i] = Sends(i)
  <2>1. f \in [1..Len(Lists[w]) -> Batch] /\ \A i \in 1..Len(Lists[w]) : f[i] = Sends(i)
    BY <1>2, <1>3
  <2>2. DOMAIN f = 1..Len(Lists[w])
    BY <1>2
  <2> HIDE DEF f
  <2>3. f \in Seq(Batch)
    BY <1>2, <2>1, IntervalSeq
  <2>4. QED
    BY <1>2, <2>1, <2>2, <2>3, LenProperties
<1>5. z \in Seq(Batch) /\ Len(z) = (IF w = "sync_to_genesis" THEN 1 ELSE 0)
  <2>1. NilBatch \in Batch
    BY DEF Batch
  <2>2. <<NilBatch>> \in Seq(Batch) /\ Len(<<NilBatch>>) = 1
    BY <2>1
  <2>3. <<>> \in Seq(Batch) /\ Len(<<>>) = 0
    BY EmptySeq
  <2>4. QED
    BY <2>2, <2>3
<1> HIDE DEF f, z, Sends
<1>6. /\ f \o z \in Seq(Batch) /\ Len(f \o z) = Len(f) + Len(z)
      /\ \A i \in 1..(Len(f) + Len(z)) : (f \o z)[i] = IF i <= Len(f) THEN f[i] ELSE z[i - Len(f)]
  BY <1>4, <1>5, ConcatProperties
<1>7. \A i \in 1..Len(Lists[w]) : Work[w][i] = Sends(i)
  <2> SUFFICES ASSUME NEW i \in 1..Len(Lists[w]) PROVE Work[w][i] = Sends(i)
    OBVIOUS
  <2>1. i \in 1..(Len(f) + Len(z)) /\ i <= Len(f)
    <3>1. Len(z) \in Nat
      BY <1>5, LenProperties
    <3>2. QED
      BY <1>2, <1>4, <3>1
  <2>2. QED
    BY <1>1, <1>4, <1>6, <2>1
<1>8. Len(Work[w]) = Len(Lists[w]) + (IF w = "sync_to_genesis" THEN 1 ELSE 0)
  BY <1>1, <1>4, <1>5, <1>6
<1>9. Work[w] \in Seq(Batch) /\ Len(Work[w]) \in Nat
  BY <1>1, <1>6, LenProperties
<1>10. QED
  BY <1>3, <1>7, <1>8, <1>9 DEF Sends

(* What w has left to send when it is to send the i-th batch next. *)
From(w, i) == SubSeq(Work[w], i, Len(Work[w]))

LEMMA FromIs ==
    ASSUME NEW w \in Writer, NEW i \in Nat \ {0}
    PROVE  /\ From(w, i) \in Seq(Batch)
           /\ i <= Len(Work[w]) => /\ From(w, i) # <<>> /\ Head(From(w, i)) = Work[w][i]
                                   /\ Tail(From(w, i)) = From(w, i + 1)
           /\ i > Len(Work[w]) => From(w, i) = <<>>
           /\ From(w, 1) = Work[w]
<1>1. Work[w] \in Seq(Batch) /\ Len(Work[w]) \in Nat
  BY WorkIs
<1>2. From(w, i) \in Seq(Batch) /\ Len(From(w, i)) = IF i <= Len(Work[w]) THEN Len(Work[w]) - i + 1 ELSE 0
  <2>1. \A k \in i..Len(Work[w]) : Work[w][k] \in Batch
    BY <1>1, ElementOfSeq
  <2>2. QED
    BY <1>1, <2>1, SubSeqProperties DEF From
<1>3. CASE i <= Len(Work[w])
  <2>1. i \in 1..Len(Work[w]) /\ Len(Work[w]) \in i..Len(Work[w])
    BY <1>1, <1>3
  <2>2. Head(From(w, i)) = Work[w][i] /\ Tail(From(w, i)) = From(w, i + 1)
    BY <1>1, <2>1, HeadTailOfSubSeq DEF From
  <2>3. From(w, i) # <<>>
    BY <1>1, <1>2, <1>3
  <2>4. QED
    BY <1>1, <1>2, <1>3, <2>2, <2>3, SubSeqFull DEF From
<1>4. CASE ~(i <= Len(Work[w]))
  BY <1>1, <1>2, <1>4, EmptySeq, SubSeqFull DEF From
<1>5. QED
  BY <1>3, <1>4

(* A writer has left to send the miners of its list, when it has not sent  *)
(* them, and those of the lists behind it.                                 *)
Following(w, at) ==
    CASE at.pc \in {"build", "send", "nil"} -> From(w, at.i)
      [] at.pc \in Writing                  -> From(w, at.i + 1)
      [] at.pc \in {"off", "ended"}         -> <<>>

TodoFollows == \A w \in Writer : todo[w] = Following(w, writer[w])

(* The steps of a writer. *)
LEMMA OwnSteps ==
    ASSUME WriterInv, NEW w \in Writer, Write(w)
    PROVE  \/ /\ writer[w].pc = "build" /\ writer'[w].pc \in {"messages", "send"}
              /\ writer'[w].i = writer[w].i /\ writer[w].i <= Len(Lists[w])
           \/ /\ writer[w].pc = "build" /\ writer'[w].pc \in {"build", "ended"}
              /\ writer'[w].i = writer[w].i + 1 /\ writer[w].i <= Len(Lists[w])
           \/ /\ writer[w].pc = "build" /\ writer'[w].pc = "nil"
              /\ writer'[w].i = writer[w].i
           \/ /\ writer[w].pc \in Writing /\ writer'[w].pc \in Writing
              /\ writer'[w].i = writer[w].i
           \/ /\ writer[w].pc \in Writing /\ writer'[w].pc \in {"build", "ended"}
              /\ writer'[w].i = writer[w].i + 1
<1>0. writer[w] \in At
  BY WriterTypes
<1>1. ASSUME NEW ok \in BOOLEAN, writer' = Done(w, ok)
      PROVE  writer'[w].pc \in {"build", "ended"} /\ writer'[w].i = writer[w].i + 1
  BY <1>1 DEF Done, WriterInv
<1>2. ASSUME NEW pc, GoTo(w, pc) PROVE writer'[w].pc = pc /\ writer'[w].i = writer[w].i
  BY <1>0, <1>2 DEF GoTo, WriterInv, At
<1>3. CASE Build(w)
  BY <1>0, <1>3 DEF Build, WriterInv, At
<1>4. CASE BuildFails(w)
  BY <1>1, <1>4 DEF BuildFails
<1>5. CASE SendNil(w)
  BY <1>2, <1>5 DEF SendNil
<1>6. CASE UpsertMessages(w)
  <2>1. ASSUME NEW rest, NEW pc \in {"blocks", writer[w].pc},
               writer' = [writer EXCEPT ![w].left = rest, ![w].pc = pc]
        PROVE  writer'[w].pc = pc /\ writer'[w].i = writer[w].i
    BY <1>0, <2>1 DEF WriterInv, At
  <2>2. writer[w].pc = "messages"
    BY <1>6 DEF UpsertMessages
  <2>3. QED
    BY <1>1, <1>6, <2>1, <2>2 DEF UpsertMessages, Writing
<1>7. CASE UpsertBlocks(w)
  BY <1>1, <1>2, <1>7 DEF UpsertBlocks, Writing
<1>8. CASE UpsertTipsets(w)
  <2>1. CASE writer' = [Done(w, TRUE) EXCEPT !["sync_to_genesis"].pc = "build"] /\ First(w)
    <3>1. writer'[w].pc = "build" /\ writer'[w].i = writer[w].i + 1
      BY <2>1, ListsAre DEF First, Done, WriterInv
    <3>2. QED
      BY <1>8, <3>1 DEF UpsertTipsets, Writing
  <2>2. QED
    BY <1>1, <1>8, <2>1 DEF UpsertTipsets, Writing
<1>9. QED
  BY <1>3, <1>4, <1>5, <1>6, <1>7, <1>8 DEF Write

LEMMA TodoStore ==
    ASSUME WriterInv, TodoFollows, NEW w \in Writer, Write(w),
           todo' = [u \in Sender |-> Remaining(w, u)]
    PROVE  TodoFollows'
<1>0. Sender = Writer /\ \A u \in Writer : Len(Lists[u]) \in Nat /\ Len(Work[u]) >= Len(Lists[u])
  BY WorkAssumption, WorkIs, ListsAre
<1> SUFFICES ASSUME NEW u \in Writer PROVE todo'[u] = Following(u, writer'[u])
  BY DEF TodoFollows, Following
<1>1. /\ todo'[u] = Remaining(w, u) /\ todo[u] = Following(u, writer[u])
      /\ writer[u].i \in Nat \ {0} /\ Placed(u, writer[u])
  BY <1>0, WriterTypes DEF TodoFollows
<1>2. CASE u # w /\ writer'[u] = writer[u]
  BY <1>1, <1>2 DEF Remaining, Following, Writing
<1>3. CASE writer[u].pc = "off" /\ writer'[u].pc = "build" /\ writer'[u].i = writer[u].i
  <2>1. Following(u, writer'[u]) = Work[u]
    BY <1>1, <1>3, FromIs DEF Following, Placed, Writing
  <2>2. QED
    BY <1>1, <1>3, <2>1 DEF Remaining
<1>4. CASE u = w
  <2> DEFINE i == writer[w].i
  <2>1. ASSUME i <= Len(Lists[w]) PROVE Tail(From(w, i)) = From(w, i + 1)
    <3>1. i \in Nat \ {0} /\ i <= Len(Work[w])
      BY <1>0, <1>1, <1>4, <2>1, WorkIs
    <3> HIDE DEF i
    <3>2. QED
      BY <3>1, FromIs
  <2>2. QED
    BY <1>1, <1>4, <2>1, OwnSteps DEF Remaining, Following, Writing
<1>5. QED
  BY <1>2, <1>3, <1>4, OthersStay

(* When the handler receives a batch, it is the one of w's list, or the    *)
(* nil behind the last.                                                    *)
LEMMA BatchIs ==
    ASSUME WriterInv, TodoFollows, NEW w \in Writer, Sent(w)
    PROVE  /\ todo[w] # <<>> /\ Tail(todo[w]) \in Seq(Batch)
           /\ writer'[w].i = writer[w].i
           /\ \/ /\ writer[w].pc = "send" /\ writer'[w].pc = "messages"
                 /\ Head(todo[w]) = UNION {fs_miners(t) : t \in ToSet(List(w))}
                 /\ Head(todo[w]) # NilBatch
                 /\ Tail(todo[w]) = From(w, writer[w].i + 1)
              \/ /\ writer[w].pc = "nil" /\ writer'[w].pc = "ended"
                 /\ Tail(todo[w]) = <<>>
<1>0. /\ Len(Lists[w]) \in Nat /\ Len(Work[w]) \in Nat
      /\ Len(Work[w]) = Len(Lists[w]) + (IF w = "sync_to_genesis" THEN 1 ELSE 0)
      /\ writer[w] \in At /\ writer[w].i \in Nat \ {0} /\ Placed(w, writer[w])
  BY WorkIs, ListsAre, WriterTypes
<1>1. writer'[w].i = writer[w].i
  BY <1>0 DEF Sent, GoTo, WriterInv, At
<1> DEFINE i == writer[w].i
<1>5. /\ i \in Nat \ {0} /\ From(w, i) \in Seq(Batch) /\ From(w, i + 1) \in Seq(Batch)
      /\ i <= Len(Work[w]) => /\ From(w, i) # <<>> /\ Head(From(w, i)) = Work[w][i]
                              /\ Tail(From(w, i)) = From(w, i + 1)
      /\ i = Len(Work[w]) => From(w, i + 1) = <<>>
  <2>1. i \in Nat \ {0} /\ i + 1 \in Nat \ {0}
    BY <1>0
  <2> HIDE DEF i
  <2>2. i = Len(Work[w]) => i + 1 > Len(Work[w])
    BY <2>1
  <2>3. QED
    BY <2>1, <2>2, FromIs
<1>2. CASE writer[w].pc = "send"
  <2>1. writer'[w].pc = "messages"
    BY <1>0, <1>2 DEF Sent, GoTo, WriterInv, At
  <2>2. i \in 1..Len(Lists[w]) /\ i <= Len(Work[w])
    <3>1. i <= Len(Lists[w])
      BY <1>0, <1>2 DEF Placed
    <3> HIDE DEF i
    <3>2. Len(Lists[w]) \in Nat /\ Len(Work[w]) \in Nat /\ Len(Lists[w]) <= Len(Work[w])
      BY WorkIs, ListsAre
    <3>3. QED
      BY <1>5, <3>1, <3>2
  <2>3. todo[w] = From(w, i)
    BY <1>2 DEF TodoFollows, Following, Writing
  <2>4. /\ Work[w][i] = UNION {fs_miners(t) : t \in ToSet(List(w))}
        /\ Work[w][i] # NilBatch
    BY <2>2, WorkIs DEF List
  <2>5. QED
    BY <1>1, <1>2, <1>5, <2>1, <2>2, <2>3, <2>4
<1>3. CASE writer[w].pc = "nil"
  <2>1. writer'[w].pc = "ended"
    BY <1>0, <1>3 DEF Sent, GoTo, WriterInv, At
  <2>2. i = Len(Work[w]) /\ i <= Len(Work[w])
    BY <1>0, <1>3 DEF Placed
  <2>3. todo[w] = From(w, i)
    BY <1>3 DEF TodoFollows, Following, Writing
  <2>4. QED
    BY <1>1, <1>3, <1>5, <2>1, <2>2, <2>3
<1>4. QED
  BY <1>2, <1>3 DEF Sent

LEMMA TodoSend ==
    ASSUME TypeOK, WriterInv, TodoFollows, NEW w \in Writer, Sent(w), Receive(w)
    PROVE  TodoFollows'
<1>0. Sender = Writer /\ todo' = [todo EXCEPT ![w] = Tail(@)] /\ todo \in [Writer -> Seq(Batch)]
  BY WorkAssumption DEF Receive, TypeOK
<1> SUFFICES ASSUME NEW u \in Writer PROVE todo'[u] = Following(u, writer'[u])
  BY DEF TodoFollows, Following
<1>1. CASE u # w
  <2>1. writer'[u] = writer[u]
    BY <1>1 DEF Sent, GoTo, WriterInv
  <2>2. QED
    BY <1>0, <1>1, <2>1 DEF TodoFollows
<1>2. CASE u = w
  BY <1>0, <1>2, BatchIs DEF Following, Writing
<1>3. QED
  BY <1>1, <1>2

-----------------------------------------------------------------------------
(* What the handler has been handed. *)

(* A list is in the handler's hand only while it ranges over it.           *)
HandInv == hpc \in {"select", "genesis"} => hand = {}

SentTo(t) == fs_miners(t) \subseteq asked \cup hand

(* But for the first tipset that is stored, the miners of a tipset are     *)
(* handed to the handler before it is stored, and so before its writer     *)
(* comes to its messages.                                                  *)
SentBut(first) ==
    /\ \A h \in DOMAIN tipsets : tipsets[h] # first => SentTo(tipsets[h])
    /\ \A w \in Writer : writer[w].pc \in Writing /\ ~First(w) =>
          \A t \in ToSet(List(w)) : SentTo(t)

SentInv == \E first \in Tipset : SentBut(first)

LEMMA SentStore ==
    ASSUME DataInv, SentInv, NEW w \in Writer, Write(w), UNCHANGED <<asked, hand>>
    PROVE  SentInv'
<1>0. WriterInv /\ OffInv /\ \A t : SentTo(t)' <=> SentTo(t)
  BY DEF DataInv, SentTo
<1>1. PICK first \in Tipset : SentBut(first)
  BY DEF SentInv
<1>2. CASE UpsertTipsets(w) /\ First(w)
  <2>0. w = "run_syncer" /\ writer["sync_to_genesis"].pc = "off" /\ DOMAIN tipsets = {}
        /\ "sync_to_genesis" \in Writer
    BY <1>0, <1>2, ListsAre DEF First, OffInv
  <2>1. PICK n \in 0..Len(List(w)) :
             /\ \A h \in DOMAIN tipsets' : tipsets'[h] \in {List(w)[i] : i \in 1..n}
             /\ {List(w)[i] : i \in 1..n} \subseteq ToSet(List(w))
             /\ ToSet(List(w)) \subseteq Tipset
             /\ \/ writer' = [Done(w, TRUE) EXCEPT !["sync_to_genesis"].pc = "build"]
                \/ writer' = Done(w, FALSE)
    BY <1>0, <1>2, <2>0, TipsetsStep
  <2>2. Len(List(w)) = 1
    <3>1. writer[w].i \in DOMAIN Lists[w]
      BY <1>0, <1>2, WriterTypes, ListTypes DEF UpsertTipsets, Writing
    <3>2. QED
      BY <2>0, <3>1, DataAssumption DEF List
  <2>3. \A u \in Writer : writer'[u].pc \notin Writing
    <3>1. writer'[w].pc = "build"
      BY <2>0, <2>1 DEF Done, WriterInv, DataInv
    <3>2. writer'["sync_to_genesis"].pc \in {"off", "build"}
      <4>1. /\ writer \in [Writer -> At] /\ w # "sync_to_genesis"
            /\ writer["sync_to_genesis"] \in At
        BY <1>0, <2>0 DEF WriterInv
      <4>2. ASSUME NEW ok \in BOOLEAN
            PROVE  /\ Done(w, ok)["sync_to_genesis"] = writer["sync_to_genesis"]
                   /\ DOMAIN Done(w, ok) = Writer
        BY <4>1 DEF Done
      <4>3. CASE writer' = [Done(w, TRUE) EXCEPT !["sync_to_genesis"].pc = "build"]
        <5>1. writer'["sync_to_genesis"] = [writer["sync_to_genesis"] EXCEPT !.pc = "build"]
          BY <2>0, <4>2, <4>3
        <5>2. QED
          BY <4>1, <5>1 DEF At
      <4>4. QED
        BY <2>0, <2>1, <4>2, <4>3
    <3>3. QED
      BY <2>0, <3>1, <3>2, ListsAre DEF Writing
  <2>4. CASE DOMAIN tipsets' = {}
    BY <1>1, <2>3, <2>4 DEF SentInv, SentBut
  <2>5. CASE DOMAIN tipsets' # {}
    <3>1. \A i \in 1..n : List(w)[i] = List(w)[1]
      BY <2>2
    <3>2. \A h \in DOMAIN tipsets' : tipsets'[h] = List(w)[1] /\ tipsets'[h] \in Tipset
      BY <2>1, <3>1
    <3>3. PICK t \in Tipset : \A h \in DOMAIN tipsets' : tipsets'[h] = t
      BY <2>5, <3>2
    <3>4. SentBut(t)'
      BY <2>3, <3>3 DEF SentBut
    <3>5. QED
      BY <3>4 DEF SentInv
  <2>6. QED
    BY <2>4, <2>5
<1>3. CASE ~(UpsertTipsets(w) /\ First(w))
  <2>1. \A h \in DOMAIN tipsets' : \/ h \in DOMAIN tipsets /\ tipsets'[h] = tipsets[h]
                                   \/ SentTo(tipsets'[h])
    <3>1. CASE UpsertTipsets(w)
      <4>1. \A t \in ToSet(List(w)) : SentTo(t)
        BY <1>1, <1>3, <3>1 DEF SentBut, UpsertTipsets, Writing
      <4>2. QED
        BY <1>0, <3>1, <4>1, TipsetsStep
    <3>2. CASE ~UpsertTipsets(w)
      BY <3>2 DEF Write, Build, BuildFails, SendNil, UpsertMessages, UpsertBlocks
    <3>3. QED
      BY <3>1, <3>2
  <2>2. writer["sync_to_genesis"].pc = "off" <=> writer'["sync_to_genesis"].pc = "off"
    <3>0. "sync_to_genesis" \in Writer
      BY ListsAre
    <3>1. CASE w = "sync_to_genesis"
      BY <1>0, <3>1, OwnSteps DEF Writing
    <3>2. CASE w # "sync_to_genesis"
      BY <1>0, <1>3, <3>0, <3>2, OthersStay
    <3>3. QED
      BY <3>1, <3>2
  <2>3. ASSUME NEW u \in Writer, writer'[u].pc \in Writing, ~First(u)'
        PROVE  \A t \in ToSet(List(u)') : SentTo(t)
    <3>0. ~First(u)
      BY <2>2, <2>3 DEF First
    <3>1. CASE u # w
      <4>1. writer'[u] = writer[u]
        BY <1>0, <1>3, <3>1, OthersStay
      <4>2. QED
        BY <1>1, <2>3, <3>0, <4>1 DEF SentBut, List
    <3>2. CASE u = w
      <4>1. writer[u].pc = "build" => writer'[u].pc # "messages"
        <5>1. ASSUME writer[u].pc = "build", writer'[u].pc = "messages" PROVE FALSE
          <6>1. CASE Build(w)
            BY <1>0, <3>0, <3>2, <5>1, <6>1, WriterTypes DEF Build, WriterInv, At
          <6>2. ~Build(w)
            BY <6>1
          <6>3. BuildFails(w) \/ SendNil(w)
            BY <3>2, <5>1, <6>2 DEF Write, UpsertMessages, UpsertBlocks, UpsertTipsets
          <6>4. writer'[w].pc \in {"build", "ended", "nil"}
            BY <1>0, <6>3, WriterTypes, DoneBuilds DEF BuildFails, SendNil, GoTo, WriterInv, At
          <6>5. QED
            BY <3>2, <5>1, <6>4
        <5>2. QED
          BY <5>1
      <4>2. writer[u].pc \in Writing /\ writer'[u].i = writer[u].i
        BY <1>0, <2>3, <3>2, <4>1, OwnSteps DEF Writing
      <4>3. QED
        BY <1>1, <3>0, <4>2 DEF SentBut, List
    <3>3. QED
      BY <3>1, <3>2
  <2>4. SentBut(first)'
    <3>1. \A h \in DOMAIN tipsets' : tipsets'[h] # first => SentTo(tipsets'[h])
      BY <1>1, <2>1 DEF SentBut
    <3>2. \A t : SentTo(t)' <=> SentTo(t)
      BY <1>0
    <3>3. QED
      BY <2>3, <3>1 DEF SentBut, SentTo
  <2>5. QED
    BY <2>4 DEF SentInv
<1>4. QED
  BY <1>2, <1>3

LEMMA SentSend ==
    ASSUME WriterInv, TodoFollows, HandInv, SentInv, NEW w \in Writer, Sent(w), Receive(w)
    PROVE  SentInv'
<1>1. PICK first \in Tipset : SentBut(first)
  BY DEF SentInv
<1>2. hand = {} /\ asked' = asked /\ tipsets' = tipsets
  BY DEF HandInv, Receive, Sent
<1>3. \A t : SentTo(t) => SentTo(t)'
  BY <1>2 DEF SentTo
<1>4. ASSUME NEW u \in Writer, writer'[u].pc \in Writing, ~First(u)'
      PROVE  \A t \in ToSet(List(u)') : SentTo(t)'
  <2>1. CASE u # w
    <3>1. writer'[u] = writer[u]
      BY <2>1 DEF Sent, GoTo, WriterInv
    <3>2. ~First(u)
      <4>1. writer["sync_to_genesis"] \in At /\ "sync_to_genesis" \in Writer
        BY ListsAre, WriterTypes
      <4>2. writer["sync_to_genesis"].pc = "off" => writer'["sync_to_genesis"].pc = "off"
        BY <4>1 DEF Sent, GoTo, WriterInv
      <4>3. QED
        BY <1>4, <4>2 DEF First
    <3>3. QED
      BY <1>1, <1>3, <1>4, <3>1, <3>2 DEF SentBut, List
  <2>2. CASE u = w
    <3>1. /\ Head(todo[w]) = UNION {fs_miners(t) : t \in ToSet(List(w))}
          /\ Head(todo[w]) # NilBatch /\ writer'[w].i = writer[w].i
      BY <1>4, <2>2, BatchIs DEF Writing
    <3>2. hand' = UNION {fs_miners(t) : t \in ToSet(List(w))} /\ List(w)' = List(w)
      BY <3>1 DEF Receive, List
    <3>3. QED
      BY <2>2, <3>2 DEF SentTo
  <2>3. QED
    BY <2>1, <2>2
<1>5. SentBut(first)'
  BY <1>1, <1>2, <1>3, <1>4 DEF SentBut
<1>6. QED
  BY <1>5 DEF SentInv

(* A step of the handler, of the ticker or of the caches hands nothing     *)
(* back.                                                                   *)
LEMMA SentKept ==
    ASSUME SentInv, HandInv, UNCHANGED dataVars,
           ListGenesis \/ (\E s \in State : Handle(s)) \/ SendState \/ EndOfBatch \/ Refresh \/ Tick
    PROVE  SentInv' /\ HandInv'
<1>1. asked \cup hand \subseteq asked' \cup hand' /\ HandInv'
  <2>1. CASE ListGenesis
    BY <2>1 DEF ListGenesis, HandInv
  <2>2. CASE \E s \in State : Handle(s)
    BY <2>2 DEF Handle, HandInv
  <2>3. CASE SendState \/ EndOfBatch \/ Refresh \/ Tick
    BY <2>3 DEF SendState, EndOfBatch, Refresh, Tick, HandInv
  <2>4. QED
    BY <2>1, <2>2, <2>3
<1>2. PICK first \in Tipset : SentBut(first)
  BY DEF SentInv
<1>3. \A t : SentTo(t) => SentTo(t)'
  BY <1>1 DEF SentTo
<1>4. SentBut(first)'
  BY <1>2, <1>3 DEF SentBut, List, First, dataVars
<1>5. QED
  BY <1>1, <1>4 DEF SentInv

-----------------------------------------------------------------------------
(* The pipeline and the storing of data together. *)

DocInv ==
    /\ PipelineInv /\ DataInv /\ HandInv /\ SentInv
    /\ looked = "syncer" => TodoFollows

LEMMA DocStart == DocInit => DocInv
<1> SUFFICES ASSUME DocInit PROVE DocInv
  OBVIOUS
<1>0. <<>> \in Seq(State) /\ Elements(<<>>) = {} /\ Len(<<>>) = 0 /\ Sender = Writer
      /\ NoState \notin State
  BY EmptySeq, WorkAssumption, PipelineAssumption DEF Elements
<1>1. DataInv
  BY DataStart DEF DocInit
<1>2. todo \in [Sender -> Seq(Batch)]
  <2>1. <<>> \in Seq(Batch) /\ \A w \in Sender : Work[w] \in Seq(Batch)
    BY <1>0, EmptySeq, WorkIs
  <2>2. QED
    BY <2>1 DEF DocInit
<1>3. TypeOK /\ HoldsToSend
  BY <1>0, <1>2 DEF DocInit, TypeOK, HoldsToSend
<1>4. BufferInRange /\ StoredIsCached
  BY <1>0, PipelineAssumption DEF DocInit, BufferInRange, StoredIsCached
<1>5. HandInv
  BY DEF DocInit, HandInv
<1>6. SentInv
  <2>1. \A w \in Writer : writer[w].pc \notin Writing
    BY DEF DocInit, DataInit, Writing
  <2>2. QED
    BY <2>1, DataAssumption DEF DocInit, DataInit, SentInv, SentBut
<1>7. ASSUME looked = "syncer" PROVE TodoFollows
  <2> SUFFICES ASSUME NEW w \in Writer PROVE todo[w] = Following(w, writer[w])
    BY DEF TodoFollows
  <2>1. CASE w = "run_syncer"
    <3>1. writer[w].pc = "build" /\ writer[w].i = 1 /\ todo[w] = Work[w]
      BY <1>0, <1>7, <2>1 DEF DocInit, DataInit
    <3>2. QED
      BY <3>1, FromIs DEF Following, Writing
  <2>2. CASE w # "run_syncer"
    <3>1. writer[w].pc = "off" /\ todo[w] = <<>>
      BY <1>0, <2>2 DEF DocInit, DataInit
    <3>2. QED
      BY <3>1 DEF Following, Writing
  <2>3. QED
    BY <2>1, <2>2
<1>8. QED
  BY <1>1, <1>3, <1>4, <1>5, <1>6, <1>7 DEF DocInv, PipelineInv

LEMMA StoreStep ==
    ASSUME DocInv, looked = "syncer", NEW w \in Writer, Store(w)
    PROVE  DocInv'
<1>0. WriterInv /\ TodoFollows /\ Write(w) /\ todo' = [u \in Sender |-> Remaining(w, u)]
      /\ UNCHANGED <<hpc, hand, isNil, miner, buffer, stored, chan, cached, asked, fails, ticks, looked>>
  BY DEF DocInv, DataInv, Store
<1>1. TodoFollows'
  BY <1>0, TodoStore
<1>2. DataInv'
  BY <1>0, DataStep DEF DocInv
<1>3. SentInv' /\ HandInv'
  BY <1>0, SentStore DEF DocInv, HandInv
<1>4. todo' \in [Sender -> Seq(Batch)]
  <2>1. Sender = Writer /\ WriterInv'
    BY <1>2, WorkAssumption DEF DataInv
  <2>2. ASSUME NEW u \in Writer PROVE todo'[u] \in Seq(Batch)
    <3>1. writer'[u] \in At
      BY <2>1 DEF WriterInv
    <3>2. writer'[u].i \in Nat \ {0} /\ writer'[u].i + 1 \in Nat \ {0} /\ writer'[u].pc \in Stages
      BY <3>1 DEF At
    <3>3. From(u, writer'[u].i) \in Seq(Batch) /\ From(u, writer'[u].i + 1) \in Seq(Batch)
      BY <3>2, FromIs
    <3>4. todo'[u] = Following(u, writer'[u])
      BY <1>1 DEF TodoFollows, Following
    <3>5. QED
      BY <3>2, <3>3, <3>4, EmptySeq DEF Following, Stages, Writing
  <2>3. QED
    BY <1>0, <2>1, <2>2
<1>5. PipelineInv'
  BY <1>0, <1>4 DEF DocInv, PipelineInv, TypeOK, HoldsToSend, BufferInRange, StoredIsCached, Elements
<1>6. QED
  BY <1>1, <1>2, <1>3, <1>5 DEF DocInv

(* Every other step of the syncer is one of MinerPipeline. *)
LEMMA HandlerSteps ==
    ASSUME DocInv, looked = "syncer",
           Handling \/ Refreshing \/ Ticking \/ \E w \in Writer : Send(w)
    PROVE  Next /\ DocInv'
<1>0. PipelineInv /\ DataInv /\ HandInv /\ SentInv /\ TodoFollows /\ WriterInv /\ Sender = Writer
  BY WorkAssumption DEF DocInv, DataInv
<1>1. Next
  BY <1>0 DEF Next, Handler, Handling, Refreshing, Ticking, Send
<1>2. PipelineInv'
  BY <1>0, <1>1, NextInv
<1>3. CASE \E w \in Writer : Send(w)
  <2>1. PICK w \in Writer : Sent(w) /\ Receive(w) /\ looked' = looked
    BY <1>3 DEF Send
  <2>2. DataInv'
    BY <1>0, <2>1, DataStep
  <2>3. SentInv'
    BY <1>0, <2>1, SentSend
  <2>4. TodoFollows'
    BY <1>0, <2>1, TodoSend DEF PipelineInv
  <2>5. HandInv'
    BY <2>1, <1>0 DEF Receive, HandInv
  <2>6. QED
    BY <1>1, <1>2, <2>2, <2>3, <2>4, <2>5 DEF DocInv
<1>4. CASE Handling \/ Refreshing \/ Ticking
  <2>1. /\ ListGenesis \/ (\E s \in State : Handle(s)) \/ SendState \/ EndOfBatch \/ Refresh \/ Tick
        /\ UNCHANGED dataVars
    BY <1>4 DEF Handling, Refreshing, Ticking
  <2>2. UNCHANGED todo
    BY <2>1 DEF ListGenesis, Handle, SendState, EndOfBatch, Refresh, Tick
  <2>3. SentInv' /\ HandInv'
    BY <1>0, <2>1, SentKept
  <2>4. DataInv'
    BY <1>0, <2>1 DEF DataInv, WriterInv, MessagesInv, ReadyInv, Ready, StoredInv, Whole, OffInv,
                      dataVars
  <2>5. TodoFollows'
    BY <1>0, <2>1, <2>2 DEF TodoFollows, dataVars
  <2>6. QED
    BY <1>1, <1>2, <2>3, <2>4, <2>5 DEF DocInv
<1>5. QED
  BY <1>3, <1>4

LEMMA OtherSteps ==
    ASSUME DocInv, UNCHANGED <<vars, dataVars, looked>>
    PROVE  DocInv'
<1>1. PipelineInv'
  BY NextInv DEF DocInv
<1>2. QED
  BY <1>1 DEF DocInv, DataInv, WriterInv, MessagesInv, ReadyInv, Ready, StoredInv, Whole, OffInv,
              HandInv, SentInv, SentBut, SentTo, List, First, TodoFollows, dataVars, vars

LEMMA DocStep ==
    ASSUME DocInv, [DocNext]_docVars
    PROVE  DocInv'
BY StoreStep, HandlerSteps, OtherSteps DEF DocNext, Syncer, Daemon, docVars

LEMMA DocInvariant == DocSpec => []DocInv
BY DocStart, DocStep, PTL DEF DocSpec

(* Beside the storing of data, too, nothing is written to the collection   *)
(* "miner" that the caches do not hear of.                                 *)
THEOREM MinersReachTheCaches == DocSpec => []StoredIsCached
<1>1. DocInv => StoredIsCached
  BY DEF DocInv, PipelineInv
<1>2. QED
  BY <1>1, DocInvariant, PTL

(* A tipset is stored with its blocks, its messages and their receipts,    *)
(* and all but the first with its miners handed to the handler.            *)
THEOREM StoredTipsetsAreWhole == DocSpec => []TipsetsAreWhole
<1>1. DocInv => TipsetsAreWhole
  <2> SUFFICES ASSUME DocInv PROVE TipsetsAreWhole
    OBVIOUS
  <2>0. StoredInv /\ MessagesInv /\ SentInv
    BY DEF DocInv, DataInv
  <2>1. PICK first \in Tipset : SentBut(first)
    BY <2>0 DEF SentInv
  <2>2. ASSUME NEW h \in DOMAIN tipsets
        PROVE  /\ Height[tipsets[h]] = h
               /\ Whole(tipsets[h])
               /\ tipsets[h] # first => fs_miners(tipsets[h]) \subseteq asked \cup hand
    BY <2>0, <2>1 DEF StoredInv, SentBut, SentTo
  <2>3. ASSUME NEW m \in DOMAIN messages
        PROVE  \E u \in Tipset :
                  /\ messages[m].block \in ToSet(Blocks[u])
                  /\ messages[m].receipt =
                        IF m \in ToSet(ParentMessages[u]) THEN <<u, m>> ELSE <<>>
    <3>1. messages[m] \in Docs /\ messages[m].cid = m
      BY <2>0 DEF MessagesInv
    <3>2. FromLotus(messages[m])
      BY <3>1, DocIs
    <3>3. QED
      BY <3>1, <3>2 DEF FromLotus
  <2>4. ASSUME NEW h \in DOMAIN tipsets, NEW b \in ToSet(Blocks[tipsets[h]]),
               NEW m \in ToSet(Msgs[b])
        PROVE  m \in DOMAIN messages
    BY <2>2 DEF Whole
  <2>5. QED
    BY <2>2, <2>3, <2>4 DEF TipsetsAreWhole, Whole
<1>2. QED
  BY <1>1, DocInvariant, PTL

(* The storing of data costs the pipeline no state: a failed call of lotus *)
(* or of the database still costs at most one.                             *)
THEOREM FailuresStillLoseOne == DocSpec => []EachFailureLosesOne
<1> DEFINE Inv == DocInv /\ EachFailureLosesOne
<1>1. DocInit => EachFailureLosesOne
  <2>1. DocInit => asked \ (stored \cup Elements(buffer)) = {} /\ fails = 0
    BY DEF DocInit
  <2>2. QED
    BY <2>1, FS_EmptySet DEF EachFailureLosesOne
<1>2. ASSUME Inv, [DocNext]_docVars PROVE EachFailureLosesOne'
  <2>1. CASE looked = "syncer" /\ \E w \in Writer : Store(w)
    BY <1>2, <2>1 DEF Store, EachFailureLosesOne, Elements
  <2>2. CASE UNCHANGED vars
    BY <1>2, <2>2, FailureStep DEF DocInv
  <2>3. CASE /\ looked = "syncer"
             /\ Handling \/ Refreshing \/ Ticking \/ \E w \in Writer : Send(w)
    BY <1>2, <2>3, HandlerSteps, FailureStep DEF DocInv
  <2>4. QED
    BY <1>2, <2>1, <2>2, <2>3 DEF DocNext, Syncer, Daemon, docVars
<1>3. Inv /\ [DocNext]_docVars => Inv'
  BY <1>2, DocStep
<1>4. DocInit => Inv
  BY <1>1, DocStart
<1>5. Inv => EachFailureLosesOne
  OBVIOUS
<1> HIDE DEF Inv
<1>6. QED
  BY <1>3, <1>4, <1>5, PTL DEF DocSpec

-----------------------------------------------------------------------------
(* The mirror of the block store. *)

Collections == {"block_headers", "messages", "signed_messages", "msg_metas"}

Item == {[collection |-> c, raw |-> r] : c \in Collections, r \in Raw}

LEMMA DocumentsAre ==
    ASSUME NEW raw \in Raw
    PROVE  DocumentsOf(raw) \in Seq(Item)
<1> DEFINE doc(c) == [collection |-> c, raw |-> raw]
           first == SelectInSeq(Kinds, LAMBDA k : k \in Unmarshals[raw])
           I == {i \in 1..Len(Kinds) : Kinds[i] \in Unmarshals[raw]}
<1>1. first \in {0, 1, 2, 3, 4}
  <2>1. Len(Kinds) = 4
    BY DEF Kinds
  <2>2. I # {} => Min(I) \in I
    <3>1. I \in SUBSET Nat
      BY <2>1
    <3> HIDE DEF I
    <3>2. QED
      BY <3>1, FirstIsLeast
  <2>3. first = IF I # {} THEN Min(I) ELSE 0
    BY DEF SelectInSeq
  <2> HIDE DEF first
  <2>4. QED
    BY <2>1, <2>2, <2>3
<1>2. \A c \in Collections : doc(c) \in Item
  BY DEF Item
<1> HIDE DEF first, I
<1>3. DocumentsOf(raw) = CASE first = 0 -> <<>>
                           [] first = 1 -> <<doc("block_headers")>>
                           [] first = 2 -> <<doc("messages")>>
                           [] first = 3 -> <<doc("signed_messages"), doc("messages")>>
                           [] first = 4 -> <<doc("msg_metas")>>
  BY DEF DocumentsOf, first
<1> HIDE DEF doc
<1>4. /\ <<>> \in Seq(Item) /\ <<doc("block_headers")>> \in Seq(Item)
      /\ <<doc("messages")>> \in Seq(Item) /\ <<doc("msg_metas")>> \in Seq(Item)
      /\ <<doc("signed_messages"), doc("messages")>> \in Seq(Item)
  BY <1>2, EmptySeq DEF Collections
<1>5. QED
  BY <1>1, <1>3, <1>4

LEMMA ItemsAre ==
    ASSUME NEW raws \in Calls
    PROVE  Items(raws) \in Seq(Item)
<1> DEFINE parts == [i \in DOMAIN raws |-> DocumentsOf(raws[i])]
<1>1. raws \in Seq(Raw) /\ DOMAIN raws = 1..Len(raws) /\ Len(raws) \in Nat
  BY StoreAssumption, LenProperties
<1>2. \A i \in 1..Len(raws) : raws[i] \in Raw
  BY <1>1, ElementOfSeq
<1>3. parts \in [1..Len(raws) -> Seq(Item)]
  BY <1>1, <1>2, DocumentsAre
<1>4. Items(raws) = FlattenSeq(parts)
  BY DEF Items
<1> HIDE DEF parts
<1>5. parts \in Seq(Seq(Item))
  BY <1>1, <1>3, IntervalSeq
<1>6. QED
  BY <1>4, <1>5, FlattenToSet

(* A message has one actor and one method, whichever reader of the table   *)
(* of actors names them.                                                   *)
LEMMA SameNames ==
    ASSUME NEW m, parseMessageCall(m).method # ""
    PROVE  ParseActorMessage(m) = [actor  |-> parseMessageCall(m).actor,
                                   method |-> parseMessageCall(m).method]
<1> DEFINE act == ActorOf(To[m])
           of  == LookupMethod(act, Number[m])
<1>1. ById[m] /\ Known(act, Number[m])
  BY DEF parseMessageCall
<1>2. parseMessageCall(m).actor = act.name /\ parseMessageCall(m).method = of.name
  BY <1>1 DEF parseMessageCall
<1>3. \E code \in DOMAIN Actors : act = parseActor(Actors[code])
  BY ActorAssumption DEF ActorOf, LookupByAddress, Lookup, actorInfos
<1>4. Number[m] # 0
  <2>1. PICK code \in DOMAIN Actors : act = parseActor(Actors[code])
    BY <1>3
  <2>2. DOMAIN act.methodMap = {Actors[code].methods[i].num : i \in DOMAIN Actors[code].methods}
    <3> DEFINE a == Actors[code]
               nums == {a.methods[i].num : i \in DOMAIN a.methods}
               map == [n \in nums |-> SelectLastInSeq(a.methods, LAMBDA f : f.num = n)]
               all == [i \in DOMAIN a.methods |->
                         [name |-> a.methods[i].name,
                          param |-> getMethodParam(a.exports, a.methods[i].num)]]
    <3>1. act = [name |-> a.name, methods |-> all, methodMap |-> map]
      BY <2>1 DEF parseActor
    <3>2. DOMAIN map = nums
      OBVIOUS
    <3> HIDE DEF act, map, all
    <3>3. act.methodMap = map
      BY <3>1
    <3>4. QED
      BY <3>2, <3>3
  <2>3. \A i \in DOMAIN Actors[code].methods : Actors[code].methods[i].num # 0
    BY ActorAssumption
  <2> HIDE DEF act
  <2>4. QED
    BY <1>1, <2>2, <2>3 DEF Known
<1>5. ParseActorMessage(m) = [actor |-> act.name, method |-> of.name]
  BY <1>1, <1>4 DEF ParseActorMessage
<1>6. QED
  BY <1>2, <1>5

LEMMA CallIs ==
    ASSUME NEW d, Call(d).method # ""
    PROVE  ParseActorMessage(d.raw) = [actor |-> Call(d).actor, method |-> Call(d).method]
<1>1. CASE d.collection = "messages"
  BY <1>1, SameNames DEF Call
<1>2. CASE d.collection # "messages"
  BY <1>2 DEF Call
<1>3. QED
  BY <1>1, <1>2

(* A goroutine has nothing left, blocks to parse, or documents to insert:  *)
(* they are among those of the blocks that were put, and it has looked at  *)
(* the clock after each of these was put first.                            *)
PutOf(p) ==
    \/ p = NoPut
    \/ p.pc = "parse" /\ p.raws \in Calls /\ ToSet(Items(p.raws)) \subseteq DOMAIN due
    \/ /\ p.pc \in {"encode", "register", "insert"} /\ "pc" \in DOMAIN p
       /\ p.items \in Seq(Item) /\ p.items # <<>> /\ p.seen \in Nat
       /\ \A d \in ToSet(p.items) : d \in DOMAIN due /\ due[d] <= p.seen

PutInv == put = [g \in Slot |-> put[g]] /\ \A g \in Slot : PutOf(put[g])

ClockInv == clock \in Nat /\ \A d \in DOMAIN due : due[d] \in Nat /\ due[d] <= clock

SeenInv ==
    \A d \in DOMAIN mirror :
        /\ d \in DOMAIN due /\ mirror[d].seen \in Nat /\ due[d] <= mirror[d].seen
        /\ mirror[d].call = Call(d)

(* No document is forgotten. *)
Remembered == DOMAIN due \subseteq DOMAIN mirror \cup excused \cup UNION {Left(g) : g \in Slot}

MirrorInv == PutInv /\ ClockInv /\ SeenInv /\ Remembered

(* What a goroutine has left, by what it is at *)
LeftOf(p) ==
    CASE p.pc = "none"  -> {}
      [] p.pc = "parse" -> ToSet(Items(p.raws))
      [] OTHER          -> ToSet(p.items)

LEMMA EncodingIs ==
    ASSUME NEW items \in Seq(Item), NEW seen \in Nat,
           \A d \in ToSet(items) : d \in DOMAIN due /\ due[d] <= seen
    PROVE  PutOf(Encoding(items, seen)) /\ LeftOf(Encoding(items, seen)) = ToSet(items)
<1>1. CASE items = <<>>
  <2>1. ToSet(<<>>) = {}
    BY DEF ToSet
  <2>2. QED
    BY <1>1, <2>1 DEF Encoding, PutOf, NoPut, LeftOf
<1>2. CASE items # <<>>
  BY <1>2 DEF Encoding, PutOf, LeftOf
<1>3. QED
  BY <1>1, <1>2

(* A step of one goroutine, that of g: what it had left and has no more is *)
(* in the mirror, or it is excused.                                        *)
LEMMA OneStep ==
    ASSUME MirrorInv, NEW g \in Slot, NEW p, put' = [put EXCEPT ![g] = p], PutOf(p)',
           UNCHANGED <<due, clock>>, excused \subseteq excused',
           DOMAIN mirror \subseteq DOMAIN mirror', SeenInv',
           LeftOf(put[g]) \subseteq LeftOf(p) \cup DOMAIN mirror' \cup excused'
    PROVE  MirrorInv'
<1>1. PutInv'
  BY DEF MirrorInv, PutInv, PutOf
<1>2. ClockInv'
  BY DEF MirrorInv, ClockInv
<1>3. Remembered'
  <2> SUFFICES ASSUME NEW d \in DOMAIN due
               PROVE  \/ d \in DOMAIN mirror' \/ d \in excused'
                      \/ \E h \in Slot : d \in LeftOf(put'[h])
    BY DEF Remembered, Left, LeftOf
  <2>1. d \in DOMAIN mirror \/ d \in excused \/ \E h \in Slot : d \in LeftOf(put[h])
    BY DEF MirrorInv, Remembered, Left, LeftOf
  <2>2. put'[g] = p /\ \A h \in Slot : h # g => put'[h] = put[h]
    BY DEF MirrorInv, PutInv
  <2> QED
    BY <2>1, <2>2
<1>4. QED
  BY <1>1, <1>2, <1>3 DEF MirrorInv

LEMMA MirrorKept ==
    ASSUME SeenInv, UNCHANGED <<mirror, due>>
    PROVE  SeenInv'
BY DEF SeenInv

LEMMA PutStep ==
    ASSUME MirrorInv, NEW g \in Slot, NEW raws \in Calls, Put(g, raws)
    PROVE  MirrorInv'
<1>1. CASE dsn
  <2> DEFINE p == [pc |-> "parse", raws |-> raws]
             new == ToSet(Items(raws))
  <2>1. /\ put[g] = NoPut /\ put' = [put EXCEPT ![g] = p]
        /\ due' = [d \in DOMAIN due \cup new |-> IF d \in DOMAIN due THEN due[d] ELSE clock]
        /\ UNCHANGED <<mirror, clock, excused>>
    BY <1>1 DEF Put
  <2>2. DOMAIN due' = DOMAIN due \cup new /\ \A d \in DOMAIN due : due'[d] = due[d]
    BY <2>1
  <2>3. ASSUME NEW h \in Slot PROVE PutOf(put[h])'
    <3>1. CASE h = g
      <4>1. put'[h] = p
        BY <2>1, <3>1 DEF MirrorInv, PutInv
      <4>2. QED
        BY <2>2, <4>1 DEF PutOf
    <3>2. CASE h # g
      <4>1. put'[h] = put[h] /\ PutOf(put[h])
        BY <2>1, <3>2 DEF MirrorInv, PutInv
      <4> HIDE DEF new
      <4>2. QED
        BY <2>2, <4>1 DEF PutOf
    <3>3. QED
      BY <3>1, <3>2
  <2>4. PutInv'
    BY <2>1, <2>3 DEF MirrorInv, PutInv
  <2>5. ClockInv'
    <3> HIDE DEF new
    <3>1. QED
      BY <2>1, <2>2 DEF MirrorInv, ClockInv
  <2>6. SeenInv'
    <3> HIDE DEF new
    <3>1. QED
      BY <2>1, <2>2 DEF MirrorInv, SeenInv
  <2>7. Remembered'
    <3> SUFFICES ASSUME NEW d \in DOMAIN due'
                 PROVE  \/ d \in DOMAIN mirror \/ d \in excused
                        \/ \E h \in Slot : d \in LeftOf(put'[h])
      BY <2>1 DEF Remembered, Left, LeftOf
    <3>1. put'[g] = p /\ \A h \in Slot : h # g => put'[h] = put[h]
      BY <2>1 DEF MirrorInv, PutInv
    <3>2. LeftOf(put[g]) = {} /\ LeftOf(p) = new
      BY <2>1 DEF LeftOf, NoPut
    <3>3. d \in DOMAIN due => d \in DOMAIN mirror \/ d \in excused \/ \E h \in Slot : d \in LeftOf(put[h])
      BY DEF MirrorInv, Remembered, Left, LeftOf
    <3> HIDE DEF p, new
    <3>4. QED
      BY <2>2, <3>1, <3>2, <3>3
  <2>8. QED
    BY <2>4, <2>5, <2>6, <2>7 DEF MirrorInv
<1>2. CASE ~dsn
  BY <1>2 DEF Put, MirrorInv, PutInv, PutOf, ClockInv, SeenInv, Remembered, Left
<1>3. QED
  BY <1>1, <1>2

LEMMA PutKept ==
    ASSUME NEW p, PutOf(p), UNCHANGED due
    PROVE  PutOf(p)'
BY DEF PutOf

LEMMA GoroutineStep ==
    ASSUME MirrorInv, NEW g \in Slot,
           Parse(g) \/ Encode(g) \/ Register(g) \/ Insert(g) \/ InsertFails(g)
    PROVE  MirrorInv'
<1>1. PICK p : p = put[g]
  OBVIOUS
<1>0. PutOf(p) /\ p # NoPut /\ ClockInv /\ SeenInv /\ UNCHANGED <<due, clock>>
  BY <1>1 DEF MirrorInv, PutInv, Parse, Encode, Register, Insert, InsertFails, NoPut
<1>2. CASE Parse(g)
  <2>1. PICK items : items = Items(p.raws)
    OBVIOUS
  <2>2. PICK q : q = Encoding(items, clock)
    OBVIOUS
  <2>3. p.pc = "parse" /\ p.raws \in Calls /\ ToSet(items) \subseteq DOMAIN due
    BY <1>0, <1>1, <1>2, <2>1 DEF Parse, PutOf, NoPut
  <2>4. items \in Seq(Item) /\ LeftOf(p) = ToSet(items)
    BY <2>1, <2>3, ItemsAre DEF LeftOf
  <2>5. put' = [put EXCEPT ![g] = q] /\ UNCHANGED <<mirror, excused>>
    BY <1>1, <1>2, <2>1, <2>2 DEF Parse
  <2>6. PutOf(q) /\ LeftOf(q) = ToSet(items)
    BY <1>0, <2>2, <2>3, <2>4, EncodingIs DEF ClockInv
  <2>7. QED
    BY <1>0, <1>1, <2>4, <2>5, <2>6, OneStep, MirrorKept, PutKept
<1>3. CASE ~Parse(g)
  <2>1. /\ p.pc \in {"encode", "register", "insert"} /\ "pc" \in DOMAIN p
        /\ p.items \in Seq(Item) /\ p.items # <<>> /\ p.seen \in Nat
        /\ \A d \in ToSet(p.items) : d \in DOMAIN due /\ due[d] <= p.seen
    BY <1>0, <1>1, <1>3 DEF PutOf, NoPut, Encode, Register, Insert, InsertFails
  <2>2. LeftOf(p) = ToSet(p.items)
    BY <2>1 DEF LeftOf
  <2>3. CASE Encode(g)
    <3>1. /\ p.pc = "encode" /\ UNCHANGED <<mirror, excused>>
          /\ \/ put' = [put EXCEPT ![g].pc = "insert"]
             \/ \E type : put' = [put EXCEPT ![g] = [pc |-> "register", type |-> type,
                                                    items |-> p.items, seen |-> p.seen]]
      BY <1>1, <2>3 DEF Encode
    <3>2. ASSUME NEW q, put' = [put EXCEPT ![g] = q], q.pc \in {"insert", "register"},
                 "pc" \in DOMAIN q, q.items = p.items, q.seen = p.seen
          PROVE  MirrorInv'
      <4>1. PutOf(q) /\ LeftOf(q) = ToSet(p.items)
        BY <2>1, <3>2 DEF PutOf, LeftOf
      <4>2. QED
        BY <1>0, <1>1, <2>2, <3>1, <3>2, <4>1, OneStep, MirrorKept, PutKept
    <3>3. CASE put' = [put EXCEPT ![g].pc = "insert"]
      <4>1. PICK q : q = [p EXCEPT !.pc = "insert"]
        OBVIOUS
      <4>2. put' = [put EXCEPT ![g] = q]
        BY <1>1, <3>3, <4>1
      <4>3. q.pc = "insert" /\ "pc" \in DOMAIN q /\ q.items = p.items /\ q.seen = p.seen
        BY <2>1, <4>1
      <4>4. QED
        BY <3>2, <4>2, <4>3
    <3>4. CASE \E type : put' = [put EXCEPT ![g] = [pc |-> "register", type |-> type,
                                                  items |-> p.items, seen |-> p.seen]]
      <4>1. PICK type : put' = [put EXCEPT ![g] = [pc |-> "register", type |-> type,
                                                  items |-> p.items, seen |-> p.seen]]
        BY <3>4
      <4>2. PICK q : q = [pc |-> "register", type |-> type, items |-> p.items, seen |-> p.seen]
        OBVIOUS
      <4>3. q.pc = "register" /\ "pc" \in DOMAIN q /\ q.items = p.items /\ q.seen = p.seen
        BY <4>2
      <4>4. QED
        BY <3>2, <4>1, <4>2, <4>3
    <3>5. QED
      BY <3>1, <3>3, <3>4
  <2>4. CASE Register(g)
    <3>1. PICK q : q = Encoding(p.items, p.seen)
      OBVIOUS
    <3>2. put' = [put EXCEPT ![g] = q] /\ UNCHANGED <<mirror, excused>>
      BY <1>1, <2>4, <3>1 DEF Register
    <3>3. PutOf(q) /\ LeftOf(q) = ToSet(p.items)
      BY <2>1, <3>1, EncodingIs
    <3>4. QED
      BY <1>0, <1>1, <2>2, <3>2, <3>3, OneStep, MirrorKept, PutKept
  <2>5. CASE Insert(g) \/ InsertFails(g)
    <3>1. PICK item : item = p.items[1]
      OBVIOUS
    <3>2. PICK q : q = Encoding(Tail(p.items), p.seen)
      OBVIOUS
    <3>3. /\ Tail(p.items) \in Seq(Item)
          /\ ToSet(p.items) = {item} \cup ToSet(Tail(p.items))
      BY <2>1, <3>1, HeadAndTail
    <3>4. PutOf(q) /\ LeftOf(q) = ToSet(Tail(p.items))
      BY <2>1, <3>2, <3>3, EncodingIs
    <3>5. put' = [put EXCEPT ![g] = q]
      BY <1>1, <2>5, <3>2 DEF Insert, InsertFails, Rest
    <3>6. CASE Insert(g)
      <4>1. /\ mirror' = [d \in DOMAIN mirror \cup {item} |->
                   IF d \in DOMAIN mirror THEN mirror[d]
                   ELSE [seen |-> p.seen, call |-> Call(item)]]
            /\ UNCHANGED excused
        BY <1>1, <3>1, <3>6 DEF Insert
      <4>2. SeenInv'
        BY <1>0, <2>1, <3>3, <4>1 DEF SeenInv
      <4>3. DOMAIN mirror' = DOMAIN mirror \cup {item}
        BY <4>1
      <4>4. UNCHANGED <<due, clock>> /\ MirrorInv /\ put[g] = p
        BY <1>0, <1>1
      <4>5. PutOf(q)'
        BY <3>4, <4>4, PutKept
      <4>6. LeftOf(put[g]) \subseteq LeftOf(q) \cup DOMAIN mirror' \cup excused'
        BY <2>2, <3>3, <3>4, <4>3, <4>4
      <4>7. DOMAIN mirror \subseteq DOMAIN mirror' /\ excused \subseteq excused'
        BY <4>1, <4>3
      <4>8. QED
        BY <3>5, <4>2, <4>4, <4>5, <4>6, <4>7, OneStep
    <3>7. CASE InsertFails(g)
      <4>1. UNCHANGED mirror /\ excused' = excused \cup {item}
        BY <1>1, <3>1, <3>7 DEF InsertFails
      <4>2. UNCHANGED <<due, clock>> /\ MirrorInv /\ put[g] = p
        BY <1>0, <1>1
      <4>3. SeenInv'
        BY <1>0, <4>1, <4>2, MirrorKept
      <4>4. PutOf(q)'
        BY <3>4, <4>2, PutKept
      <4>5. LeftOf(put[g]) \subseteq LeftOf(q) \cup DOMAIN mirror' \cup excused'
        BY <2>2, <3>3, <3>4, <4>1, <4>2
      <4>6. DOMAIN mirror \subseteq DOMAIN mirror' /\ excused \subseteq excused'
        BY <4>1
      <4>7. QED
        BY <3>5, <4>2, <4>3, <4>4, <4>5, <4>6, OneStep
    <3>8. QED
      BY <2>5, <3>6, <3>7
  <2>6. QED
    BY <1>3, <2>3, <2>4, <2>5
<1>4. QED
  BY <1>2, <1>3

LEMMA DeathStep ==
    ASSUME MirrorInv, Death
    PROVE  MirrorInv'
<1>1. /\ put' = [g \in Slot |-> NoPut] /\ UNCHANGED <<due, clock, mirror>>
      /\ excused' = excused \cup UNION {Left(g) : g \in Slot}
  BY DEF Death
<1>2. PutInv'
  BY <1>1 DEF PutInv, PutOf
<1>3. Remembered'
  BY <1>1 DEF MirrorInv, Remembered
<1>4. QED
  BY <1>1, <1>2, <1>3 DEF MirrorInv, ClockInv, SeenInv

LEMMA MirrorStart == StoreInit => MirrorInv
BY DEF StoreInit, MirrorInv, PutInv, PutOf, ClockInv, SeenInv, Remembered

LEMMA MirrorUnchanged ==
    ASSUME MirrorInv, UNCHANGED <<put, mirror, due, excused>>, clock' \in Nat, clock' >= clock
    PROVE  MirrorInv'
BY DEF MirrorInv, PutInv, PutOf, ClockInv, SeenInv, Remembered, Left

LEMMA StoreNextStep ==
    ASSUME MirrorInv, StoreNext
    PROVE  MirrorInv'
<1>0. clock \in Nat
  BY DEF MirrorInv, ClockInv
<1>1. CASE Clock
  BY <1>0, <1>1, MirrorUnchanged DEF Clock
<1>2. CASE MapRace \/ Death
  BY <1>2, DeathStep DEF MapRace
<1>3. CASE \E g \in Slot : \E raws \in Calls : Put(g, raws)
  BY <1>3, PutStep
<1>4. CASE \E g \in Slot : Parse(g) \/ Encode(g) \/ Register(g) \/ Insert(g) \/ InsertFails(g)
  BY <1>4, GoroutineStep
<1>5. CASE \E raw \in Deleted : DeleteBlock(raw)
  BY <1>0, <1>5, MirrorUnchanged DEF DeleteBlock
<1>6. QED
  BY <1>1, <1>2, <1>3, <1>4, <1>5 DEF StoreNext

(* No document of a block that was put is forgotten but for those of a     *)
(* failed insert or of a daemon that ended, none was seen before it was    *)
(* put, and the mirror and the syncer name a message alike.                *)
THEOREM MirrorStaysTrue == DocSpec => []MirrorIsTrue
<1>1. DocInit => MirrorInv
  BY MirrorStart DEF DocInit
<1>2. MirrorInv /\ [DocNext]_docVars => MirrorInv'
  <2> SUFFICES ASSUME MirrorInv, [DocNext]_docVars PROVE MirrorInv'
    OBVIOUS
  <2>1. CASE UNCHANGED storeVars
    <3>1. clock' = clock /\ clock \in Nat
      BY <2>1 DEF storeVars, MirrorInv, ClockInv
    <3>2. QED
      BY <2>1, <3>1, MirrorUnchanged DEF storeVars
  <2>2. CASE StoreNext
    BY <2>2, StoreNextStep
  <2>3. QED
    BY <2>1, <2>2 DEF DocNext, Syncer, Daemon, Handling, Refreshing, Ticking, Send, Store, docVars
<1>3. MirrorInv => MirrorIsTrue
  BY CallIs DEF MirrorInv, SeenInv, Remembered, MirrorIsTrue
<1>4. QED
  BY <1>1, <1>2, <1>3, PTL DEF DocSpec
=============================================================================
