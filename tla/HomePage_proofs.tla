-------------------------- MODULE HomePage_proofs --------------------------
(***************************************************************************)
(* Theorems about HomePage, for any number of requests at once, every cash *)
(* time, every bound on how long a request takes and any peers.            *)
(***************************************************************************)
EXTENDS HomePage, TLAPS

(* The fields of a struct, those the theorems are about, and their order.  *)
Fields(s) == ToSet(Writes(s)) \ {"Time"}

Told(s) == Fields(s) \ {Kept}

Precedes(s, f, g) ==
    \E i, j \in DOMAIN Writes(s) : i < j /\ Writes(s)[i] = f /\ Writes(s)[j] = g

TypeOK ==
    /\ struct \in Struct /\ time \in Nat /\ now \in Nat
    /\ pc \in [Request -> {"idle", "compute", "write", "read", "answered"}]
    /\ asked \in [Request -> Nat] /\ began \in [Request -> Nat]
    /\ left \in [Request -> Seq(ToSet(Writes(struct)))]
    /\ alone \in [Request -> BOOLEAN] /\ overlapped \in BOOLEAN
    /\ \A r \in Request : pc[r] = "read" => left[r] \in Seq(Fields(struct))
    /\ cash = [f \in Fields(struct) |-> cash[f]]
    /\ \A f \in Fields(struct) : cash[f].at \in Nat
    /\ data = [r \in Request |-> data[r]] /\ \A r \in Request : data[r].at \in Nat
    /\ got = [r \in Request |-> [f \in Fields(struct) |-> got[r][f]]]
    /\ \A r \in Request : \A f \in Fields(struct) : got[r][f].at \in Nat

(* Nothing is of the future, and a request that runs came within MaxRun. *)
ClockInv ==
    /\ time <= now
    /\ \A r \in Request : Running(r) =>
        asked[r] <= began[r] /\ began[r] <= now /\ now <= began[r] + MaxRun

(* A refresh has what it computed, and writes in the order of Writes. *)
RefreshInv ==
    \A r \in Request :
        /\ pc[r] = "compute" => left[r] = Writes(struct)
        /\ pc[r] = "write" =>
            /\ data[r].at = began[r]
            /\ \A i, j \in DOMAIN left[r] :
                i < j => Precedes(struct, left[r][i], left[r][j])
            /\ \A f \in Told(struct) \ ToSet(left[r]) : began[r] <= cash[f].at + MaxRun

(* Time vouches for a field, unless a refresh has yet to write the field   *)
(* and has written Time before.                                            *)
VouchInv ==
    \A f \in Told(struct) :
        \/ time <= cash[f].at + 2 * MaxRun
        \/ /\ Precedes(struct, "Time", f)
           /\ \E u \in Request : pc[u] = "write" /\ f \in ToSet(left[u])

(* FreshEnough of a value; PeerMap compares with <. *)
NotOld(s, end, at) ==
    IF s = "peerPointCash" THEN end < at + CashTime + 2 * MaxRun
    ELSE end <= at + CashTime + 2 * MaxRun

(* What a request has read, and what it has yet to read, is fresh enough.  *)
ReadInv ==
    \A r \in Request : \A f \in Told(struct) : alone[r] \/ Precedes(struct, f, "Time") =>
        /\ pc[r] = "read" /\ f \in ToSet(left[r]) => NotOld(struct, asked[r], cash[f].at)
        /\ pc[r] = "read" /\ f \notin ToSet(left[r]) => NotOld(struct, asked[r], got[r][f].at)
        /\ pc[r] = "answered" => NotOld(struct, asked[r], got[r][f].at)

AgeInv == TypeOK /\ ClockInv /\ RefreshInv /\ VouchInv /\ ReadInv

(* One refresh at a time leaves the values of one refresh. *)
Single == \A r, u \in Request : Refreshing(r) /\ Refreshing(u) => r = u

CashInv ==
    /\ \A u \in Request : pc[u] = "write" =>
        \A f \in Told(struct) \ ToSet(left[u]) : cash[f] = data[u]
    /\ \A f, g \in Told(struct) :
        (\A u \in Request : pc[u] = "write" => f \in ToSet(left[u]) /\ g \in ToSet(left[u]))
            => cash[f] = cash[g]

Shown(r, f) ==
    IF pc[r] = "read" /\ f \in ToSet(left[r]) THEN cash[f] ELSE got[r][f]

GotInv ==
    \A r \in Request : pc[r] \in {"read", "answered"} /\ alone[r] =>
        \A f, g \in Told(struct) : Shown(r, f) = Shown(r, g)

OneInv == ~overlapped => Single /\ CashInv /\ GotInv

(* A map shows no peer that was located more than a day before. *)
Located(v) ==
    \A p \in v.peers : p \in DOMAIN peers /\ v.at <= peers[p].gmt_modified + Day

PeersInv ==
    /\ \A p \in DOMAIN peers :
        \E ip : \E t \in Nat : t <= now /\ peers[p] = [ip |-> ip, gmt_modified |-> t]
    /\ \A f \in Fields(struct) : Located(cash[f])
    /\ \A r \in Request : Located(data[r]) /\ \A f \in Fields(struct) : Located(got[r][f])

-----------------------------------------------------------------------------
(* The structs. *)

LEMMA FieldFacts ==
  /\ Field = Fields(struct)
  /\ \A s : Told(s) \subseteq Fields(s) /\ Fields(s) \subseteq ToSet(Writes(s))
  /\ \A s : "Time" \notin Told(s)
  /\ \A f, g : Before(f, g) = Precedes(struct, f, g)
  BY DEF Field, Fields, Told, Before, Precedes

LEMMA WritesApart ==
  \A s \in Struct : \A i, j \in DOMAIN Writes(s) : Writes(s)[i] = Writes(s)[j] => i = j
  BY DEF Writes, Struct

LEMMA OneOrder ==
  ASSUME NEW s \in Struct, NEW f, NEW g, Precedes(s, f, g)
  PROVE  ~Precedes(s, g, f)
<1>1. DOMAIN Writes(s) \subseteq Int
  BY DEF Writes, Struct
<1>2. QED
  BY <1>1, WritesApart DEF Precedes

LEMMA OrdersOf ==
  \A s \in Struct :
     /\ Writes(s) \in Seq(ToSet(Writes(s))) /\ WithoutKept(s) \in Seq(ToSet(Writes(s)))
     /\ Reads(s) \in Seq(Fields(s)) /\ ReadsBack(s) \in Seq(Fields(s))
<1> TAKE s \in Struct
<1>1. \A i \in DOMAIN Writes(s) : Writes(s)[i] \in ToSet(Writes(s))
  BY DEF ToSet
<1>2. \A i \in DOMAIN WithoutKept(s) : WithoutKept(s)[i] \in ToSet(Writes(s))
  BY DEF Struct, Writes, WithoutKept, ToSet
<1>3. \A i \in DOMAIN Reads(s) : Reads(s)[i] \in Fields(s)
  BY DEF Struct, Writes, Reads, ToSet, Fields
<1>4. \A i \in DOMAIN ReadsBack(s) : ReadsBack(s)[i] \in Fields(s)
  BY <1>3 DEF Struct, Writes, Reads, ReadsBack, ToSet, Fields
<1>5. \A S : (\A i \in DOMAIN Writes(s) : Writes(s)[i] \in S) => Writes(s) \in Seq(S)
  BY DEF Struct, Writes
<1>6. \A S : (\A i \in DOMAIN WithoutKept(s) : WithoutKept(s)[i] \in S) => WithoutKept(s) \in Seq(S)
  BY <1>5 DEF Struct, WithoutKept
<1>7. \A S : (\A i \in DOMAIN Reads(s) : Reads(s)[i] \in S) => Reads(s) \in Seq(S)
  BY DEF Struct, Reads
<1>8. \A S : (\A i \in DOMAIN ReadsBack(s) : ReadsBack(s)[i] \in S) => ReadsBack(s) \in Seq(S)
  BY <1>7 DEF Struct, ReadsBack
<1>9. QED
  BY <1>1, <1>2, <1>3, <1>4, <1>5, <1>6, <1>7, <1>8

LEMMA ListsComplete ==
  \A s \in Struct : \A f \in Told(s) :
     f \in ToSet(Writes(s)) /\ f \in ToSet(WithoutKept(s)) /\ f \in ToSet(Reads(s))
  BY DEF Struct, Writes, WithoutKept, Reads, ToSet, Told, Fields, Kept

LEMMA ListsOrdered ==
  ASSUME NEW s \in Struct, NEW w \in {Writes(s), WithoutKept(s)}, NEW i \in DOMAIN w,
         NEW j \in DOMAIN w, i < j
  PROVE  Precedes(s, w[i], w[j])
<1>1. CASE w = Writes(s)
  BY <1>1 DEF Precedes
<1>2. CASE w = WithoutKept(s)
  BY <1>2 DEF Struct, Writes, WithoutKept, Precedes
<1>3. QED
  BY <1>1, <1>2

LEMMA HeadAndTail ==
  ASSUME NEW S, NEW s \in Seq(S), s # <<>>
  PROVE  /\ Head(s) \in S /\ Tail(s) \in Seq(S)
         /\ ToSet(s) = {Head(s)} \cup ToSet(Tail(s))
         /\ \A i \in DOMAIN Tail(s) : i + 1 \in DOMAIN s /\ i \in Nat /\ Tail(s)[i] = s[i + 1]
         /\ 1 \in DOMAIN s /\ s[1] = Head(s)
         /\ \A f \in ToSet(Tail(s)) : \E j \in DOMAIN s : j > 1 /\ s[j] = f
<1>1. /\ Len(s) \in Nat /\ Len(s) > 0 /\ DOMAIN s = 1..Len(s)
      /\ Head(s) = s[1] /\ Tail(s) \in Seq(S) /\ Len(Tail(s)) = Len(s) - 1
      /\ \A i \in 1..(Len(s) - 1) : Tail(s)[i] = s[i + 1]
  OBVIOUS
<1>2. DOMAIN Tail(s) = 1..(Len(s) - 1)
  BY <1>1
<1>3. \A i \in DOMAIN Tail(s) : i + 1 \in DOMAIN s /\ i \in Nat /\ i + 1 > 1 /\ Tail(s)[i] = s[i + 1]
  BY <1>1, <1>2
<1>4. \A f \in ToSet(Tail(s)) : \E j \in DOMAIN s : j > 1 /\ s[j] = f
  BY <1>3 DEF ToSet
<1>5. \A i \in DOMAIN s : i = 1 \/ (i - 1 \in DOMAIN Tail(s) /\ Tail(s)[i - 1] = s[i])
  BY <1>1, <1>2
<1>6. ToSet(s) = {Head(s)} \cup ToSet(Tail(s))
  <2>1. ASSUME NEW f \in ToSet(s) PROVE f = Head(s) \/ f \in ToSet(Tail(s))
    <3>1. PICK i \in DOMAIN s : s[i] = f
      BY DEF ToSet
    <3>2. CASE i = 1
      BY <1>1, <3>1, <3>2
    <3>3. CASE i - 1 \in DOMAIN Tail(s) /\ Tail(s)[i - 1] = s[i]
      BY <3>1, <3>3 DEF ToSet
    <3>4. QED
      BY <1>5, <3>2, <3>3
  <2>2. \A f \in ToSet(Tail(s)) : f \in ToSet(s)
    BY <1>4 DEF ToSet
  <2>3. Head(s) \in ToSet(s)
    BY <1>1 DEF ToSet
  <2>4. QED
    BY <2>1, <2>2, <2>3
<1>7. QED
  BY <1>1, <1>3, <1>4, <1>6

-----------------------------------------------------------------------------
(* Types. *)

LEMMA TypeInit == Init => TypeOK
<1> SUFFICES ASSUME Init PROVE TypeOK
  OBVIOUS
<1> USE HomeAssumption DEF Init
<1>1. <<>> \in Seq(ToSet(Writes(struct))) /\ Empty.at \in Nat
  BY DEF Empty
<1>2. now \in Nat
  OBVIOUS
<1>3. QED
  BY <1>1, <1>2, FieldFacts DEF TypeOK

(* The steps that touch no request. *)
LEMMA TypeKept ==
  ASSUME TypeOK, time' \in Nat, now' \in Nat, overlapped' \in BOOLEAN,
         UNCHANGED <<struct, cash, pc, asked, began, data, left, got, alone>>
  PROVE  TypeOK'
  BY DEF TypeOK

LEMMA CallIs ==
  ASSUME TypeOK, NEW r \in Request, Call(r)
  PROVE  /\ ~Running(r) /\ UNCHANGED <<struct, cash, time, now>>
         /\ asked'[r] \in Nat /\ asked'[r] <= now /\ began'[r] = now
         /\ \/ /\ pc'[r] = "read" /\ left'[r] = Reads(struct)
               /\ Recent(asked'[r]) /\ UNCHANGED overlapped
            \/ /\ pc'[r] = "compute" /\ left'[r] = Writes(struct)
               /\ overlapped' = (overlapped \/ \E u \in Request : Refreshing(u))
         /\ alone'[r] = (\A u \in Request : ~Refreshing(u))
         /\ data'[r] = Empty /\ \A f \in Fields(struct) : got'[r][f] = Empty
         /\ \A u \in Request \ {r} :
               /\ pc'[u] = pc[u] /\ asked'[u] = asked[u] /\ began'[u] = began[u]
               /\ data'[u] = data[u] /\ left'[u] = left[u] /\ got'[u] = got[u]
               /\ alone'[u] = alone[u]
<1>1. PICK end \in Window :
        /\ asked' = [asked EXCEPT ![r] = end]
        /\ \/ /\ Recent(end)
              /\ pc' = [pc EXCEPT ![r] = "read"]
              /\ left' = [left EXCEPT ![r] = Reads(struct)]
              /\ UNCHANGED overlapped
           \/ /\ ~Recent(end)
              /\ pc' = [pc EXCEPT ![r] = "compute"]
              /\ left' = [left EXCEPT ![r] = Writes(struct)]
              /\ overlapped' = (overlapped \/ \E u \in Request : Refreshing(u))
  BY DEF Call
<1>2. end \in Nat /\ end <= now
  <2>1. now \in Nat /\ Lag \subseteq Nat
    BY HomeAssumption DEF TypeOK
  <2>2. QED
    BY <2>1 DEF Window
<1>3. \A u \in Request : asked'[u] = IF u = r THEN end ELSE asked[u]
  BY <1>1 DEF TypeOK
<1>4. \A u \in Request \ {r} : pc'[u] = pc[u] /\ left'[u] = left[u]
  BY <1>1 DEF TypeOK
<1>5. \/ pc'[r] = "read" /\ left'[r] = Reads(struct) /\ Recent(end) /\ UNCHANGED overlapped
      \/ /\ pc'[r] = "compute" /\ left'[r] = Writes(struct)
         /\ overlapped' = (overlapped \/ \E u \in Request : Refreshing(u))
  BY <1>1 DEF TypeOK
<1>6. \A u \in Request : began'[u] = IF u = r THEN now ELSE began[u]
  BY DEF Call, TypeOK
<1>7. \A u \in Request : data'[u] = IF u = r THEN Empty ELSE data[u]
  BY DEF Call, TypeOK
<1>8. \A u \in Request : got'[u] = IF u = r THEN [f \in Field |-> Empty] ELSE got[u]
  BY DEF Call, TypeOK
<1>9. \A u \in Request : alone'[u] = IF u = r THEN \A v \in Request : ~Refreshing(v) ELSE alone[u]
  BY DEF Call, TypeOK
<1>10. ~Running(r) /\ UNCHANGED <<struct, cash, time, now>>
  BY DEF Call
<1>11. asked'[r] = end
  BY <1>3
<1>12. \A f \in Fields(struct) : got'[r][f] = Empty
  BY <1>8, FieldFacts
<1>13. QED
  BY <1>2, <1>3, <1>4, <1>5, <1>6, <1>7, <1>8, <1>9, <1>10, <1>11, <1>12

LEMMA ComputeIs ==
  ASSUME TypeOK, NEW r \in Request, Compute(r)
  PROVE  /\ UNCHANGED <<struct, cash, time, now, asked, began, got, alone, overlapped, peerVars>>
         /\ pc[r] = "compute" /\ pc'[r] = "write"
         /\ data'[r] = [at |-> began[r],
                        peers |-> IF struct = "peerPointCash" THEN GetPeerGroup(now) ELSE {}]
         /\ left'[r] = left[r] \/ left'[r] = WithoutKept(struct)
         /\ \A u \in Request \ {r} :
               pc'[u] = pc[u] /\ data'[u] = data[u] /\ left'[u] = left[u]
  BY DEF Compute, TypeOK

LEMMA FailsIs ==
  ASSUME TypeOK, NEW r \in Request, Fails(r)
  PROVE  /\ UNCHANGED <<struct, cash, time, now, asked, began, data, got, alone, overlapped,
                        peerVars>>
         /\ pc[r] = "compute" /\ pc'[r] = "idle" /\ left'[r] = <<>>
         /\ \A u \in Request \ {r} : pc'[u] = pc[u] /\ left'[u] = left[u]
  BY DEF Fails, TypeOK

LEMMA WriteIs ==
  ASSUME TypeOK, NEW r \in Request, Write(r)
  PROVE  /\ UNCHANGED <<struct, now, pc, asked, began, data, got, overlapped, peerVars>>
         /\ pc[r] = "write" /\ left[r] # <<>> /\ left'[r] = Tail(left[r])
         /\ time' = IF Head(left[r]) = "Time" THEN Stamp(r) ELSE time
         /\ \A f \in Fields(struct) :
               cash'[f] = IF f = Head(left[r]) THEN data[r] ELSE cash[f]
         /\ \A u \in Request \ {r} : left'[u] = left[u]
         /\ \A u \in Request : alone'[u] = (alone[u] /\ (pc[u] = "read" => u = r))
<1>1. \A u \in Request : left'[u] = IF u = r THEN Tail(left[r]) ELSE left[u]
  BY DEF Write, TypeOK
<1>2. \A f \in Fields(struct) : cash'[f] = IF f = Head(left[r]) THEN data[r] ELSE cash[f]
  BY FieldFacts DEF Write
<1>3. QED
  BY <1>1, <1>2 DEF Write

LEMMA WrittenIs ==
  ASSUME TypeOK, NEW r \in Request, Written(r)
  PROVE  /\ UNCHANGED <<struct, cash, time, now, asked, began, alone, overlapped, peerVars>>
         /\ pc[r] = "write" /\ left[r] = <<>> /\ pc'[r] = "read"
         /\ left'[r] = ReadsBack(struct) /\ data'[r] = Empty
         /\ \A f \in Fields(struct) : got'[r][f] = data[r]
         /\ \A u \in Request \ {r} :
               /\ pc'[u] = pc[u] /\ data'[u] = data[u] /\ left'[u] = left[u]
               /\ got'[u] = got[u]
<1>1. got'[r] = [f \in Field |-> data[r]]
  BY DEF Written, TypeOK
<1>2. \A f \in Fields(struct) : got'[r][f] = data[r]
  BY <1>1, FieldFacts
<1>3. /\ \A u \in Request \ {r} : got'[u] = got[u] /\ data'[u] = data[u]
      /\ data'[r] = Empty
  BY DEF Written, TypeOK
<1>4. /\ \A u \in Request \ {r} : pc'[u] = pc[u] /\ left'[u] = left[u]
      /\ pc'[r] = "read" /\ left'[r] = ReadsBack(struct)
  BY DEF Written, TypeOK
<1>5. QED
  BY <1>2, <1>3, <1>4 DEF Written

LEMMA ReadIs ==
  ASSUME TypeOK, NEW r \in Request, Read(r)
  PROVE  /\ UNCHANGED <<struct, cash, time, now, pc, asked, began, data, alone, overlapped,
                        peerVars>>
         /\ pc[r] = "read" /\ left[r] # <<>> /\ left'[r] = Tail(left[r])
         /\ \A f \in Fields(struct) :
               got'[r][f] = IF f = Head(left[r]) THEN cash[f] ELSE got[r][f]
         /\ \A u \in Request \ {r} : left'[u] = left[u] /\ got'[u] = got[u]
<1>1. \A u \in Request : left'[u] = IF u = r THEN Tail(left[r]) ELSE left[u]
  BY DEF Read, TypeOK
<1> DEFINE h == Head(left[r])
<1>2. got' = [got EXCEPT ![r] = [got[r] EXCEPT ![h] = cash[h]]]
  BY DEF Read
<1>3. DOMAIN got = Request /\ DOMAIN got[r] = Fields(struct)
  BY DEF TypeOK
<1> HIDE DEF h
<1>4. got'[r] = [got[r] EXCEPT ![h] = cash[h]] /\ \A u \in Request \ {r} : got'[u] = got[u]
  BY <1>2, <1>3
<1>5. \A f \in Fields(struct) : got'[r][f] = IF f = h THEN cash[f] ELSE got[r][f]
  BY <1>3, <1>4
<1>6. QED
  BY <1>1, <1>4, <1>5 DEF Read, h

LEMMA AnswerIs ==
  ASSUME TypeOK, NEW r \in Request, Answer(r)
  PROVE  /\ UNCHANGED <<struct, cash, time, now, asked, data, left, got, alone, overlapped,
                        peerVars>>
         /\ pc[r] = "read" /\ left[r] = <<>> /\ pc'[r] = "answered" /\ began'[r] = 0
         /\ \A u \in Request \ {r} : pc'[u] = pc[u] /\ began'[u] = began[u]
  BY DEF Answer, TypeOK

LEMMA StampType ==
  ASSUME TypeOK, NEW r \in Request
  PROVE  Stamp(r) \in Nat
  BY DEF TypeOK, Stamp

LEMMA TypeStep == TypeOK /\ [Next]_vars => TypeOK'
<1> SUFFICES ASSUME TypeOK, [Next]_vars PROVE TypeOK'
  OBVIOUS
<1> USE HomeAssumption, OrdersOf
<1>1. CASE Tick
  <2>1. now' \in Nat
    BY <1>1 DEF Tick, TypeOK
  <2>2. QED
    BY <1>1, <2>1, TypeKept DEF Tick, TypeOK
<1>2. CASE PeerPass
  BY <1>2, TypeKept DEF PeerPass, pageVars, TypeOK
<1>3. ASSUME NEW r \in Request, Call(r) PROVE TypeOK'
  <2>1. /\ pc' \in [Request -> {"idle", "compute", "write", "read", "answered"}]
        /\ left' \in [Request -> Seq(ToSet(Writes(struct)))]
    <3>1. Reads(struct) \in Seq(ToSet(Writes(struct)))
      BY FieldFacts DEF TypeOK
    <3>2. pc \in [Request -> {"idle", "compute", "write", "read", "answered"}]
          /\ left \in [Request -> Seq(ToSet(Writes(struct)))]
      BY DEF TypeOK
    <3>3. Writes(struct) \in Seq(ToSet(Writes(struct))) /\ UNCHANGED struct
      BY <1>3 DEF Call, TypeOK
    <3>4. \/ /\ pc' = [pc EXCEPT ![r] = "read"]
             /\ left' = [left EXCEPT ![r] = Reads(struct)]
          \/ /\ pc' = [pc EXCEPT ![r] = "compute"]
             /\ left' = [left EXCEPT ![r] = Writes(struct)]
      BY <1>3 DEF Call
    <3>5. QED
      BY <3>1, <3>2, <3>3, <3>4
  <2>2. asked' \in [Request -> Nat] /\ began' \in [Request -> Nat]
    <3>1. \A u \in Request : asked'[u] \in Nat
      BY <1>3, CallIs DEF TypeOK
    <3>2. QED
      BY <1>3, <3>1 DEF Call, TypeOK
  <2>3. alone' \in [Request -> BOOLEAN] /\ overlapped' \in BOOLEAN
    BY <1>3 DEF Call, TypeOK
  <2>4. /\ data' = [u \in Request |-> data'[u]]
        /\ got' = [u \in Request |-> [f \in Fields(struct) |-> got'[u][f]]]
    <3>1. data' = [u \in Request |-> data'[u]]
      BY <1>3 DEF Call, TypeOK
    <3>2. got' = [u \in Request |-> IF u = r THEN [f \in Field |-> Empty] ELSE got[u]]
      BY <1>3 DEF Call, TypeOK
    <3>3. \A u \in Request : got'[u] = [f \in Fields(struct) |-> got'[u][f]]
      BY <3>2, FieldFacts DEF TypeOK
    <3>4. QED
      BY <3>1, <3>2, <3>3
  <2>5. \A u \in Request : /\ data'[u].at \in Nat
                           /\ \A f \in Fields(struct) : got'[u][f].at \in Nat
                           /\ pc'[u] = "read" => left'[u] \in Seq(Fields(struct))
    <3>1. /\ data'[r].at \in Nat /\ \A f \in Fields(struct) : got'[r][f].at \in Nat
          /\ pc'[r] = "read" => left'[r] \in Seq(Fields(struct))
      <4>1. /\ data'[r] = Empty /\ \A f \in Fields(struct) : got'[r][f] = Empty
            /\ pc'[r] = "read" => left'[r] = Reads(struct)
        <5>1. /\ data'[r] = Empty /\ \A f \in Fields(struct) : got'[r][f] = Empty
              /\ (pc'[r] = "read" /\ left'[r] = Reads(struct)) \/ pc'[r] = "compute"
          BY <1>3, CallIs
        <5>2. QED
          BY <5>1
      <4>2. data'[r].at \in Nat /\ \A f \in Fields(struct) : got'[r][f].at \in Nat
        BY <4>1 DEF Empty
      <4>3. pc'[r] = "read" => left'[r] \in Seq(Fields(struct))
        BY <4>1 DEF TypeOK
      <4>4. QED
        BY <4>2, <4>3
    <3>2. \A u \in Request \ {r} : /\ data'[u] = data[u] /\ got'[u] = got[u]
                                   /\ pc'[u] = pc[u] /\ left'[u] = left[u]
      BY <1>3, CallIs
    <3>3. QED
      BY <3>1, <3>2 DEF TypeOK
  <2>6. UNCHANGED <<struct, cash, time, now>>
    BY <1>3 DEF Call
  <2>7. QED
    BY <2>1, <2>2, <2>3, <2>4, <2>5, <2>6 DEF TypeOK
<1>4. ASSUME NEW r \in Request, Compute(r) PROVE TypeOK'
  <2>1. /\ pc' \in [Request -> {"idle", "compute", "write", "read", "answered"}]
        /\ left' \in [Request -> Seq(ToSet(Writes(struct)))]
        /\ data' = [u \in Request |-> data'[u]]
    BY <1>4 DEF Compute, TypeOK
  <2>2. \A u \in Request : /\ data'[u].at \in Nat
                           /\ pc'[u] = "read" => left'[u] \in Seq(Fields(struct))
    <3>1. data'[r].at = began[r] /\ pc'[r] # "read"
      <4>1. PICK group : data'[r] = [at |-> began[r], peers |-> group] /\ pc'[r] = "write"
        BY <1>4, ComputeIs
      <4>2. QED
        BY <4>1
    <3>2. \A u \in Request \ {r} : data'[u] = data[u] /\ pc'[u] = pc[u] /\ left'[u] = left[u]
      BY <1>4, ComputeIs
    <3>3. QED
      BY <3>1, <3>2 DEF TypeOK
  <2>3. UNCHANGED <<struct, cash, time, now, asked, began, got, alone, overlapped>>
    BY <1>4, ComputeIs
  <2>4. QED
    BY <2>1, <2>2, <2>3 DEF TypeOK
<1>5. ASSUME NEW r \in Request, Fails(r) PROVE TypeOK'
  <2>1. /\ pc' \in [Request -> {"idle", "compute", "write", "read", "answered"}]
        /\ left' \in [Request -> Seq(ToSet(Writes(struct)))]
    BY <1>5 DEF Fails, TypeOK
  <2>2. \A u \in Request : pc'[u] = "read" => left'[u] \in Seq(Fields(struct))
    <3>1. pc'[r] = "idle" /\ \A u \in Request \ {r} : pc'[u] = pc[u] /\ left'[u] = left[u]
      BY <1>5, FailsIs
    <3>2. QED
      BY <3>1 DEF TypeOK
  <2>3. UNCHANGED <<struct, cash, time, now, asked, began, data, got, alone, overlapped>>
    BY <1>5, FailsIs
  <2>4. QED
    BY <2>1, <2>2, <2>3 DEF TypeOK
<1>6. ASSUME NEW r \in Request, Write(r) PROVE TypeOK'
  <2>1. left' \in [Request -> Seq(ToSet(Writes(struct)))] /\ alone' \in [Request -> BOOLEAN]
    <3>1. Tail(left[r]) \in Seq(ToSet(Writes(struct)))
      BY <1>6 DEF Write, TypeOK
    <3>2. QED
      BY <1>6, <3>1 DEF Write, TypeOK
  <2>2. cash' = [f \in Fields(struct) |-> cash'[f]]
    BY <1>6, FieldFacts DEF Write
  <2>3. \A f \in Fields(struct) : cash'[f].at \in Nat
    <3>1. \A f \in Fields(struct) : cash'[f] = data[r] \/ cash'[f] = cash[f]
      BY <1>6, WriteIs
    <3>2. QED
      BY <3>1 DEF TypeOK
  <2>4. time' \in Nat
    <3>1. time' = Stamp(r) \/ time' = time
      BY <1>6, WriteIs
    <3>2. Stamp(r) \in Nat /\ time \in Nat
      BY StampType DEF TypeOK
    <3>3. QED
      BY <3>1, <3>2
  <2>5. \A u \in Request : pc'[u] = "read" => left'[u] \in Seq(Fields(struct))
    BY <1>6, WriteIs DEF TypeOK
  <2>6. UNCHANGED <<struct, now, pc, asked, began, data, got, overlapped>>
    BY <1>6, WriteIs
  <2>7. QED
    BY <2>1, <2>2, <2>3, <2>4, <2>5, <2>6 DEF TypeOK
<1>7. ASSUME NEW r \in Request, Written(r) PROVE TypeOK'
  <2>1. /\ pc' \in [Request -> {"idle", "compute", "write", "read", "answered"}]
        /\ left' \in [Request -> Seq(ToSet(Writes(struct)))]
    <3>1. ReadsBack(struct) \in Seq(ToSet(Writes(struct)))
      BY FieldFacts DEF TypeOK
    <3>2. QED
      BY <1>7, <3>1 DEF Written, TypeOK
  <2>2. /\ data' = [u \in Request |-> data'[u]]
        /\ got' = [u \in Request |-> [f \in Fields(struct) |-> got'[u][f]]]
    <3>1. data' = [u \in Request |-> data'[u]]
      BY <1>7 DEF Written, TypeOK
    <3>2. got' = [u \in Request |-> IF u = r THEN [f \in Field |-> data[r]] ELSE got[u]]
      BY <1>7 DEF Written, TypeOK
    <3>3. \A u \in Request : got'[u] = [f \in Fields(struct) |-> got'[u][f]]
      BY <3>2, FieldFacts DEF TypeOK
    <3>4. QED
      BY <3>1, <3>2, <3>3
  <2>3. \A u \in Request : /\ data'[u].at \in Nat
                           /\ \A f \in Fields(struct) : got'[u][f].at \in Nat
                           /\ pc'[u] = "read" => left'[u] \in Seq(Fields(struct))
    <3>1. /\ data'[r] = Empty /\ \A f \in Fields(struct) : got'[r][f] = data[r]
          /\ left'[r] = ReadsBack(struct)
      BY <1>7, WrittenIs
    <3>2. /\ data'[r].at \in Nat /\ \A f \in Fields(struct) : got'[r][f].at \in Nat
          /\ left'[r] \in Seq(Fields(struct))
      BY <3>1 DEF TypeOK, Empty
    <3>3. \A u \in Request \ {r} : /\ data'[u] = data[u] /\ got'[u] = got[u]
                                   /\ pc'[u] = pc[u] /\ left'[u] = left[u]
      BY <1>7, WrittenIs
    <3>4. QED
      BY <3>2, <3>3 DEF TypeOK
  <2>4. UNCHANGED <<struct, cash, time, now, asked, began, alone, overlapped>>
    BY <1>7, WrittenIs
  <2>5. QED
    BY <2>1, <2>2, <2>3, <2>4 DEF TypeOK
<1>8. ASSUME NEW r \in Request, Read(r) PROVE TypeOK'
  <2>1. left' \in [Request -> Seq(ToSet(Writes(struct)))]
    <3>1. Tail(left[r]) \in Seq(ToSet(Writes(struct)))
      BY <1>8 DEF Read, TypeOK
    <3>2. QED
      BY <1>8, <3>1 DEF Read, TypeOK
  <2>2. \A u \in Request : pc'[u] = "read" => left'[u] \in Seq(Fields(struct))
    <3>1. Tail(left[r]) \in Seq(Fields(struct))
      BY <1>8 DEF Read, TypeOK
    <3>2. left'[r] = Tail(left[r]) /\ UNCHANGED <<struct, pc>>
          /\ \A u \in Request \ {r} : left'[u] = left[u]
      BY <1>8, ReadIs
    <3>3. QED
      BY <3>1, <3>2 DEF TypeOK
  <2>3. got' = [u \in Request |-> [f \in Fields(struct) |-> got'[u][f]]]
    <3> DEFINE h == Head(left[r])
    <3>1. got' = [got EXCEPT ![r] = [got[r] EXCEPT ![h] = cash[h]]]
      BY <1>8 DEF Read
    <3> HIDE DEF h
    <3>2. got' = [u \in Request |-> IF u = r THEN [got[r] EXCEPT ![h] = cash[h]] ELSE got[u]]
      BY <3>1 DEF TypeOK
    <3>3. \A u \in Request : got'[u] = [f \in Fields(struct) |-> got'[u][f]]
      BY <3>2 DEF TypeOK
    <3>4. QED
      BY <3>2, <3>3
  <2>4. \A u \in Request : \A f \in Fields(struct) : got'[u][f].at \in Nat
    <3>1. \A f \in Fields(struct) : got'[r][f] = cash[f] \/ got'[r][f] = got[r][f]
      BY <1>8, ReadIs
    <3>2. \A u \in Request \ {r} : got'[u] = got[u]
      BY <1>8, ReadIs
    <3>3. QED
      BY <3>1, <3>2 DEF TypeOK
  <2>5. UNCHANGED <<struct, cash, time, now, pc, asked, began, data, alone, overlapped>>
    BY <1>8, ReadIs
  <2>6. QED
    BY <2>1, <2>2, <2>3, <2>4, <2>5 DEF TypeOK
<1>9. ASSUME NEW r \in Request, Answer(r) PROVE TypeOK'
  <2>1. /\ pc' \in [Request -> {"idle", "compute", "write", "read", "answered"}]
        /\ began' \in [Request -> Nat]
    BY <1>9 DEF Answer, TypeOK
  <2>2. \A u \in Request : pc'[u] = "read" => left'[u] \in Seq(Fields(struct))
    <3>1. pc'[r] = "answered" /\ UNCHANGED left /\ \A u \in Request \ {r} : pc'[u] = pc[u]
      BY <1>9, AnswerIs
    <3>2. QED
      BY <3>1 DEF TypeOK
  <2>3. UNCHANGED <<struct, cash, time, now, asked, data, left, got, alone, overlapped>>
    BY <1>9, AnswerIs
  <2>4. QED
    BY <2>1, <2>2, <2>3 DEF TypeOK
<1>10. CASE UNCHANGED vars
  BY <1>10 DEF vars, pageVars, TypeOK
<1>11. QED
  BY <1>1, <1>2, <1>3, <1>4, <1>5, <1>6, <1>7, <1>8, <1>9, <1>10 DEF Next, Handler

-----------------------------------------------------------------------------
(* How old an answer may be. *)

LEMMA RunsAre ==
  ASSUME TypeOK, NEW r \in Request
  PROVE  Running(r) <=> pc[r] \in {"compute", "write", "read"}
  BY DEF TypeOK, Running

LEMMA NotOldOf ==
  ASSUME NEW s, NEW end \in Nat, NEW at \in Nat, end <= at + MaxRun
  PROVE  NotOld(s, end, at)
<1>1. CashTime \in Nat /\ MaxRun \in Nat /\ MaxRun > 0
  BY HomeAssumption
<1>2. end < at + CashTime + 2 * MaxRun
  BY <1>1
<1>3. QED
  BY <1>1, <1>2 DEF NotOld

LEMMA NumbersAre ==
  ASSUME TypeOK
  PROVE  /\ MaxRun \in Nat /\ MaxRun > 0 /\ CashTime \in Nat /\ time \in Nat /\ now \in Nat
         /\ \A f \in Told(struct) : f \in Fields(struct) /\ cash[f].at \in Nat
         /\ \A r \in Request : /\ asked[r] \in Nat /\ began[r] \in Nat /\ data[r].at \in Nat
                               /\ \A f \in Told(struct) : got[r][f].at \in Nat
  BY HomeAssumption, FieldFacts DEF TypeOK

LEMMA AgeInit == Init => AgeInv
<1> SUFFICES ASSUME Init PROVE AgeInv
  OBVIOUS
<1>1. TypeOK /\ MaxRun \in Nat
  BY TypeInit, HomeAssumption
<1>2. /\ time = 0 /\ now \in Nat /\ \A r \in Request : pc[r] = "idle"
      /\ \A f \in Told(struct) : cash[f].at = 0
  BY FieldFacts, HomeAssumption DEF Init, Empty
<1>3. ClockInv /\ RefreshInv /\ ReadInv
  BY <1>1, <1>2, RunsAre DEF ClockInv, RefreshInv, ReadInv
<1>4. VouchInv
  BY <1>1, <1>2 DEF VouchInv
<1>5. QED
  BY <1>1, <1>3, <1>4 DEF AgeInv

LEMMA AgeTick == ASSUME AgeInv, Tick PROVE AgeInv'
<1>1. TypeOK /\ TypeOK'
  BY TypeStep DEF AgeInv, Next
<1>2. ClockInv'
  <2>1. \A r \in Request : Running(r) => now' <= began[r] + MaxRun
    BY <1>1, NumbersAre DEF Tick
  <2>2. time <= now' /\ \A r \in Request : began[r] <= now => began[r] <= now'
    BY <1>1, NumbersAre DEF AgeInv, ClockInv, Tick
  <2>3. QED
    BY <2>1, <2>2 DEF AgeInv, ClockInv, Tick, Running
<1>3. RefreshInv' /\ VouchInv' /\ ReadInv'
  BY DEF AgeInv, RefreshInv, VouchInv, ReadInv, Tick
<1>4. QED
  BY <1>1, <1>2, <1>3 DEF AgeInv

LEMMA AgeCall == ASSUME AgeInv, NEW r \in Request, Call(r) PROVE AgeInv'
<1>1. TypeOK /\ TypeOK' /\ struct' = struct /\ struct \in Struct
  BY TypeStep, CallIs DEF AgeInv, Next, TypeOK
<1>2. ClockInv'
  <2>1. asked'[r] <= began'[r] /\ began'[r] <= now' /\ now' <= began'[r] + MaxRun
    <3>1. asked'[r] <= now /\ began'[r] = now /\ now' = now
      BY <1>1, CallIs
    <3>2. QED
      BY <1>1, <3>1, NumbersAre
  <2>2. \A u \in Request \ {r} : /\ pc'[u] = pc[u] /\ asked'[u] = asked[u]
                                 /\ began'[u] = began[u]
    BY <1>1, CallIs
  <2>3. time' <= now' /\ UNCHANGED now
    BY <1>1, CallIs DEF AgeInv, ClockInv
  <2>4. QED
    BY <2>1, <2>2, <2>3 DEF AgeInv, ClockInv, Running
<1>3. RefreshInv'
  <2>1. pc'[r] # "write" /\ (pc'[r] = "compute" => left'[r] = Writes(struct))
    <3>1. pc'[r] = "read" \/ (pc'[r] = "compute" /\ left'[r] = Writes(struct))
      BY <1>1, CallIs
    <3>2. QED
      BY <3>1
  <2>2. /\ \A u \in Request \ {r} : /\ pc'[u] = pc[u] /\ left'[u] = left[u]
                                    /\ data'[u] = data[u] /\ began'[u] = began[u]
        /\ UNCHANGED cash
    BY <1>1, CallIs
  <2>3. QED
    BY <1>1, <2>1, <2>2 DEF AgeInv, RefreshInv
<1>4. VouchInv'
  <2>1. \A u \in Request : pc[u] = "write" => pc'[u] = "write" /\ left'[u] = left[u]
    BY <1>1, CallIs DEF Running
  <2>2. UNCHANGED <<cash, time>>
    BY <1>1, CallIs
  <2>3. QED
    BY <1>1, <2>1, <2>2 DEF AgeInv, VouchInv
<1>5. ReadInv'
  <2>1. ASSUME NEW f \in Told(struct), alone'[r] \/ Precedes(struct, f, "Time"),
               pc'[r] = "read"
        PROVE  f \in ToSet(left'[r]) /\ NotOld(struct, asked'[r], cash[f].at)
    <3>1. left'[r] = Reads(struct) /\ Recent(asked'[r])
      BY <1>1, <2>1, CallIs
    <3>2. f \in ToSet(left'[r])
      BY <1>1, <3>1, ListsComplete
    <3>3. time <= cash[f].at + 2 * MaxRun
      <4>1. SUFFICES ASSUME Precedes(struct, "Time", f),
                            NEW u \in Request, pc[u] = "write"
                     PROVE  FALSE
        BY DEF AgeInv, VouchInv
      <4>2. ~Precedes(struct, f, "Time")
        BY <1>1, <4>1, OneOrder
      <4>3. alone'[r] => ~Refreshing(u)
        BY <1>1, CallIs
      <4>4. QED
        BY <2>1, <4>1, <4>2, <4>3 DEF Refreshing
    <3>4. asked'[r] \in Nat
      BY <1>1 DEF TypeOK
    <3>5. CASE struct = "peerPointCash"
      <4>1. asked'[r] < time + CashTime
        BY <3>1, <3>5 DEF Recent
      <4>2. asked'[r] < cash[f].at + CashTime + 2 * MaxRun
        BY <1>1, <3>3, <3>4, <4>1, NumbersAre
      <4>3. QED
        BY <3>2, <3>5, <4>2 DEF NotOld
    <3>6. CASE struct # "peerPointCash"
      <4>1. asked'[r] <= time + CashTime
        BY <3>1, <3>6 DEF Recent
      <4>2. asked'[r] <= cash[f].at + CashTime + 2 * MaxRun
        BY <1>1, <3>3, <3>4, <4>1, NumbersAre
      <4>3. QED
        BY <3>2, <3>6, <4>2 DEF NotOld
    <3>7. QED
      BY <3>5, <3>6
  <2>2. pc'[r] # "answered"
    BY <1>1, CallIs
  <2>3. /\ \A u \in Request \ {r} :
              /\ pc'[u] = pc[u] /\ asked'[u] = asked[u] /\ left'[u] = left[u]
              /\ got'[u] = got[u] /\ alone'[u] = alone[u]
        /\ UNCHANGED cash
    BY <1>1, CallIs
  <2>4. QED
    BY <1>1, <2>1, <2>2, <2>3 DEF AgeInv, ReadInv
<1>6. QED
  BY <1>1, <1>2, <1>3, <1>4, <1>5 DEF AgeInv

LEMMA AgeCompute == ASSUME AgeInv, NEW r \in Request, Compute(r) PROVE AgeInv'
<1>1. TypeOK /\ TypeOK' /\ struct' = struct /\ struct \in Struct
  BY TypeStep, ComputeIs DEF AgeInv, Next, Handler, TypeOK
<1>2. /\ UNCHANGED <<cash, time, now, asked, began, got, alone>>
      /\ pc[r] = "compute" /\ pc'[r] = "write" /\ data'[r].at = began[r]
      /\ left'[r] \in {Writes(struct), WithoutKept(struct)}
      /\ \A u \in Request \ {r} :
            pc'[u] = pc[u] /\ data'[u] = data[u] /\ left'[u] = left[u]
  <2>1. pc[r] = "compute" => left[r] = Writes(struct)
    BY DEF AgeInv, RefreshInv
  <2>2. PICK group : data'[r] = [at |-> began[r], peers |-> group]
    BY <1>1, ComputeIs
  <2>3. data'[r].at = began[r]
    BY <2>2
  <2>4. left'[r] \in {Writes(struct), WithoutKept(struct)}
    BY <1>1, <2>1, ComputeIs
  <2>5. QED
    BY <1>1, <2>3, <2>4, ComputeIs
<1>3. ClockInv'
  <2>1. \A u \in Request : Running(u)' => Running(u)
    BY <1>1, <1>2, RunsAre DEF Running
  <2>2. QED
    BY <1>2, <2>1 DEF AgeInv, ClockInv
<1>4. RefreshInv'
  <2>1. \A f \in Told(struct) : f \in ToSet(left'[r])
    BY <1>1, <1>2, ListsComplete
  <2>2. \A i, j \in DOMAIN left'[r] : i < j => Precedes(struct, left'[r][i], left'[r][j])
    BY <1>1, <1>2, ListsOrdered
  <2>3. QED
    BY <1>1, <1>2, <2>1, <2>2 DEF AgeInv, RefreshInv
<1>5. VouchInv'
  <2>1. \A u \in Request : pc[u] = "write" => pc'[u] = "write" /\ left'[u] = left[u]
    BY <1>2
  <2>2. QED
    BY <1>1, <1>2, <2>1 DEF AgeInv, VouchInv
<1>6. ReadInv'
  BY <1>1, <1>2 DEF AgeInv, ReadInv
<1>7. QED
  BY <1>1, <1>3, <1>4, <1>5, <1>6 DEF AgeInv

LEMMA AgeFails == ASSUME AgeInv, NEW r \in Request, Fails(r) PROVE AgeInv'
<1>1. TypeOK /\ TypeOK' /\ struct' = struct
  BY TypeStep, FailsIs DEF AgeInv, Next, Handler
<1>2. /\ UNCHANGED <<cash, time, now, asked, began, data, got, alone>>
      /\ pc[r] = "compute" /\ pc'[r] = "idle"
      /\ \A u \in Request \ {r} : pc'[u] = pc[u] /\ left'[u] = left[u]
  BY <1>1, FailsIs
<1>3. \A u \in Request : Running(u)' => Running(u)
  BY <1>2 DEF Running
<1>4. \A u \in Request : pc[u] = "write" => pc'[u] = "write" /\ left'[u] = left[u]
  BY <1>2
<1>5. QED
  BY <1>1, <1>2, <1>3, <1>4 DEF AgeInv, ClockInv, RefreshInv, VouchInv, ReadInv

LEMMA AgeAnswer == ASSUME AgeInv, NEW r \in Request, Answer(r) PROVE AgeInv'
<1>1. TypeOK /\ TypeOK' /\ struct' = struct
  BY TypeStep, AnswerIs DEF AgeInv, Next, Handler
<1>2. /\ UNCHANGED <<cash, time, now, asked, data, left, got, alone>>
      /\ pc[r] = "read" /\ left[r] = <<>> /\ pc'[r] = "answered"
      /\ \A u \in Request \ {r} : pc'[u] = pc[u] /\ began'[u] = began[u]
  BY <1>1, AnswerIs
<1>3. ClockInv'
  <2>1. ~Running(r)'
    BY <1>2 DEF Running
  <2>2. QED
    BY <1>2, <2>1 DEF AgeInv, ClockInv, Running
<1>4. RefreshInv' /\ VouchInv'
  <2>1. \A u \in Request : pc[u] = "write" <=> pc'[u] = "write"
    BY <1>2
  <2>2. QED
    BY <1>1, <1>2, <2>1 DEF AgeInv, RefreshInv, VouchInv
<1>5. ReadInv'
  <2>1. \A f : f \notin ToSet(left[r])
    BY <1>2 DEF ToSet
  <2>2. QED
    BY <1>1, <1>2, <2>1 DEF AgeInv, ReadInv
<1>6. QED
  BY <1>1, <1>3, <1>4, <1>5 DEF AgeInv

(* What a refresh stamps the struct with is at most MaxRun after it began. *)
LEMMA StampFacts ==
  ASSUME AgeInv, NEW r \in Request, pc[r] = "write"
  PROVE  /\ Stamp(r) <= now /\ Stamp(r) <= began[r] + MaxRun
         /\ asked[r] <= began[r] /\ began[r] <= now /\ now <= began[r] + MaxRun
<1>1. /\ asked[r] <= began[r] /\ began[r] <= now /\ now <= began[r] + MaxRun
  BY DEF AgeInv, ClockInv, Running
<1>2. asked[r] \in Nat /\ began[r] \in Nat /\ now \in Nat /\ MaxRun \in Nat
  BY NumbersAre DEF AgeInv
<1>3. QED
  BY <1>1, <1>2 DEF Stamp

LEMMA AgeWrite == ASSUME AgeInv, NEW r \in Request, Write(r) PROVE AgeInv'
<1> DEFINE h == Head(left[r])
<1>1. TypeOK /\ TypeOK' /\ struct' = struct /\ struct \in Struct
  BY TypeStep, WriteIs DEF AgeInv, Next, Handler, TypeOK
<1>2. /\ UNCHANGED <<now, pc, asked, began, data, got>>
      /\ pc[r] = "write" /\ left[r] # <<>> /\ left'[r] = Tail(left[r])
      /\ time' = IF h = "Time" THEN Stamp(r) ELSE time
      /\ \A u \in Request \ {r} : left'[u] = left[u]
  BY <1>1, WriteIs
<1>3. \A f \in Told(struct) : cash'[f] = IF f = h THEN data[r] ELSE cash[f]
  BY <1>1, WriteIs, FieldFacts
<1>4. \A u \in Request : alone'[u] => alone[u] /\ (pc[u] = "read" => u = r)
  BY <1>1, WriteIs
<1>5. /\ Stamp(r) <= now /\ Stamp(r) <= began[r] + MaxRun /\ Stamp(r) \in Nat
      /\ asked[r] <= began[r] /\ began[r] <= now /\ now <= began[r] + MaxRun
      /\ data[r].at = began[r]
  BY <1>1, <1>2, StampFacts, StampType DEF AgeInv, RefreshInv
<1>6. /\ ToSet(left[r]) = {h} \cup ToSet(Tail(left[r]))
      /\ \A i \in DOMAIN Tail(left[r]) :
            i + 1 \in DOMAIN left[r] /\ i \in Nat /\ Tail(left[r])[i] = left[r][i + 1]
      /\ 1 \in DOMAIN left[r] /\ left[r][1] = h
      /\ \A f \in ToSet(Tail(left[r])) : \E j \in DOMAIN left[r] : j > 1 /\ left[r][j] = f
  <2>1. left[r] \in Seq(ToSet(Writes(struct)))
    BY <1>1 DEF TypeOK
  <2>2. QED
    BY <1>2, <2>1, HeadAndTail
<1> HIDE DEF h
<1>7. ClockInv'
  <2>1. time' <= now
    BY <1>2, <1>5 DEF AgeInv, ClockInv
  <2>2. QED
    BY <1>2, <2>1 DEF AgeInv, ClockInv, Running
(* The value a refresh writes is as new as any refresh under way, give or  *)
(* take MaxRun.                                                            *)
<1>8. \A u \in Request : Running(u) => /\ asked[u] <= began[r] + MaxRun
                                       /\ began[u] <= began[r] + MaxRun
  <2>1. SUFFICES ASSUME NEW u \in Request, Running(u)
                 PROVE  asked[u] <= began[r] + MaxRun /\ began[u] <= began[r] + MaxRun
    OBVIOUS
  <2>2. asked[u] <= began[u] /\ began[u] <= now
    BY <2>1 DEF AgeInv, ClockInv
  <2>3. QED
    BY <1>1, <1>5, <2>2, NumbersAre
<1>9. RefreshInv'
  <2>1. ASSUME NEW u \in Request, pc[u] = "write", NEW f \in Told(struct) \ ToSet(left'[u])
        PROVE  began[u] <= cash'[f].at + MaxRun
    <3>1. CASE f = h
      BY <1>3, <1>5, <1>8, <2>1, <3>1 DEF Running
    <3>2. CASE f # h
      <4>1. f \notin ToSet(left[u])
        BY <1>2, <1>6, <2>1, <3>2
      <4>2. QED
        BY <1>3, <2>1, <3>2, <4>1 DEF AgeInv, RefreshInv
    <3>3. QED
      BY <3>1, <3>2
  <2>2. ASSUME NEW i \in DOMAIN left'[r], NEW j \in DOMAIN left'[r], i < j
        PROVE  Precedes(struct, left'[r][i], left'[r][j])
    <3>1. /\ i + 1 \in DOMAIN left[r] /\ left'[r][i] = left[r][i + 1]
          /\ j + 1 \in DOMAIN left[r] /\ left'[r][j] = left[r][j + 1]
          /\ i + 1 < j + 1
      BY <1>2, <1>6, <2>2
    <3>2. QED
      BY <1>2, <3>1 DEF AgeInv, RefreshInv
  <2>3. \A u \in Request : pc[u] = "compute" => left'[u] = left[u]
    BY <1>2
  <2>4. \A u \in Request : pc[u] = "write" =>
            \A i, j \in DOMAIN left'[u] : i < j => Precedes(struct, left'[u][i], left'[u][j])
    BY <1>2, <2>2 DEF AgeInv, RefreshInv
  <2>5. QED
    BY <1>1, <1>2, <2>1, <2>3, <2>4 DEF AgeInv, RefreshInv
<1>10. VouchInv'
  <2>1. SUFFICES ASSUME NEW f \in Told(struct)
                 PROVE  \/ time' <= cash'[f].at + 2 * MaxRun
                        \/ /\ Precedes(struct, "Time", f)
                           /\ \E u \in Request : pc'[u] = "write" /\ f \in ToSet(left'[u])
    BY <1>1 DEF VouchInv
  <2>2. CASE h = "Time"
    <3>1. f # h /\ cash'[f] = cash[f]
      BY <1>3, <2>2, FieldFacts
    <3>2. CASE f \in ToSet(Tail(left[r]))
      <4>1. PICK j \in DOMAIN left[r] : j > 1 /\ left[r][j] = f
        BY <1>6, <3>2
      <4>2. Precedes(struct, left[r][1], left[r][j])
        BY <1>2, <1>6, <4>1 DEF AgeInv, RefreshInv
      <4>3. QED
        BY <1>2, <1>6, <2>2, <3>2, <4>1, <4>2
    <3>3. CASE f \notin ToSet(Tail(left[r]))
      <4>1. began[r] <= cash[f].at + MaxRun
        BY <1>2, <1>6, <3>1, <3>3 DEF AgeInv, RefreshInv
      <4>2. time' <= began[r] + MaxRun /\ time' \in Nat
        BY <1>2, <1>5, <2>2
      <4>3. QED
        BY <1>1, <3>1, <4>1, <4>2, NumbersAre
    <3>4. QED
      BY <3>2, <3>3
  <2>3. CASE h # "Time" /\ f = h
    <3>1. cash'[f].at = began[r] /\ time' = time
      BY <1>2, <1>3, <1>5, <2>3
    <3>2. time <= now
      BY DEF AgeInv, ClockInv
    <3>3. QED
      BY <1>1, <1>5, <3>1, <3>2, NumbersAre
  <2>4. CASE h # "Time" /\ f # h
    <3>1. time' = time /\ cash'[f] = cash[f]
      BY <1>2, <1>3, <2>4
    <3>2. \A u \in Request : f \in ToSet(left[u]) => f \in ToSet(left'[u])
      BY <1>2, <1>6, <2>4
    <3>3. QED
      BY <1>2, <3>1, <3>2 DEF AgeInv, VouchInv
  <2>5. QED
    BY <2>2, <2>3, <2>4
<1>11. ReadInv'
  <2>1. SUFFICES ASSUME NEW u \in Request, NEW f \in Told(struct),
                        alone'[u] \/ Precedes(struct, f, "Time")
                 PROVE  /\ pc[u] = "read" /\ f \in ToSet(left'[u])
                              => NotOld(struct, asked[u], cash'[f].at)
                        /\ pc[u] = "read" /\ f \notin ToSet(left'[u])
                              => NotOld(struct, asked[u], got[u][f].at)
                        /\ pc[u] = "answered" => NotOld(struct, asked[u], got[u][f].at)
    BY <1>1, <1>2 DEF ReadInv
  <2>2. alone[u] \/ Precedes(struct, f, "Time")
    BY <1>4, <2>1
  <2>3. CASE pc[u] = "read" /\ f \in ToSet(left'[u])
    <3>1. u # r /\ left'[u] = left[u]
      BY <1>2, <2>3
    <3>2. CASE f = h
      <4>1. asked[u] <= began[r] + MaxRun
        BY <1>8, <2>3 DEF Running
      <4>2. cash'[f].at = began[r] /\ asked[u] \in Nat /\ began[r] \in Nat
        BY <1>1, <1>3, <1>5, <3>2, NumbersAre
      <4>3. QED
        BY <2>3, <4>1, <4>2, NotOldOf
    <3>3. CASE f # h
      BY <1>3, <2>2, <2>3, <3>1, <3>3 DEF AgeInv, ReadInv
    <3>4. QED
      BY <3>2, <3>3
  <2>4. CASE pc[u] = "read" /\ f \notin ToSet(left'[u])
    <3>1. left'[u] = left[u]
      BY <1>2, <2>4
    <3>2. QED
      BY <2>2, <2>4, <3>1 DEF AgeInv, ReadInv
  <2>5. CASE pc[u] = "answered"
    BY <2>2, <2>5 DEF AgeInv, ReadInv
  <2>6. QED
    BY <2>3, <2>4, <2>5
<1>12. QED
  BY <1>1, <1>7, <1>9, <1>10, <1>11 DEF AgeInv

LEMMA AgeWritten == ASSUME AgeInv, NEW r \in Request, Written(r) PROVE AgeInv'
<1>1. TypeOK /\ TypeOK' /\ struct' = struct
  BY TypeStep, WrittenIs DEF AgeInv, Next, Handler
<1>2. /\ UNCHANGED <<cash, time, now, asked, began, alone>>
      /\ pc[r] = "write" /\ left[r] = <<>> /\ pc'[r] = "read"
      /\ \A u \in Request \ {r} :
            /\ pc'[u] = pc[u] /\ data'[u] = data[u] /\ left'[u] = left[u]
            /\ got'[u] = got[u]
  BY <1>1, WrittenIs
<1>3. \A f \in Told(struct) : got'[r][f] = data[r] /\ f \notin ToSet(left[r])
  BY <1>1, <1>2, WrittenIs, FieldFacts DEF ToSet
<1>4. data[r].at = began[r] /\ asked[r] <= began[r]
  BY <1>2 DEF AgeInv, RefreshInv, ClockInv, Running
<1>5. ClockInv'
  <2>1. \A u \in Request : Running(u)' => Running(u)
    BY <1>2 DEF Running
  <2>2. QED
    BY <1>2, <2>1 DEF AgeInv, ClockInv
<1>6. RefreshInv'
  BY <1>1, <1>2 DEF AgeInv, RefreshInv
<1>7. VouchInv'
  <2>1. \A f \in Told(struct) : \A u \in Request : pc[u] = "write" /\ f \in ToSet(left[u])
            => pc'[u] = "write" /\ f \in ToSet(left'[u])
    BY <1>2, <1>3
  <2>2. QED
    BY <1>1, <1>2, <2>1 DEF AgeInv, VouchInv
<1>8. ReadInv'
  <2>1. ASSUME NEW f \in Told(struct)
        PROVE  /\ NotOld(struct, asked[r], cash[f].at)
               /\ NotOld(struct, asked[r], got'[r][f].at)
    <3>1. /\ began[r] <= cash[f].at + MaxRun
          /\ got'[r][f].at = began[r]
      BY <1>2, <1>3, <1>4 DEF AgeInv, RefreshInv
    <3>2. /\ asked[r] \in Nat /\ began[r] \in Nat /\ cash[f].at \in Nat
          /\ asked[r] <= cash[f].at + MaxRun /\ asked[r] <= began[r] + MaxRun
      BY <1>1, <1>4, <3>1, NumbersAre
    <3>3. QED
      BY <3>1, <3>2, NotOldOf
  <2>2. QED
    BY <1>1, <1>2, <2>1 DEF AgeInv, ReadInv
<1>9. QED
  BY <1>1, <1>5, <1>6, <1>7, <1>8 DEF AgeInv

LEMMA AgeRead == ASSUME AgeInv, NEW r \in Request, Read(r) PROVE AgeInv'
<1> DEFINE h == Head(left[r])
<1>1. TypeOK /\ TypeOK' /\ struct' = struct
  BY TypeStep, ReadIs DEF AgeInv, Next, Handler
<1>2. /\ UNCHANGED <<cash, time, now, pc, asked, began, data, alone>>
      /\ pc[r] = "read" /\ left[r] # <<>> /\ left'[r] = Tail(left[r])
      /\ \A u \in Request \ {r} : left'[u] = left[u] /\ got'[u] = got[u]
  BY <1>1, ReadIs
<1>3. \A f \in Told(struct) : got'[r][f] = IF f = h THEN cash[f] ELSE got[r][f]
  BY <1>1, ReadIs, FieldFacts
<1>4. ToSet(left[r]) = {h} \cup ToSet(Tail(left[r]))
  <2>1. left[r] \in Seq(ToSet(Writes(struct)))
    BY <1>1 DEF TypeOK
  <2>2. QED
    BY <1>2, <2>1, HeadAndTail
<1> HIDE DEF h
<1>5. ClockInv'
  BY <1>2 DEF AgeInv, ClockInv, Running
<1>6. RefreshInv' /\ VouchInv'
  <2>1. \A u \in Request : pc[u] # "read" => left'[u] = left[u]
    BY <1>2
  <2>2. QED
    BY <1>1, <1>2, <2>1 DEF AgeInv, RefreshInv, VouchInv
<1>7. ReadInv'
  BY <1>1, <1>2, <1>3, <1>4 DEF AgeInv, ReadInv
<1>8. QED
  BY <1>1, <1>5, <1>6, <1>7 DEF AgeInv

LEMMA AgeStep == AgeInv /\ [Next]_vars => AgeInv'
<1> SUFFICES ASSUME AgeInv, [Next]_vars PROVE AgeInv'
  OBVIOUS
<1>1. TypeOK /\ TypeOK'
  BY TypeStep DEF AgeInv
<1>2. CASE UNCHANGED pageVars
  BY <1>1, <1>2
     DEF AgeInv, pageVars, ClockInv, Running, RefreshInv, VouchInv, ReadInv
<1>3. CASE Tick
  BY <1>3, AgeTick
<1>4. ASSUME NEW r \in Request, Call(r) \/ Handler(r) PROVE AgeInv'
  BY <1>4, AgeCall, AgeCompute, AgeFails, AgeWrite, AgeWritten, AgeRead, AgeAnswer
     DEF Handler
<1>5. QED
  BY <1>2, <1>3, <1>4 DEF Next, PeerPass, vars

THEOREM AgeInvAlways == Spec => []AgeInv
  BY AgeInit, AgeStep, PTL DEF Spec

LEMMA FreshEnoughIs ==
  ASSUME AgeInv, NEW r \in Request, NEW f \in Told(struct), Answered(r),
         alone[r] \/ Precedes(struct, f, "Time")
  PROVE  FreshEnough(r, f)
<1>1. NotOld(struct, asked[r], got[r][f].at)
  BY DEF AgeInv, ReadInv, Answered
<1>2. /\ asked[r] \in Nat /\ got[r][f].at \in Nat
      /\ CashTime \in Nat /\ MaxRun \in Nat
  BY NumbersAre DEF AgeInv
<1>3. QED
  BY <1>1, <1>2 DEF NotOld, FreshEnough

(* However many requests refresh a struct at once and however their writes *)
(* interleave, no answer takes a field that is assigned before Time when   *)
(* it is older than CashTime and twice the longest request.                *)
THEOREM TimeVouches == Spec => []TimeVouchesForFields
<1>1. AgeInv => TimeVouchesForFields
  BY FreshEnoughIs, FieldFacts DEF TimeVouchesForFields, Told
<1>2. QED
  BY <1>1, AgeInvAlways, PTL

(* Only a request that has met a refresh on its way answers with a field   *)
(* older than that.                                                        *)
THEOREM OldBesideRefresh == Spec => []OldOnlyBesideRefresh
<1>1. AgeInv => OldOnlyBesideRefresh
  BY FreshEnoughIs, FieldFacts DEF OldOnlyBesideRefresh, Told
<1>2. QED
  BY <1>1, AgeInvAlways, PTL

-----------------------------------------------------------------------------
(* The fields of one refresh. *)

LEMMA OneInit == Init => OneInv
<1> SUFFICES ASSUME Init PROVE OneInv
  OBVIOUS
<1>1. /\ \A r \in Request : pc[r] = "idle"
      /\ \A f \in Told(struct) : cash[f] = Empty
  BY FieldFacts DEF Init
<1>2. QED
  BY <1>1 DEF OneInv, Single, Refreshing, CashInv, GotInv

(* A step that leaves the struct and the refreshes alone. *)
LEMMA OneKept ==
  ASSUME OneInv,
         UNCHANGED <<struct, cash, pc, data, left, got, alone, overlapped>>
  PROVE  OneInv'
  BY DEF OneInv, Single, Refreshing, CashInv, GotInv, Shown

LEMMA OneCall ==
  ASSUME TypeOK, OneInv, NEW r \in Request, Call(r) PROVE OneInv'
<1> SUFFICES ASSUME ~overlapped' PROVE (Single /\ CashInv /\ GotInv)'
  BY DEF OneInv
<1>1. /\ ~Running(r) /\ UNCHANGED <<struct, cash>>
      /\ \/ pc'[r] = "read" /\ left'[r] = Reads(struct) /\ UNCHANGED overlapped
         \/ /\ pc'[r] = "compute"
            /\ overlapped' = (overlapped \/ \E u \in Request : Refreshing(u))
      /\ alone'[r] = (\A u \in Request : ~Refreshing(u))
      /\ \A u \in Request \ {r} :
            /\ pc'[u] = pc[u] /\ data'[u] = data[u] /\ left'[u] = left[u]
            /\ got'[u] = got[u] /\ alone'[u] = alone[u]
  BY CallIs
<1>2. Single /\ CashInv /\ GotInv
  <2>1. ~overlapped
    BY <1>1, Zenon
  <2>2. QED
    BY <2>1 DEF OneInv
<1>3. Single'
  BY <1>1, <1>2 DEF Single, Refreshing
<1>4. \A u \in Request : /\ pc'[u] = "write" <=> pc[u] = "write"
                         /\ pc[u] = "write" => data'[u] = data[u] /\ left'[u] = left[u]
  BY <1>1 DEF Running
<1>5. CashInv'
  BY <1>1, <1>2, <1>4 DEF CashInv
<1>6. ASSUME pc'[r] \in {"read", "answered"}, alone'[r],
             NEW f \in Told(struct), NEW g \in Told(struct)
      PROVE  Shown(r, f)' = Shown(r, g)'
  <2>1. pc'[r] = "read" /\ left'[r] = Reads(struct)
    BY <1>1, <1>6
  <2>2. f \in ToSet(left'[r]) /\ g \in ToSet(left'[r])
    BY <2>1, ListsComplete DEF TypeOK
  <2>3. \A u \in Request : pc[u] # "write"
    BY <1>1, <1>6 DEF Refreshing
  <2>4. cash'[f] = cash'[g]
    BY <1>1, <1>2, <2>3 DEF CashInv
  <2>5. QED
    BY <2>1, <2>2, <2>4 DEF Shown
<1>7. \A u \in Request \ {r} : \A f : Shown(u, f)' = Shown(u, f)
  BY <1>1 DEF Shown
<1>8. GotInv'
  <2>1. SUFFICES ASSUME NEW u \in Request, pc'[u] \in {"read", "answered"}, alone'[u],
                        NEW f \in Told(struct), NEW g \in Told(struct)
                 PROVE  Shown(u, f)' = Shown(u, g)'
    BY <1>1 DEF GotInv
  <2>2. CASE u = r
    BY <1>6, <2>1, <2>2
  <2>3. CASE u # r
    BY <1>1, <1>2, <1>7, <2>1, <2>3 DEF GotInv
  <2>4. QED
    BY <2>2, <2>3
<1>9. QED
  BY <1>3, <1>5, <1>8

LEMMA OneCompute ==
  ASSUME AgeInv, OneInv, NEW r \in Request, Compute(r) PROVE OneInv'
<1> SUFFICES ASSUME ~overlapped' PROVE (Single /\ CashInv /\ GotInv)'
  BY DEF OneInv
<1>1. TypeOK /\ struct \in Struct
  BY DEF AgeInv, TypeOK
<1>2. /\ UNCHANGED <<struct, cash, got, alone, overlapped>>
      /\ pc[r] = "compute" /\ pc'[r] = "write"
      /\ \A u \in Request \ {r} :
            pc'[u] = pc[u] /\ data'[u] = data[u] /\ left'[u] = left[u]
      /\ left'[r] = left[r] \/ left'[r] = WithoutKept(struct)
  BY <1>1, ComputeIs
<1>3. Single /\ CashInv /\ GotInv
  BY <1>2 DEF OneInv
<1>4. \A f \in Told(struct) : f \in ToSet(left'[r])
  BY <1>1, <1>2, ListsComplete DEF AgeInv, RefreshInv
<1>5. Single'
  BY <1>2, <1>3 DEF Single, Refreshing
<1>6. CashInv'
  BY <1>2, <1>3, <1>4 DEF CashInv
<1>7. GotInv'
  BY <1>2, <1>3 DEF GotInv, Shown
<1>8. QED
  BY <1>5, <1>6, <1>7

LEMMA OneFails ==
  ASSUME TypeOK, OneInv, NEW r \in Request, Fails(r) PROVE OneInv'
<1> SUFFICES ASSUME ~overlapped' PROVE (Single /\ CashInv /\ GotInv)'
  BY DEF OneInv
<1>1. /\ UNCHANGED <<struct, cash, data, got, alone, overlapped>>
      /\ pc[r] = "compute" /\ pc'[r] = "idle"
      /\ \A u \in Request \ {r} : pc'[u] = pc[u] /\ left'[u] = left[u]
  BY FailsIs
<1>2. Single /\ CashInv /\ GotInv
  BY <1>1 DEF OneInv
<1>3. Single'
  BY <1>1, <1>2 DEF Single, Refreshing
<1>4. CashInv'
  BY <1>1, <1>2 DEF CashInv
<1>5. GotInv'
  BY <1>1, <1>2 DEF GotInv, Shown
<1>6. QED
  BY <1>3, <1>4, <1>5

LEMMA OneWrite ==
  ASSUME AgeInv, OneInv, NEW r \in Request, Write(r) PROVE OneInv'
<1> SUFFICES ASSUME ~overlapped' PROVE (Single /\ CashInv /\ GotInv)'
  BY DEF OneInv
<1> DEFINE h == Head(left[r])
<1>1. TypeOK /\ struct \in Struct
  BY DEF AgeInv, TypeOK
<1>2. /\ UNCHANGED <<struct, pc, data, got, overlapped>>
      /\ pc[r] = "write" /\ left[r] # <<>> /\ left'[r] = Tail(left[r])
      /\ \A u \in Request \ {r} : left'[u] = left[u]
  BY <1>1, WriteIs
<1>3. \A f \in Told(struct) : cash'[f] = IF f = h THEN data[r] ELSE cash[f]
  BY <1>1, WriteIs, FieldFacts
<1>4. \A u \in Request : alone'[u] => alone[u] /\ pc[u] # "read"
  <2>1. \A u \in Request : alone'[u] => alone[u] /\ (pc[u] = "read" => u = r)
    BY <1>1, WriteIs
  <2>2. QED
    BY <1>2, <2>1
<1>5. ToSet(left[r]) = {h} \cup ToSet(Tail(left[r])) /\ h \notin ToSet(Tail(left[r]))
  <2>1. left[r] \in Seq(ToSet(Writes(struct)))
    BY <1>1 DEF TypeOK
  <2>2. /\ ToSet(left[r]) = {h} \cup ToSet(Tail(left[r]))
        /\ 1 \in DOMAIN left[r] /\ left[r][1] = h
        /\ \A f \in ToSet(Tail(left[r])) : \E j \in DOMAIN left[r] : j > 1 /\ left[r][j] = f
    BY <1>2, <2>1, HeadAndTail
  <2> HIDE DEF h
  <2>3. ASSUME h \in ToSet(Tail(left[r])) PROVE FALSE
    <3>1. PICK j \in DOMAIN left[r] : j > 1 /\ left[r][j] = h
      BY <2>2, <2>3
    <3>2. Precedes(struct, h, h)
      BY <1>2, <2>2, <3>1 DEF AgeInv, RefreshInv
    <3>3. QED
      BY <1>1, <3>2, OneOrder
  <2>4. QED
    BY <2>2, <2>3
<1> HIDE DEF h
<1>6. Single /\ CashInv /\ GotInv
  BY <1>2 DEF OneInv
<1>7. Single'
  BY <1>2, <1>6 DEF Single, Refreshing
<1>8. \A u \in Request : pc[u] = "write" => u = r
  BY <1>2, <1>6 DEF Single, Refreshing
<1>9. CashInv'
  <2>1. ASSUME NEW f \in Told(struct) \ ToSet(left'[r]) PROVE cash'[f] = data[r]
    BY <1>2, <1>3, <1>5, <1>6, <2>1 DEF CashInv
  <2>2. ASSUME NEW f \in Told(struct), NEW g \in Told(struct),
               f \in ToSet(left'[r]), g \in ToSet(left'[r])
        PROVE  cash'[f] = cash'[g]
    <3>1. cash'[f] = cash[f] /\ cash'[g] = cash[g]
      BY <1>2, <1>3, <1>5, <2>2
    <3>2. f \in ToSet(left[r]) /\ g \in ToSet(left[r])
      BY <1>2, <1>5, <2>2
    <3>3. cash[f] = cash[g]
      BY <1>6, <1>8, <3>2 DEF CashInv
    <3>4. QED
      BY <3>1, <3>3
  <2>3. QED
    BY <1>2, <1>8, <2>1, <2>2 DEF CashInv
<1>10. GotInv'
  BY <1>2, <1>4, <1>6 DEF GotInv, Shown
<1>11. QED
  BY <1>7, <1>9, <1>10

LEMMA OneWritten ==
  ASSUME TypeOK, OneInv, NEW r \in Request, Written(r) PROVE OneInv'
<1> SUFFICES ASSUME ~overlapped' PROVE (Single /\ CashInv /\ GotInv)'
  BY DEF OneInv
<1>1. /\ UNCHANGED <<struct, cash, alone, overlapped>>
      /\ pc[r] = "write" /\ left[r] = <<>> /\ pc'[r] = "read"
      /\ \A u \in Request \ {r} :
            /\ pc'[u] = pc[u] /\ data'[u] = data[u] /\ left'[u] = left[u]
            /\ got'[u] = got[u]
  BY WrittenIs
<1>2. Single /\ CashInv /\ GotInv
  BY <1>1 DEF OneInv
<1>3. Single'
  BY <1>1, <1>2 DEF Single, Refreshing
<1>4. \A f \in Told(struct) : got'[r][f] = data[r] /\ cash[f] = data[r]
  <2>1. \A f \in Told(struct) : got'[r][f] = data[r] /\ f \notin ToSet(left[r])
    BY <1>1, WrittenIs, FieldFacts DEF ToSet
  <2>2. QED
    BY <1>1, <1>2, <2>1 DEF CashInv
<1>5. \A u \in Request : pc'[u] # "write"
  BY <1>1, <1>2 DEF Single, Refreshing
<1>6. CashInv'
  BY <1>1, <1>4, <1>5 DEF CashInv
<1>7. \A f \in Told(struct) : Shown(r, f)' = data[r]
  BY <1>1, <1>4 DEF Shown
<1>8. \A u \in Request \ {r} : \A f : Shown(u, f)' = Shown(u, f)
  BY <1>1 DEF Shown
<1>9. GotInv'
  BY <1>1, <1>2, <1>7, <1>8 DEF GotInv
<1>10. QED
  BY <1>3, <1>6, <1>9

LEMMA OneRead ==
  ASSUME TypeOK, OneInv, NEW r \in Request, Read(r) PROVE OneInv'
<1> SUFFICES ASSUME ~overlapped' PROVE (Single /\ CashInv /\ GotInv)'
  BY DEF OneInv
<1> DEFINE h == Head(left[r])
<1>1. /\ UNCHANGED <<struct, cash, pc, data, alone, overlapped>>
      /\ pc[r] = "read" /\ left[r] # <<>> /\ left'[r] = Tail(left[r])
      /\ \A u \in Request \ {r} : left'[u] = left[u] /\ got'[u] = got[u]
  BY ReadIs
<1>2. \A f \in Told(struct) : got'[r][f] = IF f = h THEN cash[f] ELSE got[r][f]
  BY ReadIs, FieldFacts
<1>3. ToSet(left[r]) = {h} \cup ToSet(Tail(left[r]))
  BY <1>1, HeadAndTail DEF TypeOK
<1> HIDE DEF h
<1>4. Single /\ CashInv /\ GotInv
  BY <1>1 DEF OneInv
<1>5. Single' /\ CashInv'
  <2>1. \A u \in Request : pc[u] = "write" => left'[u] = left[u]
    BY <1>1
  <2>2. QED
    BY <1>1, <1>4, <2>1 DEF Single, Refreshing, CashInv
<1>6. \A f \in Told(struct) : Shown(r, f)' = Shown(r, f)
  BY <1>1, <1>2, <1>3 DEF Shown
<1>7. \A u \in Request \ {r} : \A f : Shown(u, f)' = Shown(u, f)
  BY <1>1 DEF Shown
<1>8. GotInv'
  BY <1>1, <1>4, <1>6, <1>7 DEF GotInv
<1>9. QED
  BY <1>5, <1>8

LEMMA OneAnswer ==
  ASSUME TypeOK, OneInv, NEW r \in Request, Answer(r) PROVE OneInv'
<1> SUFFICES ASSUME ~overlapped' PROVE (Single /\ CashInv /\ GotInv)'
  BY DEF OneInv
<1>1. /\ UNCHANGED <<struct, cash, data, left, got, alone, overlapped>>
      /\ pc[r] = "read" /\ left[r] = <<>> /\ pc'[r] = "answered"
      /\ \A u \in Request \ {r} : pc'[u] = pc[u]
  BY AnswerIs
<1>2. Single /\ CashInv /\ GotInv
  BY <1>1 DEF OneInv
<1>3. Single' /\ CashInv'
  <2>1. \A u \in Request : pc'[u] \in {"compute", "write"} => pc'[u] = pc[u]
    BY <1>1
  <2>2. \A u \in Request : pc[u] = "write" => pc'[u] = pc[u]
    BY <1>1
  <2>3. QED
    BY <1>1, <1>2, <2>1, <2>2 DEF Single, Refreshing, CashInv
<1>4. \A f : Shown(r, f)' = Shown(r, f)
  BY <1>1 DEF Shown, ToSet
<1>5. \A u \in Request \ {r} : \A f : Shown(u, f)' = Shown(u, f)
  BY <1>1 DEF Shown
<1>6. GotInv'
  BY <1>1, <1>2, <1>4, <1>5 DEF GotInv
<1>7. QED
  BY <1>3, <1>6

LEMMA OneStep == AgeInv /\ OneInv /\ [Next]_vars => OneInv'
<1> SUFFICES ASSUME AgeInv, OneInv, [Next]_vars PROVE OneInv'
  OBVIOUS
<1>1. TypeOK
  BY DEF AgeInv
<1>2. CASE Tick \/ PeerPass \/ UNCHANGED vars
  BY <1>2, OneKept DEF Tick, PeerPass, vars, pageVars
<1>3. ASSUME NEW r \in Request, Call(r) \/ Handler(r) PROVE OneInv'
  BY <1>1, <1>3, OneCall, OneCompute, OneFails, OneWrite, OneWritten, OneRead, OneAnswer
     DEF Handler
<1>4. QED
  BY <1>2, <1>3 DEF Next

(* As long as no two refreshes overlap, a request that meets none answers  *)
(* with the fields of one refresh, however many requests read meanwhile.   *)
THEOREM OneRefreshAnswers == Spec => []AnswersFromOneRefresh
<1>1. OneInv => AnswersFromOneRefresh
  <2>1. \A r \in Request : \A f : Answered(r) => Shown(r, f) = got[r][f]
    BY DEF Answered, Shown
  <2>2. QED
    BY <2>1, FieldFacts DEF OneInv, GotInv, AnswersFromOneRefresh, Answered, Told
<1>2. Spec => []OneInv
  BY OneInit, OneStep, AgeInvAlways, PTL DEF Spec
<1>3. QED
  BY <1>1, <1>2, PTL

-----------------------------------------------------------------------------
(* The map of the peers. *)

(* Documents are of the past. *)
PastDocs(docs, until) ==
    \A p \in DOMAIN docs :
        \E ip : \E t \in Nat : t <= until /\ docs[p] = [ip |-> ip, gmt_modified |-> t]

LEMMA PassRenews ==
  ASSUME PastDocs(peers, now), now \in Nat, UpdatePeers(now)
  PROVE  /\ PastDocs(peers', now)
         /\ \A p \in DOMAIN peers : /\ p \in DOMAIN peers'
                                    /\ peers[p].gmt_modified \in Nat
                                    /\ peers'[p].gmt_modified \in Nat
                                    /\ peers[p].gmt_modified <= peers'[p].gmt_modified
<1>1. \A p \in DOMAIN peers : \E ip : \E t \in Nat :
          t <= now /\ peers[p] = [ip |-> ip, gmt_modified |-> t]
  BY DEF PastDocs
<1>2. CASE SavePeers(now)
  <2>1. PICK list \in Lists :
          peers' = [p \in DOMAIN peers |->
                     IF \E i \in DOMAIN list : p \in Have(list[i]) /\ Recently(list[i], now)
                     THEN [peers[p] EXCEPT !.gmt_modified = now] ELSE peers[p]]
    BY <1>2 DEF SavePeers
  <2>2. /\ DOMAIN peers' = DOMAIN peers
        /\ \A p \in DOMAIN peers :
              peers'[p] = peers[p] \/ peers'[p] = [peers[p] EXCEPT !.gmt_modified = now]
    BY <2>1
  <2>3. ASSUME NEW p \in DOMAIN peers
        PROVE  \E ip : \E t \in Nat : \E u \in Nat :
                  /\ t <= u /\ u <= now
                  /\ peers[p] = [ip |-> ip, gmt_modified |-> t]
                  /\ peers'[p] = [ip |-> ip, gmt_modified |-> u]
    <3>1. PICK ip : \E t \in Nat : t <= now /\ peers[p] = [ip |-> ip, gmt_modified |-> t]
      BY <1>1
    <3>2. PICK t \in Nat : t <= now /\ peers[p] = [ip |-> ip, gmt_modified |-> t]
      BY <3>1
    <3>3. CASE peers'[p] = peers[p]
      <4>1. peers'[p] = [ip |-> ip, gmt_modified |-> t] /\ t <= t
        BY <3>2, <3>3
      <4>2. QED
        BY <3>2, <4>1
    <3>4. CASE peers'[p] = [peers[p] EXCEPT !.gmt_modified = now]
      <4>1. peers'[p] = [ip |-> ip, gmt_modified |-> now] /\ now <= now
        BY <3>2, <3>4
      <4>2. QED
        BY <3>2, <4>1
    <3>5. QED
      BY <2>2, <3>3, <3>4
  <2>4. QED
    <3>1. PastDocs(peers', now)
      BY <2>2, <2>3 DEF PastDocs
    <3>2. \A p \in DOMAIN peers : /\ peers[p].gmt_modified \in Nat
                                  /\ peers'[p].gmt_modified \in Nat
                                  /\ peers[p].gmt_modified <= peers'[p].gmt_modified
      <4> SUFFICES ASSUME NEW p \in DOMAIN peers
                   PROVE  /\ peers[p].gmt_modified \in Nat
                          /\ peers'[p].gmt_modified \in Nat
                          /\ peers[p].gmt_modified <= peers'[p].gmt_modified
        OBVIOUS
      <4>1. PICK ip : \E t \in Nat : \E u \in Nat :
                  /\ t <= u /\ peers[p] = [ip |-> ip, gmt_modified |-> t]
                  /\ peers'[p] = [ip |-> ip, gmt_modified |-> u]
        BY <2>3
      <4>2. QED
        BY <4>1
    <3>3. QED
      BY <2>2, <3>1, <3>2
<1>3. CASE InsertPeerMulti(now)
  <2>1. /\ \A p \in DOMAIN peers : p \in DOMAIN peers' /\ peers'[p] = peers[p]
        /\ \A p \in DOMAIN peers' : p \in DOMAIN peers \/
              \E v : peers'[p] = Document(v, now)
    BY <1>3 DEF InsertPeerMulti
  <2>2. PastDocs(peers', now)
    <3>1. SUFFICES ASSUME NEW p \in DOMAIN peers'
                   PROVE  \E ip : \E t \in Nat :
                             t <= now /\ peers'[p] = [ip |-> ip, gmt_modified |-> t]
      BY DEF PastDocs
    <3>2. CASE p \in DOMAIN peers
      BY <1>1, <2>1, <3>2
    <3>3. CASE \E v : peers'[p] = Document(v, now)
      <4>1. PICK v : peers'[p] = [ip |-> v.ip, gmt_modified |-> now]
        BY <3>3 DEF Document
      <4>2. now <= now
        OBVIOUS
      <4>3. QED
        BY <4>1, <4>2
    <3>4. QED
      BY <2>1, <3>2, <3>3
  <2>3. \A p \in DOMAIN peers : /\ peers[p].gmt_modified \in Nat
                                /\ peers[p].gmt_modified <= peers[p].gmt_modified
    BY <1>1
  <2>4. QED
    BY <2>1, <2>2, <2>3
<1>4. QED
  BY <1>2, <1>3 DEF UpdatePeers

LEMMA LocatedStays ==
  ASSUME NEW v, v.at \in Nat, Located(v),
         \A p \in DOMAIN peers : /\ p \in DOMAIN peers'
                                 /\ peers[p].gmt_modified \in Nat
                                 /\ peers'[p].gmt_modified \in Nat
                                 /\ peers[p].gmt_modified <= peers'[p].gmt_modified
  PROVE  \A p \in v.peers : p \in DOMAIN peers' /\ v.at <= peers'[p].gmt_modified + Day
<1> Day \in Nat
  BY PeersAssumption
<1> SUFFICES ASSUME NEW p \in v.peers
             PROVE  p \in DOMAIN peers' /\ v.at <= peers'[p].gmt_modified + Day
  OBVIOUS
<1>1. p \in DOMAIN peers /\ v.at <= peers[p].gmt_modified + Day
  BY DEF Located
<1>2. QED
  BY <1>1

LEMMA PeersInvInit == Init => PeersInv
<1> SUFFICES ASSUME Init PROVE PeersInv
  OBVIOUS
<1>1. \A p \in DOMAIN peers : \E ip : peers[p] = [ip |-> ip, gmt_modified |-> 0]
  BY DEF Init, PeersInit
<1>2. now \in Nat /\ 0 <= now
  BY HomeAssumption DEF Init
<1>3. Located(Empty)
  BY DEF Located, Empty
<1>4. /\ \A f \in Fields(struct) : cash[f] = Empty
      /\ \A r \in Request : data[r] = Empty /\ \A f \in Fields(struct) : got[r][f] = Empty
  BY FieldFacts DEF Init
<1>5. QED
  BY <1>1, <1>2, <1>3, <1>4 DEF PeersInv

(* The steps of the requests: values are copied, and one is computed. *)
LEMMA PeersInvCopied ==
  ASSUME PeersInv, UNCHANGED <<peers, now, struct>>, NEW new, Located(new),
         \A f \in Fields(struct) : \/ cash'[f] = cash[f] \/ cash'[f] = new
                                   \/ \E r \in Request : cash'[f] = data[r],
         \A r \in Request : data'[r] = data[r] \/ data'[r] = new,
         \A r \in Request, f \in Fields(struct) :
            \/ got'[r][f] = got[r][f] \/ got'[r][f] = new
            \/ got'[r][f] = cash[f] \/ got'[r][f] = data[r]
  PROVE  PeersInv'
<1>1. \A f \in Fields(struct) : Located(cash'[f])
  BY DEF PeersInv
<1>2. \A r \in Request : Located(data'[r])
  BY DEF PeersInv
<1>3. \A r \in Request : \A f \in Fields(struct) : Located(got'[r][f])
  BY DEF PeersInv
<1>4. QED
  BY <1>1, <1>2, <1>3 DEF PeersInv, Located

LEMMA PeersInvStep == AgeInv /\ PeersInv /\ [Next]_vars => PeersInv'
<1> SUFFICES ASSUME AgeInv, PeersInv, [Next]_vars PROVE PeersInv'
  OBVIOUS
<1>1. TypeOK /\ now \in Nat
  BY DEF AgeInv, TypeOK
<1>2. Located(Empty)
  BY DEF Located, Empty
<1>3. CASE Tick
  <2>1. \A p \in DOMAIN peers :
          \E ip : \E t \in Nat : t <= now' /\ peers[p] = [ip |-> ip, gmt_modified |-> t]
    <3>1. \A t \in Nat : t <= now => t <= now'
      BY <1>1, <1>3 DEF Tick
    <3>2. QED
      BY <3>1 DEF PeersInv
  <2>2. QED
    BY <1>3, <2>1 DEF PeersInv, Located, Tick, peerVars
<1>4. CASE PeerPass
  <2>1. UNCHANGED <<now, struct, cash, data, got>> /\ UpdatePeers(now)
    BY <1>4 DEF PeerPass, pageVars
  <2>2. PastDocs(peers, now)
    BY DEF PeersInv, PastDocs
  <2>3. /\ PastDocs(peers', now)
        /\ \A p \in DOMAIN peers : /\ p \in DOMAIN peers'
                                   /\ peers[p].gmt_modified \in Nat
                                   /\ peers'[p].gmt_modified \in Nat
                                   /\ peers[p].gmt_modified <= peers'[p].gmt_modified
    BY <1>1, <2>1, <2>2, PassRenews
  <2>4. /\ \A f \in Fields(struct) : cash[f].at \in Nat /\ Located(cash[f])
        /\ \A r \in Request : data[r].at \in Nat /\ Located(data[r])
        /\ \A r \in Request : \A f \in Fields(struct) :
              got[r][f].at \in Nat /\ Located(got[r][f])
    BY <1>1 DEF PeersInv, TypeOK
  <2> DEFINE Stays(v) == \A p \in v.peers :
                           p \in DOMAIN peers' /\ v.at <= peers'[p].gmt_modified + Day
  <2>5. \A v : v.at \in Nat /\ Located(v) => Stays(v)
    BY <2>3, LocatedStays
  <2>6. /\ \A f \in Fields(struct) : Stays(cash[f])
        /\ \A r \in Request : Stays(data[r])
        /\ \A r \in Request : \A f \in Fields(struct) : Stays(got[r][f])
    <3> HIDE DEF Stays
    <3>1. QED
      BY <2>4, <2>5
  <2>7. QED
    BY <2>1, <2>3, <2>6 DEF PeersInv, Located, PastDocs
<1>5. ASSUME NEW r \in Request, Call(r) PROVE PeersInv'
  <2>1. /\ UNCHANGED <<struct, cash, now>>
        /\ data'[r] = Empty /\ \A f \in Fields(struct) : got'[r][f] = Empty
        /\ \A u \in Request \ {r} : data'[u] = data[u] /\ got'[u] = got[u]
    BY <1>1, <1>5, CallIs
  <2>2. UNCHANGED peers
    BY <1>5 DEF Call, peerVars
  <2>3. QED
    BY <1>2, <2>1, <2>2, PeersInvCopied
<1>6. ASSUME NEW r \in Request, Compute(r) PROVE PeersInv'
  <2> DEFINE new == [at |-> began[r],
                     peers |-> IF struct = "peerPointCash" THEN GetPeerGroup(now) ELSE {}]
  <2>1. /\ UNCHANGED <<struct, cash, now, got, peerVars>> /\ pc[r] = "compute"
        /\ data'[r] = new /\ \A u \in Request \ {r} : data'[u] = data[u]
    BY <1>1, <1>6, ComputeIs
  <2>2. Located(new)
    <3>1. began[r] <= now /\ began[r] \in Nat
      BY <1>1, <2>1 DEF AgeInv, ClockInv, Running, TypeOK
    <3>2. \A p \in GetPeerGroup(now) :
             p \in DOMAIN peers /\ now <= peers[p].gmt_modified + Day
      BY DEF GetPeerGroup
    <3>3. \A p \in DOMAIN peers : peers[p].gmt_modified \in Nat
      BY DEF PeersInv
    <3>4. new.at = began[r] /\ \A p \in new.peers : p \in GetPeerGroup(now)
      OBVIOUS
    <3> HIDE DEF new
    <3>5. QED
      BY <1>1, <3>1, <3>2, <3>3, <3>4, PeersAssumption DEF Located
  <2> HIDE DEF new
  <2>3. QED
    BY <2>1, <2>2, PeersInvCopied DEF peerVars
<1>7. ASSUME NEW r \in Request, Fails(r) PROVE PeersInv'
  BY <1>1, <1>2, <1>7, FailsIs, PeersInvCopied DEF peerVars
<1>8. ASSUME NEW r \in Request, Write(r) PROVE PeersInv'
  BY <1>1, <1>2, <1>8, WriteIs, PeersInvCopied DEF peerVars
<1>9. ASSUME NEW r \in Request, Written(r) PROVE PeersInv'
  BY <1>1, <1>2, <1>9, WrittenIs, PeersInvCopied DEF peerVars
<1>10. ASSUME NEW r \in Request, Read(r) PROVE PeersInv'
  BY <1>1, <1>2, <1>10, ReadIs, PeersInvCopied DEF peerVars
<1>11. ASSUME NEW r \in Request, Answer(r) PROVE PeersInv'
  BY <1>1, <1>2, <1>11, AnswerIs, PeersInvCopied DEF peerVars
<1>12. CASE UNCHANGED vars
  BY <1>2, <1>12, PeersInvCopied DEF vars, peerVars, pageVars
<1>13. QED
  BY <1>3, <1>4, <1>5, <1>6, <1>7, <1>8, <1>9, <1>10, <1>11, <1>12 DEF Next, Handler

(* A peer leaves the map a day after it was located, the time the map may  *)
(* be kept added, whatever passes run beside the requests.                 *)
THEOREM PeersLeave == Spec => []PeersLeaveTheMap
<1>1. AgeInv /\ PeersInv => PeersLeaveTheMap
  <2> SUFFICES ASSUME AgeInv, PeersInv, struct = "peerPointCash",
                      NEW r \in Request, Answered(r), alone[r],
                      NEW p \in got[r]["PeerPoint"].peers
               PROVE  asked[r] < peers[p].gmt_modified + Day + CashTime + 2 * MaxRun
    BY DEF PeersLeaveTheMap
  <2>1. "PeerPoint" \in Told(struct)
    BY DEF Told, Fields, ToSet, Writes, Kept
  <2> DEFINE v == got[r]["PeerPoint"]
  <2>2. NotOld(struct, asked[r], v.at)
    BY <2>1 DEF AgeInv, ReadInv, Answered
  <2>3. p \in DOMAIN peers /\ v.at <= peers[p].gmt_modified + Day
    BY <2>1, FieldFacts DEF PeersInv, Located
  <2>4. peers[p].gmt_modified \in Nat
    BY <2>3 DEF PeersInv
  <2>5. v.at \in Nat /\ asked[r] \in Nat /\ MaxRun \in Nat /\ CashTime \in Nat /\ Day \in Nat
    BY <2>1, NumbersAre, PeersAssumption DEF AgeInv
  <2>6. asked[r] < v.at + CashTime + 2 * MaxRun
    BY <2>2 DEF NotOld
  <2> HIDE DEF v
  <2>7. QED
    BY <2>3, <2>4, <2>5, <2>6
<1>2. Spec => []PeersInv
  BY PeersInvInit, PeersInvStep, AgeInvAlways, PTL DEF Spec
<1>3. QED
  BY <1>1, <1>2, AgeInvAlways, PTL
=============================================================================
