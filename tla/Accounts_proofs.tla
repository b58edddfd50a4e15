-------------------------- MODULE Accounts_proofs --------------------------
(***************************************************************************)
(* Theorems about Accounts and the request that reads beside it, for       *)
(* every set of addresses and documents and every bound.                   *)
(***************************************************************************)
EXTENDS AccountReads, TLAPS

Record == [role : Role, actor : 0..MaxVersion]

LEMMA FieldsAre == DOMAIN Fields = 1..5 /\ Len(Fields) = 5
  BY DEF Fields

(* What accountMap gets for an address is one role. *)
LEMMA RoleInType ==
  ASSUME NEW field, NEW a PROVE \E r \in Role : RoleIn(field, a) = {r}
  BY DEF RoleIn, Role

(* A listed address has a role to be written with. *)
LEMMA FetchedType ==
  ASSUME TypeOK, NEW a \in Address, accountMap[a] # {}
  PROVE  Fetched(a) \in Record
<1>1. PICK r \in Role : accountMap[a] = {r}
  BY DEF TypeOK
<1>2. (CHOOSE q \in accountMap[a] : TRUE) \in Role
  BY <1>1
<1>3. Actor[a] \in 0..MaxVersion
  BY DEF TypeOK
<1>4. QED
  BY <1>2, <1>3 DEF Fetched, Record

LEMMA UpsertedType ==
  ASSUME TypeOK, NEW a \in todo
  PROVE  Upserted(a) \in Record
<1>1. a \in Address /\ accountMap[a] # {}
  BY DEF TypeOK
<1>2. Fetched(a) \in Record
  BY <1>1, FetchedType
<1>3. account[a] # NoAccount => account[a] \in Record
  BY <1>1 DEF TypeOK, Record
<1>4. QED
  BY <1>2, <1>3 DEF Upserted

(* When the function returns its locals are as at the start. *)
LEMMA ReturnType ==
  ASSUME TypeOK, Return
  PROVE  /\ startTime' \in Nat /\ pc' = "tick" /\ query' \in DOMAIN Fields
         /\ accountMap' \in [Address -> {{r} : r \in Role} \cup {{}}]
         /\ Actor' \in [Address -> 0..MaxVersion]
         /\ todo' \subseteq {a \in Address : accountMap'[a] # {}}
<1>1. startTime' \in Nat /\ query' \in DOMAIN Fields
  BY FieldsAre DEF Return, TypeOK
<1>2. accountMap' \in [Address -> {{r} : r \in Role} \cup {{}}]
  BY DEF Return, Nowhere
<1>3. Actor' \in [Address -> 0..MaxVersion]
  BY AccountsAssumption DEF Return, NoActors
<1>4. QED
  BY <1>1, <1>2, <1>3 DEF Return

LEMMA FailType == ASSUME TypeOK, Fail PROVE fails' \in 0..MaxFails
  BY AccountsAssumption DEF TypeOK, Fail

LEMMA TypeInit == Init => TypeOK
<1> SUFFICES ASSUME Init PROVE TypeOK
  OBVIOUS
<1> USE AccountsAssumption DEF Init
<1>1. chainActor \in [Address -> 1..MaxVersion] /\ Actor \in [Address -> 0..MaxVersion]
  BY DEF NoActors
<1>2. accountMap \in [Address -> {{r} : r \in Role} \cup {{}}]
  BY DEF Nowhere
<1>3. account \in [Address -> Record \cup {NoAccount}]
  OBVIOUS
<1>4. query \in DOMAIN Fields
  BY FieldsAre
<1>5. QED
  BY <1>1, <1>2, <1>3, <1>4 DEF TypeOK, Record

LEMMA TypeStep == TypeOK /\ [Next]_vars => TypeOK'
<1> SUFFICES ASSUME TypeOK, [Next]_vars PROVE TypeOK'
  OBVIOUS
<1> USE AccountsAssumption
<1>1. CASE Second
  BY <1>1 DEF Second, TypeOK
<1>2. ASSUME NEW s \in Source, StoreDocument(s) PROVE TypeOK'
  <2>1. PICK t \in 0..MaxTime : docs' = docs \cup {[source |-> s, gmt_create |-> t]}
    BY <1>2 DEF StoreDocument
  <2>2. docs' \subseteq [source : Source, gmt_create : 0..MaxTime]
    BY <2>1 DEF TypeOK
  <2>3. QED
    BY <1>2, <2>2 DEF StoreDocument, TypeOK
<1>3. ASSUME NEW a \in Address, ActorChanges(a) PROVE TypeOK'
  <2>1. chainActor' \in [Address -> 1..MaxVersion]
    BY <1>3 DEF ActorChanges, TypeOK
  <2>2. QED
    BY <1>3, <2>1 DEF ActorChanges, TypeOK
<1>4. CASE Tick
  BY <1>4 DEF Tick, TypeOK
<1>5. CASE Query
  <2>1. CASE Fail /\ Return
    BY <1>5, <2>1, ReturnType, FailType DEF Query, TypeOK
  <2>2. CASE ~(Fail /\ Return)
    <3> DEFINE known == Distinct(Fields[query])
    <3>1. /\ accountMap' = [a \in Address |->
                IF a \in known THEN RoleIn(Fields[query], a) ELSE accountMap[a]]
          /\ IF query < Len(Fields)
             THEN query' = query + 1 /\ UNCHANGED <<pc, todo>>
             ELSE pc' = "actor" /\ todo' = Listed(accountMap') /\ query' = 1
          /\ UNCHANGED <<startTime, Actor, fails>>
          /\ UNCHANGED <<TimeNow, docs, chainActor, account>>
      BY <1>5, <2>2 DEF Query
    <3>2. \A a \in Address : RoleIn(Fields[query], a) \in {{r} : r \in Role}
      BY RoleInType
    <3>3. accountMap' \in [Address -> {{r} : r \in Role} \cup {{}}]
      BY <3>1, <3>2 DEF TypeOK
    <3>4. todo' \subseteq {a \in Address : accountMap'[a] # {}}
      <4>1. CASE query < Len(Fields)
        <5>1. \A a \in Address : accountMap[a] # {} => accountMap'[a] # {}
          BY <3>1, <3>2
        <5>2. QED
          BY <3>1, <4>1, <5>1 DEF TypeOK
      <4>2. CASE ~(query < Len(Fields))
        BY <3>1, <4>2 DEF Listed
      <4>3. QED
        BY <4>1, <4>2
    <3>5. query' \in DOMAIN Fields /\ pc' \in {"tick", "query", "actor", "upsert"}
      BY <3>1, FieldsAre DEF TypeOK
    <3>6. QED
      BY <3>1, <3>3, <3>4, <3>5 DEF TypeOK
  <2>3. QED
    BY <2>1, <2>2
<1>6. ASSUME NEW a \in Address, FetchActor(a) PROVE TypeOK'
  <2>1. CASE Fail /\ Return
    BY <1>6, <2>1, ReturnType, FailType DEF FetchActor, TypeOK
  <2>2. CASE ~(Fail /\ Return)
    <3>1. /\ \/ Actor' = [Actor EXCEPT ![a] = chainActor[a]] /\ fails' = fails
             \/ Fail /\ Actor' = Actor
          /\ todo' = todo \ {a}
          /\ UNCHANGED <<startTime, pc, query, accountMap, TimeNow, docs, chainActor, account>>
      BY <1>6, <2>2 DEF FetchActor
    <3>2. Actor' \in [Address -> 0..MaxVersion]
      BY <3>1 DEF TypeOK
    <3>3. fails' \in 0..MaxFails
      BY <3>1, FailType DEF TypeOK
    <3>4. QED
      BY <3>1, <3>2, <3>3 DEF TypeOK
  <2>3. QED
    BY <2>1, <2>2
<1>7. CASE ActorsDone
  BY <1>7 DEF ActorsDone, Listed, TypeOK
<1>8. ASSUME NEW a \in Address, UpsertAccount(a) PROVE TypeOK'
  <2>1. CASE Fail /\ Return
    BY <1>8, <2>1, ReturnType, FailType DEF UpsertAccount, TypeOK, Return
  <2>2. CASE ~(Fail /\ Return)
    <3>1. /\ a \in todo
          /\ account' = [account EXCEPT ![a] = Upserted(a)]
          /\ todo' = todo \ {a}
          /\ UNCHANGED <<startTime, pc, query, accountMap, Actor, fails, TimeNow, docs, chainActor>>
      BY <1>8, <2>2 DEF UpsertAccount
    <3>2. Upserted(a) \in Record
      BY <3>1, UpsertedType
    <3>3. account' \in [Address -> Record \cup {NoAccount}]
      BY <3>1, <3>2 DEF TypeOK, Record
    <3>4. QED
      BY <3>1, <3>3 DEF TypeOK, Record
  <2>3. QED
    BY <2>1, <2>2
<1>9. CASE EndOfPass
  BY <1>9, ReturnType DEF EndOfPass, TypeOK
<1>10. CASE UNCHANGED vars
  BY <1>10 DEF vars, TypeOK
<1>11. QED
  BY <1>1, <1>2, <1>3, <1>4, <1>5, <1>6, <1>7, <1>8, <1>9, <1>10 DEF Next, UpdateAccountInfo

(* The type invariant. *)
THEOREM TypeCorrect == Spec => []TypeOK
  BY TypeInit, TypeStep, PTL DEF Spec
-----------------------------------------------------------------------------
(* What the goroutine fetched is never ahead of the chain, and what is     *)
(* stored is never ahead of what it fetched: the actor of an address is    *)
(* written by no one else between the fetch and the write.                 *)

FetchedIsOnChain == \A a \in Address : Actor[a] <= chainActor[a]

StoredIsOnChain == \A a \in Address : HasAccount(a) => account[a].actor <= chainActor[a]

StoredIsFetched ==
    \A a \in Address : HasAccount(a) /\ Actor[a] # 0 => account[a].actor <= Actor[a]

ActorsInv == TypeOK /\ FetchedIsOnChain /\ StoredIsOnChain /\ StoredIsFetched

(* The order of versions, as far as the type invariant gives it. *)
LEMMA VersionsType ==
  ASSUME TypeOK, NEW a \in Address
  PROVE  /\ Actor[a] \in Nat /\ chainActor[a] \in Nat
         /\ HasAccount(a) => account[a].actor \in Nat
<1>1. Actor[a] \in Nat /\ chainActor[a] \in Nat
  BY AccountsAssumption DEF TypeOK
<1>2. HasAccount(a) => account[a] \in Record
  BY DEF TypeOK, HasAccount, Record
<1>3. QED
  BY <1>1, <1>2, AccountsAssumption DEF Record

LEMMA ActorsInvInit == Init => ActorsInv
<1> SUFFICES ASSUME Init PROVE ActorsInv
  OBVIOUS
<1>1. TypeOK
  BY TypeInit
<1>2. QED
  BY <1>1 DEF Init, ActorsInv, FetchedIsOnChain, StoredIsOnChain, StoredIsFetched,
              HasAccount, NoActors

(* Leaving the function forgets what was fetched. *)
LEMMA ReturnKeeps ==
  ASSUME ActorsInv, TypeOK', Return, UNCHANGED <<chainActor, account>>
  PROVE  ActorsInv'
<1>1. \A a \in Address : Actor'[a] = 0
  BY DEF Return, NoActors
<1>2. \A a \in Address : chainActor[a] \in Nat
  BY VersionsType DEF ActorsInv
<1>3. QED
  BY <1>1, <1>2 DEF ActorsInv, FetchedIsOnChain, StoredIsOnChain, StoredIsFetched, HasAccount

(* What a write leaves of the account it is for: the actor fetched, or, as *)
(* none was, the account as it was.                                        *)
LEMMA UpsertedActor ==
  ASSUME ActorsInv, NEW a \in Address
  PROVE  /\ Actor[a] # 0 \/ ~HasAccount(a) => Upserted(a).actor = Actor[a]
         /\ Actor[a] = 0 /\ HasAccount(a) => Upserted(a) = account[a]
  BY DEF Upserted, Fetched, HasAccount

(* A write changes no other account, and takes no actor back. *)
LEMMA UpsertGrows ==
  ASSUME ActorsInv, NEW b \in Address, b \in todo,
         account' = [account EXCEPT ![b] = Upserted(b)]
  PROVE  \A a \in Address :
            HasAccount(a) => HasAccount(a)' /\ account[a].actor <= account'[a].actor
<1> SUFFICES ASSUME NEW a \in Address, HasAccount(a)
             PROVE  HasAccount(a)' /\ account[a].actor <= account'[a].actor
  OBVIOUS
<1>0. TypeOK /\ account[a].actor \in Nat
  BY VersionsType DEF ActorsInv
<1>1. CASE a # b
  BY <1>0, <1>1 DEF TypeOK, HasAccount
<1>2. CASE a = b
  <2>1. account'[a] = Upserted(a)
    BY <1>0, <1>2 DEF TypeOK
  <2>2. Upserted(a) \in Record
    BY <1>0, <1>2, UpsertedType
  <2>3. HasAccount(a)'
    BY <2>1, <2>2, AccountsAssumption DEF HasAccount, Record
  <2>4. account[a].actor <= Upserted(a).actor
    BY <1>0, UpsertedActor DEF ActorsInv, StoredIsFetched
  <2>5. QED
    BY <2>1, <2>3, <2>4
<1>3. QED
  BY <1>1, <1>2

LEMMA ActorsInvStep == ActorsInv /\ [Next]_vars => ActorsInv'
<1> SUFFICES ASSUME ActorsInv, [Next]_vars PROVE ActorsInv'
  OBVIOUS
<1> USE DEF ActorsInv
<1>0. TypeOK'
  BY TypeStep
<1>a. \A a \in Address : /\ Actor[a] \in Nat /\ chainActor[a] \in Nat
                         /\ HasAccount(a) => account[a].actor \in Nat
  BY VersionsType
<1>b. ASSUME UNCHANGED <<chainActor, account, Actor>> PROVE ActorsInv'
  BY <1>0, <1>b DEF FetchedIsOnChain, StoredIsOnChain, StoredIsFetched, HasAccount
<1>c. ASSUME Return, UNCHANGED <<chainActor, account>> PROVE ActorsInv'
  BY <1>0, <1>c, ReturnKeeps
<1>1. CASE Second
  BY <1>1, <1>b DEF Second
<1>2. ASSUME NEW s \in Source, StoreDocument(s) PROVE ActorsInv'
  BY <1>2, <1>b DEF StoreDocument
<1>3. ASSUME NEW b \in Address, ActorChanges(b) PROVE ActorsInv'
  <2>1. \A a \in Address : chainActor[a] <= chainActor'[a] /\ chainActor'[a] \in Nat
    BY <1>3, <1>a DEF ActorChanges, TypeOK
  <2>2. account' = account /\ Actor' = Actor
    BY <1>3 DEF ActorChanges
  <2>3. QED
    BY <1>0, <1>a, <2>1, <2>2 DEF FetchedIsOnChain, StoredIsOnChain, StoredIsFetched, HasAccount
<1>4. CASE Tick
  BY <1>4, <1>b DEF Tick
<1>5. CASE Query
  <2>1. CASE Return
    BY <1>5, <1>c, <2>1 DEF Query
  <2>2. CASE ~Return
    BY <1>5, <1>b, <2>2 DEF Query
  <2>3. QED
    BY <2>1, <2>2
<1>6. ASSUME NEW b \in Address, FetchActor(b) PROVE ActorsInv'
  <2>1. CASE Return
    BY <1>6, <1>c, <2>1 DEF FetchActor
  <2>2. CASE ~Return
    <3>1. /\ Actor' = [Actor EXCEPT ![b] = chainActor[b]] \/ Actor' = Actor
          /\ UNCHANGED <<chainActor, account>>
      BY <1>6, <2>2 DEF FetchActor
    <3>2. \A a \in Address : Actor'[a] = Actor[a] \/ Actor'[a] = chainActor[a]
      BY <3>1 DEF TypeOK
    <3>3. QED
      BY <1>0, <1>a, <3>1, <3>2
         DEF FetchedIsOnChain, StoredIsOnChain, StoredIsFetched, HasAccount
  <2>3. QED
    BY <2>1, <2>2
<1>7. CASE ActorsDone
  BY <1>7, <1>b DEF ActorsDone
<1>8. ASSUME NEW b \in Address, UpsertAccount(b) PROVE ActorsInv'
  <2>1. CASE Return
    <3>1. CASE UNCHANGED account
      BY <1>8, <1>c, <2>1, <3>1 DEF UpsertAccount
    <3>2. CASE ~UNCHANGED account
      <4>1. todo' = {} /\ todo' = todo \ {b} /\ Actor' = Actor /\ UNCHANGED chainActor
            /\ account' = [account EXCEPT ![b] = Upserted(b)]
        BY <1>8, <2>1, <3>2 DEF UpsertAccount, Return
      <4>2. \A a \in Address : Actor[a] = 0
        BY <2>1, <4>1 DEF Return, NoActors
      <4>3. \A a \in Address : a # b => account'[a] = account[a]
        BY <4>1 DEF TypeOK
      <4>4. account'[b] = Upserted(b)
        BY <4>1 DEF TypeOK
      <4>5. account'[b].actor <= chainActor'[b]
        BY <1>a, <4>1, <4>2, <4>4, UpsertedActor DEF StoredIsOnChain, FetchedIsOnChain
      <4>6. QED
        BY <1>0, <1>a, <4>1, <4>2, <4>3, <4>5
           DEF FetchedIsOnChain, StoredIsOnChain, StoredIsFetched, HasAccount
    <3>3. QED
      BY <3>1, <3>2
  <2>2. CASE ~Return
    <3>1. /\ account' = [account EXCEPT ![b] = Upserted(b)]
          /\ UNCHANGED <<chainActor, Actor>>
      BY <1>8, <2>2 DEF UpsertAccount
    <3>2. \A a \in Address : a # b => account'[a] = account[a]
      BY <3>1 DEF TypeOK
    <3>3. account'[b] = Upserted(b)
      BY <3>1 DEF TypeOK
    <3>4. account'[b].actor <= chainActor[b]
      BY <1>a, <3>3, UpsertedActor DEF StoredIsOnChain, FetchedIsOnChain
    <3>5. Actor[b] # 0 => account'[b].actor <= Actor[b]
      BY <1>a, <3>3, UpsertedActor
    <3>6. QED
      BY <1>0, <1>a, <3>1, <3>2, <3>4, <3>5
         DEF FetchedIsOnChain, StoredIsOnChain, StoredIsFetched, HasAccount
  <2>3. QED
    BY <2>1, <2>2
<1>9. CASE EndOfPass
  BY <1>9, <1>c DEF EndOfPass
<1>10. CASE UNCHANGED vars
  BY <1>10, <1>b DEF vars
<1>11. QED
  BY <1>1, <1>2, <1>3, <1>4, <1>5, <1>6, <1>7, <1>8, <1>9, <1>10 DEF Next, UpdateAccountInfo

LEMMA StepsTakeNoActorBack ==
  ActorsInv /\ [Next]_vars =>
     [ \A a \in Address : HasAccount(a) => HasAccount(a)' /\ account[a].actor <= account'[a].actor ]_vars
<1> SUFFICES ASSUME ActorsInv, [Next]_vars
             PROVE  \A a \in Address :
                       HasAccount(a) => HasAccount(a)' /\ account[a].actor <= account'[a].actor
  OBVIOUS
<1>1. CASE \E b \in Address : UpsertAccount(b) /\ ~UNCHANGED account
  <2>1. PICK b \in Address : UpsertAccount(b) /\ ~UNCHANGED account
    BY <1>1
  <2>2. b \in todo /\ account' = [account EXCEPT ![b] = Upserted(b)]
    BY <2>1 DEF UpsertAccount
  <2>3. QED
    BY <2>2, UpsertGrows
<1>2. CASE ~\E b \in Address : UpsertAccount(b) /\ ~UNCHANGED account
  <2>1. account' = account
    BY <1>2 DEF Next, UpdateAccountInfo, Second, StoreDocument, ActorChanges, Tick, Query,
                FetchActor, ActorsDone, EndOfPass, vars
  <2>2. \A a \in Address : HasAccount(a) => account[a].actor \in Nat
    BY VersionsType DEF ActorsInv
  <2>3. QED
    BY <2>1, <2>2 DEF HasAccount
<1>3. QED
  BY <1>1, <1>2

(* The actor of an account is never replaced by an older one or by none,   *)
(* whatever fails and however long the write comes after the fetch.        *)
THEOREM ActorsOnlyGrow == Spec => ActorsDontGoBack
<1>1. Spec => []ActorsInv
  BY ActorsInvInit, ActorsInvStep, PTL DEF Spec
<1>2. QED
  BY <1>1, StepsTakeNoActorBack, PTL DEF Spec, ActorsDontGoBack

-----------------------------------------------------------------------------
(* Who was seen as a miner or an owner is seen so by every later pass: the *)
(* window of the queries opens at startTime, which stays, and closes at    *)
(* TimeNow.  The queries for miners and owners are the last three.         *)

Strong == {"miner", "owner"}

Marked(a) == HasAccount(a) /\ account[a].role \in Strong

MapMarks(a) == accountMap[a] \cap Strong # {}

SeenAs(i, a) == a \in Distinct(Fields[i])

(* The pass has looped over the result of query i. *)
Looped(i) == pc \in {"actor", "upsert"} \/ (pc = "query" /\ i < query)

MapSeen == \A a \in Address : MapMarks(a) => \E i \in 3..5 : SeenAs(i, a)

(* Documents go on arriving during a pass, so that it may have missed some *)
(* that name the address, but not the one it was marked for.               *)
MarkSeen ==
    \A a \in Address : Marked(a) =>
        \E i \in 3..5 : SeenAs(i, a) /\ (Looped(i) => MapMarks(a))

(* A pass begins with the first query. *)
FirstQuery == pc = "tick" => query = 1

RolesInv == TypeOK /\ startTime = 0 /\ FirstQuery /\ MapSeen /\ MarkSeen

LEMMA StrongFields ==
  ASSUME NEW i \in 3..5, NEW a PROVE RoleIn(Fields[i], a) \cap Strong # {}
<1>1. Fields[3] = "miner_addr" /\ Fields[4] = "wallet_addr" /\ Fields[5] = "block_header.Miner"
  BY DEF Fields
<1>2. Fields[i] \in {"miner_addr", "wallet_addr", "block_header.Miner"}
  BY <1>1
<1>3. QED
  BY <1>2 DEF RoleIn, Strong

LEMMA WeakFields ==
  ASSUME NEW i \in 1..5, NEW a, RoleIn(Fields[i], a) \cap Strong # {} PROVE i \in 3..5
<1>1. Fields[1] = "message.From" /\ Fields[2] = "message.To"
  BY DEF Fields
<1>2. ASSUME i \in {1, 2} PROVE FALSE
  BY <1>1, <1>2 DEF RoleIn, Strong
<1>3. QED
  BY <1>2

LEMMA RolesInvInit == Init => RolesInv
  BY TypeInit DEF Init, RolesInv, FirstQuery, MapSeen, MarkSeen, MapMarks, Marked, Nowhere, HasAccount

(* No document goes, and the clock only moves on. *)
LEMMA WindowWidens ==
  ASSUME RolesInv, [Next]_vars PROVE \A i, a : SeenAs(i, a) => SeenAs(i, a)'
<1>1. startTime' = startTime
  BY DEF Next, UpdateAccountInfo, Second, StoreDocument, ActorChanges, Tick, Query,
         FetchActor, ActorsDone, UpsertAccount, EndOfPass, Return, vars
<1>2. docs \subseteq docs'
  BY DEF Next, UpdateAccountInfo, Second, StoreDocument, ActorChanges, Tick, Query,
         FetchActor, ActorsDone, UpsertAccount, EndOfPass, vars
<1>3. TimeNow \in Nat /\ (TimeNow' = TimeNow \/ TimeNow' = TimeNow + 1)
  <2>1. TimeNow' = TimeNow \/ TimeNow' = TimeNow + 1
    BY DEF Next, UpdateAccountInfo, Second, StoreDocument, ActorChanges, Tick, Query,
           FetchActor, ActorsDone, UpsertAccount, EndOfPass, vars
  <2>2. TimeNow \in Nat
    BY AccountsAssumption DEF RolesInv, TypeOK
  <2>3. QED
    BY <2>1, <2>2
<1>4. \A d \in docs : d.gmt_create \in Nat
  BY AccountsAssumption DEF RolesInv, TypeOK
<1> SUFFICES ASSUME NEW i, NEW a, SeenAs(i, a) PROVE SeenAs(i, a)'
  OBVIOUS
<1>5. PICK d \in docs : d.source = <<Fields[i], a>> /\ startTime <= d.gmt_create /\ d.gmt_create <= TimeNow
  BY DEF SeenAs, Distinct
<1>6. d \in docs' /\ startTime' <= d.gmt_create /\ d.gmt_create <= TimeNow'
  BY <1>1, <1>2, <1>3, <1>4, <1>5
<1>7. a \in Address
  BY DEF SeenAs, Distinct
<1>8. QED
  BY <1>5, <1>6, <1>7 DEF SeenAs, Distinct

LEMMA FirstQueryStep == FirstQuery /\ [Next]_vars => FirstQuery'
<1> SUFFICES ASSUME FirstQuery, [Next]_vars PROVE FirstQuery'
  OBVIOUS
<1>1. CASE UNCHANGED <<pc, query>> \/ Return
  BY <1>1 DEF FirstQuery, Return
<1>2. CASE Query
  BY <1>1, <1>2 DEF FirstQuery, Query
<1>3. CASE ~(Query \/ UNCHANGED <<pc, query>> \/ Return)
  BY <1>3 DEF FirstQuery, Next, UpdateAccountInfo, Second, StoreDocument, ActorChanges, Tick,
              FetchActor, ActorsDone, UpsertAccount, EndOfPass, vars
<1>4. QED
  BY <1>1, <1>2, <1>3

(* What Query leaves in accountMap, unless the function ends. *)
LEMMA QueryMarks ==
  ASSUME RolesInv, pc = "query", NEW a \in Address,
         accountMap' = [b \in Address |->
             IF b \in Distinct(Fields[query]) THEN RoleIn(Fields[query], b) ELSE accountMap[b]]
  PROVE  /\ MapMarks(a)' => MapMarks(a) \/ (query \in 3..5 /\ SeenAs(query, a))
         /\ MapMarks(a) /\ query \in 3..5 => MapMarks(a)'
         /\ SeenAs(query, a) /\ query \in 3..5 => MapMarks(a)'
<1>1. query \in 1..5
  BY FieldsAre DEF RolesInv, TypeOK
<1>2. CASE a \in Distinct(Fields[query])
  <2>1. accountMap'[a] = RoleIn(Fields[query], a) /\ SeenAs(query, a)
    BY <1>2 DEF SeenAs
  <2>2. MapMarks(a)' => query \in 3..5
    BY <1>1, <2>1, WeakFields DEF MapMarks
  <2>3. query \in 3..5 => MapMarks(a)'
    BY <2>1, StrongFields DEF MapMarks
  <2>4. QED
    BY <2>1, <2>2, <2>3
<1>3. CASE a \notin Distinct(Fields[query])
  BY <1>3 DEF MapMarks, SeenAs
<1>4. QED
  BY <1>2, <1>3

LEMMA RolesQuery == RolesInv /\ TypeOK' /\ FirstQuery' /\ Query => RolesInv'
<1> SUFFICES ASSUME RolesInv, TypeOK', FirstQuery', Query PROVE RolesInv'
  OBVIOUS
<1>w. \A i, a : SeenAs(i, a) => SeenAs(i, a)'
  BY WindowWidens DEF Next, UpdateAccountInfo
<1>0. account' = account /\ startTime' = startTime /\ pc = "query" /\ query \in 1..5
  BY FieldsAre DEF Query, Return, RolesInv, TypeOK
<1>1. CASE Return
  <2>1. \A a \in Address : ~MapMarks(a)'
    BY <1>1 DEF Return, Nowhere, MapMarks
  <2>2. \A i : ~Looped(i)'
    BY <1>1 DEF Return, Looped
  <2>3. QED
    BY <1>w, <1>0, <2>1, <2>2 DEF RolesInv, MapSeen, MarkSeen, Marked, HasAccount
<1>2. CASE ~Return
  <2>1. accountMap' = [b \in Address |->
             IF b \in Distinct(Fields[query]) THEN RoleIn(Fields[query], b) ELSE accountMap[b]]
    BY <1>2 DEF Query
  <2>2. IF query < 5 THEN query' = query + 1 /\ pc' = "query" ELSE pc' = "actor"
    BY <1>2, <1>0, FieldsAre DEF Query
  <2>3. MapSeen'
    <3> SUFFICES ASSUME NEW a \in Address, MapMarks(a)'
                 PROVE  \E i \in 3..5 : SeenAs(i, a)'
      BY DEF MapSeen
    <3>1. MapMarks(a) \/ (query \in 3..5 /\ SeenAs(query, a))
      BY <1>0, <2>1, QueryMarks
    <3>2. QED
      BY <1>w, <3>1 DEF RolesInv, MapSeen
  <2>4. MarkSeen'
    <3> SUFFICES ASSUME NEW a \in Address, Marked(a)'
                 PROVE  \E i \in 3..5 : SeenAs(i, a)' /\ (Looped(i)' => MapMarks(a)')
      BY DEF MarkSeen
    <3>1. Marked(a)
      BY <1>0 DEF Marked, HasAccount
    <3>2. PICK i \in 3..5 : SeenAs(i, a) /\ (Looped(i) => MapMarks(a))
      BY <3>1 DEF RolesInv, MarkSeen
    <3>3. SeenAs(i, a)'
      BY <1>w, <3>2
    <3>4. ASSUME Looped(i)' PROVE MapMarks(a)'
      <4>1. i <= query
        BY <1>0, <2>2, <3>4 DEF Looped
      <4>2. query \in 3..5
        BY <1>0, <4>1
      <4>3. CASE i = query
        BY <1>0, <2>1, <3>2, <4>2, <4>3, QueryMarks
      <4>4. CASE i # query
        <5>1. MapMarks(a)
          BY <1>0, <3>2, <4>1, <4>4 DEF Looped
        <5>2. QED
          BY <1>0, <2>1, <4>2, <5>1, QueryMarks
      <4>5. QED
        BY <4>3, <4>4
    <3>5. QED
      BY <3>3, <3>4
  <2>5. QED
    BY <1>0, <2>3, <2>4 DEF RolesInv
<1>3. QED
  BY <1>1, <1>2

(* The role a write leaves is that of the map or the one that was there.   *)
LEMMA UpsertedRole ==
  ASSUME RolesInv, NEW b \in todo
  PROVE  /\ b \in Address
         /\ Upserted(b).role \in Strong => MapMarks(b) \/ Marked(b)
         /\ MapMarks(b) /\ (Marked(b) \/ ~HasAccount(b) \/ Actor[b] # 0) =>
               Upserted(b).role \in Strong
<1>1. b \in Address /\ accountMap[b] # {}
  BY DEF RolesInv, TypeOK
<1>2. PICK r \in Role : accountMap[b] = {r}
  BY <1>1 DEF RolesInv, TypeOK
<1>3. Fetched(b).role = r
  BY <1>2 DEF Fetched
<1>4. MapMarks(b) <=> r \in Strong
  BY <1>2 DEF MapMarks
<1>5. \/ Upserted(b) = account[b] /\ HasAccount(b) /\ Actor[b] = 0
      \/ Upserted(b) = Fetched(b) /\ ~(HasAccount(b) /\ Actor[b] = 0)
  BY DEF Upserted, HasAccount
<1>6. QED
  BY <1>1, <1>3, <1>4, <1>5 DEF Marked

LEMMA RolesUpsert ==
  ASSUME RolesInv, TypeOK', FirstQuery', NEW b \in Address, UpsertAccount(b) PROVE RolesInv'
<1>w. \A i, a : SeenAs(i, a) => SeenAs(i, a)'
  BY WindowWidens DEF Next, UpdateAccountInfo
<1>0. startTime' = startTime /\ pc = "upsert" /\ b \in todo
  BY DEF UpsertAccount, Return
<1>m. \A a \in Address : Marked(a)' =>
         Marked(a) \/ (a = b /\ MapMarks(b))
  <2>1. CASE account' = account
    BY <2>1 DEF Marked, HasAccount
  <2>2. CASE account' = [account EXCEPT ![b] = Upserted(b)]
    <3>1. account'[b] = Upserted(b) /\ \A a \in Address : a # b => account'[a] = account[a]
      BY <2>2 DEF RolesInv, TypeOK
    <3>2. Marked(b)' => Upserted(b).role \in Strong
      BY <3>1 DEF Marked
    <3>3. QED
      BY <1>0, <3>1, <3>2, UpsertedRole DEF Marked, HasAccount
  <2>3. QED
    BY <2>1, <2>2 DEF UpsertAccount
<1>n. \A a \in Address : Marked(a)' => \E i \in 3..5 : SeenAs(i, a) /\ MapMarks(a)
  BY <1>0, <1>m DEF RolesInv, MapSeen, MarkSeen, Looped
<1>1. CASE Return
  <2>1. \A a \in Address : ~MapMarks(a)'
    BY <1>1 DEF Return, Nowhere, MapMarks
  <2>2. \A i : ~Looped(i)'
    BY <1>1 DEF Return, Looped
  <2>3. QED
    BY <1>w, <1>0, <1>n, <2>1, <2>2 DEF RolesInv, MapSeen, MarkSeen
<1>2. CASE ~Return
  <2>1. accountMap' = accountMap
    BY <1>2 DEF UpsertAccount
  <2>2. \A a : MapMarks(a)' <=> MapMarks(a)
    BY <2>1 DEF MapMarks
  <2>3. QED
    BY <1>w, <1>0, <1>n, <2>2 DEF RolesInv, MapSeen, MarkSeen
<1>3. QED
  BY <1>1, <1>2

(* A step that leaves accounts and map as they are, and queries no more. *)
LEMMA RolesRest ==
  ASSUME RolesInv, TypeOK', FirstQuery', [Next]_vars, UNCHANGED <<account, startTime, accountMap>>,
         \A i \in 3..5 : Looped(i)' => Looped(i)
  PROVE  RolesInv'
<1>1. \A i, a : SeenAs(i, a) => SeenAs(i, a)'
  BY WindowWidens
<1>2. \A a : (Marked(a)' <=> Marked(a)) /\ (MapMarks(a)' <=> MapMarks(a))
  BY DEF Marked, HasAccount, MapMarks
<1>3. QED
  BY <1>1, <1>2 DEF RolesInv, MapSeen, MarkSeen

LEMMA RolesReturn ==
  ASSUME RolesInv, TypeOK', FirstQuery', [Next]_vars, Return, UNCHANGED account
  PROVE  RolesInv'
<1>1. \A i, a : SeenAs(i, a) => SeenAs(i, a)'
  BY WindowWidens
<1>2. \A a \in Address : ~MapMarks(a)'
  BY DEF Return, Nowhere, MapMarks
<1>3. \A i : ~Looped(i)'
  BY DEF Return, Looped
<1>4. \A a : Marked(a)' <=> Marked(a)
  BY DEF Marked, HasAccount
<1>5. startTime' = startTime
  BY DEF Return
<1>6. QED
  BY <1>1, <1>2, <1>3, <1>4, <1>5 DEF RolesInv, MapSeen, MarkSeen

LEMMA RolesInvStep == RolesInv /\ [Next]_vars => RolesInv'
<1> SUFFICES ASSUME RolesInv, [Next]_vars PROVE RolesInv'
  OBVIOUS
<1>0. TypeOK' /\ FirstQuery'
  BY TypeStep, FirstQueryStep DEF RolesInv
<1>1. CASE Second
  BY <1>0, <1>1, RolesRest DEF Second, Looped
<1>2. ASSUME NEW s \in Source, StoreDocument(s) PROVE RolesInv'
  BY <1>0, <1>2, RolesRest DEF StoreDocument, Looped
<1>3. ASSUME NEW b \in Address, ActorChanges(b) PROVE RolesInv'
  BY <1>0, <1>3, RolesRest DEF ActorChanges, Looped
<1>4. CASE Tick
  <2>1. query' = query
    BY <1>4 DEF Tick
  <2>2. query = 1
    BY <1>4 DEF Tick, RolesInv, FirstQuery
  <2>3. QED
    BY <1>0, <1>4, <2>1, <2>2, RolesRest DEF Tick, Looped
<1>5. CASE Query
  BY <1>0, <1>5, RolesQuery
<1>6. ASSUME NEW b \in Address, FetchActor(b) PROVE RolesInv'
  <2>1. CASE Return
    BY <1>0, <1>6, <2>1, RolesReturn DEF FetchActor
  <2>2. CASE ~Return
    BY <1>0, <1>6, <2>2, RolesRest DEF FetchActor, Looped
  <2>3. QED
    BY <2>1, <2>2
<1>7. CASE ActorsDone
  BY <1>0, <1>7, RolesRest DEF ActorsDone, Looped
<1>8. ASSUME NEW b \in Address, UpsertAccount(b) PROVE RolesInv'
  BY <1>0, <1>8, RolesUpsert
<1>9. CASE EndOfPass
  BY <1>0, <1>9, RolesReturn DEF EndOfPass
<1>10. CASE UNCHANGED vars
  BY <1>0, <1>10, RolesRest DEF vars, Looped
<1>11. QED
  BY <1>1, <1>2, <1>3, <1>4, <1>5, <1>6, <1>7, <1>8, <1>9, <1>10 DEF Next, UpdateAccountInfo

LEMMA NoMarkIsLost ==
  RolesInv /\ [Next]_vars =>
     [ \A a \in Address : /\ HasAccount(a)
                          /\ account[a].role \in {"miner", "owner"}
                          => account'[a].role \in {"miner", "owner"} ]_vars
<1> SUFFICES ASSUME RolesInv, [Next]_vars, NEW a \in Address,
                    HasAccount(a), account[a].role \in {"miner", "owner"}
             PROVE  account'[a].role \in {"miner", "owner"}
  OBVIOUS
<1>0. Marked(a)
  BY DEF Marked, Strong
<1>1. CASE \E b \in Address : UpsertAccount(b) /\ ~UNCHANGED account
  <2>1. PICK b \in Address : UpsertAccount(b) /\ ~UNCHANGED account
    BY <1>1
  <2>2. pc = "upsert" /\ b \in todo /\ account' = [account EXCEPT ![b] = Upserted(b)]
    BY <2>1 DEF UpsertAccount
  <2>3. CASE a = b
    <3>1. MapMarks(b)
      BY <1>0, <2>2, <2>3 DEF RolesInv, MarkSeen, Looped
    <3>2. Upserted(b).role \in Strong
      BY <1>0, <2>2, <2>3, <3>1, UpsertedRole
    <3>3. account'[a] = Upserted(b)
      BY <2>2, <2>3 DEF RolesInv, TypeOK
    <3>4. QED
      BY <3>2, <3>3 DEF Strong
  <2>4. CASE a # b
    BY <2>2, <2>4 DEF RolesInv, TypeOK
  <2>5. QED
    BY <2>3, <2>4
<1>2. CASE ~\E b \in Address : UpsertAccount(b) /\ ~UNCHANGED account
  <2>1. account' = account
    BY <1>2 DEF Next, UpdateAccountInfo, Second, StoreDocument, ActorChanges, Tick, Query,
                FetchActor, ActorsDone, EndOfPass, vars
  <2>2. QED
    BY <2>1
<1>3. QED
  BY <1>1, <1>2

(* An address that was seen as a miner or an owner is never taken for a    *)
(* mere sender of messages later, though each pass puts the roles together *)
(* anew, from collections that change while it runs.                       *)
THEOREM MarkedRolesStay == Spec => RolesStay
<1>1. Spec => []RolesInv
  BY RolesInvInit, RolesInvStep, PTL DEF Spec
<1>2. QED
  BY <1>1, NoMarkIsLost, PTL DEF Spec, RolesStay
-----------------------------------------------------------------------------
(* Owners are those that the collection miner names as owners, in the      *)
(* table, in the pass and in the request; no state of a miner is removed.  *)

IsOwner(a) == InMiners("wallet_addr", a)

OwnersAreNamed ==
    \A a \in Address : /\ "owner" \in accountMap[a] => IsOwner(a)
                       /\ HasAccount(a) /\ account[a].role = "owner" => IsOwner(a)

Requests ==
    [pc : {"answered", "owner", "miner"}, of : Address, role : Role,
     work : BOOLEAN, miner : BOOLEAN]

(* A request asks for what the role it found calls for. *)
RequestInv ==
    \/ request = NoRequest
    \/ /\ request \in Requests
       /\ request.pc # "answered" => request.role = request.pc
       /\ request.role = "owner" => IsOwner(request.of) /\ (request.pc = "owner" \/ request.work)

OwnersInv == TypeOK /\ OwnersAreNamed /\ RequestInv

LEMMA OwnersInvInit == ReadsInit => OwnersInv
  BY TypeInit DEF ReadsInit, Init, OwnersInv, OwnersAreNamed, RequestInv, Nowhere, HasAccount

LEMMA OwnersAreKept ==
  ASSUME [Next]_vars PROVE \A a : IsOwner(a) => IsOwner(a)'
<1>1. docs \subseteq docs'
  BY DEF Next, UpdateAccountInfo, Second, StoreDocument, ActorChanges, Tick, Query,
         FetchActor, ActorsDone, UpsertAccount, EndOfPass, vars
<1>2. QED
  BY <1>1 DEF IsOwner, InMiners

(* A step that writes no account and loops over no result. *)
LEMMA OwnersRest ==
  ASSUME OwnersAreNamed, [Next]_vars, UNCHANGED account,
         UNCHANGED accountMap \/ Return
  PROVE  OwnersAreNamed'
<1>1. \A a : IsOwner(a) => IsOwner(a)'
  BY OwnersAreKept
<1>2. \A a \in Address : "owner" \in accountMap'[a] => "owner" \in accountMap[a]
  BY DEF Return, Nowhere
<1>3. QED
  BY <1>1, <1>2 DEF OwnersAreNamed, HasAccount

LEMMA OwnersQuery ==
  ASSUME OwnersAreNamed, TypeOK, Query, ~Return PROVE OwnersAreNamed'
<1>1. account' = account /\ docs' = docs
  BY DEF Query
<1>2. accountMap' = [b \in Address |->
          IF b \in Distinct(Fields[query]) THEN RoleIn(Fields[query], b) ELSE accountMap[b]]
  BY DEF Query
<1>3. ASSUME NEW a \in Address, a \in Distinct(Fields[query]),
             "owner" \in RoleIn(Fields[query], a)
      PROVE  IsOwner(a)
  <2>1. Fields[query] = "wallet_addr"
    BY <1>3 DEF RoleIn
  <2>2. QED
    BY <1>3, <2>1 DEF IsOwner, InMiners, Distinct
<1>4. \A a \in Address : "owner" \in accountMap'[a] => IsOwner(a)
  BY <1>2, <1>3 DEF OwnersAreNamed
<1>5. \A a : IsOwner(a)' <=> IsOwner(a)
  BY <1>1 DEF IsOwner, InMiners
<1>6. QED
  BY <1>1, <1>4, <1>5 DEF OwnersAreNamed, HasAccount

LEMMA OwnersUpsert ==
  ASSUME OwnersAreNamed, TypeOK, NEW b \in todo, account' = [account EXCEPT ![b] = Upserted(b)],
         UNCHANGED docs
  PROVE  \A a \in Address : HasAccount(a)' /\ account'[a].role = "owner" => IsOwner(a)
<1>1. b \in Address /\ accountMap[b] # {}
  BY DEF TypeOK
<1>2. PICK r \in Role : accountMap[b] = {r}
  BY <1>1 DEF TypeOK
<1>3. Fetched(b).role \in accountMap[b]
  BY <1>2 DEF Fetched
<1>4. Upserted(b).role = "owner" => IsOwner(b)
  BY <1>1, <1>2, <1>3 DEF Upserted, OwnersAreNamed, HasAccount
<1>5. account'[b] = Upserted(b) /\ \A a \in Address : a # b => account'[a] = account[a]
  BY <1>1 DEF TypeOK
<1>6. QED
  BY <1>4, <1>5 DEF OwnersAreNamed, HasAccount

LEMMA OwnersStep == OwnersAreNamed /\ TypeOK /\ [Next]_vars => OwnersAreNamed'
<1> SUFFICES ASSUME OwnersAreNamed, TypeOK, [Next]_vars PROVE OwnersAreNamed'
  OBVIOUS
<1>1. CASE Query
  <2>1. CASE Return
    BY <1>1, <2>1, OwnersRest DEF Query
  <2>2. QED
    BY <1>1, <2>1, OwnersQuery
<1>2. ASSUME NEW b \in Address, UpsertAccount(b) PROVE OwnersAreNamed'
  <2>1. UNCHANGED docs /\ b \in todo
    BY <1>2 DEF UpsertAccount
  <2>2. CASE UNCHANGED account
    BY <1>2, <2>2, OwnersRest DEF UpsertAccount
  <2>3. CASE account' = [account EXCEPT ![b] = Upserted(b)]
    <3>1. \A a \in Address : HasAccount(a)' /\ account'[a].role = "owner" => IsOwner(a)
      BY <2>1, <2>3, OwnersUpsert
    <3>2. \A a : IsOwner(a) => IsOwner(a)'
      BY OwnersAreKept
    <3>3. \A a \in Address : "owner" \in accountMap'[a] => "owner" \in accountMap[a]
      BY <1>2 DEF UpsertAccount, Return, Nowhere
    <3>4. QED
      BY <3>1, <3>2, <3>3 DEF OwnersAreNamed
  <2>4. QED
    BY <1>2, <2>2, <2>3 DEF UpsertAccount
<1>3. CASE ~Query /\ ~\E b \in Address : UpsertAccount(b)
  <2>1. UNCHANGED account /\ (UNCHANGED accountMap \/ Return)
    BY <1>3 DEF Next, UpdateAccountInfo, Second, StoreDocument, ActorChanges, Tick,
                FetchActor, ActorsDone, EndOfPass, vars
  <2>2. QED
    BY <2>1, OwnersRest
<1>4. QED
  BY <1>1, <1>2, <1>3

LEMMA OwnersInvStep == OwnersInv /\ [ReadsNext]_readVars => OwnersInv'
<1> SUFFICES ASSUME OwnersInv, [ReadsNext]_readVars PROVE OwnersInv'
  OBVIOUS
<1>1. ASSUME [Next]_vars, UNCHANGED request PROVE OwnersInv'
  <2>1. TypeOK' /\ OwnersAreNamed'
    BY <1>1, TypeStep, OwnersStep DEF OwnersInv
  <2>2. \A a : IsOwner(a) => IsOwner(a)'
    BY <1>1, OwnersAreKept
  <2>3. RequestInv'
    BY <1>1, <2>2 DEF OwnersInv, RequestInv
  <2>4. QED
    BY <2>1, <2>3 DEF OwnersInv
<1>2. CASE Read
  <2>1. UNCHANGED vars
    BY <1>2 DEF Read
  <2>2. TypeOK' /\ OwnersAreNamed' /\ \A a : IsOwner(a)' <=> IsOwner(a)
    <3>1. TypeOK' /\ OwnersAreNamed'
      BY <2>1, TypeStep, OwnersStep DEF OwnersInv
    <3>2. docs' = docs
      BY <2>1 DEF vars
    <3>3. QED
      BY <3>1, <3>2 DEF IsOwner, InMiners
  <2>3. RequestInv'
    <3>1. CASE WorkOfOwner
      <4>1. request # NoRequest
        BY <3>1 DEF WorkOfOwner, NoRequest
      <4>2. request \in Requests /\ request.role = "owner" /\ IsOwner(request.of)
        BY <3>1, <4>1 DEF OwnersInv, RequestInv, WorkOfOwner
      <4>3. request' = [request EXCEPT !.pc = "answered", !.work = TRUE]
        BY <3>1, <4>2 DEF WorkOfOwner, MinerListByWalletAddr, IsOwner
      <4>4. request' \in Requests /\ request'.role = "owner" /\ request'.work
            /\ request'.of = request.of /\ request'.pc = "answered"
        BY <4>2, <4>3 DEF Requests
      <4>5. QED
        BY <2>2, <4>2, <4>4 DEF RequestInv
    <3>2. CASE InfoOfMiner
      <4>1. request # NoRequest
        BY <3>2 DEF InfoOfMiner, NoRequest
      <4>2. request \in Requests /\ request.role = "miner"
        BY <3>2, <4>1 DEF OwnersInv, RequestInv, InfoOfMiner
      <4>3. PICK m \in BOOLEAN : request' = [request EXCEPT !.pc = "answered", !.miner = m]
        BY <3>2 DEF InfoOfMiner, MinerByAddress, InMiners
      <4>4. request' \in Requests /\ request'.role = "miner" /\ request'.pc = "answered"
        BY <4>2, <4>3 DEF Requests
      <4>5. QED
        BY <4>4 DEF RequestInv
    <3>3. CASE RequestFails
      BY <3>3 DEF RequestFails, RequestInv
    <3>4. ASSUME NEW a \in Address, ActorById(a) PROVE RequestInv'
      <4>1. PICK res \in GetActorByAddress(a) :
               request' = Shown(IF res.role \in {"owner", "miner"} THEN res.role ELSE "answered",
                                a, res)
        BY <3>4 DEF ActorById
      <4>2. res = account[a] /\ HasAccount(a)
        BY <4>1 DEF GetActorByAddress, HasAccount
      <4>3. res.role \in Role /\ (res.role = "owner" => IsOwner(a)')
        BY <2>2, <4>2 DEF OwnersInv, OwnersAreNamed, TypeOK, HasAccount
      <4>4. request'.of = a /\ request'.role = res.role /\ request' \in Requests
            /\ request'.pc = IF res.role \in {"owner", "miner"} THEN res.role ELSE "answered"
        BY <4>1, <4>3 DEF Shown, Requests
      <4>5. QED
        BY <4>3, <4>4 DEF RequestInv
    <3>5. QED
      BY <1>2, <3>1, <3>2, <3>3, <3>4 DEF Read
  <2>4. QED
    BY <2>2, <2>3 DEF OwnersInv
<1>3. QED
  BY <1>1, <1>2 DEF ReadsNext, readVars

(* Who is shown as an owner is shown with the miners owned, though role    *)
(* and miners are read from two collections and the role was written from  *)
(* what a pass had read long before.                                       *)
THEOREM OwnersAlwaysShowWork == ReadsSpec => []OwnersShowTheirWork
<1>1. OwnersInv => OwnersShowTheirWork
  BY DEF OwnersInv, RequestInv, OwnersShowTheirWork
<1>2. QED
  BY <1>1, OwnersInvInit, OwnersInvStep, PTL DEF ReadsSpec
=============================================================================
