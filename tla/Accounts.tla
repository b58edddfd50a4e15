------------------------------ MODULE Accounts ------------------------------
(***************************************************************************)
(* The goroutine UpdateAllAccount starts (controllers/define.go): at every *)
(* tick UpdateAccountInfo collects the addresses of the collections msg,   *)
(* miner and block, asks lotus for the actor of each, and writes them to   *)
(* the collection account (models/account.go).  Meanwhile the syncing      *)
(* goroutines store documents and the actors change on the chain.          *)
(*                                                                         *)
(* Documents carry gmt_create, the second they were built in; they may be  *)
(* stored later, and models.TimeNow, which a goroutine renews every        *)
(* second, may be behind it.  An actor is the number of its version on the *)
(* chain, 0 for none.                                                      *)
(***************************************************************************)
EXTENDS Naturals, Sequences

CONSTANTS
    Address,
    Wallet,         \* addresses that begin with "t3"
    Source,         \* <<field, address>> pairs documents may have
    NoAccount,
    MaxTime,        \* bound: seconds that pass
    MaxVersion,     \* bound: versions of an actor
    MaxFails        \* bound: calls of lotus or mgo that fail

(* Mutant: the results are looped over in the opposite order.              *)
MessagesLast == <<"block_header.Miner", "wallet_addr", "miner_addr", "message.To", "message.From">>

(* The queries, in the order in which they are made and their results are  *)
(* looped over.                                                            *)
Fields == <<"message.From", "message.To", "miner_addr", "wallet_addr", "block_header.Miner">>

Role == {"account", "wallet", "miner", "owner"}

ASSUME AccountsAssumption ==
    /\ Wallet \subseteq Address
    /\ Source \subseteq {Fields[i] : i \in DOMAIN Fields} \X Address
    /\ MaxTime \in Nat /\ MaxVersion \in Nat \ {0} /\ MaxFails \in Nat
    /\ NoAccount \notin [role : Role, actor : 0..MaxVersion]

VARIABLES
    TimeNow,        \* models.TimeNow
    docs,           \* documents of msg, miner and block: sources and gmt_create
    chainActor,     \* the version of each actor on the chain
    account,        \* the collection account
    startTime,      \* the startTime of UpdateAllAccount
    pc,             \* where UpdateAccountInfo is
    query,          \* the query it makes next
    accountMap,     \* its accountMap; {} for an address that is not in it
    Actor,          \* Account.Actor of its accountlist
    todo,           \* addresses the loop it is in has left
    fails           \* counts the failures that MaxFails bounds

vars == <<TimeNow, docs, chainActor, account, startTime, pc, query, accountMap,
          Actor, todo, fails>>

TypeOK ==
    /\ TimeNow \in 0..MaxTime /\ startTime \in Nat
    /\ docs \subseteq [source : Source, gmt_create : 0..MaxTime]
    /\ chainActor \in [Address -> 1..MaxVersion]
    /\ account \in [Address -> [role : Role, actor : 0..MaxVersion] \cup {NoAccount}]
    /\ pc \in {"tick", "query", "actor", "upsert"}
    /\ query \in DOMAIN Fields
    /\ accountMap \in [Address -> {{r} : r \in Role} \cup {{}}]
    /\ Actor \in [Address -> 0..MaxVersion]
    /\ todo \subseteq {a \in Address : accountMap[a] # {}}
    /\ fails \in 0..MaxFails

Nowhere == [a \in Address |-> {}]
NoActors == [a \in Address |-> 0]

Init ==
    /\ TimeNow = 0 /\ docs = {}
    /\ chainActor = [a \in Address |-> 1]
    /\ account = [a \in Address |-> NoAccount]
    /\ startTime = 0
    /\ pc = "tick" /\ query = 1
    /\ accountMap = Nowhere /\ Actor = NoActors /\ todo = {}
    /\ fails = 0

-----------------------------------------------------------------------------
(* Around the goroutine. *)

Second ==
    /\ TimeNow < MaxTime
    /\ TimeNow' = TimeNow + 1
    /\ UNCHANGED <<docs, chainActor, account, startTime, pc, query, accountMap, Actor,
                   todo, fails>>

(* One document per source is enough: a later one says nothing new.        *)
StoreDocument(s) ==
    /\ \A d \in docs : d.source # s
    /\ \E t \in 0..MaxTime :
          /\ t <= TimeNow + 1
          /\ docs' = docs \cup {[source |-> s, gmt_create |-> t]}
    /\ UNCHANGED <<TimeNow, chainActor, account, startTime, pc, query, accountMap, Actor,
                   todo, fails>>

ActorChanges(a) ==
    /\ chainActor[a] < MaxVersion
    /\ chainActor' = [chainActor EXCEPT ![a] = @ + 1]
    /\ UNCHANGED <<TimeNow, docs, account, startTime, pc, query, accountMap, Actor, todo, fails>>

-----------------------------------------------------------------------------
(* UpdateAccountInfo *)

Fail == fails < MaxFails /\ fails' = fails + 1

(* Mutant: *startTime = t. *)
ReturnAndAdvance ==
    /\ pc' = "tick" /\ query' = 1
    /\ accountMap' = Nowhere /\ Actor' = NoActors /\ todo' = {}
    /\ startTime' = TimeNow

(* The function returns: &t goes to its own copy of the pointer, so the    *)
(* caller's startTime stays.                                               *)
Return ==
    /\ pc' = "tick" /\ query' = 1
    /\ accountMap' = Nowhere /\ Actor' = NoActors /\ todo' = {}
    /\ UNCHANGED startTime

Tick ==
    /\ pc = "tick"
    /\ pc' = "query"
    /\ UNCHANGED <<TimeNow, docs, chainActor, account, startTime, query, accountMap, Actor,
                   todo, fails>>

(* GetDistinct...ByTime *)
Distinct(field) ==
    {a \in Address : \E d \in docs : /\ d.source = <<field, a>>
                                     /\ startTime <= d.gmt_create
                                     /\ d.gmt_create <= TimeNow}

(* What accountMap holds of an address after the loop over one result.     *)
RoleIn(field, a) ==
    CASE field \in {"message.From", "message.To"} -> {IF a \in Wallet THEN "wallet" ELSE "account"}
      [] field = "wallet_addr" -> {"owner"}
      [] OTHER -> {"miner"}

(* The addresses of accountlist. *)
Listed(map) == {a \in Address : map[a] # {}}

(* One query and the loop over its result; the last ends with the list of  *)
(* accounts.                                                               *)
Query ==
    /\ pc = "query"
    /\ \/ Fail /\ Return
       \/ LET field == Fields[query]
              known == Distinct(field)
          IN  /\ accountMap' = [a \in Address |->
                     IF a \in known THEN RoleIn(field, a) ELSE accountMap[a]]
              /\ IF query < Len(Fields)
                 THEN query' = query + 1 /\ UNCHANGED <<pc, todo>>
                 ELSE /\ pc' = "actor" /\ todo' = Listed(accountMap')
                      /\ query' = 1
              /\ UNCHANGED <<startTime, Actor, fails>>
    /\ UNCHANGED <<TimeNow, docs, chainActor, account>>

(* GetActorByAddress; a closed connection ends the function, any other     *)
(* error leaves the account without actor.                                 *)
FetchActor(a) ==
    /\ pc = "actor" /\ a \in todo
    /\ \/ Fail /\ Return
       \/ /\ \/ Actor' = [Actor EXCEPT ![a] = chainActor[a]] /\ UNCHANGED fails
             \/ Fail /\ UNCHANGED Actor
          /\ todo' = todo \ {a}
          /\ UNCHANGED <<startTime, pc, query, accountMap>>
    /\ UNCHANGED <<TimeNow, docs, chainActor, account>>

ActorsDone ==
    /\ pc = "actor" /\ todo = {}
    /\ pc' = "upsert" /\ todo' = Listed(accountMap)
    /\ UNCHANGED <<TimeNow, docs, chainActor, account, startTime, query, accountMap, Actor, fails>>

Fetched(a) == [role |-> CHOOSE r \in accountMap[a] : TRUE, actor |-> Actor[a]]

(* Mutant: an account whose actor could not be fetched is written as well. *)
UpsertFetched(a) == Fetched(a)

(* What UpsertAccountArr leaves in the collection for one account. *)
Upserted(a) ==
    IF account[a] # NoAccount /\ Actor[a] = 0 THEN account[a] ELSE Fetched(a)

UpsertAccount(a) ==
    /\ pc = "upsert" /\ a \in todo
    /\ \/ /\ Fail /\ Return
          /\ UNCHANGED account
       \/ /\ account' = [account EXCEPT ![a] = Upserted(a)]
          /\ todo' = todo \ {a}
          /\ UNCHANGED <<startTime, pc, query, accountMap, Actor, fails>>
    /\ UNCHANGED <<TimeNow, docs, chainActor>>

EndOfPass ==
    /\ pc = "upsert" /\ todo = {}
    /\ Return
    /\ UNCHANGED <<TimeNow, docs, chainActor, account, fails>>

UpdateAccountInfo ==
    \/ Tick \/ Query \/ ActorsDone \/ EndOfPass
    \/ \E a \in Address : FetchActor(a) \/ UpsertAccount(a)

Next ==
    \/ Second
    \/ \E s \in Source : StoreDocument(s)
    \/ \E a \in Address : ActorChanges(a)
    \/ UpdateAccountInfo

Spec == Init /\ [][Next]_vars

(* The goroutine and the clock run. *)
FairSpec == Spec /\ WF_vars(UpdateAccountInfo) /\ WF_vars(Second)

-----------------------------------------------------------------------------
(* Properties. *)

HasAccount(a) == account[a] # NoAccount

(* Every address a stored document names gets an account with an actor,    *)
(* although a document may be stored after the queries of a pass with a    *)
(* gmt_create before its end, for the window of the queries never moves    *)
(* on; and although lotus may not answer for it, so that the account is    *)
(* inserted without actor.  (UpdateAccountInfo,                            *)
(* GetDistinctFromAddressByTime, UpsertAccountArr)                         *)
AddressesGetActors ==
    \A a \in Address :
        (\E d \in docs : d.source[2] = a) ~> HasAccount(a) /\ account[a].actor # 0

(* The actor of an account is never replaced by an older one or by none,   *)
(* although actors are fetched long before they are written.               *)
(* (UpsertAccountArr)                                                      *)
ActorsDontGoBack ==
    [][ \A a \in Address : HasAccount(a) => HasAccount(a)' /\ account[a].actor <= account'[a].actor ]_vars

(* An address that was seen as a miner or an owner is not taken for a mere *)
(* sender of messages later.  (the order of the loops over the results)    *)
RolesStay ==
    [][ \A a \in Address : /\ HasAccount(a)
                           /\ account[a].role \in {"miner", "owner"}
                           => account'[a].role \in {"miner", "owner"} ]_vars
=============================================================================
