----------------------------- MODULE BlockStore -----------------------------
(***************************************************************************)
(* filscaner/force/fblockstore: MgoStore, the block store of a lotus       *)
(* daemon that writes every block a second time, as documents, to a mongo  *)
(* of its own.  (Nothing in this repository makes one.)  Each Put starts a *)
(* goroutine that parses its blocks and inserts the documents one by one;  *)
(* the caller has the answer of the inner store long before.  The encoder  *)
(* of documents, fblockstore/encoding, looks struct types up in a global   *)
(* map and adds those it meets for the first time, without a lock: a map   *)
(* that is used while another goroutine adds to it may end the daemon.     *)
(***************************************************************************)
EXTENDS ActorTable, FiniteSets

CONSTANTS
    Raw,            \* raw blocks; those that are messages are members of Msg
    Unmarshals,     \* [Raw -> the types their bytes can be unmarshalled to]
    Calls,          \* the sequences of blocks given to one Put or PutMany
    Fields,         \* [struct type -> sequence of [of, via, exported, tag]]
    Intos,          \* the types RegisterInto has a function for
    Deleted,        \* bound: the blocks the daemon deletes
    Slot,           \* bound: goroutines at a time
    MaxPuts,        \* bound: calls of Put
    MaxFailures,    \* bound: inserts that fail
    MaxDeaths,      \* bound: ends of the daemon
    MaxTime         \* bound: the last time.Now()

ASSUME StoreAssumption ==
    /\ Unmarshals \in [Raw -> SUBSET Struct] /\ Calls \subseteq Seq(Raw)
    /\ DOMAIN Fields \subseteq Struct
    /\ {MaxPuts, MaxFailures, MaxDeaths, MaxTime} \subseteq Nat

VARIABLES
    dsn,        \* bstore-mongo-dsn is set
    inner,      \* the inner store
    put,        \* [Slot -> what its goroutine has left]
    mirror,     \* the documents: [[collection, raw] -> [seen, call]]
    structs,    \* the types in the encoder's map
    clock,
    puts, failures, deaths,
    due,        \* history: the documents of the blocks put, with the time of the first Put
    excused     \* history: documents whose insert failed or was under way at a death

storeVars == <<dsn, inner, put, mirror, structs, clock, puts, failures, deaths, due, excused>>

-----------------------------------------------------------------------------
(* Parsing: the first type the bytes can be unmarshalled to. *)

Kinds == <<"BlockHeader", "Message", "SignedMessage", "MsgMeta">>

DocumentsOf(raw) ==
    LET first == SelectInSeq(Kinds, LAMBDA k : k \in Unmarshals[raw])
        doc(collection) == [collection |-> collection, raw |-> raw]
    IN  CASE first = 0 -> <<>>
          [] first = 1 -> <<doc("block_headers")>>
          [] first = 2 -> <<doc("messages")>>
          [] first = 3 -> <<doc("signed_messages"), doc("messages")>>
          [] first = 4 -> <<doc("msg_metas")>>

Items(raws) == FlattenSeq([i \in DOMAIN raws |-> DocumentsOf(raws[i])])

Content(collection) ==
    CASE collection = "block_headers"   -> "fBlockHeader"
      [] collection = "messages"        -> "fMessage"
      [] collection = "signed_messages" -> "fSignedMessage"
      [] collection = "msg_metas"       -> "fMsgMeta"

Call(item) == IF item.collection = "messages" THEN parseMessageCall(item.raw)
              ELSE [actor |-> "", method |-> "", param |-> TypeNull]

-----------------------------------------------------------------------------
(* The encoder, as far as types go *)

Encoded(type) == {f \in ToSet(Fields[type]) : f.exported /\ f.tag # "-"}

(* RegisterStruct: the type and, through fields that are structs or        *)
(* pointers, those below it; neither through slices nor through interfaces. *)
Registers[type \in DOMAIN Fields] ==
    {type} \cup UNION {Registers[f.of] : f \in {g \in Encoded(type) :
                            g.via \in {"struct", "pointer"} /\ g.of \in DOMAIN Fields}}

(* The types valueInto looks up: all below a value but what is converted   *)
(* by a registered function.                                               *)
Looked[type \in DOMAIN Fields] ==
    IF type \in Intos THEN {}
    ELSE {type} \cup UNION {Looked[f.of] : f \in {g \in Encoded(type) : g.of \in DOMAIN Fields}}

Needed(item) ==
    Looked[Content(item.collection)]
        \cup (IF Call(item).param = TypeNull THEN {} ELSE Looked[Call(item).param])

(* init of types.go registers what lotus stores. *)
chainTypes == {"BlockHeader", "Message", "SignedMessage", "MsgMeta"}

InitStructs == UNION {Registers[t] : t \in chainTypes}

-----------------------------------------------------------------------------
NoPut == [pc |-> "none"]

StoreInit ==
    /\ dsn \in BOOLEAN
    /\ inner = {} /\ put = [g \in Slot |-> NoPut]
    /\ mirror = [d \in {} |-> 0] /\ structs = InitStructs
    /\ clock = 0 /\ puts = 0 /\ failures = 0 /\ deaths = 0
    /\ due = [d \in {} |-> 0] /\ excused = {}

Clock ==
    /\ clock < MaxTime /\ clock' = clock + 1
    /\ UNCHANGED <<dsn, inner, put, mirror, structs, puts, failures, deaths, due, excused>>

(* Put, PutMany: the goroutine is started whether or not the inner store   *)
(* has taken the blocks.  NewMgoStore without a dsn gives the inner store  *)
(* itself.                                                                 *)
Put(g, raws) ==
    /\ put[g] = NoPut /\ puts < MaxPuts /\ puts' = puts + 1
    /\ \/ inner' = inner \cup ToSet(raws)
       \/ UNCHANGED inner
    /\ IF dsn THEN /\ put' = [put EXCEPT ![g] = [pc |-> "parse", raws |-> raws]]
                   /\ due' = [d \in DOMAIN due \cup ToSet(Items(raws)) |->
                                IF d \in DOMAIN due THEN due[d] ELSE clock]
              ELSE UNCHANGED <<put, due>>
    /\ UNCHANGED <<dsn, mirror, structs, clock, failures, deaths, excused>>

(* Has, Get, GetSize and AllKeysChan ask the inner store alone, and only   *)
(* it forgets a block.                                                     *)
DeleteBlock(raw) ==
    /\ raw \in inner /\ inner' = inner \ {raw}
    /\ UNCHANGED <<dsn, put, mirror, structs, clock, puts, failures, deaths, due, excused>>

Encoding(items, seen) ==
    IF items = <<>> THEN NoPut ELSE [pc |-> "encode", items |-> items, seen |-> seen]

Parse(g) ==
    /\ put[g].pc = "parse"
    /\ put' = [put EXCEPT ![g] = Encoding(Items(put[g].raws), clock)]
    /\ UNCHANGED <<dsn, inner, mirror, structs, clock, puts, failures, deaths, due, excused>>

Missing(g) == Needed(put[g].items[1]) \ structs

(* MarshalWrap: the types the document needs are looked up; a missing one  *)
(* is registered.                                                          *)
Encode(g) ==
    /\ put[g].pc = "encode"
    /\ \/ Missing(g) = {} /\ put' = [put EXCEPT ![g].pc = "insert"]
       \/ \E type \in Missing(g) :
            put' = [put EXCEPT ![g] = [pc |-> "register", type |-> type,
                                       items |-> put[g].items, seen |-> put[g].seen]]
    /\ UNCHANGED <<dsn, inner, mirror, structs, clock, puts, failures, deaths, due, excused>>

Register(g) ==
    /\ put[g].pc = "register"
    /\ structs' = structs \cup Registers[put[g].type]
    /\ put' = [put EXCEPT ![g] = Encoding(put[g].items, put[g].seen)]
    /\ UNCHANGED <<dsn, inner, mirror, clock, puts, failures, deaths, due, excused>>

Rest(g) == Encoding(Tail(put[g].items), put[g].seen)

(* Mutant: a document that is there already ends the loop. *)
InsertEnds(g) ==
    /\ put[g].pc = "insert"
    /\ LET item == put[g].items[1]
       IN  IF item \in DOMAIN mirror
           THEN put' = [put EXCEPT ![g] = NoPut] /\ UNCHANGED mirror
           ELSE /\ put' = [put EXCEPT ![g] = Rest(g)]
                /\ mirror' = [d \in DOMAIN mirror \cup {item} |->
                      IF d = item THEN [seen |-> put[g].seen, call |-> Call(item)] ELSE mirror[d]]
    /\ UNCHANGED <<dsn, inner, structs, clock, puts, failures, deaths, due, excused>>

(* Insert; a document that is there already stays as it is. *)
Insert(g) ==
    /\ put[g].pc = "insert"
    /\ LET item == put[g].items[1]
       IN  mirror' = [d \in DOMAIN mirror \cup {item} |->
              IF d \in DOMAIN mirror THEN mirror[d]
              ELSE [seen |-> put[g].seen, call |-> Call(item)]]
    /\ put' = [put EXCEPT ![g] = Rest(g)]
    /\ UNCHANGED <<dsn, inner, structs, clock, puts, failures, deaths, due, excused>>

(* Any other error is logged, and the loop goes on. *)
InsertFails(g) ==
    /\ put[g].pc = "insert" /\ failures < MaxFailures /\ failures' = failures + 1
    /\ excused' = excused \cup {put[g].items[1]}
    /\ put' = [put EXCEPT ![g] = Rest(g)]
    /\ UNCHANGED <<dsn, inner, mirror, structs, clock, puts, deaths, due>>

Left(g) ==
    CASE put[g].pc = "none"  -> {}
      [] put[g].pc = "parse" -> ToSet(Items(put[g].raws))
      [] OTHER               -> ToSet(put[g].items)

(* The daemon ends and is started again: every goroutine is lost and the   *)
(* encoder's map is as init leaves it.                                     *)
Death ==
    /\ deaths < MaxDeaths /\ deaths' = deaths + 1
    /\ excused' = excused \cup UNION {Left(g) : g \in Slot}
    /\ put' = [g \in Slot |-> NoPut]
    /\ structs' = InitStructs
    /\ UNCHANGED <<dsn, inner, mirror, clock, puts, failures, due>>

(* A look at the encoder's map while another goroutine adds to it: "fatal  *)
(* error: concurrent map read and map write", or nothing.                  *)
MapRace == (\E g, h \in Slot : g # h /\ put[g].pc = "register"
                                     /\ put[h].pc \in {"encode", "register"}) /\ Death

StoreNext ==
    \/ Clock \/ MapRace \/ Death
    \/ \E g \in Slot :
        \/ \E raws \in Calls : Put(g, raws)
        \/ Parse(g) \/ Encode(g) \/ Register(g) \/ Insert(g) \/ InsertFails(g)
    \/ \E raw \in Deleted : DeleteBlock(raw)
=============================================================================
