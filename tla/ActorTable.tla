----------------------------- MODULE ActorTable -----------------------------
(***************************************************************************)
(* filscaner/force/factors/actor.go: the table of the actors of lotus and  *)
(* their methods, made once when the process starts, and its two readers:  *)
(* ParseActorMessage names the messages the syncer stores, parseMessageCall *)
(* those the block store mirrors.  An actor that is not one of the three   *)
(* with a fixed address is taken for a miner, whatever it is.              *)
(***************************************************************************)
EXTENDS Naturals, Sequences, SequencesExt

CONSTANTS
    Actors,         \* lotus: [code -> [name, methods, exports]]
    addressToCode,  \* the codes of the fixed addresses
    MinerCode,      \* actors.StorageMinerCodeCid
    Struct,         \* the struct types there are
    Msg,            \* messages, each with
    To,             \*   its addressee,
    Number,         \*   its method number, 0 for a transfer,
    ById,           \*   whether the addressee is written as an ID, and
    Decodes         \*   whether its Params are those of the method

ASSUME ActorAssumption ==
    /\ MinerCode \in DOMAIN Actors
    /\ \A a \in DOMAIN addressToCode : addressToCode[a] \in DOMAIN Actors
    /\ \A code \in DOMAIN Actors : LET methods == Actors[code].methods
                                  IN  \A i \in DOMAIN methods : methods[i].num # 0

TypeNull == "null"

(* An exported method is the sequence of its argument types, without the   *)
(* stars of the third; a number that is not exported has none.             *)
getMethodParam(exports, num) ==
    IF num \in DOMAIN exports /\ Len(exports[num]) = 3
       /\ exports[num][1] = "Actor" /\ exports[num][2] = "VMContext"
       /\ exports[num][3] \in Struct
    THEN exports[num][3] ELSE TypeNull

(* methods are the fields of lotus's struct of method numbers, in order; a *)
(* number that two fields have belongs to the later one.                   *)
parseActor(act) ==
    LET num(i) == act.methods[i].num
    IN  [name |-> act.name,
         methods |-> [i \in DOMAIN act.methods |->
            [name |-> act.methods[i].name, param |-> getMethodParam(act.exports, num(i))]],
         methodMap |-> [n \in {num(i) : i \in DOMAIN act.methods} |->
            SelectLastInSeq(act.methods, LAMBDA f : f.num = n)]]

actorInfos == [code \in DOMAIN Actors |-> parseActor(Actors[code])]

Lookup(code) == actorInfos[code]

(* The actor with the code of a fixed address *)
LookupByAddress(addr) == Lookup(addressToCode[addr])

ActorOf(addr) ==
    IF addr \in DOMAIN addressToCode THEN LookupByAddress(addr) ELSE Lookup(MinerCode)

Known(act, num) == num \in DOMAIN act.methodMap

LookupMethod(act, num) == act.methods[act.methodMap[num]]

Unnamed == [actor |-> "", method |-> ""]

ParseActorMessage(m) ==
    LET act == ActorOf(To[m])
    IN  IF Number[m] = 0 \/ ~Known(act, Number[m]) THEN Unnamed
        ELSE [actor |-> act.name, method |-> LookupMethod(act, Number[m]).name]

(* The param is the type Params have been decoded to, if they have. *)
parseMessageCall(m) ==
    LET act == ActorOf(To[m])
        of  == LookupMethod(act, Number[m])
    IN  IF ~ById[m] THEN [actor |-> "", method |-> "", param |-> TypeNull]
        ELSE IF ~Known(act, Number[m]) THEN [actor |-> act.name, method |-> "", param |-> TypeNull]
        ELSE [actor |-> act.name, method |-> of.name,
              param |-> IF Decodes[m] THEN of.param ELSE TypeNull]
=============================================================================
