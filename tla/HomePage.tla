------------------------------ MODULE HomePage ------------------------------
(***************************************************************************)
(* The five answers of the home page that controllers/define.go keeps in   *)
(* global structs: BaseInformation, BlocktimeGraphical,                    *)
(* AvgBlockheaderSizeGraphical, TotalPowerGraphical and PeerMap.  A        *)
(* request looks at the Time of its struct; if that is recent enough it    *)
(* answers with the fields, otherwise it computes them anew and writes     *)
(* them back.  Every request is a goroutine of its own, nothing is locked, *)
(* and the fields are read and written one after the other.                *)
(*                                                                         *)
(* A field's value is the moment its computation began, and for PeerPoint  *)
(* the peers as well; Time is a time.  Only one of the structs is looked   *)
(* at in a behaviour: they share nothing.  PeerMap reads the collection    *)
(* that UpdatePeers fills.                                                 *)
(***************************************************************************)
EXTENDS Peers

CONSTANTS
    Request,    \* bound: requests that may run at the same time
    CashTime,   \* lotusBaseInformationCash, peerMapCash, homeGraphicalCash
    FirstNow,   \* models.TimeNow at the start
    MaxNow,     \* bound: the last models.TimeNow
    MaxRun,     \* bound: seconds from a request to its answer
    Lag         \* bound: how long ago the window a client asks for has ended

ASSUME HomeAssumption ==
    /\ {CashTime, FirstNow, MaxNow, MaxRun} \subseteq Nat /\ Lag \subseteq Nat
    /\ CashTime < FirstNow /\ MaxRun > 0

Struct == {"lotusBaseInformation", "peerPointCash", "avgBlockTimeCash",
           "avgBlockSizeCash", "totalPowerCash"}

(* The order in which a refresh assigns the fields. *)
Writes(s) ==
    CASE s = "lotusBaseInformation" ->
            <<"TipsetHeight", "Averages", "BlockReward", "PledgeCollateral", "Time">>
      [] s = "avgBlockTimeCash" -> <<"Min", "Max", "Time", "BlockTime", "AvgBlockTime">>
      [] s = "avgBlockSizeCash" -> <<"Min", "Max", "AvgBlocksize", "Time", "BlockSize">>
      [] s = "totalPowerCash"   -> <<"Time", "StorageCapacity", "Data">>
      [] s = "peerPointCash"    -> <<"Time", "PeerPoint">>

(* The order in which an answer takes them. *)
Reads(s) ==
    CASE s = "lotusBaseInformation" ->
            <<"TipsetHeight", "BlockReward", "Averages", "PledgeCollateral">>
      [] s = "avgBlockTimeCash" -> <<"BlockTime", "AvgBlockTime", "Max", "Min">>
      [] s = "avgBlockSizeCash" -> <<"BlockSize", "AvgBlocksize", "Min", "Max">>
      [] s = "totalPowerCash"   -> <<"Data", "StorageCapacity">>
      [] s = "peerPointCash"    -> <<"PeerPoint">>

(* What a request that refreshed the struct takes from it all the same;    *)
(* the rest of its answer it has computed.                                 *)
ReadsBack(s) ==
    CASE s = "lotusBaseInformation" -> Reads(s)
      [] s = "avgBlockTimeCash"     -> <<"AvgBlockTime">>
      [] OTHER                      -> <<>>

(* AvgGasPrice, AvgMessageSize and AvgMessagesTipset keep their value when *)
(* there are no messages to average.                                       *)
Kept == "Averages"

WithoutKept(s) ==
    IF s = "lotusBaseInformation"
    THEN <<"TipsetHeight", "BlockReward", "PledgeCollateral", "Time">> ELSE Writes(s)

VARIABLES
    struct,     \* the struct looked at
    cash,       \* the values of its fields
    time,       \* its field Time
    now,        \* models.TimeNow
    pc,         \* where each request is
    asked,      \* the time each request is about: its end time, or now
    began,      \* when it came
    data,       \* the value it has computed
    left,       \* the fields it has yet to write or to read
    got,        \* the fields of its answer
    alone,      \* it has met no refresh on its way
    overlapped  \* history: two refreshes have been under way at once

pageVars == <<struct, cash, time, now, pc, asked, began, data, left, got, alone, overlapped>>
vars == <<peerVars, pageVars>>

Field == ToSet(Writes(struct)) \ {"Time"}

Empty == [at |-> 0, peers |-> {}]

(* ArgInit: Time is 0 and the fields are empty. *)
Init ==
    /\ PeersInit
    /\ struct \in Struct /\ (struct # "peerPointCash" => DOMAIN peers = {})
    /\ cash = [f \in Field |-> Empty] /\ time = 0
    /\ now = FirstNow
    /\ pc = [r \in Request |-> "idle"]
    /\ asked = [r \in Request |-> 0] /\ began = [r \in Request |-> 0]
    /\ data = [r \in Request |-> Empty]
    /\ left = [r \in Request |-> <<>>]
    /\ got = [r \in Request |-> [f \in Field |-> Empty]]
    /\ alone = [r \in Request |-> TRUE]
    /\ overlapped = FALSE

Running(r) == pc[r] \notin {"idle", "answered"}
Refreshing(r) == pc[r] \in {"compute", "write"}

(* TimenowInit; a request is answered within MaxRun *)
Tick ==
    /\ now < MaxNow
    /\ \A r \in Request : Running(r) => now < began[r] + MaxRun
    /\ now' = now + 1
    /\ UNCHANGED <<peerVars, struct, cash, time, pc, asked, began, data, left, got,
                   alone, overlapped>>

(* The time a request is about.  The charts take it from the client, who   *)
(* asks for a window that has ended; TotalPowerGraphical takes the time of *)
(* the request when the client names none.                                 *)
OfNow == struct \in {"lotusBaseInformation", "peerPointCash"}
Window == IF OfNow THEN {now} ELSE {now - l : l \in {k \in Lag : k <= now}}

(* endTime - Time <= CashTime lets a request take the fields, TimeNow -    *)
(* Time > CashTime asks for a refresh; PeerMap compares with <.            *)
Recent(end) ==
    IF struct = "peerPointCash" THEN end < time + CashTime ELSE end <= time + CashTime

(* The test, and what it leads to. *)
Call(r) ==
    /\ ~Running(r)
    /\ \E end \in Window :
        /\ asked' = [asked EXCEPT ![r] = end]
        /\ \/ /\ Recent(end)
              /\ pc' = [pc EXCEPT ![r] = "read"]
              /\ left' = [left EXCEPT ![r] = Reads(struct)]
              /\ UNCHANGED overlapped
           \/ /\ ~Recent(end)
              /\ pc' = [pc EXCEPT ![r] = "compute"]
              /\ left' = [left EXCEPT ![r] = Writes(struct)]
              /\ overlapped' = (overlapped \/ \E u \in Request : Refreshing(u))
    /\ began' = [began EXCEPT ![r] = now]
    /\ data' = [data EXCEPT ![r] = Empty]
    /\ got' = [got EXCEPT ![r] = [f \in Field |-> Empty]]
    /\ alone' = [alone EXCEPT ![r] = \A u \in Request : ~Refreshing(u)]
    /\ UNCHANGED <<peerVars, struct, cash, time, now>>

(* Mutant: a reward that cannot be read leaves the one before. *)
ComputeKeepsReward(r) ==
    /\ pc[r] = "compute"
    /\ pc' = [pc EXCEPT ![r] = "write"]
    /\ data' = [data EXCEPT ![r] = [at |-> began[r], peers |-> {}]]
    /\ left' = [left EXCEPT ![r] = SelectSeq(@, LAMBDA f : f # "BlockReward")]
    /\ UNCHANGED <<peerVars, struct, cash, time, now, asked, began, got, alone, overlapped>>

(* The queries.  Without messages the averages are left as they are.       *)
Compute(r) ==
    /\ pc[r] = "compute"
    /\ pc' = [pc EXCEPT ![r] = "write"]
    /\ data' = [data EXCEPT ![r] =
                    [at |-> began[r],
                     peers |-> IF struct = "peerPointCash" THEN GetPeerGroup(now) ELSE {}]]
    /\ left' \in {left, [left EXCEPT ![r] = WithoutKept(struct)]}
    /\ UNCHANGED <<peerVars, struct, cash, time, now, asked, began, got, alone, overlapped>>

(* What a refresh assigns to Time: the charts the end of the window.       *)
Stamp(r) == IF OfNow THEN now ELSE asked[r]

(* Mutant: Time is renewed before it is known whether the queries work. *)
FailsRenewed(r) ==
    /\ pc[r] = "compute"
    /\ pc' = [pc EXCEPT ![r] = "idle"]
    /\ time' = Stamp(r)
    /\ UNCHANGED <<peerVars, struct, cash, now, asked, began, data, left, got, alone, overlapped>>

(* A query fails, or the window is too long: an error is answered before   *)
(* anything has been written.                                              *)
Fails(r) ==
    /\ pc[r] = "compute"
    /\ pc' = [pc EXCEPT ![r] = "idle"]
    /\ left' = [left EXCEPT ![r] = <<>>]
    /\ UNCHANGED <<peerVars, struct, cash, time, now, asked, began, data, got, alone,
                   overlapped>>

(* Mutant: Time is renewed with every field. *)
WriteInTime(r) ==
    /\ pc[r] = "write" /\ left[r] # <<>>
    /\ time' = Stamp(r)
    /\ cash' = [f \in Field |-> IF f = Head(left[r]) THEN data[r] ELSE cash[f]]
    /\ left' = [left EXCEPT ![r] = Tail(@)]
    /\ alone' = [u \in Request |-> alone[u] /\ (pc[u] = "read" => u = r)]
    /\ UNCHANGED <<peerVars, struct, now, pc, asked, began, data, got, overlapped>>

Write(r) ==
    /\ pc[r] = "write" /\ left[r] # <<>>
    /\ time' = IF Head(left[r]) = "Time" THEN Stamp(r) ELSE time
    /\ cash' = [f \in Field |-> IF f = Head(left[r]) THEN data[r] ELSE cash[f]]
    /\ left' = [left EXCEPT ![r] = Tail(@)]
    /\ alone' = [u \in Request |-> alone[u] /\ (pc[u] = "read" => u = r)]
    /\ UNCHANGED <<peerVars, struct, now, pc, asked, began, data, got, overlapped>>

(* The last field is written: what has been computed goes into the answer. *)
Written(r) ==
    /\ pc[r] = "write" /\ left[r] = <<>>
    /\ pc' = [pc EXCEPT ![r] = "read"]
    /\ left' = [left EXCEPT ![r] = ReadsBack(struct)]
    /\ got' = [got EXCEPT ![r] = [f \in Field |-> data[r]]]
    /\ data' = [data EXCEPT ![r] = Empty]
    /\ UNCHANGED <<peerVars, struct, cash, time, now, asked, began, alone, overlapped>>

Read(r) ==
    /\ pc[r] = "read" /\ left[r] # <<>>
    /\ got' = [got EXCEPT ![r][Head(left[r])] = cash[Head(left[r])]]
    /\ left' = [left EXCEPT ![r] = Tail(@)]
    /\ UNCHANGED <<peerVars, struct, cash, time, now, pc, asked, began, data, alone, overlapped>>

Answer(r) ==
    /\ pc[r] = "read" /\ left[r] = <<>>
    /\ pc' = [pc EXCEPT ![r] = "answered"]
    /\ began' = [began EXCEPT ![r] = 0]
    /\ UNCHANGED <<peerVars, struct, cash, time, now, asked, data, left, got, alone,
                   overlapped>>

Handler(r) == Compute(r) \/ Fails(r) \/ Write(r) \/ Written(r) \/ Read(r) \/ Answer(r)

PeerPass == struct = "peerPointCash" /\ UpdatePeers(now) /\ UNCHANGED pageVars

Next == Tick \/ PeerPass \/ \E r \in Request : Call(r) \/ Handler(r)

Spec == Init /\ [][Next]_vars

-----------------------------------------------------------------------------
(* Properties. *)

Answered(r) == pc[r] = "answered"

Before(f, g) ==
    \E i, j \in DOMAIN Writes(struct) :
        i < j /\ Writes(struct)[i] = f /\ Writes(struct)[j] = g

FreshEnough(r, f) == asked[r] <= got[r][f].at + CashTime + 2 * MaxRun

(* A field that is assigned before Time is never older in an answer than   *)
(* CashTime and twice the time a request may take: however many requests   *)
(* refresh the struct at once, in whatever order, the Time that lets a     *)
(* request take the field is not seen before a value as new as that.       *)
(* Except the averages, which a refresh may leave alone.                   *)
(* (BaseInformation, BlocktimeGraphical, AvgBlockheaderSizeGraphical)      *)
TimeVouchesForFields ==
    \A r \in Request : Answered(r) =>
        \A f \in Field \ {Kept} : Before(f, "Time") => FreshEnough(r, f)

(* The other fields, among them every series of points, may be those of    *)
(* any earlier refresh, but only for a request that has met a refresh: the *)
(* charts and PeerMap write Time first.  (BlocktimeGraphical,              *)
(* AvgBlockheaderSizeGraphical, TotalPowerGraphical, PeerMap)              *)
OldOnlyBesideRefresh ==
    \A r \in Request : Answered(r) /\ alone[r] =>
        \A f \in Field \ {Kept} : FreshEnough(r, f)

(* Until two refreshes overlap, a request that has met none answers with   *)
(* the fields of one refresh.  (The structs of define.go)                  *)
AnswersFromOneRefresh ==
    ~overlapped => \A r \in Request : Answered(r) /\ alone[r] =>
        \A f, g \in Field \ {Kept} : got[r][f] = got[r][g]

(* PeerMap shows a peer for a day after it was first located, and as long  *)
(* again as the cache keeps the map: SavePeers never finds a peer it knows *)
(* and does not renew gmt_modified.  (GetPeerGroup, SavePeers)             *)
PeersLeaveTheMap ==
    struct = "peerPointCash" => \A r \in Request : Answered(r) /\ alone[r] =>
        \A p \in got[r]["PeerPoint"].peers :
            asked[r] < peers[p].gmt_modified + Day + CashTime + 2 * MaxRun
=============================================================================
