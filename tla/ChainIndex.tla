----------------------------- MODULE ChainIndex -----------------------------
(***************************************************************************)
(* What following the chain promises while no call fails: one range of one *)
(* branch, which grows by one tipset at a time at either end, is stored    *)
(* with nothing but its newest tipset outstanding at the end, and reaches  *)
(* down to genesis before it counts as complete.  ChainSync is compared    *)
(* with it.                                                                *)
(***************************************************************************)
EXTENDS Chain

VARIABLES
    range,      \* the tipsets the explorer is responsible for
    stored,     \* the tipsets in the collections
    complete    \* nothing below the newest tipset is missing

vars == <<range, stored, complete>>

IsNewest(t) == t \in range /\ \A u \in range : Height[u] <= Height[t]
IsOldest(t) == t \in range /\ \A u \in range : Height[u] >= Height[t]

Init == range = {} /\ stored = {} /\ complete = FALSE

Begin(t) ==
    /\ range = {}
    /\ range' = {t} /\ stored' = {t}
    /\ UNCHANGED complete

(* Onto the newest tipset, once that is stored: nothing is claimed over a  *)
(* hole at the top.                                                        *)
GrowUp(t) ==
    /\ IsNewest(Parent[t]) /\ Parent[t] \in stored
    /\ range' = range \cup {t}
    /\ UNCHANGED <<stored, complete>>

GrowDown(t) ==
    /\ IsOldest(t) /\ t # Genesis
    /\ range' = range \cup {Parent[t]}
    /\ UNCHANGED <<stored, complete>>

Store(S) ==
    /\ stored' = stored \cup S
    /\ UNCHANGED <<range, complete>>

Finish ==
    /\ Genesis \in range
    /\ \A t \in range \ stored : IsNewest(t)
    /\ complete' = TRUE
    /\ UNCHANGED <<range, stored>>

Next ==
    \/ \E t \in Tipset : Begin(t) \/ GrowUp(t) \/ GrowDown(t)
    \/ \E S \in SUBSET range : Store(S)
    \/ Finish

Spec == Init /\ [][Next]_vars
=============================================================================
