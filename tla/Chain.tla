------------------------------- MODULE Chain -------------------------------
(***************************************************************************)
(* The Filecoin chain as the lotus node shows it to the explorer: a tree   *)
(* of tipsets with one parent each.  Nothing here is code of the           *)
(* repository; it is what the calls ChainGetTipSet, TipSet.Parents and     *)
(* TipSet.Height of filscaner/ return.                                     *)
(*                                                                         *)
(* A tipset stands for its key: two tipsets are equal iff the strings of   *)
(* their keys are, which is how the code compares them everywhere.         *)
(***************************************************************************)
EXTENDS Integers

CONSTANTS
    Tipset,     \* every tipset of the chain and of its forks
    Genesis,    \* the one tipset without parents
    NoTipset,   \* Go's nil *types.TipSet; also the empty key of Genesis.Parents()
    Parent,     \* Parent[t]: the tipset whose key is t.Parents()
    Height      \* Height[t]: t.Height(); null rounds make it skip numbers

ASSUME ChainAssumption ==
    /\ Genesis \in Tipset
    /\ NoTipset \notin Tipset
    /\ Parent \in [Tipset -> Tipset \cup {NoTipset}]
    /\ Parent[Genesis] = NoTipset
    /\ \A t \in Tipset \ {Genesis} : Parent[t] \in Tipset
    /\ Height \in [Tipset -> Nat]
    /\ \A t \in Tipset \ {Genesis} : Height[Parent[t]] < Height[t]

(* t and everything below it, down to Genesis. *)
Ancestry[t \in Tipset] ==
    IF t = Genesis THEN {t} ELSE {t} \cup Ancestry[Parent[t]]
=============================================================================
