---------------------------- MODULE StoredBlocks ----------------------------
(***************************************************************************)
(* The collection "block" as the two syncing goroutines fill it: upwards   *)
(* and downwards from the first safe tipset, the blocks of a tipset one    *)
(* after the other.  ChainSync says when; here it is taken for granted.    *)
(* A block is its height and its miner, who mines one block of a tipset;   *)
(* its timestamp is its height, a round being the unit of time.            *)
(***************************************************************************)
EXTENDS Naturals, FiniteSets, FiniteSetsExt

CONSTANT Mined      \* the blocks of the chain

ASSUME MinedAssumption == IsFiniteSet(Mined) /\ \A b \in Mined : b.height \in Nat

VARIABLES
    blocks,     \* the documents of the collection
    first       \* the height of the first safe tipset

blockVars == <<blocks, first>>

HeightsOf(bs) == {b.height : b \in bs}
MinersAt(bs, height) == {b.miner : b \in {c \in bs : c.height = height}}

BlocksInit == blocks = {} /\ first \in HeightsOf(Mined)

(* Every tipset between the first one and height is stored. *)
Reached(height) ==
    \A b \in Mined : \/ first <= b.height /\ b.height < height
                     \/ height < b.height /\ b.height <= first
                     => b \in blocks

StoreBlock ==
    /\ \E b \in Mined \ blocks : Reached(b.height) /\ blocks' = blocks \cup {b}
    /\ UNCHANGED first

(* The documents of the collection "tipset", each written after its blocks. *)
Tipsets == {h \in HeightsOf(blocks) : \A b \in Mined : b.height = h => b \in blocks}
=============================================================================
