----------------------------- MODULE HappiLock -----------------------------
(***************************************************************************)
(* utils/happi_lock.go: Sexylock, a lock that remembers the goroutine that *)
(* holds it, so that the holder may call Lock again.  controllers/         *)
(* tipset_queue.go guards its queue with one, and its methods call each    *)
(* other while they hold it.                                               *)
(*                                                                         *)
(* Lock reads owner under inermutx, releases inermutx, takes mu and then   *)
(* writes owner with no lock at all; Unlock works under inermutx           *)
(* throughout.  The unprotected write is a data race on one word: a reader *)
(* sees the value before it or after it.                                   *)
(***************************************************************************)
EXTENDS Naturals

CONSTANTS
    Thread,     \* goroutine ids
    NoThread,   \* owner = 0
    MaxDepth    \* bound: Lock calls a goroutine makes before it calls Unlock

ASSUME LockAssumption ==
    /\ NoThread \notin Thread
    /\ MaxDepth \in Nat \ {0}

VARIABLES
    locked,     \* rl.mu is locked
    owner,      \* rl.owner
    pc,         \* where each goroutine is in Lock
    depth,      \* Lock calls that returned, less Unlock calls made
    nested      \* history: a goroutine has called Lock between Lock and Unlock

vars == <<locked, owner, pc, depth, nested>>

TypeOK ==
    /\ locked \in BOOLEAN
    /\ owner \in Thread \cup {NoThread}
    /\ pc \in [Thread -> {"out", "wait", "own"}]
    /\ depth \in [Thread -> 0..MaxDepth]
    /\ nested \in BOOLEAN

Init ==
    /\ locked = FALSE
    /\ owner = NoThread
    /\ pc = [t \in Thread |-> "out"]
    /\ depth = [t \in Thread |-> 0]
    /\ nested = FALSE

Holds(t) == depth[t] > 0

(* Lock, up to the release of inermutx: the owner is let through.          *)
LockCall(t) ==
    /\ pc[t] = "out" /\ depth[t] < MaxDepth
    /\ \/ /\ owner = t
          /\ depth' = [depth EXCEPT ![t] = @ + 1]
          /\ UNCHANGED pc
       \/ /\ owner # t
          /\ pc' = [pc EXCEPT ![t] = "wait"]
          /\ UNCHANGED depth
    /\ nested' = (nested \/ Holds(t))
    /\ UNCHANGED <<locked, owner>>

(* rl.mu.Lock() returns *)
Acquire(t) ==
    /\ pc[t] = "wait" /\ ~locked
    /\ locked' = TRUE
    /\ pc' = [pc EXCEPT ![t] = "own"]
    /\ UNCHANGED <<owner, depth, nested>>

(* rl.owner = me *)
SetOwner(t) ==
    /\ pc[t] = "own"
    /\ owner' = t
    /\ pc' = [pc EXCEPT ![t] = "out"]
    /\ depth' = [depth EXCEPT ![t] = @ + 1]
    /\ UNCHANGED <<locked, nested>>

(* Mutant: the owner is not reset. *)
UnlockKeepsOwner(t) ==
    /\ pc[t] = "out" /\ depth[t] > 0
    /\ depth' = [depth EXCEPT ![t] = @ - 1]
    /\ locked' = FALSE
    /\ UNCHANGED <<owner, pc, nested>>

(* Mutant: the mutex is not released. *)
UnlockKeepsMutex(t) ==
    /\ pc[t] = "out" /\ depth[t] > 0
    /\ depth' = [depth EXCEPT ![t] = @ - 1]
    /\ owner' = NoThread
    /\ UNCHANGED <<locked, pc, nested>>

(* Unlock: whoever calls it, a lock with an owner is released.             *)
Unlock(t) ==
    /\ pc[t] = "out" /\ depth[t] > 0
    /\ depth' = [depth EXCEPT ![t] = @ - 1]
    /\ IF owner # NoThread
       THEN owner' = NoThread /\ locked' = FALSE
       ELSE UNCHANGED <<owner, locked>>
    /\ UNCHANGED <<pc, nested>>

Next == \E t \in Thread : LockCall(t) \/ Acquire(t) \/ SetOwner(t) \/ Unlock(t)

Spec == Init /\ [][Next]_vars

(* A holder returns to Unlock, and sync.Mutex hands itself to a waiter     *)
(* that has waited long enough (its starvation mode).                      *)
FairSpec ==
    /\ Spec
    /\ \A t \in Thread : WF_vars(SetOwner(t)) /\ WF_vars(Unlock(t)) /\ SF_vars(Acquire(t))

-----------------------------------------------------------------------------
(* Properties. *)

(* Until a goroutine nests its calls, two are never both between a Lock    *)
(* and the Unlock that goes with it; the Unlock that ends an inner call    *)
(* releases the lock.  (Sexylock as the sync.Locker NewHappiLock returns; "YES!!!! I *)
(* (%d) have locked resource, just return!")                               *)
MutualExclusion == ~nested => \A t, u \in Thread : Holds(t) /\ Holds(u) => t = u

(* Unlock calls rl.mu.Unlock() only when mu is locked: it would be a fatal *)
(* error otherwise.  It tests owner, not mu, and owner is written outside  *)
(* inermutx.                                                               *)
NeverUnlocksUnlocked == owner # NoThread => locked

(* Every Lock call returns, nested or not: no Unlock leaves mu locked      *)
(* with nobody to unlock it.  (Lock, Unlock)                               *)
LockReturns == \A t \in Thread : pc[t] = "wait" ~> pc[t] = "out"

(* Sexylock is a mutex up to the first nested call, which the mapping      *)
(* takes for the end of its use.  (Lock, Unlock)                           *)
lockHolder == IF ~nested /\ (\E t \in Thread : Holds(t))
              THEN CHOOSE t \in Thread : Holds(t) ELSE NoThread

Abstract == INSTANCE Mutex WITH holder <- lockHolder

ImplementsMutex == Abstract!Spec
=============================================================================
