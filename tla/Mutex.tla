------------------------------- MODULE Mutex -------------------------------
(***************************************************************************)
(* What a sync.Locker promises: at most one thread is between Lock and     *)
(* Unlock.  The abstract specification that HappiLock is compared with.    *)
(***************************************************************************)
CONSTANTS Thread, NoThread

VARIABLE holder     \* the thread between Lock and Unlock, or NoThread

Init == holder = NoThread

Acquire(t) == holder = NoThread /\ holder' = t
Release(t) == holder = t /\ holder' = NoThread

Next == \E t \in Thread : Acquire(t) \/ Release(t)

Spec == Init /\ [][Next]_holder
=============================================================================
