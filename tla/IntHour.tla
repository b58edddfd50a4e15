------------------------------- MODULE IntHour -------------------------------
(***************************************************************************)
(* The full hours the charts of the home page have a point for             *)
(* (GetIntHour of controllers/filscan_controller.go).                      *)
(***************************************************************************)
EXTENDS Integers, Sequences, FiniteSetsExt

CONSTANTS
    Hour,       \* 3600
    MaxPoints   \* 25

ASSUME HourAssumption == Hour \in Nat \ {0} /\ MaxPoints \in Nat

(* From the first full hour on, one for each hour that begins at start and *)
(* ends before end: when start is no full hour the last one may lie at end *)
(* or behind it.  Without a full hour it is an error, <<>> here.           *)
GetIntHour(start, end) ==
    LET full == {t \in start..(end - 1) : t % Hour = 0}
    IN  IF full = {} THEN <<>>
        ELSE [k \in 1..(1 + (end - start - 1) \div Hour) |-> Min(full) + Hour * (k - 1)]

(* The tests of the handlers. *)
Drawable(hours) == hours # <<>> /\ Len(hours) <= MaxPoints
=============================================================================
