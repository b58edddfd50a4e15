----------------------------- MODULE MCHomePage -----------------------------
(***************************************************************************)
(* Two requests at a time, of windows that have ended up to two seconds    *)
(* ago.                                                                    *)
(***************************************************************************)
EXTENDS HomePage, TLC

Alike == Permutations(Request) \cup Permutations(Peer)
=============================================================================
