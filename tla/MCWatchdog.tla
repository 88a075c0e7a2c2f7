----------------------------- MODULE MCWatchdog -----------------------------
(* Watchdog on small instances. *)
EXTENDS Watchdog, TLC

CONSTANTS s1, s2

OneSub == {s1}
TwoSubs == {s1, s2}
Symmetry == Permutations(Sub)
=============================================================================
