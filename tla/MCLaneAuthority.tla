--------------------------- MODULE MCLaneAuthority ---------------------------
(* LaneAuthority on small instances. *)
EXTENDS LaneAuthority, TLC

CONSTANTS w1, w2

TwoWallets == {w1, w2}
==============================================================================
