--------------------------- MODULE MCPositionLanes ---------------------------
(* PositionLanes on small instances. *)
EXTENDS PositionLanes

\* Growing by a quarter is an event, shrinking by a fifth is not.
Sizes == {-4, 0, 4, 5}
LongOnly == {0, 4, 5}
==============================================================================
