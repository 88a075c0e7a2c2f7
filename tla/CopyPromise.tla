----------------------------- MODULE CopyPromise -----------------------------
(***************************************************************************)
(* What the executor promises of the Leader's events, with no word of      *)
(* cycles, instances, halts or replies: an event is taken off the backlog  *)
(* once and never returned to it, and an entry order is signed for it at   *)
(* most once and only after it was taken (ADR-0006: "a claimed-but-unsent  *)
(* event is a missed copy; an unclaimed-but-sent event is a double copy").  *)
(***************************************************************************)
EXTENDS Naturals

CONSTANT Event

VARIABLES
  taken,     \* events claimed
  entered    \* entry orders signed for each event

vars == <<taken, entered>>

Init == taken = {} /\ entered = [e \in Event |-> 0]

Take(e) == e \notin taken /\ taken' = taken \cup {e} /\ UNCHANGED entered

Enter(e) ==
  /\ e \in taken /\ entered[e] = 0
  /\ entered' = [entered EXCEPT ![e] = 1]
  /\ UNCHANGED taken

Next == \E e \in Event : Take(e) \/ Enter(e)

Spec == Init /\ [][Next]_vars
=============================================================================
