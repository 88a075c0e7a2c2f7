------------------------------- MODULE MCNews -------------------------------
(***************************************************************************)
(* What a follower is told, on small instances: the order lane that makes  *)
(* events of a Trader's resting orders (OrderLane) and the queue that      *)
(* brings alerts to the chat (Alerts).  One part runs, the other stands at *)
(* rest.                                                                   *)
(***************************************************************************)
EXTENDS Integers

CONSTANTS
  Orders, Sizes, MaxFollows, MaxDrops,       \* OrderLane
  MaxRows, MaxAttempts, MaxFaults, MaxCrashes \* Alerts

VARIABLES
  part, faults,
  book, used, memory, baselined, placed, ended, conn, view, wire, old, followed, refresh,
  follows,
  rows, holding, chat, deleted, sends, pc, batch, cur, unheard, crashes

ofOrders ==
  <<book, used, memory, baselined, placed, ended, conn, view, wire, old, followed, refresh,
    follows>>
ofAlerts == <<rows, holding, chat, deleted, sends, pc, batch, cur, unheard, crashes>>
vars == <<part, faults, ofOrders, ofAlerts>>

O == INSTANCE OrderLane WITH MaxFaults <- MaxDrops
A == INSTANCE Alerts

ASSUME NewsAssumption == O!OrderAssumption /\ A!AlertAssumption

Init ==
  /\ O!Init /\ A!Init
  /\ part \in {"orders", "alerts"}

InOrders == part = "orders" /\ UNCHANGED <<part, ofAlerts>>
InAlerts == part = "alerts" /\ UNCHANGED <<part, ofOrders>>

Next ==
  \/ InOrders /\ O!Next
  \/ InAlerts /\ A!Next

\* The fairness of each part, as its module states it.
Spec ==
  /\ Init /\ [][Next]_vars
  /\ WF_vars(InOrders /\ O!Supervise) /\ WF_vars(InOrders /\ O!Lane) /\ WF_vars(InOrders /\ O!Age)
  /\ WF_vars(InAlerts /\ A!Drain)

\* The type invariants of the two modules.
TypesOK == O!TypeOK /\ A!TypeOK

\* Once, and in its place (ws/order_lane.py, bot/alerts.py): an order is placed
\* once and ends once in the log; a trail is the life of its own position, and
\* a message goes out twice only for a restart or an answer that was lost, or, if
\* it is a scale's own, for a failure after it.
NewsIsToldOnce == O!OrderToldOnce /\ A!TrailIsItsOwn /\ A!SentOnce

\* In the end (ws/order_lane.py run, bot/alerts.py deliver_once): the lane of a
\* followed Trader believes the book as it is, and no alert is left waiting.
NewsSettles ==
  <>[](IF part = "orders" THEN O!Believes ELSE A!Drained)
=============================================================================
