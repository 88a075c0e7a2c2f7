------------------------------ MODULE OrderLane ------------------------------
(***************************************************************************)
(* The websocket order lane of one Trader: a connection resyncs from a     *)
(* point-in-time read of the resting book, then subscribes to a feed that  *)
(* reports transitions alone.  What falls between the read and the         *)
(* subscription is in neither, so no connection lives longer than its      *)
(* bound.  The supervisor forgets and stops a Trader nobody follows.       *)
(***************************************************************************)
EXTENDS Integers, Sequences, FiniteSets, Functions

CONSTANTS
  Orders,     \* the exchange's order ids
  Sizes,      \* what an order may have left to fill
  MaxFollows, \* bound: times the Trader is followed or unfollowed
  MaxFaults   \* bound: dropped connections, refusals, failed reads

OrderAssumption == Sizes \subseteq Nat \ {0}

VARIABLES
  book,      \* resting orders and what each has left
  used,      \* order ids ever placed: a modify mints a new one
  memory, baselined, \* ws_order_state and ws_order_lane_state
  placed, ended, \* order_events: how often each order was told placed, told ended
  conn,      \* the lane: stopped, down, open, read, anchored, live
  view,      \* the book the resync read, until it is applied
  wire,      \* frames of the subscribed feed, not yet received
  old,       \* the connection has reached ORDER_CONNECTION_MAX_SECONDS
  followed, refresh, \* the poll set, and the supervisor's place
  follows, faults

exchange == <<book, used>>
tables == <<memory, baselined, placed, ended>>
lane == <<conn, view, wire, old>>
vars == <<exchange, tables, lane, followed, refresh, follows, faults>>

Empty == [o \in {} |-> 0]
Resting == DOMAIN book
Remembered == DOMAIN memory
With(f, o, size) == [x \in DOMAIN f \cup {o} |-> IF x = o THEN size ELSE f[x]]
Without(f, o) == Restrict(f, DOMAIN f \ {o})
Count(told, S) == [o \in Orders |-> told[o] + (IF o \in S THEN 1 ELSE 0)]

Init ==
  /\ book = Empty /\ used = {} /\ memory = Empty /\ baselined = FALSE
  /\ placed = [o \in Orders |-> 0] /\ ended = [o \in Orders |-> 0]
  /\ conn = "stopped" /\ view = Empty /\ wire = <<>> /\ old = FALSE
  /\ followed = TRUE /\ refresh = "forget" /\ follows = 0 /\ faults = 0
-----------------------------------------------------------------------------
\* The Trader.  A transition is pushed to a live subscription and to nothing
\* else.  Some endings carry a status nobody has seen yet.
Pushes(o, kind, size) ==
  wire' = IF conn = "live" THEN Append(wire, [order |-> o, kind |-> kind, size |-> size]) ELSE wire

Places ==
  \E o \in Orders \ used, s \in Sizes :
    /\ used' = used \cup {o} /\ book' = With(book, o, s) /\ Pushes(o, "placed", s)

FillsPartly ==
  \E o \in Resting, s \in Sizes :
    /\ s < book[o] /\ book' = With(book, o, s) /\ UNCHANGED used /\ Pushes(o, "filled", s)

Leaves ==
  \E o \in Resting :
    /\ book' = Without(book, o) /\ UNCHANGED used
    /\ \/ Pushes(o, "filled", 0) \/ Pushes(o, "canceled", book[o]) \/ Pushes(o, "other", book[o])

TraderMoves ==
  /\ Places \/ FillsPartly \/ Leaves
  /\ UNCHANGED <<tables, conn, view, old, followed, refresh, follows, faults>>

FollowOrUnfollow ==
  /\ follows < MaxFollows /\ follows' = follows + 1 /\ followed' = ~followed
  /\ UNCHANGED <<exchange, tables, lane, refresh, faults>>
-----------------------------------------------------------------------------
\* A connection ends: what it had not received goes with it.
Closes(next) == conn' = next /\ view' = Empty /\ wire' = <<>> /\ old' = FALSE

\* `reconcile_order_lanes`, in its two reads of the poll set.
ForgetUnwatched ==
  /\ refresh = "forget" /\ refresh' = "lanes"
  /\ IF followed THEN UNCHANGED tables
                 ELSE memory' = Empty /\ baselined' = FALSE /\ UNCHANGED <<placed, ended>>
  /\ UNCHANGED <<exchange, lane, followed, follows, faults>>

ReconcileOrderLanes ==
  /\ refresh = "lanes" /\ refresh' = "forget"
  /\ CASE followed /\ conn = "stopped" -> Closes("down")
       [] ~followed /\ conn # "stopped" -> Closes("stopped")
       [] OTHER -> UNCHANGED lane
  /\ UNCHANGED <<exchange, tables, followed, follows, faults>>
-----------------------------------------------------------------------------
Connect ==
  /\ conn = "down" /\ conn' = "open" /\ UNCHANGED <<view, wire, old>>
  /\ UNCHANGED <<exchange, tables, followed, refresh, follows, faults>>

FetchOrders ==
  /\ conn = "open" /\ conn' = "read" /\ view' = book /\ UNCHANGED <<wire, old>>
  /\ UNCHANGED <<exchange, tables, followed, refresh, follows, faults>>

\* `diff_open_orders` and the memory it leaves, in one transaction: what
\* appeared is placed, what left is gone, and nobody can say how.
ApplyOrders ==
  /\ conn = "read" /\ conn' = "anchored" /\ view' = Empty /\ UNCHANGED <<wire, old>>
  /\ memory' = view /\ baselined' = TRUE
  /\ IF baselined
       THEN /\ placed' = Count(placed, DOMAIN view \ Remembered)
            /\ ended' = Count(ended, Remembered \ DOMAIN view)
       ELSE UNCHANGED <<placed, ended>>
  /\ UNCHANGED <<exchange, followed, refresh, follows, faults>>

Subscribe ==
  /\ conn = "anchored" /\ conn' = "live" /\ UNCHANGED <<view, wire, old>>
  /\ UNCHANGED <<exchange, tables, followed, refresh, follows, faults>>

\* Mutant: an order that filled to nothing is kept.
KeepsFilled(u) ==
  u.kind \in {"placed", "filled"} \/ (u.kind = "other" /\ u.order \in Remembered)

\* `stream_change`: a fill that leaves something keeps the order; an unknown
\* status leaves what the lane believed when the frame came.
Keeps(u) ==
  \/ u.kind = "placed" \/ (u.kind = "filled" /\ u.size > 0)
  \/ u.kind = "other" /\ u.order \in Remembered
Believed(u) == IF u.kind = "other" THEN memory[u.order] ELSE u.size

Ends(u) == u.kind = "canceled" \/ (u.kind = "filled" /\ u.size = 0)

\* A frame is a list of updates, each weighed against the memory as it was before
\* the frame; the last word on an order is the one that stays.
Of(n, o) == {i \in 1 .. n : wire[i].order = o}
LastWord(n, o) == CHOOSE i \in Of(n, o) : \A j \in Of(n, o) : j <= i
Remembers(n) ==
  [o \in {o \in Orders : IF Of(n, o) = {} THEN o \in Remembered ELSE Keeps(wire[LastWord(n, o)])} |->
     IF Of(n, o) = {} THEN memory[o] ELSE Believed(wire[LastWord(n, o)])]
PlacedBy(n, o) == {i \in Of(n, o) : wire[i].kind = "placed"}
EndedBy(n, o) == {i \in Of(n, o) : Ends(wire[i])}

\* A frame that finds no baseline is dropped.
Receive ==
  /\ conn = "live"
  /\ \E n \in 1 .. Len(wire) :
       /\ wire' = SubSeq(wire, n + 1, Len(wire))
       /\ IF baselined
            THEN /\ memory' = Remembers(n)
                 /\ placed' = [o \in Orders |-> placed[o] + Cardinality(PlacedBy(n, o))]
                 /\ ended' = [o \in Orders |-> ended[o] + Cardinality(EndedBy(n, o))]
            ELSE UNCHANGED <<memory, placed, ended>>
  /\ UNCHANGED <<exchange, baselined, conn, view, old, followed, refresh, follows, faults>>

\* The bound on a connection's life, measured from before its read.
Age ==
  /\ conn \in {"read", "anchored", "live"} /\ ~old /\ old' = TRUE
  /\ UNCHANGED <<exchange, tables, conn, view, wire, followed, refresh, follows, faults>>

\* Mutant: a connection that delivers is kept.
Kept == FALSE

Expired == conn = "live" /\ old

Recycle ==
  /\ Expired /\ Closes("down")
  /\ UNCHANGED <<exchange, tables, followed, refresh, follows, faults>>

\* A silent or broken socket, a failed read, a refused subscription, a rate
\* above the ceiling: the connection ends before the frame is applied.
Drop ==
  /\ conn \notin {"stopped", "down"} /\ faults < MaxFaults /\ faults' = faults + 1
  /\ Closes("down")
  /\ UNCHANGED <<exchange, tables, followed, refresh, follows>>

Supervise == ForgetUnwatched \/ ReconcileOrderLanes
Lane == Connect \/ FetchOrders \/ ApplyOrders \/ Subscribe \/ Receive \/ Recycle
Next == TraderMoves \/ FollowOrUnfollow \/ Supervise \/ Lane \/ Age \/ Drop

\* Both loops keep running and a connection grows old; the Trader and the
\* followers promise nothing.
Fairness == WF_vars(Supervise) /\ WF_vars(Lane) /\ WF_vars(Age)
Spec == Init /\ [][Next]_vars
FairSpec == Spec /\ Fairness
-----------------------------------------------------------------------------
Ladder(f) == DOMAIN f \subseteq Orders /\ \A o \in DOMAIN f : f[o] \in Sizes

TypeOK ==
  /\ Ladder(book) /\ Ladder(memory) /\ Ladder(view) /\ Resting \subseteq used
  /\ {baselined, old, followed} \subseteq BOOLEAN
  /\ conn \in {"stopped", "down", "open", "read", "anchored", "live"}
  /\ refresh \in {"forget", "lanes"}
  /\ \A i \in DOMAIN wire : wire[i].order \in used

\* An order is placed once and ends once in the log, whatever mixture of
\* pushes, resyncs, partial fills, drops and forgetting told of it.
OrderToldOnce == \A o \in Orders : placed[o] <= 1 /\ ended[o] <= 1

\* Whatever the feed lost, the lane of a followed Trader comes to believe the
\* book as it is.
Believes == followed => memory = book
MemoryConverges == <>[]Believes
=============================================================================
