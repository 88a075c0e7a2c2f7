------------------------------ MODULE Brackets ------------------------------
(***************************************************************************)
(* The take-profit and stop-loss of one copy episode in a bracket-mode     *)
(* sub-account: placed at the fill, verified on a slow cadence, and read   *)
(* back when the position has vanished to say why it did.  The book and    *)
(* the position are the exchange's; they move between any two awaits.      *)
(***************************************************************************)
EXTENDS Integers, FiniteSets

CONSTANTS
  MaxPlaced,  \* bound: times a bracket is sent
  MaxFaults   \* bound: crashes, failed reads, lost answers, refused legs, cancels by hand

BracketAssumption == MaxPlaced \in Nat \ {0} /\ MaxFaults \in Nat

Legs == {"tp", "sl"}
Order == (1 .. MaxPlaced) \X Legs
Pair(n) == {n} \X Legs

VARIABLES
  held,     \* the exchange holds the position
  why,      \* what took it: nothing yet, bracket, liquidated, hand, leader
  book,     \* trigger orders resting
  mine,     \* copy_bracket_orders of the episode
  reason,   \* copy_episodes.ended_reason, "live" while it runs
  paged,    \* the operator was paged about a liquidation
  halted,
  due,      \* BRACKET_VERIFY_INTERVAL has passed since the last look
  pc, seen, \* the cycle: its place, and the position it read
  sent, got, \* placements so far, and what the exchange answered as resting
  faults

exchange == <<held, why, book>>
books == <<mine, reason, paged>>
vars == <<exchange, books, halted, due, pc, seen, sent, got, faults>>

Live == reason = "live"
\* Mutant: recorded rows stand for orders on the book.
RowsSuffice == mine # {}

Known == mine \cap book # {}

\* An entry has just filled: its episode is open, its bracket is about to go.
Init ==
  /\ held = TRUE /\ why = "none" /\ book = {} /\ mine = {} /\ reason = "live"
  /\ paged = FALSE /\ halted = FALSE /\ due = TRUE
  /\ pc = "place" /\ seen = TRUE /\ sent = 0 /\ got = {} /\ faults = 0
-----------------------------------------------------------------------------
Fault == faults < MaxFaults /\ faults' = faults + 1

\* Position triggers go with the position they are sized against.
Vanishes(cause) == held' = FALSE /\ why' = cause /\ book' = {}

PositionVanishes ==
  /\ held
  /\ \/ book # {} /\ Vanishes("bracket")
     \/ Vanishes("liquidated")
     \/ Vanishes("hand")
  /\ UNCHANGED <<books, halted, due, pc, seen, sent, got, faults>>

LegCancelled ==
  /\ Fault /\ \E o \in book : book' = book \ {o}
  /\ UNCHANGED <<held, why, books, halted, due, pc, seen, sent, got>>

HaltOrResume ==
  /\ halted' = ~halted
  /\ UNCHANGED <<exchange, books, due, pc, seen, sent, got, faults>>

\* The halt's sweep cancels every order and keeps the position.
Sweep ==
  /\ halted /\ book # {} /\ book' = {}
  /\ UNCHANGED <<held, why, books, halted, due, pc, seen, sent, got, faults>>

IntervalPasses ==
  /\ ~due /\ due' = TRUE
  /\ UNCHANGED <<exchange, books, halted, pc, seen, sent, got, faults>>
-----------------------------------------------------------------------------
Goes(place) == pc' = place

ReadState ==
  /\ pc = "idle" /\ seen' = held
  /\ Goes(IF Live /\ ~held THEN "classify" ELSE "gate")
  /\ UNCHANGED <<exchange, books, halted, due, sent, got, faults>>

EndEpisode(r) == reason' = r /\ paged' = (r = "liquidated") /\ UNCHANGED mine

\* A recorded bracket with no leg left on the book is read as having fired.
\* Otherwise the fills say whether it was a liquidation; fills that cannot be
\* read end nothing.
ClassifyVanished ==
  /\ pc = "classify" /\ Goes("gate")
  /\ \/ mine # {} /\ ~Known /\ EndEpisode("bracket") /\ UNCHANGED faults
     \/ /\ mine = {} \/ Known
        /\ \/ EndEpisode(IF why = "liquidated" THEN "liquidated" ELSE "operator") /\ UNCHANGED faults
           \/ Fault /\ UNCHANGED books
  /\ UNCHANGED <<exchange, halted, due, seen, sent, got>>

HaltGate ==
  /\ pc = "gate" /\ Goes(IF halted THEN "idle" ELSE "verify")
  /\ UNCHANGED <<exchange, books, halted, due, seen, sent, got, faults>>

\* One leg still resting is enough to leave the book alone.  The rows are
\* dropped before the new pair is sent.
MaintainBrackets ==
  /\ pc = "verify"
  /\ \/ ~due /\ Goes("drain") /\ UNCHANGED <<mine, due, faults>>
     \/ /\ due /\ due' = FALSE
        /\ \/ Live /\ seen /\ ~Known /\ mine' = {} /\ Goes("place") /\ UNCHANGED faults
           \/ ~(Live /\ seen /\ ~Known) /\ Goes("drain") /\ UNCHANGED <<mine, faults>>
           \/ Fault /\ Goes("drain") /\ UNCHANGED mine
  /\ UNCHANGED <<exchange, reason, paged, halted, seen, sent, got>>

\* The halt gate is passed or stops the placement.
PlaceGate ==
  /\ pc = "place" /\ Goes(IF halted THEN "drain" ELSE "send")
  /\ UNCHANGED <<exchange, books, halted, due, seen, sent, got, faults>>

\* Both legs rest, one is refused, the answer is lost, or nothing arrives; a
\* position that is gone takes no trigger.
PlaceBrackets ==
  /\ pc = "send" /\ sent < MaxPlaced /\ sent' = sent + 1
  /\ \/ held /\ book' = book \cup Pair(sent') /\ got' = Pair(sent') /\ Goes("record") /\ UNCHANGED faults
     \/ held /\ Fault /\ \E o \in Pair(sent') : book' = book \cup {o} /\ got' = {o} /\ Goes("record")
     \/ held /\ Fault /\ book' = book \cup Pair(sent') /\ UNCHANGED got /\ Goes("drain")
     \/ Fault /\ UNCHANGED <<book, got>> /\ Goes("drain")
     \/ ~held /\ UNCHANGED <<book, got, faults>> /\ Goes("drain")
  /\ UNCHANGED <<held, why, books, halted, due, seen>>

RecordBrackets ==
  /\ pc = "record" /\ mine' = mine \cup got /\ got' = {} /\ Goes("drain")
  /\ UNCHANGED <<exchange, reason, paged, halted, due, seen, sent, faults>>

\* The backlog: nothing, a scale-in that fills (its rows are dropped and a new
\* pair goes at once, the older pair stays on the book), or the Leader's exit.
NoEvent ==
  /\ pc = "drain" /\ Goes("idle")
  /\ UNCHANGED <<exchange, books, halted, due, seen, sent, got, faults>>

ScaleIn ==
  /\ pc = "drain" /\ ~halted /\ Live /\ seen /\ held /\ sent + 1 < MaxPlaced
  /\ mine' = {} /\ Goes("place")
  /\ UNCHANGED <<exchange, reason, paged, halted, due, seen, sent, got, faults>>

LeaderExit ==
  /\ pc = "drain" /\ ~halted /\ Live /\ seen /\ held
  /\ Vanishes("leader") /\ EndEpisode("leader_close") /\ Goes("idle")
  /\ UNCHANGED <<halted, due, seen, sent, got, faults>>

Crash ==
  /\ pc # "idle" /\ Fault /\ Goes("idle") /\ got' = {}
  /\ UNCHANGED <<exchange, books, halted, due, seen, sent>>

Cycle ==
  \/ ReadState \/ ClassifyVanished \/ HaltGate \/ MaintainBrackets \/ PlaceGate
  \/ PlaceBrackets \/ RecordBrackets \/ NoEvent

Next ==
  \/ PositionVanishes \/ LegCancelled \/ HaltOrResume \/ Sweep \/ IntervalPasses
  \/ Cycle \/ ScaleIn \/ LeaderExit \/ Crash

\* The loop keeps cycling and the interval passes; nobody else promises a step.
Spec == Init /\ [][Next]_vars
FairSpec == Spec /\ WF_vars(Cycle) /\ WF_vars(IntervalPasses)
-----------------------------------------------------------------------------
TypeOK ==
  /\ {held, paged, halted, due, seen} \subseteq BOOLEAN
  /\ why \in {"none", "bracket", "liquidated", "hand", "leader"}
  /\ reason \in {"live", "bracket", "liquidated", "operator", "leader_close"}
  /\ {book, mine, got} \subseteq SUBSET Order
  /\ pc \in {"idle", "classify", "gate", "verify", "place", "send", "record", "drain"}
  /\ sent \in 0 .. MaxPlaced /\ faults \in 0 .. MaxFaults

\* A position that vanished is not filed as the operator's doing when the
\* exchange liquidated it: unreadable fills decide nothing.
LiquidationNotByHand == reason = "operator" => why # "liquidated"

\* A live position whose recorded triggers have all gone, by a halt's sweep, a
\* cancel, a refusal, a lost answer or a crash, gets a recorded trigger again,
\* unless it goes too or a halt stands.
Bare == Live /\ held /\ mine \cap book = {}
StopReturns == Bare ~> (~Bare \/ halted \/ sent = MaxPlaced)

\* What ADR-0007 says of a leg cancelled in the exchange's own interface: it is
\* a temporary state, the executor restores it.
LegReturns ==
  \A l \in Legs :
    (Live /\ held /\ ~(\E o \in book : o[2] = l))
      ~> ((\E o \in book : o[2] = l) \/ ~held \/ ~Live \/ halted \/ sent = MaxPlaced)

\* What ADR-0007 says of a liquidated position: the operator is paged.
LiquidationPages == ~Live /\ why = "liquidated" => paged
=============================================================================
