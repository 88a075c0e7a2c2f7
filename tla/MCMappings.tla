----------------------------- MODULE MCMappings -----------------------------
(***************************************************************************)
(* The life of a copy mapping on small instances: how it gets its          *)
(* sub-account and money (Provisioning), how its Loss Budget ends it       *)
(* (LossBudget), and how an episode's triggers are kept (Brackets).  The   *)
(* modules share the executor's place, the halt and the bounds; one part   *)
(* runs, the others stand at rest.                                         *)
(***************************************************************************)
EXTENDS Integers

CONSTANTS
  Leaders, Accounts, Orphans, MaxDollars, \* of Provisioning
  Budgets, Alloc, Worths, MaxReissues,    \* of LossBudget
  MaxPlaced,                              \* of Brackets
  MaxEdits, MaxFaults,
  Watched  \* the Leader whose wait MappingsSettle follows

VARIABLES
  part, halted, pc, edits, faults,
  row, pending, cap, minted, balance, holding, snap, snapCap, left, cur, got, topup,
  signedHalted,
  mapping, equity, held, stray, spared, live, okIn, lostIn, judged, state, told, judgedFor,
  why, book, mine, reason, paged, due, saw, sent, answered

shared == <<part, halted, pc, edits, faults>>
ofProvisioning ==
  <<row, pending, cap, minted, balance, holding, snap, snapCap, left, cur, got, topup,
    signedHalted>>
ofBudget == <<mapping, equity, stray, spared, live, okIn, lostIn, judged, state, told, judgedFor>>
ofBrackets == <<why, book, mine, reason, paged, due, saw, sent, answered>>
vars == <<shared, ofProvisioning, ofBudget, held, ofBrackets>>

P == INSTANCE Provisioning
L == INSTANCE LossBudget
       WITH row <- mapping, snap <- judged, seen <- state, holding <- held,
            MaxEdits <- MaxReissues
B == INSTANCE Brackets
       WITH MaxFaults <- MaxFaults + 1, seen <- saw, got <- answered

ASSUME MappingsAssumption ==
  P!ProvisioningAssumption /\ P!NoneAssumption /\ L!BudgetAssumption /\ B!BracketAssumption
  /\ Watched \in Leaders

\* A part at rest.
NoProvisioning ==
  /\ row = [l \in Leaders |-> P!NoRow] /\ pending = <<>> /\ cap = MaxDollars
  /\ minted = {} /\ balance = [a \in Accounts |-> 0] /\ holding = {}
  /\ snap = row /\ snapCap = MaxDollars /\ left = {} /\ cur = P!None /\ got = P!None /\ topup = 0
  /\ signedHalted = 0
NoBudget ==
  /\ mapping = L!NoRow /\ equity = 0 /\ stray = FALSE /\ spared = FALSE /\ live = FALSE
  /\ okIn = 0 /\ lostIn = 0 /\ judged = L!NoRow /\ state = L!Unread
  /\ told = L!Nothing /\ judgedFor = 0
NoBrackets ==
  /\ why = "none" /\ book = {} /\ mine = {} /\ reason = "leader_close" /\ paged = FALSE
  /\ due = FALSE /\ saw = FALSE /\ sent = 0 /\ answered = {}

Init ==
  \/ part = "provisioning" /\ P!Init /\ NoBudget /\ held = FALSE /\ NoBrackets
  \/ part = "budget" /\ L!Init /\ NoProvisioning /\ NoBrackets
  \/ part = "brackets" /\ B!Init /\ edits = 0 /\ NoProvisioning /\ NoBudget

InProvisioning == part = "provisioning" /\ UNCHANGED <<part, ofBudget, held, ofBrackets>>
InBudget == part = "budget" /\ UNCHANGED <<part, ofProvisioning, ofBrackets>>
InBrackets == part = "brackets" /\ UNCHANGED <<part, edits, ofProvisioning, ofBudget>>

Next ==
  \/ InProvisioning /\ P!Next
  \/ InBudget /\ L!Next
  \/ InBrackets /\ B!Next

\* The executor's cycle, whichever part runs.
Cycles ==
  \/ InProvisioning /\ P!Executes
  \/ InBudget /\ L!Cycle
  \/ InBrackets /\ B!Cycle

\* The fairness of each part, as its module states it: a run is of one part.
Spec ==
  /\ Init /\ [][Next]_vars
  /\ WF_vars(Cycles) /\ WF_vars(InBrackets /\ B!IntervalPasses)

\* The type invariants of the three modules.
TypesOK ==
  /\ part = "provisioning" => P!TypeOK
  /\ part = "budget" => L!TypeOK
  /\ part = "brackets" => B!TypeOK

\* Provisioning (execute/executor.py _provision): no two Leaders in one
\* sub-account, no slot minted that a fault does not answer for, no allocation
\* stacked on another, and at most the signature past its gate under a halt.
SubsAreKept ==
  P!OneLeaderPerSub /\ P!NoSlotWasted /\ P!NeverStacked /\ P!OneSignatureUnderHalt

\* What the books come to say (execute/subs.py record_budget_spend,
\* execute/executor.py _classify_vanished): a standing breach was judged
\* against the number that stands, each notice is told once per number, and a
\* liquidation is not filed as the operator's doing.
BooksAreTrue == L!EditWins /\ L!ToldOnce /\ B!LiquidationNotByHand

\* A spent budget (execute/executor.py _entry_skip, _disable_spent_budgets): no
\* position is opened from the verdict on, and the mapping is disabled
\* only flat, with a trigger of ours left behind only where its cancel was refused.
WindDownHolds == L!BreachBinds /\ L!DisableFollowsCancel

\* What a cycle must bring to an end, unless a halt stands (execute/executor.py
\* run_cycle): a mapping that waits for its sub-account or its money, one that
\* winds down and holds nothing, a position that stands without a trigger.  The
\* modules' PendingSettles (of one Leader; they are interchangeable), WindsDown
\* and StopReturns, in one formula.
Unsettled == P!Waits(Watched) \/ (L!Winds /\ ~held) \/ (B!Bare /\ sent < MaxPlaced)
MappingsSettle == Unsettled ~> (~Unsettled \/ halted)

\* ADR-0007 on a leg cancelled in the exchange's interface: the executor puts
\* it back.
LegReturns == B!LegReturns
=============================================================================
