----------------------------- MODULE LossBudget -----------------------------
(***************************************************************************)
(* The Loss Budget of one copy mapping: armed from the equity a cycle read,*)
(* judged every cycle against baseline + deposits - equity, warned,        *)
(* breached (the copy winds down) and disabled once flat.  The number is   *)
(* the operator's and may move at any moment; the executor works from the  *)
(* row its cycle began with and writes its verdicts by compare-and-set.    *)
(***************************************************************************)
EXTENDS Integers

CONSTANTS
  Budgets,    \* the loss budgets an operator may name; 0 is no budget
  Alloc,      \* the allocation a funding leg restores
  Worths,     \* bound: what the market may leave the sub-account worth
  MaxEdits,   \* bound: commands of the operator that write the row
  MaxFaults   \* bound: crashes, failed reads, lost or refused replies

BudgetAssumption ==
  /\ Budgets \subseteq Nat /\ Alloc \in Nat \ {0} /\ Worths \subseteq Nat
  /\ MaxEdits \in Nat /\ MaxFaults \in Nat

\* Instants are told apart by the command they follow: a mark is cleared by a
\* command alone, so no two settings of one mark share a number.  0 is NULL.
Instant == 0 .. MaxEdits + 1
Row == [enabled : BOOLEAN, funded : BOOLEAN, budget : Budgets,
        base : Nat, armed : Instant, warned : Instant, breached : Instant]
NoRow == [enabled |-> FALSE, funded |-> FALSE, budget |-> 0,
          base |-> 0, armed |-> 0, warned |-> 0, breached |-> 0]
Seen == [read : BOOLEAN, equity : Nat, holding : BOOLEAN]
Unread == [read |-> FALSE, equity |-> 0, holding |-> FALSE]

VARIABLES
  row,     \* the mapping's row of copy_subs
  equity, holding, stray, \* the sub-account: worth, a position, a recorded trigger outliving it
  spared,  \* that trigger's last cancel was answered, and the exchange refused it
  live,    \* a live copy episode
  okIn,    \* dollars moved in since arming whose transfer was answered
  lostIn,  \* dollars moved in since arming whose answer was lost
  halted,
  pc, snap, seen, \* the cycle: its place, the row as judged so far, the state it read
  told,    \* notices since the budget was armed or its number moved
  judgedFor, \* the number the standing breach was judged against
  edits, faults

venue == <<equity, holding, stray, spared, live, okIn, lostIn>>
bounds == <<edits, faults>>
vars == <<row, venue, halted, pc, snap, seen, told, judgedFor, bounds>>

Now == edits + 1
WindingDown(r) == r.breached # 0
Max0(n) == IF n > 0 THEN n ELSE 0
Nothing == [warn |-> 0, breach |-> 0, disable |-> 0]

\* execute/policy.py: both boundaries inclusive, the warning at four fifths.
Loss(base, deposits, worth) == base + deposits - worth
Spent(loss, budget) == loss >= budget
Warned(loss, budget) == 5 * loss >= 4 * budget

Init ==
  /\ \E b \in Budgets :
       row = [enabled |-> TRUE, funded |-> FALSE, budget |-> b,
              base |-> 0, armed |-> 0, warned |-> 0, breached |-> 0]
  /\ equity = 0 /\ holding = FALSE /\ stray = FALSE /\ spared = FALSE /\ live = FALSE
  /\ okIn = 0 /\ lostIn = 0 /\ halted = FALSE
  /\ pc = "idle" /\ snap = NoRow /\ seen = Unread
  /\ told = Nothing /\ judgedFor = 0 /\ edits = 0 /\ faults = 0
-----------------------------------------------------------------------------
\* The operator.  A number left where it was on an enabled mapping keeps the
\* ledger and the marks; a moved number clears the marks; no budget, or a
\* mapping that was disabled, clears the ledger too.
ReenableSub(b) ==
  LET clean == b = 0 \/ ~row.enabled
      moved == b # row.budget \/ ~row.enabled
  IN  /\ row' = [enabled |-> TRUE, funded |-> FALSE, budget |-> b,
                 base |-> IF clean THEN 0 ELSE row.base,
                 armed |-> IF clean THEN 0 ELSE row.armed,
                 warned |-> IF moved THEN 0 ELSE row.warned,
                 breached |-> IF moved THEN 0 ELSE row.breached]
      /\ told' = IF moved THEN Nothing ELSE told
      /\ judgedFor' = IF moved THEN 0 ELSE judgedFor

Copy ==
  /\ edits < MaxEdits /\ edits' = edits + 1
  /\ \E b \in Budgets : ReenableSub(b)
  /\ UNCHANGED <<venue, halted, pc, snap, seen, faults>>

Uncopy ==
  /\ edits < MaxEdits /\ edits' = edits + 1
  /\ row.enabled /\ row' = [row EXCEPT !.enabled = FALSE]
  /\ UNCHANGED <<venue, halted, pc, snap, seen, told, judgedFor, faults>>

HaltOrResume ==
  /\ halted' = ~halted
  /\ UNCHANGED <<row, venue, pc, snap, seen, told, judgedFor, bounds>>

\* The market moves what a position is worth; the operator may close by hand.
Market ==
  /\ holding
  /\ equity' \in Worths \ {equity}
  /\ UNCHANGED <<row, holding, stray, spared, live, okIn, lostIn, halted, pc, snap, seen, told, judgedFor, bounds>>

ClosedByHand ==
  /\ holding /\ holding' = FALSE
  /\ UNCHANGED <<row, equity, stray, spared, live, okIn, lostIn, halted, pc, snap, seen, told, judgedFor, bounds>>
-----------------------------------------------------------------------------
Goes(place) == pc' = place
EndsCycle == Goes("idle") /\ snap' = NoRow /\ seen' = Unread
Fault == faults < MaxFaults /\ faults' = faults + 1

\* The rows and the state the cycle works from.  An unprovisioned or unreadable
\* sub-account goes unjudged.  An episode whose position is gone ends before the
\* budget is judged.
ReadState ==
  /\ pc = "idle" /\ Goes("judge") /\ snap' = row
  /\ \/ /\ row.funded
        /\ seen' = [read |-> TRUE, equity |-> equity, holding |-> holding]
        /\ live' = (live /\ holding) /\ UNCHANGED faults
     \/ ~row.funded /\ UNCHANGED <<seen, live, faults>>
     \/ row.funded /\ Fault /\ UNCHANGED <<seen, live>>
  /\ UNCHANGED <<row, equity, holding, stray, spared, okIn, lostIn, halted, told, judgedFor, edits>>

Judged == seen.read /\ snap.budget # 0 /\ snap.enabled

ArmLossBudget ==
  /\ pc = "judge" /\ Judged /\ snap.armed = 0 /\ Goes("gate")
  /\ IF row.budget # 0 /\ row.armed = 0
       THEN /\ row' = [row EXCEPT !.base = seen.equity, !.armed = Now]
            /\ snap' = [snap EXCEPT !.base = seen.equity, !.armed = Now]
            /\ okIn' = 0 /\ lostIn' = 0
       ELSE UNCHANGED <<row, snap, okIn, lostIn>>
  /\ UNCHANGED <<equity, holding, stray, spared, live, halted, seen, told, judgedFor, bounds>>

\* Mutant: a verdict is written whatever the row says by now.
AnyTerms == TRUE

\* The terms the verdict was reached against still stand.
SameTerms == row.budget = snap.budget /\ row.armed = snap.armed

Kept(mark, new) == IF mark # 0 THEN mark ELSE new

\* Mutant: the cycle that writes a verdict goes on with the row it read.
Uninformed(warn, breach) == snap

Informed(warn, breach) ==
  [snap EXCEPT !.warned = Kept(@, warn), !.breached = Kept(@, breach)]

RecordBudgetSpend ==
  /\ pc = "judge" /\ Judged /\ snap.armed # 0 /\ Goes("gate")
  /\ LET loss == Loss(snap.base, okIn, seen.equity)
         spent == Spent(loss, snap.budget)
         warn == IF (Warned(loss, snap.budget) \/ spent) /\ snap.warned = 0 THEN Now ELSE 0
         breach == IF spent /\ snap.breached = 0 THEN Now ELSE 0
     IN  IF SameTerms
           THEN /\ row' = [row EXCEPT !.warned = Kept(@, warn), !.breached = Kept(@, breach)]
                /\ snap' = Informed(warn, breach)
                /\ told' = [told EXCEPT !.breach = @ + (IF breach # 0 THEN 1 ELSE 0),
                                        !.warn = @ + (IF warn # 0 /\ ~spent THEN 1 ELSE 0)]
                /\ judgedFor' = IF breach # 0 THEN snap.budget ELSE judgedFor
           ELSE UNCHANGED <<row, snap, told, judgedFor>>
  /\ UNCHANGED <<venue, halted, seen, bounds>>

JudgesNothing ==
  /\ pc = "judge" /\ ~Judged /\ Goes("gate")
  /\ UNCHANGED <<row, venue, halted, snap, seen, told, judgedFor, bounds>>

HaltGate ==
  /\ pc = "gate" /\ IF halted THEN EndsCycle ELSE Goes("close") /\ UNCHANGED <<snap, seen>>
  /\ UNCHANGED <<row, venue, halted, told, judgedFor, bounds>>

FlatAndSpent == seen.read /\ WindingDown(snap) /\ snap.enabled /\ ~seen.holding /\ ~live

\* A recorded trigger still resting is cancelled before the mapping is
\* disabled; when the book or the cancel goes unanswered, the disable waits for a
\* later cycle.  An answer ends the wait whatever it says: the call drops the
\* result of each order, so a cancel the exchange refused leaves the trigger.
CancelStrayBrackets ==
  /\ pc = "close" /\ FlatAndSpent
  /\ \/ ~stray /\ Goes("disable") /\ UNCHANGED <<stray, spared, faults>>
     \/ stray /\ ~halted /\ stray' = FALSE /\ spared' = FALSE /\ Goes("disable") /\ UNCHANGED faults
     \/ stray /\ ~halted /\ Fault /\ spared' = TRUE /\ Goes("disable") /\ UNCHANGED stray
     \/ stray /\ halted /\ Goes("provision") /\ UNCHANGED <<stray, spared, faults>>
     \/ Fault /\ stray' \in {stray, FALSE} /\ spared' = FALSE /\ Goes("provision")
  /\ UNCHANGED <<row, equity, holding, live, okIn, lostIn, halted, snap, seen, told, judgedFor, edits>>

NothingToClose ==
  /\ pc = "close" /\ ~FlatAndSpent /\ Goes("provision")
  /\ UNCHANGED <<row, venue, halted, snap, seen, told, judgedFor, bounds>>

DisableForSpentBudget ==
  /\ pc = "disable" /\ Goes("provision")
  /\ IF row.enabled /\ row.breached = snap.breached
       THEN /\ row' = [row EXCEPT !.enabled = FALSE] /\ snap' = [snap EXCEPT !.enabled = FALSE]
            /\ told' = [told EXCEPT !.disable = @ + 1]
       ELSE UNCHANGED <<row, snap, told>>
  /\ UNCHANGED <<venue, halted, seen, judgedFor, bounds>>

\* The funding leg (Provisioning has its steps): a top-up to the allocation,
\* answered or not.  What lands is worth having either way.
TopUp ==
  /\ pc = "provision" /\ Goes("drain")
  /\ LET gap == Max0(Alloc - equity) IN
       \/ ~(snap.enabled /\ ~snap.funded) /\ UNCHANGED <<row, equity, okIn, lostIn, faults>>
       \/ /\ snap.enabled /\ ~snap.funded
          /\ equity' = equity + gap /\ okIn' = okIn + gap
          /\ row' = [row EXCEPT !.funded = TRUE] /\ UNCHANGED <<lostIn, faults>>
       \/ /\ snap.enabled /\ ~snap.funded /\ gap > 0 /\ Fault
          /\ equity' = equity + gap /\ lostIn' = lostIn + gap /\ UNCHANGED <<row, okIn>>
       \/ snap.enabled /\ ~snap.funded /\ Fault /\ UNCHANGED <<row, equity, okIn, lostIn>>
  /\ UNCHANGED <<holding, stray, spared, live, halted, snap, seen, told, judgedFor, edits>>

\* The backlog: an open the budget lets through, or the Leader's exit, which a
\* winding-down mapping still follows.  A trigger may outlive its position.
Entry ==
  /\ pc = "drain" /\ EndsCycle
  /\ snap.enabled /\ snap.funded /\ seen.read /\ ~WindingDown(snap) /\ ~live
  /\ holding' = TRUE
  /\ \/ live' = TRUE /\ UNCHANGED faults
     \/ Fault /\ UNCHANGED live    \* the answer is lost: a position with no episode
  /\ UNCHANGED <<row, equity, stray, spared, okIn, lostIn, halted, told, judgedFor, edits>>

Exit ==
  /\ pc = "drain" /\ EndsCycle
  /\ snap.enabled /\ snap.funded /\ seen.read /\ live
  /\ live' = FALSE /\ holding' = FALSE
  /\ \/ UNCHANGED <<stray, spared>>
     \/ stray' = TRUE /\ spared' = FALSE
  /\ UNCHANGED <<row, equity, okIn, lostIn, halted, told, judgedFor, bounds>>

NoEvent ==
  /\ pc = "drain" /\ EndsCycle
  /\ UNCHANGED <<row, venue, halted, told, judgedFor, bounds>>

Crash ==
  /\ pc # "idle" /\ Fault /\ EndsCycle
  /\ UNCHANGED <<row, venue, halted, told, judgedFor, edits>>

Cycle ==
  \/ ReadState \/ ArmLossBudget \/ RecordBudgetSpend \/ JudgesNothing
  \/ HaltGate \/ CancelStrayBrackets \/ NothingToClose \/ DisableForSpentBudget \/ TopUp
  \/ Entry \/ Exit \/ NoEvent

Next == Copy \/ Uncopy \/ HaltOrResume \/ Market \/ ClosedByHand \/ Cycle \/ Crash

\* The loop keeps cycling.  The operator, the market, the Leader and a halt
\* promise nothing.
Spec == Init /\ [][Next]_vars
FairSpec == Spec /\ WF_vars(Cycle)
-----------------------------------------------------------------------------
TypeOK ==
  /\ row \in Row /\ snap \in Row \cup {NoRow} /\ seen \in Seen
  /\ equity \in Nat /\ okIn \in Nat /\ lostIn \in Nat
  /\ {holding, stray, spared, live, halted} \subseteq BOOLEAN
  /\ pc \in {"idle", "judge", "gate", "close", "disable", "provision", "drain"}
  /\ told \in [warn : Nat, breach : Nat, disable : Nat] /\ judgedFor \in Budgets \cup {0}
  /\ edits \in 0 .. MaxEdits /\ faults \in 0 .. MaxFaults

\* A /copy that moves the number cancels the wind-down, and a verdict about the
\* number it replaced cannot put it back: a standing breach was judged against
\* the number that stands.
EditWins == row.breached # 0 => judgedFor = row.budget

\* Once per number: over restarts, retries and recoveries of the loss the
\* warning, the breach and the disable are each told at most once until the
\* operator moves the number.
ToldOnce == \A n \in DOMAIN told : told[n] <= 1

\* A spent budget refuses every risk-increasing order from the verdict on, in
\* the same cycle and after any crash.
BreachBinds == [][~holding /\ holding' => ~WindingDown(row)]_vars

\* The budget disables a mapping only when it is flat, and over a recorded trigger
\* only when the exchange has answered its cancel and refused it: a halt, an
\* unreadable book or an unanswered cancel defers the disable.
DisableFollowsCancel ==
  [][told'.disable > told.disable => ~live /\ (stray => spared)]_vars

\* What `_cancel_stray_brackets` says of its answer None: the book is known to be
\* clear of our triggers.
DisableClearsBook == [][told'.disable > told.disable => ~stray]_vars

\* A breached mapping is wound down to its end: disabled, or resumed by the
\* operator, or still holding something, or stopped by a halt.
Winds == row.enabled /\ WindingDown(row)
WindsDown == Winds ~> (~Winds \/ holding \/ halted)

\* What `deposits_since` says of leaving unanswered transfers out: it is the
\* direction that cannot hide a loss.  A judged budget that is not breached has
\* lost less than its number.
LossNotHidden ==
  [][(pc = "judge" /\ Judged /\ snap.armed # 0 /\ SameTerms /\ row'.breached = 0)
       => Loss(snap.base, okIn + lostIn, seen.equity) < snap.budget]_vars
=============================================================================
