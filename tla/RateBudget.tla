----------------------------- MODULE RateBudget -----------------------------
(***************************************************************************)
(* The token bucket every process of one IP draws on: one row, refilled and*)
(* drawn in short transactions, with a floor per lane, a send gate that    *)
(* spaces the grants, and surcharges billed after the answer, into debt.   *)
(* A spender reads its clock before it waits for the row's lock, so every  *)
(* transaction works with an instant that may be stale.                    *)
(***************************************************************************)
EXTENDS Integers

CONSTANTS
  Lanes,      \* execution and safety, position polls, ingest and order polls
  Reserve,    \* what a lane must leave in the bucket
  Weights,    \* what a call may cost, before and after its answer
  Burst,      \* BURST_WEIGHT
  Rate,       \* SHARED_WEIGHT_PER_MINUTE, per tick
  Pace,       \* SMOOTHING_WEIGHT_PER_SECOND, per tick
  MaxLag,     \* bound: how long a transaction may wait for the row's lock
  MaxTime     \* bound: the ticks of a run

ASSUME BudgetAssumption ==
  /\ Reserve \in [Lanes -> Nat] /\ Weights \subseteq Nat \ {0}
  /\ \A w \in Weights : Pace * (w \div Pace) = w
  /\ Burst \in Nat /\ Rate \in Nat /\ Pace \in Nat \ {0}
  /\ MaxLag \in Nat /\ MaxTime \in Nat

VARIABLES
  now,
  available, last, gate, \* rate_budget: tokens, last_refill, next_send_at
  asks,   \* the attempt of each lane: none, or its weight and the instant it read
  owed,   \* what the answers of a lane's calls still have to be billed
  mark, since \* any instant, and what has been billed from it on

row == <<available, last, gate>>
vars == <<now, row, asks, owed, mark, since>>

NoAsk == [weight |-> 0, at |-> 0]
Max(a, b) == IF a > b THEN a ELSE b
Min(a, b) == IF a < b THEN a ELSE b

\* The gate's window, in ticks: the pace divides every weight.
GateWindow(w) == w \div Pace

Init ==
  /\ now = 0 /\ available = Burst /\ last = 0 /\ gate = 0
  /\ asks = [l \in Lanes |-> NoAsk] /\ owed = [l \in Lanes |-> 0]
  /\ mark = 0 /\ since = 0
-----------------------------------------------------------------------------
\* Time waits for a transaction that has waited its longest.
Tick ==
  /\ now < MaxTime
  /\ \A l \in Lanes : asks[l].weight > 0 => now < asks[l].at + MaxLag
  /\ now' = now + 1
  /\ UNCHANGED <<row, asks, owed, mark, since>>

\* Watching starts afresh at any instant.
Watch ==
  /\ mark' = now /\ since' = 0 /\ mark # now
  /\ UNCHANGED <<now, row, asks, owed>>

\* `spend`, or `settle` once an answer shows what it cost: the clock is read.
Ask(l) ==
  /\ asks[l] = NoAsk
  /\ \E w \in Weights : (owed[l] = 0 \/ owed[l] = w)
       /\ (owed[l] > 0 \/ w + Reserve[l] <= Burst)
       /\ asks' = [asks EXCEPT ![l] = [weight |-> w, at |-> now]]
  /\ UNCHANGED <<now, row, owed, mark, since>>
-----------------------------------------------------------------------------
\* Mutant: the bucket has no rim.
Overfull(at) == available + Rate * Max(0, at - last)

\* Never refilled backwards.
Refilled(at) == Min(Burst, available + Rate * Max(0, at - last))

\* Counted as it is billed: a surcharge that its answer has incurred and that is
\* not settled yet is in nobody's count, the code's or this one's.
Sends(w) == since' = since + w

\* Mutant: the gate is not asked.
Ungated(l, at) == asks[l].weight + Reserve[l] <= Refilled(at)

\* Granted: it fits above the lane's floor and the gate is open.  What the call
\* will turn out to have cost beyond it is known with its answer.
Fits(l, at) == asks[l].weight + Reserve[l] <= Refilled(at) /\ gate <= at

TrySpend(l) ==
  /\ asks[l].weight > 0 /\ owed[l] = 0 /\ asks' = [asks EXCEPT ![l] = NoAsk]
  /\ LET w == asks[l].weight  at == asks[l].at IN
       /\ last' = Max(at, last)
       /\ IF Fits(l, at)
            THEN /\ available' = Refilled(at) - w /\ gate' = at + GateWindow(w)
                 /\ Sends(w) /\ \E s \in Weights \cup {0} : owed' = [owed EXCEPT ![l] = s]
            ELSE available' = Refilled(at) /\ UNCHANGED <<gate, owed, since>>
  /\ UNCHANGED <<now, mark>>

\* Billed whatever is left, into debt, and the gate advances with it.
Settle(l) ==
  /\ asks[l].weight > 0 /\ owed[l] > 0
  /\ asks' = [asks EXCEPT ![l] = NoAsk] /\ owed' = [owed EXCEPT ![l] = 0]
  /\ LET w == owed[l]  at == asks[l].at IN
       /\ last' = Max(at, last) /\ available' = Refilled(at) - w
       /\ gate' = Max(gate, at) + GateWindow(w) /\ Sends(w)
  /\ UNCHANGED <<now, mark>>

Next == Tick \/ Watch \/ \E l \in Lanes : Ask(l) \/ TrySpend(l) \/ Settle(l)
Spec == Init /\ [][Next]_vars
-----------------------------------------------------------------------------
TypeOK ==
  /\ now \in 0 .. MaxTime /\ available \in Int /\ available <= Burst
  /\ last \in 0 .. now /\ gate \in Nat /\ mark \in 0 .. now /\ since \in Nat
  /\ asks \in [Lanes -> [weight : Weights \cup {0}, at : 0 .. now]]
  /\ owed \in [Lanes -> Weights \cup {0}]

\* From any instant on, the IP has been billed no more than the pace allows up to
\* the moment the gate opens again, and the longest wait for the lock.
SpendIsPaced == since > 0 => since <= Pace * (gate - mark + MaxLag)

\* From any instant on, what was billed is covered by one full bucket, the refill
\* and the debt that later spenders wait off.
SpendIsCovered == since <= Burst - available + Rate * Max(0, last - mark + MaxLag)

\* Both: what the IP's calls are billed in any window is bounded by the pace and
\* by the bucket.
SpendIsBounded == SpendIsPaced /\ SpendIsCovered
=============================================================================
