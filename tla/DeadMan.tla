------------------------------- MODULE DeadMan -------------------------------
(***************************************************************************)
(* The dead-man's schedule under the watchdog's own clock: scheduleCancel  *)
(* cancels every order unless it is set again before its horizon.  A sweep *)
(* takes minutes, so the schedule is pushed between its steps: on a budget *)
(* that a wedged push spends, and, close to the horizon, off the budget.   *)
(* A heartbeat follows the push.  A duration is counted in pulse intervals *)
(* (SWEEP_PULSE_INTERVAL), and one without a ceiling may be any.           *)
(***************************************************************************)
EXTENDS Integers

CONSTANTS
  Horizon,    \* WATCHDOG_DEADMAN_HORIZON_SECONDS
  Reprobe,    \* WATCHDOG_DEADMAN_REPROBE_HOURS
  Ceiling,    \* KEEPALIVE_CEILING_SECONDS: the longest push of a sweep
  BeatCeiling, \* DB_BLOCK_CEILING_SECONDS: the longest heartbeat
  Refill,     \* PULSE_LEG_REFILL_SECONDS
  StepBound,  \* STEP_BOUND_SECONDS: the longest read or cancel
  Durations   \* bound: how long an attempt, a beat or a stretch may take

PulseInterval == 1   \* SWEEP_PULSE_INTERVAL, and PULSE_LEG_BUDGET_SECONDS
Window == StepBound + Ceiling   \* PRIORITY_PUSH_WINDOW_SECONDS

\* What watchdog.py's numbers have between them: the window and a beat fit in
\* half a horizon, the slack the push cadence leaves (95 + 20 s of 150); a refill
\* covers one push, and a step covers a refill and a beat (45 + 20 s of 65).
SwitchAssumption ==
  /\ {Horizon, Reprobe, Refill, BeatCeiling} \subseteq Nat
  /\ {Ceiling, StepBound} \subseteq Nat \ {0} /\ Durations \subseteq Nat
  /\ Window + BeatCeiling =< Horizon \div 2 /\ Horizon \div 2 =< Reprobe
  /\ Ceiling =< Refill /\ Refill + BeatCeiling =< StepBound

States == {"unknown", "ineligible", "active"}

VARIABLES
  left,    \* armed_until - now: what the schedule known to stand has left; 0 is none
  real,    \* what the schedule the exchange holds has left
  wait,    \* _next_attempt_at - now; 0 is due
  state, trail, \* the switch's state, and the last transition on the audit trail
  spent, beaten, \* wall clock the push and the beat have spent since the last refill
  refill,  \* time until the next refill
  pulsed, pushed, \* time since the last pulse and the last priority push, up to an interval
  place,   \* start, rest, boundary (a pulse begins), pulse, pushed (a priority push
           \* was made in this pulse), beat, step, maintain
  tried,   \* an attempt on the standing schedule had its whole ceiling ahead and
           \* began within a step of the priority window
  overran  \* since the schedule was set, a stretch without a pulse or a call of the
           \* switch was longer than a step

switch == <<left, real, wait, state, trail>>
legs == <<spent, beaten, refill, pulsed, pushed>>
past == <<tried, overran>>
vars == <<switch, legs, place, past>>

Max0(n) == IF n > 0 THEN n ELSE 0
UpTo(n, cap) == IF n < cap THEN n ELSE cap

Init ==
  /\ left = 0 /\ real = 0 /\ wait = 0 /\ state = "unknown" /\ trail = "unknown"
  /\ spent = 0 /\ beaten = 0 /\ refill = Refill
  /\ pulsed = PulseInterval /\ pushed = PulseInterval
  /\ place = "start" /\ tried = FALSE /\ overran = FALSE
-----------------------------------------------------------------------------
\* Time passes for everything but the schedule and its next attempt.
LegsAge(d) ==
  /\ refill' = Max0(refill - d)
  /\ pulsed' = UpTo(pulsed + d, PulseInterval)

Passes(d) ==
  /\ left' = Max0(left - d) /\ real' = Max0(real - d) /\ wait' = Max0(wait - d)
  /\ LegsAge(d) /\ pushed' = UpTo(pushed + d, PulseInterval)

\* Mutant: a rejected attempt always waits for the slow cadence.
Slow(d) == wait' = Max0(Reprobe - d)

\* A rejected attempt waits for the slow cadence, unless a schedule stands.
Defer(d) == wait' = IF left > 0 THEN 0 ELSE Max0(Reprobe - d)

\* A transition is written to the trail before it is made; a write that fails
\* leaves both as they were.
Turns(to) ==
  \/ state' = to /\ trail' = IF state = to THEN trail ELSE to
  \/ state # to /\ UNCHANGED <<state, trail>>

\* The exchange accepted the set: the schedule counts from the attempt's start.
Accepted(d) ==
  /\ left' = Max0(Horizon - d) /\ real' = Max0(Horizon - d)
  /\ Turns("active")
  /\ wait' = IF state' = "active" THEN Max0(Horizon \div 2 - d) ELSE 0

\* Mutant: a push that was sent is taken to have landed.
Trusted(d) ==
  /\ left' = Max0(Horizon - d) /\ wait' = 0 /\ UNCHANGED <<state, trail>>
  /\ real' \in {Max0(real - d), Max0(Horizon - d)}

\* Nobody knows whether the set landed; the attempt stays due.
Ambiguous(d) ==
  /\ left' = Max0(left - d) /\ wait' = 0 /\ UNCHANGED <<state, trail>>
  /\ real' \in {Max0(real - d), Max0(Horizon - d)}

\* Volume-gated, or refused for a reason nobody expected.
Rejected(d) ==
  /\ left' = Max0(left - d) /\ real' = Max0(real - d)
  /\ \E to \in {"ineligible", "unknown"} :
       /\ Turns(to)
       /\ IF state' = to THEN Defer(d) ELSE wait' = 0

\* One attempt on the wire, and its bill.  A cut attempt is an ambiguous one.
Attempt(d, cut) ==
  /\ \/ ~cut /\ (Accepted(d) \/ Rejected(d))
     \/ Ambiguous(d)
  /\ tried' = (left' <= left /\ (tried \/ left \in Ceiling .. Window + StepBound))
  /\ overran' = (d > StepBound \/ (left' <= left /\ overran))

NotDue == wait > 0 /\ UNCHANGED <<switch, past>>

Maintain(d, cut) == IF wait > 0 THEN d = 0 /\ NotDue ELSE Attempt(d, cut)
Bill(d) == spent' = UpTo(spent + d, PulseInterval)
-----------------------------------------------------------------------------
\* The refill of both legs, at each pulse, once its window has passed.
RefillLegBudgets ==
  /\ place = "boundary" /\ place' = "pulse"
  /\ IF refill = 0 THEN spent' = 0 /\ beaten' = 0 /\ refill' = Refill
     ELSE UNCHANGED <<spent, beaten, refill>>
  /\ UNCHANGED <<switch, pulsed, pushed, past>>

NearHorizon == left \in 1 .. Window
PriorityDue == NearHorizon /\ pushed >= PulseInterval

\* Off the budget and off the throttle, again and again until the schedule is
\* out of the window or the last attempt is less than a pulse interval old.
PriorityPush ==
  /\ place \in {"pulse", "pushed"} /\ PriorityDue /\ place' = "pushed"
  /\ \E d \in Durations :
       /\ d <= Ceiling /\ Maintain(d, d = Ceiling) /\ Bill(d) /\ LegsAge(d)
       /\ pushed' = UpTo(d, PulseInterval)
  /\ UNCHANGED beaten

\* No pulse within an interval of the last: the sweep goes on to its step.
Throttled ==
  /\ place \in {"pulse", "pushed"} /\ ~PriorityDue /\ pulsed < PulseInterval
  /\ place' = "step" /\ UNCHANGED <<switch, legs, past>>

\* The push leg of a pulse, on its budget; a priority push was this pulse's push.
PulsePush ==
  /\ place \in {"pulse", "pushed"} /\ ~PriorityDue /\ pulsed >= PulseInterval
  /\ place' = "beat"
  /\ IF place = "pulse" /\ spent < PulseInterval
       THEN \E d \in Durations :
              /\ d <= Ceiling /\ Maintain(d, d = Ceiling) /\ Bill(d)
              /\ refill' = Max0(refill - d) /\ pulsed' = UpTo(d, PulseInterval)
              /\ pushed' = UpTo(pushed + d, PulseInterval)
       ELSE pulsed' = 0 /\ UNCHANGED <<switch, spent, refill, pushed, past>>
  /\ UNCHANGED beaten

\* The beat leg follows, on a budget of its own: a wedged database has the sweep
\* wait for the whole ceiling of the write.
BeatLeg ==
  /\ place = "beat" /\ place' = "step"
  /\ \E d \in Durations :
       /\ d <= (IF beaten < PulseInterval THEN BeatCeiling ELSE 0) /\ Passes(d)
       /\ beaten' = UpTo(beaten + d, PulseInterval)
  /\ UNCHANGED <<state, trail, spent, past>>

\* A stretch without a pulse or a call of the switch, and whether it was longer
\* than a step.
Stretch(d) == tried' = tried /\ overran' = (overran \/ d > StepBound)

\* What a sweep does between two pulses: a read or a cancel, which bound
\* themselves, and the wait for the shared budget, which nothing bounds.
SweepStep ==
  /\ place = "step"
  /\ \E d \in Durations : Passes(d) /\ Stretch(d)
  /\ \/ place' = "boundary" \/ place' = "maintain"
  /\ UNCHANGED <<state, trail, spent, beaten>>

\* After the cycle the loop calls the switch itself, with no ceiling of its own.
LoopMaintain ==
  /\ place = "maintain" /\ place' = "rest"
  /\ \E d \in Durations :
       /\ Maintain(d, FALSE)
       /\ LegsAge(d) /\ pushed' = UpTo(pushed + d, PulseInterval)
  /\ UNCHANGED <<spent, beaten>>

\* The sleep, and what a cycle does before its first pulse or the loop's call:
\* both budgets are refilled as it begins, and its own beat is a pulse and is
\* billed.  A cycle blind to the database does not beat, and its sweep not pulse.
CycleBegins ==
  /\ place \in {"start", "rest"}
  /\ \E d, since \in Durations :
       /\ since <= d /\ Stretch(d)
       /\ left' = Max0(left - d) /\ real' = Max0(real - d) /\ wait' = Max0(wait - d)
       /\ pushed' = UpTo(pushed + d, PulseInterval) /\ refill' = Max0(Refill - since)
       /\ \/ pulsed' = UpTo(since, PulseInterval) /\ beaten' \in {0, UpTo(since, PulseInterval)}
          \/ pulsed' = UpTo(pulsed + d, PulseInterval) /\ beaten' = 0
  /\ spent' = 0
  /\ \/ place' = "boundary" \/ place' = "maintain"
  /\ UNCHANGED <<state, trail>>

\* The process dies and comes back knowing nothing.
Restart ==
  /\ place' = "start"
  /\ left' = 0 /\ wait' = 0 /\ state' = "unknown" /\ UNCHANGED <<real, trail>>
  /\ spent' = 0 /\ beaten' = 0 /\ refill' = Refill
  /\ pulsed' = PulseInterval /\ pushed' = PulseInterval
  /\ tried' = FALSE /\ overran' = FALSE

Runs ==
  \/ RefillLegBudgets \/ PriorityPush \/ Throttled \/ PulsePush \/ BeatLeg
  \/ SweepStep \/ LoopMaintain \/ CycleBegins
Next == Runs \/ Restart

Spec == Init /\ [][Next]_vars
-----------------------------------------------------------------------------
TypeOK ==
  /\ {left, real} \subseteq 0 .. Horizon /\ wait \in 0 .. Reprobe
  /\ {state, trail} \subseteq States
  /\ {spent, beaten, pulsed, pushed} \subseteq 0 .. PulseInterval /\ refill \in 0 .. Refill
  /\ place \in {"start", "rest", "boundary", "pulse", "pushed", "beat", "step", "maintain"}
  /\ {tried, overran} \subseteq BOOLEAN

\* The switch never believes in a push that may not have landed: what it takes
\* to stand lapses no later than what the exchange holds.
\* And it is in no state its trail does not show.
DeadlineIsConservative == left <= real /\ (state # "unknown" => trail = state)

\* No armed schedule lapses without an attempt against it that had its whole
\* ceiling ahead of the horizon: neither a spent budget, nor the throttle, nor a
\* wedged beat, nor a reject silences the switch while its net runs out.  On the
\* code's own condition: no stretch between two pulses outlasted a step.
NoSilentLapse ==
  [][left > 0 /\ left' = 0 /\ place' # "start" => tried' \/ overran']_vars

\* That condition is needed (watchdog.py, under PRIORITY_PUSH_WINDOW_SECONDS: the
\* pacing sleep can outlast the window).  Not checked: it does not hold.
LapseIsTried == [][left > 0 /\ left' = 0 /\ place' # "start" => tried']_vars

=============================================================================
