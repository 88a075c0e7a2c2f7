--------------------------- MODULE ExchangeProofs ---------------------------
(***************************************************************************)
(* What MCExchange checks of the monitor, the dead-man's switch, the signed *)
(* call, the keys and the rate budget, for every value of the constants.   *)
(* Each part has its own invariant, with a lemma per action: MonitorInv,   *)
(* SwitchInv and CallInv make ExchangeInv, then KeyInv, and BudgetInv of   *)
(* rate budget.                                                            *)
(***************************************************************************)
EXTENDS TradeStoreProofs

-----------------------------------------------------------------------------
(* The monitor: the invariant. *)

\* The last word the operator has about the check is not that it fails.
Untold == heard \in {"nothing", "recovered"}

\* A check that has been failing is failing, and an outage is a fault of every
\* check but the database's.
BadIsFailing ==
  /\ bad > 0 => M!Rung # "ok"
  /\ database = "down" /\ check # "database" => good = 0

\* Where the loop may be in its cycle.
LoopPlaces ==
  /\ pc = "hung" => sinceFull = 0
  /\ pc = "expired" => sinceFull = 1
  /\ check # "database" => (pc = "hung" => good = 0) /\ (pc = "expired" => good <= 1)

\* Ticks since the board was last read in full.
SinceRead ==
  CASE pc = "sleep" -> sinceFull
    [] pc = "check" -> IF sinceFull = Interval THEN Interval + 1 ELSE sinceFull
    [] pc = "hung" -> Interval + 1
    [] pc = "expired" -> Interval + 2

BriefTo(n) == bad <= n \/ good <= n

\* While the operator has not been told, a failure that stands is younger than
\* what the alerting state allows.
UntoldIsYoung ==
  Untold =>
    /\ alarm \in 0..(Reminder - 1) => good <= alarm
    /\ alarm = M!Quiet => BriefTo(SinceRead)
    /\ alarm = Reminder => BriefTo(Reminder - 1 + SinceRead)

MonitorInv ==
  /\ M!TypeOK /\ database \in {"up", "down"} /\ trouble \in {"ok", "warning", "critical"}
  /\ BadIsFailing /\ LoopPlaces /\ UntoldIsYoung
  /\ paged = alarm
-----------------------------------------------------------------------------
(* The monitor: what the checks say. *)

Failing == {"absent", "down", "impotent", "unverified", "warning", "critical"}

\* What the lemmas need of the monitor's constants.
LEMMA MonitorConstants ==
  /\ Interval \in Nat \ {0} /\ Reminder \in Nat \ {0} /\ Stale \in Nat /\ Unverified \in Nat
  /\ M!Settled = Reminder + Interval + 2 /\ M!Settled \in Nat
  /\ M!Quiet = -1 /\ M!Never = -1 /\ M!BeatCap = Stale + 4
BY ExchangeAssumption DEF M!MonitorAssumption, M!Settled, M!Quiet, M!Never, M!BeatCap

\* What the other checks can say: a warning or a page.
LEMMA RungsOfOthers ==
  ASSUME NEW c \in Others
  PROVE  M!Rungs[c] \subseteq {"warning", "critical"}
<1>1. c \in DOMAIN M!Rungs
  BY ExchangeAssumption DEF M!MonitorAssumption
<1> QED
  BY <1>1 DEF M!Rungs, M!PassRungs, M!HostRungs, M!TradingRungs

\* What any check can say.
LEMMA RungTyped ==
  ASSUME trouble \in {"ok", "warning", "critical"}
  PROVE  M!Rung \in Failing \cup {"ok"}
BY DEF M!Rung, M!WatchdogRung, Failing

\* One verdict against the check's state: afterwards the operator has been told,
\* or the check is well, or its last message was just lost, or is young.
LEMMA EvaluateTells ==
  ASSUME MonitorInv, NEW rung \in Failing \cup {"ok"}, rung = "ok" => bad = 0, M!Evaluate(rung)
  PROVE  /\ alarm' \in {M!Quiet} \cup 0..Reminder /\ paged' = alarm'
         /\ good' \in {0, good}
         /\ Untold' =>
              /\ alarm' \in 0..(Reminder - 1) => good' <= alarm'
              /\ alarm' = M!Quiet => bad = 0
              /\ alarm' # Reminder
<1> USE MonitorConstants DEF MonitorInv, UntoldIsYoung, Untold, Failing, M!TypeOK, M!Evaluate,
      M!Page, M!Turned, M!Standing, M!Recovered, M!NextState
<1>1. CASE rung = "ok"
  BY <1>1
<1>2. CASE rung # "ok" /\ alarm = M!Quiet
  BY <1>2
<1>3. CASE rung # "ok" /\ alarm \in 0..(Reminder - 1)
  BY <1>3
<1>4. CASE rung # "ok" /\ alarm = Reminder
  BY <1>4
<1> QED
  BY <1>1, <1>2, <1>3, <1>4

\* What UntoldIsYoung says of a check that was just evaluated.
JustEvaluated ==
  Untold' =>
    /\ alarm' \in 0..(Reminder - 1) => good' <= alarm'
    /\ alarm' = M!Quiet => bad = 0
    /\ alarm' # Reminder

\* Just evaluated and asleep again, a check is as young as it must be.
LEMMA EvaluatedIsYoung ==
  ASSUME MonitorInv, JustEvaluated, UNCHANGED bad, pc' = "sleep", sinceFull' \in 0..Interval
  PROVE  UntoldIsYoung'
BY MonitorConstants DEF JustEvaluated, UntoldIsYoung, Untold, BriefTo, SinceRead

\* A check that grows no older stays young.
LEMMA StaysYoung ==
  ASSUME MonitorInv, UNCHANGED <<alarm, heard>>, good' \in {0, good}, bad' \in {0, bad},
         SinceRead' \in Nat, SinceRead' >= SinceRead
  PROVE  UntoldIsYoung'
<1>1. alarm \in {M!Quiet} \cup 0..Reminder /\ good \in Nat /\ bad \in Nat /\ SinceRead \in Nat
  BY MonitorConstants DEF MonitorInv, M!TypeOK, SinceRead
<1>2. good' \in Nat /\ bad' \in Nat /\ good' <= good /\ bad' <= bad
      /\ SinceRead' \in Nat /\ SinceRead' >= SinceRead
      /\ alarm' = alarm /\ heard' = heard
  BY <1>1
<1>3. ASSUME NEW n \in Nat, NEW m \in Nat, n <= m, bad <= n \/ good <= n
      PROVE  bad' <= m \/ good' <= m
  BY <1>1, <1>2, <1>3
<1>4. CASE alarm = M!Quiet
  <2>1. Untold => bad <= SinceRead \/ good <= SinceRead
    BY <1>4 DEF MonitorInv, UntoldIsYoung, BriefTo
  <2>2. Untold => BriefTo(SinceRead)'
    BY <1>1, <1>2, <1>3, <2>1 DEF BriefTo
  <2>3. alarm' = M!Quiet /\ alarm' # Reminder /\ alarm' \notin 0..(Reminder - 1)
    BY <1>2, <1>4, MonitorConstants
  <2> QED
    BY <1>2, <2>2, <2>3 DEF UntoldIsYoung, Untold
<1>5. CASE alarm \in 0..(Reminder - 1)
  BY <1>1, <1>2, <1>5, MonitorConstants DEF MonitorInv, UntoldIsYoung, Untold
<1>6. CASE alarm = Reminder
  <2> DEFINE n == Reminder - 1 + SinceRead
             m == Reminder - 1 + SinceRead'
  <2>1. n \in Nat /\ m \in Nat /\ n <= m
    <3>1. Reminder - 1 \in Nat
      BY MonitorConstants
    <3>2. SinceRead \in Nat /\ SinceRead' \in Nat /\ SinceRead <= SinceRead'
      BY <1>1, <1>2
    <3> QED
      BY <3>1, <3>2
  <2>2. Untold => bad <= n \/ good <= n
    BY <1>6 DEF MonitorInv, UntoldIsYoung, BriefTo
  <2>3. Untold => bad' <= m \/ good' <= m
    <3> HIDE DEF n, m
    <3> QED
      BY <1>3, <2>1, <2>2
  <2>4. alarm' # M!Quiet /\ alarm' = Reminder /\ alarm' \notin 0..(Reminder - 1)
    BY <1>2, <1>6, MonitorConstants
  <2> QED
    BY <1>2, <2>3, <2>4 DEF UntoldIsYoung, Untold, BriefTo
<1> QED
  BY <1>1, <1>4, <1>5, <1>6, MonitorConstants

\* Ageing makes no failing check well.
LEMMA AgeingHeals ==
  ASSUME MonitorInv, M!Tick, M!Rung # "ok"
  PROVE  M!Rung' # "ok"
BY MonitorConstants
   DEF MonitorInv, M!TypeOK, M!Tick, M!Aged, M!Rung, M!WatchdogRung
-----------------------------------------------------------------------------
(* The monitor, action by action. *)

\* The full cycle evaluates every check.
LEMMA FullCycleKeeps ==
  ASSUME MonitorInv, M!FullCycle
  PROVE  MonitorInv'
<1>1. M!Rung \in Failing \cup {"ok"} /\ (M!Rung = "ok" => bad = 0)
  BY RungTyped, MonitorConstants DEF MonitorInv, BadIsFailing, M!TypeOK
<1>2. M!Evaluate(M!Rung) /\ pc' = "sleep" /\ sinceFull' = 0
      /\ UNCHANGED <<check, beat, basis, capable, executor, trouble, database, bad>>
  BY DEF M!FullCycle, M!world
<1>3. /\ alarm' \in {M!Quiet} \cup 0..Reminder /\ paged' = alarm'
      /\ good' \in {0, good} /\ JustEvaluated
  BY <1>1, <1>2, EvaluateTells DEF JustEvaluated
<1>4. UntoldIsYoung'
  BY <1>2, <1>3, EvaluatedIsYoung, MonitorConstants
<1> QED
  BY <1>2, <1>3, <1>4, MonitorConstants
     DEF MonitorInv, M!TypeOK, BadIsFailing, LoopPlaces, M!Rung, M!WatchdogRung

\* With the database down its own check alone is evaluated.
LEMMA DatabaseDownTells ==
  ASSUME MonitorInv, M!DatabaseDown
  PROVE  /\ alarm' \in {M!Quiet} \cup 0..Reminder /\ paged' = alarm'
         /\ good' \in {0, good}
         /\ check = "database" => JustEvaluated
         /\ check # "database" => UNCHANGED <<alarm, heard, good>>
<1>1. CASE check = "database"
  BY <1>1, EvaluateTells DEF M!DatabaseDown, JustEvaluated, Failing
<1>2. CASE check # "database"
  BY <1>2 DEF M!DatabaseDown, M!Untouched, MonitorInv, M!TypeOK
<1> QED
  BY <1>1, <1>2

\* A full cycle that fails, at once or by hanging.
LEMMA FullCycleFailsKeeps ==
  ASSUME MonitorInv, M!FullCycleFails
  PROVE  MonitorInv'
<1>0. pc = "check" /\ sinceFull = Interval /\ database = "down" /\ sinceFull' = 0
      /\ UNCHANGED <<check, beat, basis, capable, executor, trouble, database, bad>>
  BY MonitorConstants DEF M!FullCycleFails, M!Due, M!world, MonitorInv, M!TypeOK
<1>1. CASE M!DatabaseDown /\ pc' = "sleep"
  <2>1. UntoldIsYoung'
    <3>1. CASE check = "database"
      BY <1>0, <1>1, <3>1, DatabaseDownTells, EvaluatedIsYoung, MonitorConstants
    <3>2. CASE check # "database"
      <4>1. good = 0 /\ good' = 0 /\ UNCHANGED <<alarm, heard>>
        BY <1>0, <1>1, <3>2, DatabaseDownTells DEF MonitorInv, BadIsFailing
      <4> QED
        BY <1>0, <1>1, <4>1, MonitorConstants
           DEF MonitorInv, M!TypeOK, UntoldIsYoung, Untold, BriefTo, SinceRead
    <3> QED
      BY <3>1, <3>2
  <2> QED
    BY <1>0, <1>1, <2>1, DatabaseDownTells, MonitorConstants
       DEF MonitorInv, M!TypeOK, BadIsFailing, LoopPlaces, M!Rung, M!WatchdogRung
<1>2. CASE M!Untouched /\ pc' = "hung"
  <2>1. UntoldIsYoung'
    BY <1>0, <1>2, StaysYoung, MonitorConstants DEF M!Untouched, SinceRead
  <2> QED
    BY <1>0, <1>2, <2>1, MonitorConstants
       DEF MonitorInv, M!TypeOK, M!Untouched, BadIsFailing, LoopPlaces, M!Rung, M!WatchdogRung
<1> QED
  BY <1>1, <1>2 DEF M!FullCycleFails

\* A hung cycle meets its ceiling.
LEMMA CeilingTripsKeeps ==
  ASSUME MonitorInv, M!CeilingTrips
  PROVE  MonitorInv'
<1>0. pc = "expired" /\ pc' = "sleep" /\ sinceFull = 1 /\ sinceFull' = 1 /\ M!DatabaseDown
      /\ UNCHANGED <<check, beat, basis, capable, executor, trouble, database, bad>>
  BY DEF M!CeilingTrips, M!world, MonitorInv, LoopPlaces
<1>1. UntoldIsYoung'
  <2>1. CASE check = "database"
    BY <1>0, <2>1, DatabaseDownTells, EvaluatedIsYoung, MonitorConstants
  <2>2. CASE check # "database"
    <3>1. good <= 1 /\ UNCHANGED <<alarm, heard, good>>
      BY <1>0, <2>2, DatabaseDownTells DEF MonitorInv, LoopPlaces
    <3> QED
      BY <1>0, <3>1, MonitorConstants
         DEF MonitorInv, M!TypeOK, UntoldIsYoung, Untold, BriefTo, SinceRead
  <2> QED
    BY <2>1, <2>2
<1> QED
  BY <1>0, <1>1, DatabaseDownTells, MonitorConstants
     DEF MonitorInv, M!TypeOK, BadIsFailing, LoopPlaces, M!Rung, M!WatchdogRung

\* The fast cadence, run or dropped.
LEMMA LivenessKeeps ==
  ASSUME MonitorInv, M!LivenessCycle \/ M!LivenessDropped
  PROVE  MonitorInv'
<1>0. pc = "check" /\ pc' = "sleep" /\ sinceFull \in 0..(Interval - 1)
      /\ UNCHANGED <<check, beat, basis, capable, executor, trouble, database, bad, sinceFull>>
  BY MonitorConstants
     DEF M!LivenessCycle, M!LivenessDropped, M!Due, M!world, M!history, MonitorInv, M!TypeOK
<1>1. CASE check = "watchdog" /\ M!Evaluate(M!WatchdogRung)
  <2>1. M!Rung = M!WatchdogRung
    BY <1>1 DEF M!Rung
  <2>2. M!Rung \in Failing \cup {"ok"} /\ (M!Rung = "ok" => bad = 0)
    BY RungTyped, MonitorConstants DEF MonitorInv, BadIsFailing, M!TypeOK
  <2>3. /\ alarm' \in {M!Quiet} \cup 0..Reminder /\ paged' = alarm'
        /\ good' \in {0, good} /\ JustEvaluated
    BY <1>1, <2>1, <2>2, EvaluateTells DEF JustEvaluated
  <2>4. UntoldIsYoung'
    BY <1>0, <2>3, EvaluatedIsYoung, MonitorConstants
  <2> QED
    BY <1>0, <2>3, <2>4, MonitorConstants
       DEF MonitorInv, M!TypeOK, BadIsFailing, LoopPlaces, M!Rung, M!WatchdogRung
<1>2. CASE UNCHANGED <<alarm, heard, paged, good>>
  <2>1. UntoldIsYoung'
    BY <1>0, <1>2, StaysYoung, MonitorConstants DEF SinceRead
  <2> QED
    BY <1>0, <1>2, <2>1, MonitorConstants
       DEF MonitorInv, M!TypeOK, BadIsFailing, LoopPlaces, M!Rung, M!WatchdogRung
<1> QED
  BY <1>1, <1>2 DEF M!LivenessCycle, M!LivenessDropped, M!Untouched, M!history

\* A tick of time: the failure and the alerting state grow older together.
LEMMA TickKeeps ==
  ASSUME MonitorInv, M!Tick
  PROVE  MonitorInv'
<1>0. /\ bad \in 0..M!Settled /\ good \in 0..M!Settled /\ sinceFull \in 0..Interval
      /\ alarm \in {M!Quiet} \cup 0..Reminder /\ paged = alarm
      /\ pc \in {"sleep", "hung"} /\ pc' = (IF pc = "hung" THEN "expired" ELSE "check")
      /\ UNCHANGED <<check, capable, executor, trouble, database, heard>>
      /\ sinceFull' = (IF sinceFull = Interval THEN sinceFull ELSE sinceFull + 1)
      /\ alarm' = M!Aged(alarm, Reminder) /\ paged' = M!Aged(paged, Reminder)
      /\ bad' = (IF M!Rung = "ok" THEN 0 ELSE M!Aged(bad, M!Settled))
      /\ good' = (IF database = "down" /\ check # "database" THEN 0 ELSE M!Aged(good, M!Settled))
  BY DEF M!Tick, MonitorInv, M!TypeOK
<1>1. /\ bad' \in 0..M!Settled /\ bad' <= bad + 1
      /\ good' \in 0..M!Settled /\ good' <= good + 1
      /\ sinceFull' \in 0..Interval
      /\ alarm' \in {M!Quiet} \cup 0..Reminder
      /\ alarm = M!Quiet => alarm' = M!Quiet
      /\ alarm \in 0..(Reminder - 1) => alarm' = alarm + 1
      /\ alarm = Reminder => alarm' = Reminder
  BY <1>0, MonitorConstants DEF M!Aged
<1>2. M!TypeOK'
  <2>1. beat' \in {M!Never} \cup 0..M!BeatCap /\ basis' \in {M!Never} \cup 0..(Unverified + 1)
    BY MonitorConstants DEF M!Tick, M!Aged, MonitorInv, M!TypeOK
  <2> QED
    BY <1>0, <1>1, <2>1 DEF MonitorInv, M!TypeOK
<1>3. BadIsFailing'
  <2>1. bad' > 0 => M!Rung # "ok"
    BY <1>0
  <2> QED
    BY <1>0, <2>1, AgeingHeals DEF BadIsFailing
<1>4. LoopPlaces'
  BY <1>0, <1>1, MonitorConstants DEF MonitorInv, LoopPlaces
<1>5. SinceRead \in Nat /\ SinceRead' \in Nat /\ SinceRead' >= SinceRead + 1
  BY <1>0, MonitorConstants DEF MonitorInv, LoopPlaces, SinceRead
<1>6. UntoldIsYoung'
  <2>1. ASSUME NEW n \in Nat, BriefTo(n)
        PROVE  bad' <= n + 1 \/ good' <= n + 1
    BY <1>0, <1>1, <2>1, MonitorConstants DEF BriefTo
  <2>2. CASE alarm = M!Quiet
    BY <1>0, <1>1, <1>5, <2>1, <2>2, MonitorConstants
       DEF MonitorInv, UntoldIsYoung, Untold, BriefTo
  <2>3. CASE alarm \in 0..(Reminder - 1)
    BY <1>0, <1>1, <1>5, <2>3, MonitorConstants
       DEF MonitorInv, UntoldIsYoung, Untold, BriefTo
  <2>4. CASE alarm = Reminder
    <3>1. Untold => BriefTo(Reminder - 1 + SinceRead)
      BY <2>4 DEF MonitorInv, UntoldIsYoung
    <3>2. Untold => bad' <= Reminder + SinceRead \/ good' <= Reminder + SinceRead
      BY <1>5, <2>1, <3>1, MonitorConstants
    <3> QED
      BY <1>0, <1>1, <1>5, <2>4, <3>2, MonitorConstants DEF UntoldIsYoung, Untold, BriefTo
  <2> QED
    BY <1>0, <2>2, <2>3, <2>4, MonitorConstants
<1> QED
  BY <1>0, <1>2, <1>3, <1>4, <1>6 DEF MonitorInv

\* A restarted monitor starts from quiet with a full cycle due.
LEMMA RestartKeeps ==
  ASSUME MonitorInv, M!Restart
  PROVE  MonitorInv'
<1>0. pc' = "check" /\ sinceFull' = Interval /\ alarm' = M!Quiet /\ paged' = M!Never /\ good' = 0
      /\ UNCHANGED <<check, beat, basis, capable, executor, trouble, database, heard, bad>>
  BY DEF M!Restart, M!world
<1>1. UntoldIsYoung'
  BY <1>0, MonitorConstants DEF UntoldIsYoung, BriefTo, SinceRead
<1> QED
  BY <1>0, <1>1, MonitorConstants
     DEF MonitorInv, M!TypeOK, BadIsFailing, LoopPlaces, M!Rung, M!WatchdogRung

\* What the check reads changes, and only makes the check younger.
LEMMA WorldKeeps ==
  ASSUME MonitorInv, M!World, beat' \in {M!Never} \cup 0..M!BeatCap,
         basis' \in {M!Never} \cup 0..(Unverified + 1),
         trouble' \in {"ok", "warning", "critical"}, database' \in {"up", "down"}
  PROVE  MonitorInv'
<1>0. /\ UNCHANGED <<check, pc, sinceFull, alarm, heard, paged>>
      /\ good' = (IF database' = "down" /\ check # "database" THEN 0 ELSE good)
      /\ bad' = (IF M!Rung' = "ok" THEN 0 ELSE bad)
      /\ bad \in 0..M!Settled /\ good \in 0..M!Settled
  BY DEF M!World, M!loop, MonitorInv, M!TypeOK
<1>1. good' \in {0, good} /\ bad' \in {0, bad}
  BY <1>0
<1>2. SinceRead' = SinceRead /\ SinceRead \in Nat
  BY <1>0, MonitorConstants DEF SinceRead, MonitorInv, M!TypeOK
<1>3. UntoldIsYoung'
  BY <1>0, <1>1, <1>2, StaysYoung
<1>4. BadIsFailing'
  BY <1>0 DEF BadIsFailing
<1>5. LoopPlaces'
  BY <1>0, <1>1, MonitorConstants DEF MonitorInv, LoopPlaces
<1>6. M!TypeOK'
  BY <1>0, <1>1, MonitorConstants DEF MonitorInv, M!TypeOK
<1> QED
  BY <1>0, <1>3, <1>4, <1>5, <1>6 DEF MonitorInv

\* Every step of the monitor and of what it watches preserves its invariant.
LEMMA MonitorStep ==
  ASSUME MonitorInv, M!Next
  PROVE  MonitorInv'
<1>0. /\ beat \in {M!Never} \cup 0..M!BeatCap /\ basis \in {M!Never} \cup 0..(Unverified + 1)
      /\ trouble \in {"ok", "warning", "critical"} /\ database \in {"up", "down"}
  BY DEF MonitorInv, M!TypeOK
<1>1. CASE M!WatchdogBeats
  BY <1>0, <1>1, WorldKeeps, MonitorConstants DEF M!WatchdogBeats
<1>2. CASE M!WatchdogProbes
  BY <1>0, <1>2, WorldKeeps, MonitorConstants DEF M!WatchdogProbes
<1>3. CASE M!ExecutorBeats
  BY <1>0, <1>3, WorldKeeps DEF M!ExecutorBeats
<1>4. CASE M!Turns
  BY <1>0, <1>4, WorldKeeps, RungsOfOthers DEF M!Turns
<1>5. CASE M!Database
  BY <1>0, <1>5, WorldKeeps DEF M!Database
<1>6. CASE M!DayPasses
  BY <1>6 DEF M!DayPasses, M!world, M!history, MonitorInv, M!TypeOK, BadIsFailing, LoopPlaces,
       UntoldIsYoung, Untold, BriefTo, SinceRead, M!Rung, M!WatchdogRung
<1> QED
  BY <1>1, <1>2, <1>3, <1>4, <1>5, <1>6, FullCycleKeeps, FullCycleFailsKeeps, CeilingTripsKeeps,
     LivenessKeeps, TickKeeps, RestartKeeps DEF M!Next
-----------------------------------------------------------------------------
(* The dead-man's switch: the invariant. *)

\* An attempt is due again when half the horizon is gone: within the window
\* nothing waits.
WaitEndsInTime == left > 0 => wait = 0 \/ left - wait >= Horizon - Horizon \div 2

\* A schedule that no attempt was made against, and no stretch outran a step
\* under, is still far from its horizon: each place of the loop leaves what the
\* next stretch may take, and a budget that was spent was spent beyond the
\* window, a refill ago at most.
Unattempted == left > 0 /\ ~tried /\ ~overran
SpentFar == left > D!Window + StepBound - PulseRefill + refill
UntriedIsFar ==
  Unattempted =>
    /\ place \in {"boundary", "pulse", "maintain"} => left >= Ceiling
    /\ place = "pushed" => left >= D!Window + StepBound
    /\ place = "beat" => left > D!Window + BeatCeiling
    /\ place = "step" => left > D!Window
    /\ place = "rest" => left >= D!Window
    /\ pushed = 0 => left > D!Window
    /\ place \in {"boundary", "pulse", "beat", "step"} /\ spent = 1 /\ refill > 0 => SpentFar

\* A spent budget is being refilled, and is whole again when the window is past.
SpentIsRefilled ==
  spent = 1 => refill < PulseRefill /\ (place = "pulse" => refill > 0)

SwitchInv ==
  /\ D!TypeOK /\ D!DeadlineIsConservative
  /\ WaitEndsInTime /\ UntriedIsFar /\ SpentIsRefilled
  /\ place = "start" => left = 0
-----------------------------------------------------------------------------
(* The dead-man's switch: one step at a time. *)

\* The arithmetic the steps need of the constants.
LEMMA SwitchConstants ==
  /\ Horizon \in Nat /\ Reprobe \in Nat /\ PulseRefill \in Nat \ {0} /\ BeatCeiling \in Nat
  /\ Ceiling \in Nat \ {0} /\ StepBound \in Nat \ {0} /\ Durations \subseteq Nat
  /\ Horizon \div 2 \in Nat /\ Horizon \div 2 <= Horizon - Horizon \div 2
  /\ D!Window = StepBound + Ceiling /\ D!Window \in Nat
  /\ D!Window + BeatCeiling <= Horizon \div 2 /\ Horizon \div 2 <= Reprobe
  /\ Ceiling <= PulseRefill /\ PulseRefill + BeatCeiling <= StepBound
  /\ D!PulseInterval = 1
BY ExchangeAssumption DEF D!SwitchAssumption, D!Window, D!PulseInterval

SwitchFar == Horizon - Horizon \div 2

\* What the fields of the switch are while it keeps its types.
SwitchTyped ==
  /\ left \in 0..Horizon /\ real \in 0..Horizon /\ wait \in 0..Reprobe
  /\ state \in D!States /\ trail \in D!States

PastTyped == tried \in BOOLEAN /\ overran \in BOOLEAN

\* A step on the schedule: set afresh, left alone, or run down with or without
\* an attempt having been made against it.
SetAfresh(d) == left' = D!Max0(Horizon - d) /\ (~overran' => d <= StepBound)
LeftAlone(d) == d = 0 /\ wait > 0 /\ left' = left /\ tried' = tried /\ overran' = overran
RunsDown(d) ==
  /\ wait = 0 /\ left' = D!Max0(left - d)
  /\ left > 0 /\ ~tried' => ~tried /\ left \notin Ceiling..(D!Window + StepBound)
  /\ ~overran' => ~overran /\ d <= StepBound

\* One attempt sets the schedule afresh, or lets it run down and has been made.
LEMMA AttemptIsOneOf ==
  ASSUME SwitchTyped, D!DeadlineIsConservative, wait = 0, PastTyped,
         NEW d \in Nat, NEW capped, D!Attempt(d, capped)
  PROVE  /\ SwitchTyped' /\ D!DeadlineIsConservative' /\ WaitEndsInTime' /\ PastTyped'
         /\ SetAfresh(d) \/ RunsDown(d)
<1>1. /\ left' \in 0..Horizon /\ real' \in 0..Horizon /\ left' <= real'
      /\ left' = D!Max0(Horizon - d) \/ left' = D!Max0(left - d)
  <2>1. CASE D!Accepted(d)
    BY SwitchConstants, <2>1 DEF D!Accepted, D!Max0
  <2>2. CASE D!Ambiguous(d)
    BY SwitchConstants, <2>2 DEF D!Ambiguous, D!Max0, SwitchTyped, D!DeadlineIsConservative
  <2>3. CASE D!Rejected(d)
    BY SwitchConstants, <2>3 DEF D!Rejected, D!Max0, SwitchTyped, D!DeadlineIsConservative
  <2> QED
    BY <2>1, <2>2, <2>3 DEF D!Attempt
<1>2. /\ state' \in D!States /\ trail' \in D!States
      /\ state' # "unknown" => trail' = state'
  BY DEF SwitchTyped, D!DeadlineIsConservative, D!Attempt, D!Accepted, D!Ambiguous, D!Rejected,
         D!Turns, D!States
<1>3. wait' \in 0..Reprobe /\ (left' > 0 => wait' = 0 \/ left' - wait' >= SwitchFar)
  <2>1. CASE D!Accepted(d)
    BY <2>1, SwitchConstants DEF D!Accepted, D!Max0, SwitchFar
  <2>2. CASE D!Ambiguous(d)
    BY <2>2, SwitchConstants DEF D!Ambiguous
  <2>3. CASE D!Rejected(d)
    BY <2>3, SwitchConstants DEF D!Rejected, D!Defer, D!Max0, SwitchTyped
  <2> QED
    BY <2>1, <2>2, <2>3 DEF D!Attempt
<1>4. PastTyped'
  BY DEF D!Attempt, PastTyped
<1>5. ~overran' => d <= StepBound
  <2>1. ~overran' => ~(d > StepBound)
    BY Zenon DEF D!Attempt
  <2> QED
    BY <2>1, SwitchConstants
<1>6. left' = D!Max0(left - d) =>
        /\ left > 0 /\ ~tried' => ~tried /\ left \notin Ceiling..(D!Window + StepBound)
        /\ ~overran' => ~overran /\ d <= StepBound
  <2>1. left' = D!Max0(left - d) => left' <= left
    BY DEF D!Max0, SwitchTyped
  <2> QED
    BY <2>1, <1>5 DEF D!Attempt
<1> QED
  BY <1>1, <1>2, <1>3, <1>4, <1>5, <1>6
     DEF SwitchTyped, D!DeadlineIsConservative, WaitEndsInTime, SetAfresh, RunsDown, SwitchFar

\* The same where the attempt may not be due yet.
LEMMA MaintainIsOneOf ==
  ASSUME SwitchTyped, D!DeadlineIsConservative, WaitEndsInTime, PastTyped,
         NEW d \in Nat, NEW capped, D!Maintain(d, capped)
  PROVE  /\ SwitchTyped' /\ D!DeadlineIsConservative' /\ WaitEndsInTime' /\ PastTyped'
         /\ SetAfresh(d) \/ LeftAlone(d) \/ RunsDown(d)
<1>1. CASE wait > 0
  BY <1>1 DEF D!Maintain, D!NotDue, D!switch, D!past, SwitchTyped, PastTyped,
              D!DeadlineIsConservative, WaitEndsInTime, LeftAlone
<1>2. CASE wait = 0
  BY <1>2, AttemptIsOneOf DEF D!Maintain
<1> QED
  BY <1>1, <1>2 DEF SwitchTyped

\* A stretch that a schedule outlives was no longer than a step.
LEMMA StretchIsBounded ==
  ASSUME NEW d \in Nat, D!Stretch(d)
  PROVE  tried' = tried /\ (~overran' => ~overran /\ d <= StepBound)
<1>1. ~overran' => ~overran /\ ~(d > StepBound)
  BY Zenon DEF D!Stretch
<1> QED
  BY <1>1, SwitchConstants DEF D!Stretch

\* Time alone passes.
LEMMA TimeRunsDown ==
  ASSUME SwitchTyped, D!DeadlineIsConservative, WaitEndsInTime, NEW d \in Nat,
         left' = D!Max0(left - d), real' = D!Max0(real - d), wait' = D!Max0(wait - d),
         UNCHANGED <<state, trail>>
  PROVE  SwitchTyped' /\ D!DeadlineIsConservative' /\ WaitEndsInTime'
BY SwitchConstants DEF SwitchTyped, D!DeadlineIsConservative, WaitEndsInTime, D!Max0

\* What is left of the type invariant.
LegsTyped ==
  /\ spent \in 0..1 /\ beaten \in 0..1 /\ refill \in 0..PulseRefill
  /\ pulsed \in 0..1 /\ pushed \in 0..1
  /\ place \in {"start", "rest", "boundary", "pulse", "pushed", "beat", "step", "maintain"}
  /\ PastTyped

\* The type invariant, by the variables a push and a pulse change.
LEMMA SwitchTypes == D!TypeOK <=> SwitchTyped /\ LegsTyped
BY DEF D!TypeOK, D!PulseInterval, SwitchTyped, LegsTyped, PastTyped

\* A schedule never lapses untried but in a restart, or where a stretch outran a
\* step.
NoLapse == left > 0 /\ left' = 0 /\ place' # "start" => tried' \/ overran'

\* What a step has to show.
SwitchAfter ==
  /\ SwitchTyped' /\ LegsTyped' /\ D!DeadlineIsConservative' /\ WaitEndsInTime'
  /\ UntriedIsFar' /\ SpentIsRefilled' /\ (place' = "start" => left' = 0) /\ NoLapse

SwitchBefore ==
  /\ SwitchTyped /\ LegsTyped /\ D!DeadlineIsConservative /\ WaitEndsInTime /\ UntriedIsFar
  /\ SpentIsRefilled
  /\ place = "start" => left = 0

\* Within the window nothing waits, and what waits is far from its horizon.
LEMMA WaitingIsFar ==
  ASSUME SwitchBefore
  PROVE  left > 0 /\ wait > 0 => left > D!Window + BeatCeiling
BY SwitchConstants DEF SwitchBefore, WaitEndsInTime, SwitchTyped

\* A schedule set afresh by a push of a sweep is beyond a step and a window.
LEMMA FreshIsFar ==
  ASSUME NEW d \in Nat, d <= Ceiling, SetAfresh(d)
  PROVE  left' >= D!Window + StepBound /\ left' = Horizon - d
         /\ left' - StepBound - D!Window + d > 0
BY SwitchConstants DEF SetAfresh, D!Max0

\* A pulse begins.
LEMMA RefillKeeps == SwitchBefore /\ D!RefillLegBudgets => SwitchAfter
<1> SUFFICES ASSUME SwitchBefore, D!RefillLegBudgets
             PROVE  SwitchAfter
  OBVIOUS
<1> USE SwitchConstants
<1>1. /\ place = "boundary" /\ place' = "pulse"
      /\ UNCHANGED <<left, real, wait, state, trail, pulsed, pushed, tried, overran>>
      /\ \/ refill = 0 /\ spent' = 0 /\ beaten' = 0 /\ refill' = PulseRefill
         \/ refill # 0 /\ UNCHANGED <<spent, beaten, refill>>
  BY DEF D!RefillLegBudgets, D!switch, D!past
<1>2. SwitchTyped' /\ LegsTyped' /\ D!DeadlineIsConservative' /\ WaitEndsInTime' /\ NoLapse
  BY <1>1 DEF SwitchBefore, SwitchTyped, LegsTyped, PastTyped, D!DeadlineIsConservative,
              WaitEndsInTime, NoLapse
<1>3. UntriedIsFar' /\ SpentIsRefilled'
  BY <1>1 DEF SwitchBefore, LegsTyped, UntriedIsFar, Unattempted, SpentFar, SpentIsRefilled
<1> QED
  BY <1>1, <1>2, <1>3 DEF SwitchAfter

\* The priority push: within the window, so an attempt is made.
LEMMA PriorityPushKeeps == SwitchBefore /\ D!PriorityPush => SwitchAfter
<1> SUFFICES ASSUME SwitchBefore, D!PriorityPush
             PROVE  SwitchAfter
  OBVIOUS
<1> USE SwitchConstants
<1>1. PICK d \in Durations :
        /\ d <= Ceiling /\ D!Maintain(d, d = Ceiling) /\ D!Bill(d) /\ D!LegsAge(d)
        /\ pushed' = D!UpTo(d, D!PulseInterval)
  BY DEF D!PriorityPush
<1>2. d \in Nat /\ d <= Ceiling
  BY <1>1
<1>3. /\ SwitchTyped' /\ D!DeadlineIsConservative' /\ WaitEndsInTime' /\ PastTyped'
      /\ SetAfresh(d) \/ LeftAlone(d) \/ RunsDown(d)
  <2>1. SwitchTyped /\ D!DeadlineIsConservative /\ WaitEndsInTime /\ PastTyped
    BY DEF SwitchBefore, LegsTyped
  <2> QED
    BY <1>1, <1>2, <2>1, MaintainIsOneOf
<1>4. /\ left \in 1..D!Window /\ place \in {"pulse", "pushed"} /\ place' = "pushed"
      /\ left \in Nat /\ beaten' = beaten
  BY DEF D!PriorityPush, D!PriorityDue, D!NearHorizon, SwitchBefore, SwitchTyped
<1>5. LegsTyped' /\ SpentIsRefilled'
  BY <1>1, <1>2, <1>3, <1>4 DEF SwitchBefore, LegsTyped, SpentIsRefilled, D!Bill, D!LegsAge, D!UpTo,
     D!Max0
<1>6. ~tried /\ ~overran => left >= Ceiling
  BY <1>4 DEF SwitchBefore, UntriedIsFar, Unattempted
<1>7. (Unattempted' => left' >= D!Window + StepBound) /\ NoLapse
  <2>1. CASE SetAfresh(d)
    BY <1>2, <2>1, FreshIsFar DEF NoLapse
  <2>2. CASE LeftAlone(d)
    <3>1. left > D!Window
      BY <1>4, <2>2, WaitingIsFar DEF LeftAlone
    <3> QED
      BY <1>4, <3>1
  <2>3. CASE RunsDown(d)
    <3>1. left \in Ceiling..(D!Window + StepBound) \/ left < Ceiling
      BY <1>4
    <3> QED
      BY <1>4, <1>6, <2>3, <3>1 DEF RunsDown, NoLapse, Unattempted
  <2> QED
    BY <1>3, <2>1, <2>2, <2>3
<1>8. left' \in Nat
  BY <1>3 DEF SwitchTyped
<1>9. UntriedIsFar'
  BY <1>4, <1>7, <1>8 DEF UntriedIsFar
<1> QED
  BY <1>3, <1>4, <1>5, <1>7, <1>9 DEF SwitchAfter

\* Between a pulse's priority pushes and what follows, the schedule is outside
\* the window, or an attempt on it is younger than a pulse interval.
LEMMA PulseIsFar ==
  ASSUME SwitchBefore, place \in {"pulse", "pushed"}, ~D!PriorityDue
  PROVE  Unattempted => left > D!Window
BY SwitchConstants
   DEF SwitchBefore, SwitchTyped, LegsTyped, D!PriorityDue, D!NearHorizon, UntriedIsFar, Unattempted

\* A pulse within an interval of the last.
LEMMA ThrottledKeeps == SwitchBefore /\ D!Throttled => SwitchAfter
<1> SUFFICES ASSUME SwitchBefore, D!Throttled
             PROVE  SwitchAfter
  OBVIOUS
<1> USE SwitchConstants
<1>1. /\ place \in {"pulse", "pushed"} /\ place' = "step"
      /\ UNCHANGED <<left, real, wait, state, trail, spent, beaten, refill, pulsed, pushed,
                     tried, overran>>
  BY DEF D!Throttled, D!switch, D!legs, D!past
<1>2. Unattempted => left > D!Window
  BY <1>1, PulseIsFar DEF D!Throttled
<1>3. SwitchTyped' /\ LegsTyped' /\ D!DeadlineIsConservative' /\ WaitEndsInTime' /\ NoLapse
  BY <1>1 DEF SwitchBefore, SwitchTyped, LegsTyped, PastTyped, D!DeadlineIsConservative,
              WaitEndsInTime, NoLapse
<1>4. UntriedIsFar' /\ SpentIsRefilled'
  BY <1>1, <1>2 DEF SwitchBefore, SwitchTyped, LegsTyped, UntriedIsFar, Unattempted, SpentFar,
                    SpentIsRefilled
<1> QED
  BY <1>1, <1>3, <1>4 DEF SwitchAfter

\* The push leg: after it the schedule is a beat further than the window, for it
\* was set or waits, an attempt was made, or the budget was spent on one.
LEMMA PulsePushKeeps == SwitchBefore /\ D!PulsePush => SwitchAfter
<1> SUFFICES ASSUME SwitchBefore, D!PulsePush
             PROVE  SwitchAfter
  OBVIOUS
<1> USE SwitchConstants
<1>1. place \in {"pulse", "pushed"} /\ place' = "beat" /\ left \in Nat /\ beaten' = beaten
      /\ SwitchTyped /\ D!DeadlineIsConservative /\ WaitEndsInTime /\ PastTyped
      /\ spent \in 0..1 /\ refill \in 0..PulseRefill /\ pushed \in 0..1 /\ LegsTyped
  BY DEF D!PulsePush, SwitchBefore, SwitchTyped, LegsTyped
<1>2. Unattempted => left > D!Window
  BY <1>1, PulseIsFar DEF D!PulsePush
<1>3. ASSUME place = "pushed" \/ spent = 1,
             UNCHANGED <<left, real, wait, state, trail, spent, refill, pushed, tried, overran>>,
             pulsed' = 0
      PROVE  SwitchAfter
  <2>1. SwitchTyped' /\ LegsTyped' /\ D!DeadlineIsConservative' /\ WaitEndsInTime' /\ NoLapse
        /\ SpentIsRefilled'
    BY <1>1, <1>3 DEF SwitchBefore, SwitchTyped, LegsTyped, PastTyped, D!DeadlineIsConservative,
                      WaitEndsInTime, NoLapse, SpentIsRefilled
  <2>2. Unattempted =>
          /\ left > D!Window + BeatCeiling
          /\ spent = 1 /\ refill > 0 => SpentFar
    BY <1>1, <1>3 DEF SwitchBefore, UntriedIsFar, SpentFar, SpentIsRefilled
  <2>3. UntriedIsFar'
    BY <1>1, <1>2, <1>3, <2>2 DEF UntriedIsFar, Unattempted, SpentFar
  <2> QED
    BY <1>1, <2>1, <2>3 DEF SwitchAfter
<1>4. ASSUME place = "pulse", spent = 0,
             NEW d \in Durations, d <= Ceiling, D!Maintain(d, d = Ceiling), D!Bill(d),
             refill' = D!Max0(refill - d), pulsed' = D!UpTo(d, D!PulseInterval),
             pushed' = D!UpTo(pushed + d, D!PulseInterval)
      PROVE  SwitchAfter
  <2>1. d \in Nat /\ d <= Ceiling
    BY <1>4
  <2>2. /\ SwitchTyped' /\ D!DeadlineIsConservative' /\ WaitEndsInTime' /\ PastTyped'
        /\ SetAfresh(d) \/ LeftAlone(d) \/ RunsDown(d)
    BY <1>1, <1>4, <2>1, MaintainIsOneOf
  <2>3. LegsTyped' /\ SpentIsRefilled'
    BY <1>1, <1>4, <2>1, <2>2 DEF SwitchBefore, LegsTyped, SpentIsRefilled, D!Bill, D!UpTo, D!Max0
  <2>4. (spent' = 1 => d >= 1) /\ refill' \in Nat /\ (refill' > 0 => refill' + d <= PulseRefill)
    BY <1>1, <1>4, <2>1 DEF D!Bill, D!UpTo, D!Max0
  <2>5. /\ NoLapse
        /\ Unattempted' =>
             /\ left' > D!Window + BeatCeiling
             /\ spent' = 1 => left' + d > D!Window + StepBound
    <3>1. CASE SetAfresh(d)
      BY <2>1, <3>1, FreshIsFar DEF NoLapse
    <3>2. CASE LeftAlone(d)
      BY <1>1, <2>4, <3>2, WaitingIsFar DEF LeftAlone, NoLapse, Unattempted
    <3>3. CASE RunsDown(d)
      <4>1. left > 0 /\ ~tried' /\ ~overran' => left > D!Window + StepBound
        BY <1>1, <1>2, <3>3 DEF RunsDown, Unattempted
      <4>2. left' = D!Max0(left - d)
        BY <3>3 DEF RunsDown
      <4> QED
        BY <1>1, <2>1, <4>1, <4>2 DEF NoLapse, Unattempted, D!Max0
    <3> QED
      BY <2>2, <3>1, <3>2, <3>3
  <2>6. left' \in Nat
    BY <2>2 DEF SwitchTyped
  <2>7. Unattempted' /\ spent' = 1 /\ refill' > 0 => SpentFar'
    <3>1. SUFFICES ASSUME Unattempted', spent' = 1, refill' > 0
                   PROVE  SpentFar'
      OBVIOUS
    <3>2. left' + d > D!Window + StepBound /\ refill' + d <= PulseRefill /\ refill' \in Nat
      BY <2>4, <2>5, <3>1
    <3>3. left' > D!Window + StepBound - PulseRefill + refill'
      <4>1. {D!Window, StepBound, PulseRefill, d, left'} \subseteq Nat
        BY <2>1, <2>6
      <4> HIDE SwitchConstants
      <4> QED
        BY <3>2, <4>1
    <3> QED
      BY <3>3 DEF SpentFar, D!Window
  <2>8. UntriedIsFar'
    BY <1>1, <2>5, <2>6, <2>7 DEF UntriedIsFar
  <2> QED
    BY <1>1, <2>2, <2>3, <2>5, <2>8 DEF SwitchAfter
<1>5. spent < 1 <=> spent = 0
  BY <1>1
<1>6. CASE place = "pulse" /\ spent = 0
  BY <1>4, <1>5, <1>6 DEF D!PulsePush
<1>7. CASE ~(place = "pulse" /\ spent = 0)
  <2>1. place = "pushed" \/ spent = 1
    BY <1>1, <1>7
  <2> QED
    BY <1>3, <1>5, <1>7, <2>1 DEF D!PulsePush, D!switch, D!past
<1> QED
  BY <1>6, <1>7

\* What time that passes leaves of a spent budget: it and the refill age alike.
LEMMA SpentAges ==
  ASSUME SwitchBefore, NEW d \in Nat, left' = D!Max0(left - d), refill' = D!Max0(refill - d),
         spent' = spent, place \in {"beat", "step"}, Unattempted, left' > 0
  PROVE  spent' = 1 /\ refill' > 0 => SpentFar'
BY SwitchConstants
   DEF SwitchBefore, SwitchTyped, LegsTyped, UntriedIsFar, Unattempted, SpentFar, D!Max0

\* The beat leg: the schedule is still outside the window when it ends.
LEMMA BeatLegKeeps == SwitchBefore /\ D!BeatLeg => SwitchAfter
<1> SUFFICES ASSUME SwitchBefore, D!BeatLeg
             PROVE  SwitchAfter
  OBVIOUS
<1> USE SwitchConstants
<1>1. PICK d \in Durations :
        /\ d <= (IF beaten < D!PulseInterval THEN BeatCeiling ELSE 0) /\ D!Passes(d)
        /\ beaten' = D!UpTo(beaten + d, D!PulseInterval)
  BY DEF D!BeatLeg
<1>2. place = "beat" /\ place' = "step" /\ left \in Nat /\ d \in Nat /\ d <= BeatCeiling
      /\ left' = D!Max0(left - d) /\ refill' = D!Max0(refill - d)
      /\ UNCHANGED <<state, trail, spent, tried, overran>>
  BY <1>1 DEF D!BeatLeg, D!Passes, D!LegsAge, D!past, SwitchBefore, SwitchTyped
<1>3. SwitchTyped' /\ D!DeadlineIsConservative' /\ WaitEndsInTime'
  BY <1>1, <1>2, TimeRunsDown DEF SwitchBefore, D!Passes
<1>4. LegsTyped' /\ SpentIsRefilled'
  BY <1>1, <1>2 DEF SwitchBefore, LegsTyped, PastTyped, SpentIsRefilled, D!Passes, D!LegsAge,
                    D!UpTo, D!Max0
<1>5. Unattempted => left > D!Window + BeatCeiling
  BY <1>2 DEF SwitchBefore, UntriedIsFar
<1>6. left' \in Nat /\ (left' > 0 => left > 0)
  BY <1>2 DEF D!Max0
<1>7. Unattempted' => Unattempted /\ left' > D!Window
  BY <1>2, <1>5, <1>6 DEF Unattempted, D!Max0
<1>8. NoLapse
  BY <1>2, <1>5 DEF NoLapse, Unattempted, D!Max0
<1>9. Unattempted' /\ spent' = 1 /\ refill' > 0 => SpentFar'
  BY <1>2, <1>7, SpentAges DEF Unattempted
<1>10. UntriedIsFar'
  BY <1>2, <1>7, <1>9 DEF UntriedIsFar
<1> QED
  BY <1>2, <1>3, <1>4, <1>8, <1>10 DEF SwitchAfter

\* A read or a cancel starts with the schedule outside the window.
LEMMA SweepStepKeeps == SwitchBefore /\ D!SweepStep => SwitchAfter
<1> SUFFICES ASSUME SwitchBefore, D!SweepStep
             PROVE  SwitchAfter
  OBVIOUS
<1> USE SwitchConstants
<1>1. PICK d \in Durations : D!Passes(d) /\ D!Stretch(d)
  BY DEF D!SweepStep
<1>0. tried' = tried /\ (~overran' => ~overran /\ d <= StepBound)
  BY <1>1, StretchIsBounded
<1>2. place = "step" /\ place' \in {"boundary", "maintain"} /\ left \in Nat /\ d \in Nat
      /\ left' = D!Max0(left - d) /\ refill' = D!Max0(refill - d) /\ tried' = tried
      /\ (~overran' => ~overran /\ d <= StepBound)
      /\ UNCHANGED <<state, trail, spent, beaten>>
  BY <1>0, <1>1 DEF D!SweepStep, D!Passes, D!LegsAge, SwitchBefore, SwitchTyped
<1>3. SwitchTyped' /\ D!DeadlineIsConservative' /\ WaitEndsInTime'
  BY <1>1, <1>2, TimeRunsDown DEF SwitchBefore, D!Passes
<1>4. overran' \in BOOLEAN
  BY <1>1 DEF D!Stretch, SwitchBefore, LegsTyped, PastTyped
<1>5. LegsTyped' /\ SpentIsRefilled'
  BY <1>1, <1>2, <1>4 DEF SwitchBefore, LegsTyped, PastTyped, SpentIsRefilled, D!Passes, D!LegsAge,
                          D!UpTo, D!Max0
<1>6. Unattempted => left > D!Window
  BY <1>2 DEF SwitchBefore, UntriedIsFar
<1>7. left' \in Nat /\ (left' > 0 => left > 0)
  BY <1>2 DEF D!Max0
<1>8. Unattempted' => Unattempted /\ left' >= Ceiling /\ (pushed' = 0 => left' > D!Window)
  <2>1. pushed' = 0 => d = 0
    BY <1>1, <1>2 DEF D!Passes, D!UpTo, SwitchBefore, LegsTyped
  <2> QED
    BY <1>2, <1>6, <1>7, <2>1 DEF Unattempted, D!Max0
<1>9. NoLapse
  BY <1>2, <1>6 DEF NoLapse, Unattempted, D!Max0
<1>10. Unattempted' /\ spent' = 1 /\ refill' > 0 => SpentFar'
  BY <1>2, <1>8, SpentAges DEF Unattempted
<1>11. UntriedIsFar'
  BY <1>2, <1>8, <1>10 DEF UntriedIsFar
<1> QED
  BY <1>2, <1>3, <1>5, <1>9, <1>11 DEF SwitchAfter

\* The loop's own call of the switch, before it rests.
LEMMA LoopMaintainKeeps == SwitchBefore /\ D!LoopMaintain => SwitchAfter
<1> SUFFICES ASSUME SwitchBefore, D!LoopMaintain
             PROVE  SwitchAfter
  OBVIOUS
<1> USE SwitchConstants
<1>1. PICK d \in Durations :
        /\ D!Maintain(d, FALSE) /\ D!LegsAge(d)
        /\ pushed' = D!UpTo(pushed + d, D!PulseInterval)
  BY DEF D!LoopMaintain
<1>2. place = "maintain" /\ place' = "rest" /\ left \in Nat /\ d \in Nat
      /\ spent' = spent /\ beaten' = beaten
  BY <1>1 DEF D!LoopMaintain, SwitchBefore, SwitchTyped
<1>3. /\ SwitchTyped' /\ D!DeadlineIsConservative' /\ WaitEndsInTime' /\ PastTyped'
      /\ SetAfresh(d) \/ LeftAlone(d) \/ RunsDown(d)
  <2>1. SwitchTyped /\ D!DeadlineIsConservative /\ WaitEndsInTime /\ PastTyped
    BY DEF SwitchBefore, LegsTyped
  <2> QED
    BY <1>1, <1>2, <2>1, MaintainIsOneOf
<1>4. LegsTyped' /\ SpentIsRefilled'
  BY <1>1, <1>2, <1>3 DEF SwitchBefore, LegsTyped, SpentIsRefilled, D!LegsAge, D!UpTo, D!Max0
<1>5. Unattempted => left >= Ceiling /\ (pushed = 0 => left > D!Window)
  BY <1>2 DEF SwitchBefore, UntriedIsFar
<1>6. left' \in Nat
  BY <1>3 DEF SwitchTyped
<1>7. NoLapse /\ (Unattempted' => left' > D!Window)
  <2>1. CASE SetAfresh(d)
    <3>1. ~overran' => left' = Horizon - d /\ left' > D!Window
      BY <1>2, <2>1 DEF SetAfresh, D!Max0
    <3> QED
      BY <3>1 DEF NoLapse, Unattempted
  <2>2. CASE LeftAlone(d)
    BY <1>2, <2>2, WaitingIsFar DEF LeftAlone, NoLapse, Unattempted
  <2>3. CASE RunsDown(d)
    <3>1. left > 0 /\ ~tried' /\ ~overran' => left > D!Window + StepBound /\ d <= StepBound
      BY <1>2, <1>5, <2>3 DEF RunsDown, Unattempted
    <3>2. left' = D!Max0(left - d)
      BY <2>3 DEF RunsDown
    <3> QED
      BY <1>2, <3>1, <3>2 DEF NoLapse, Unattempted, D!Max0
  <2> QED
    BY <1>3, <2>1, <2>2, <2>3
<1>8. UntriedIsFar'
  BY <1>2, <1>6, <1>7 DEF UntriedIsFar
<1> QED
  BY <1>2, <1>3, <1>4, <1>7, <1>8 DEF SwitchAfter

\* The rest ends: what it left outlasts a stretch no longer than a step.
LEMMA CycleBeginsKeeps == SwitchBefore /\ D!CycleBegins => SwitchAfter
<1> SUFFICES ASSUME SwitchBefore, D!CycleBegins
             PROVE  SwitchAfter
  OBVIOUS
<1> USE SwitchConstants
<1>1. PICK d \in Durations, young \in Durations :
        /\ young <= d /\ D!Stretch(d)
        /\ left' = D!Max0(left - d) /\ real' = D!Max0(real - d) /\ wait' = D!Max0(wait - d)
        /\ pushed' = D!UpTo(pushed + d, D!PulseInterval) /\ refill' = D!Max0(PulseRefill - young)
        /\ \/ /\ pulsed' = D!UpTo(young, D!PulseInterval)
              /\ beaten' \in {0, D!UpTo(young, D!PulseInterval)}
           \/ pulsed' = D!UpTo(pulsed + d, D!PulseInterval) /\ beaten' = 0
  BY DEF D!CycleBegins
<1>0. tried' = tried /\ (~overran' => ~overran /\ d <= StepBound)
  BY <1>1, StretchIsBounded
<1>2. place \in {"start", "rest"} /\ place' \in {"boundary", "maintain"}
      /\ left \in Nat /\ d \in Nat /\ young \in Nat
      /\ UNCHANGED <<state, trail, tried>> /\ spent' = 0
      /\ (~overran' => ~overran /\ d <= StepBound)
  BY <1>0, <1>1 DEF D!CycleBegins, SwitchBefore, SwitchTyped
<1>3. SwitchTyped' /\ D!DeadlineIsConservative' /\ WaitEndsInTime'
  BY <1>1, <1>2, TimeRunsDown DEF SwitchBefore
<1>4. LegsTyped' /\ SpentIsRefilled'
  <2>1. overran' \in BOOLEAN
    BY <1>1 DEF D!Stretch, SwitchBefore, LegsTyped, PastTyped
  <2>2. pulsed' \in 0..1 /\ beaten' \in 0..1 /\ pushed' \in 0..1 /\ refill' \in 0..PulseRefill
    BY <1>1, <1>2 DEF SwitchBefore, LegsTyped, D!UpTo, D!Max0
  <2> QED
    BY <1>2, <2>1, <2>2 DEF SwitchBefore, LegsTyped, PastTyped, SpentIsRefilled
<1>5. Unattempted => left >= D!Window /\ (pushed = 0 => left > D!Window)
  BY <1>2 DEF SwitchBefore, UntriedIsFar, Unattempted
<1>6. left' \in Nat /\ (left' > 0 => left > 0)
  BY <1>1, <1>2 DEF D!Max0
<1>7. Unattempted' => left' >= Ceiling /\ (pushed' = 0 => left' > D!Window)
  <2>1. pushed' = 0 => d = 0 /\ pushed = 0
    BY <1>1, <1>2 DEF D!UpTo, SwitchBefore, LegsTyped
  <2> QED
    BY <1>1, <1>2, <1>5, <1>6, <2>1 DEF Unattempted, D!Max0
<1>8. NoLapse
  BY <1>1, <1>2, <1>5 DEF NoLapse, Unattempted, D!Max0
<1>9. UntriedIsFar'
  BY <1>2, <1>7 DEF UntriedIsFar
<1> QED
  BY <1>2, <1>3, <1>4, <1>8, <1>9 DEF SwitchAfter

\* A restarted watchdog knows of no schedule.
LEMMA SwitchRestarts == SwitchBefore /\ D!Restart => SwitchAfter
<1> SUFFICES ASSUME SwitchBefore, D!Restart
             PROVE  SwitchAfter
  OBVIOUS
<1> USE SwitchConstants
<1>1. /\ left' = 0 /\ wait' = 0 /\ real' = real /\ trail' = trail /\ state' = "unknown"
      /\ tried' = FALSE /\ overran' = FALSE /\ place' = "start"
      /\ spent' = 0 /\ beaten' = 0 /\ refill' = PulseRefill /\ pulsed' = 1 /\ pushed' = 1
  BY DEF D!Restart
<1>2. SwitchTyped' /\ D!DeadlineIsConservative' /\ WaitEndsInTime'
  BY <1>1 DEF SwitchBefore, SwitchTyped, D!States, D!DeadlineIsConservative, WaitEndsInTime
<1>3. LegsTyped'
  <2>1. /\ spent' \in 0..1 /\ beaten' \in 0..1 /\ refill' \in 0..PulseRefill
        /\ pulsed' \in 0..1 /\ pushed' \in 0..1
    BY <1>1
  <2>2. tried' \in BOOLEAN /\ overran' \in BOOLEAN
    BY <1>1
  <2> QED
    BY <1>1, <2>1, <2>2 DEF LegsTyped, PastTyped
<1>4. UntriedIsFar' /\ SpentIsRefilled' /\ NoLapse
  BY <1>1 DEF UntriedIsFar, Unattempted, SpentIsRefilled, NoLapse
<1> QED
  BY <1>1, <1>2, <1>3, <1>4 DEF SwitchAfter

\* Every step of the switch preserves its invariant and lets no schedule lapse.
LEMMA SwitchStep ==
  ASSUME SwitchInv, D!Next
  PROVE  SwitchInv' /\ NoLapse
<1>1. SwitchBefore
  BY SwitchTypes DEF SwitchInv, SwitchBefore
<1>2. SwitchAfter
  BY <1>1, RefillKeeps, PriorityPushKeeps, ThrottledKeeps, PulsePushKeeps, BeatLegKeeps,
     SweepStepKeeps, LoopMaintainKeeps, CycleBeginsKeeps, SwitchRestarts DEF D!Next, D!Runs
<1>3. D!TypeOK' <=> SwitchTyped' /\ LegsTyped'
  BY DEF D!TypeOK, D!PulseInterval, SwitchTyped, LegsTyped, PastTyped
<1> QED
  BY <1>2, <1>3 DEF SwitchAfter, SwitchInv
-----------------------------------------------------------------------------
(* The signed call: the invariant. *)

\* Nothing of a call has executed or can; no request of it has left at all.
Nothing(id) == done[id] = 0 /\ ~S!Live(id)
Unsent(id) == done[id] = 0 /\ \A r \in wire : r.id # id

InProgress ==
  [pc : {"attempt", "spend", "sign", "post", "outcome"}, id : S!Calls, deferred : BOOLEAN,
   row : BOOLEAN, nonce : Nat, tries : Nat, elapsed : Int, word : S!Words]

CallTyped ==
  /\ S!TypeOK
  /\ call = S!Idle \/ call \in InProgress
  /\ call # S!Idle => call.id = Len(made)
  /\ wire \subseteq [id : S!Calls, nonce : Nat]

\* Every call signs once: what may still arrive of it bears one nonce, which is
\* consumed if the call has executed.
OneNonce ==
  /\ \A id \in S!Calls : done[id] \in {0, 1}
  /\ \A r \in wire : done[r.id] > 0 => r.nonce \in used
  /\ \A r, q \in wire : r.id = q.id => r.nonce = q.nonce
CallNonce ==
  call # S!Idle =>
    /\ done[call.id] > 0 => call.nonce \in used
    /\ \A r \in wire : r.id = call.id => r.nonce = call.nonce

\* Which calls have not sent anything.
BeforeItsFirstTry ==
  \/ call.pc \in {"attempt", "spend", "sign"}
  \/ call.pc = "post" /\ call.tries = 0
MustNotSend(id) == made[id] = "read" \/ (lane = "watchdog" /\ made[id] \in S!Additive)
SentLate ==
  /\ call # S!Idle /\ BeforeItsFirstTry => Unsent(call.id)
  /\ \A id \in S!Calls : id > Len(made) => Unsent(id) /\ told[id] = "none"
  /\ \A id \in 1..Len(made) : MustNotSend(id) => Unsent(id)

\* What the call in progress will say of itself.
SaidAtTheEnd == {"ok", "rejected", "error", "ambiguous", "failed", "garbled"}
WordIsDue ==
  call # S!Idle =>
    /\ told[call.id] = "none"
    /\ call.pc = "outcome" => call.word \in SaidAtTheEnd
    /\ call.pc = "outcome" /\ call.word \in S!Clean => Nothing(call.id)
    /\ call.pc = "outcome" => call.elapsed <= Total + Timeout
    /\ call.pc # "outcome" => call.elapsed <= Total

\* What the trail holds of it, and of no call to come.
RowIsDue ==
  /\ lane # "watchdog" => ~wireFirst
  /\ \A entry \in audit : entry.id \in 1..Len(made)
  /\ call # S!Idle =>
       /\ call.deferred => lane = "watchdog"
       /\ \A entry \in audit : entry.id = call.id => entry.word = "submitted"
       /\ lane # "watchdog" /\ made[call.id] # "read" /\ call.pc # "attempt" =>
            S!Row(call.id, "submitted") \in audit

\* The watchdog's own call: what opens risk is refused, what lowers it is sent.
WatchdogSends ==
  lane = "watchdog" =>
    /\ \A id \in S!Calls : told[id] \notin {"unwritten", "unknown"}
    /\ call # S!Idle =>
         /\ call.pc = "outcome" /\ made[call.id] \in S!Subtractive => call.tries > 0
         /\ call.pc \in {"sign", "post"} => made[call.id] \notin S!Additive

CallInv ==
  /\ CallTyped /\ OneNonce /\ CallNonce /\ SentLate /\ WordIsDue /\ RowIsDue /\ WatchdogSends
  /\ S!CleanMeansNothing /\ S!TrailOwnsUp
-----------------------------------------------------------------------------
(* The signed call: what a step does to the exchange. *)

\* What the lemmas need of the call's constants.
LEMMA CallConstants ==
  /\ MaxCalls \in Nat /\ Total \in Nat /\ Timeout \in Nat /\ Cap \in Nat /\ Clocks \subseteq Nat
  /\ S!Calls = 1..MaxCalls
  /\ S!Idle \notin InProgress
<1>1. S!Idle \notin InProgress
  BY DEF S!Idle, InProgress
<1> QED
  BY <1>1, ExchangeAssumption DEF S!CallAssumption, S!Calls

Requests == [id : S!Calls, nonce : Nat]

\* Only call x may have gained anything on the exchange.
OnlyFor(x) ==
  /\ OneNonce'
  /\ used \subseteq used' /\ used' \in SUBSET Nat
  /\ done' \in [S!Calls -> Nat] /\ wire' \subseteq Requests
  /\ \A id \in S!Calls :
       id # x => (Nothing(id) => Nothing(id)') /\ (Unsent(id) => Unsent(id)')

\* And what it has gained bears the call's nonce.
NonceAfter ==
  /\ done'[call.id] > 0 => call.nonce \in used'
  /\ \A r \in wire' : r.id = call.id => r.nonce = call.nonce

\* Where nothing happens on the exchange, no call gains anything.
LEMMA SameExchange ==
  ASSUME CallTyped, OneNonce, UNCHANGED <<wire, used, done>>, NEW x
  PROVE  OnlyFor(x) /\ (CallNonce /\ call # S!Idle => NonceAfter)
BY DEF OnlyFor, NonceAfter, CallTyped, OneNonce, CallNonce, Requests, Nothing, Unsent, S!Live,
       S!TypeOK

\* A request is executed: it was the call's, and its nonce was new.
LEMMA ProcessIsOnce ==
  ASSUME CallTyped, OneNonce, NEW r \in Requests, S!Process(r), wire' \subseteq wire,
         done[r.id] > 0 => r.nonce \in used,
         \A q \in wire : q.id = r.id => q.nonce = r.nonce
  PROVE  /\ OnlyFor(r.id)
         /\ r.nonce \in used' /\ used' = used \cup {r.nonce}
         /\ \A id \in S!Calls : id # r.id => done'[id] = done[id]
<1>1. done \in [S!Calls -> Nat] /\ used \subseteq Nat /\ wire \subseteq Requests
      /\ r.id \in S!Calls /\ r.nonce \in Nat
  BY DEF CallTyped, S!TypeOK, Requests
<1>2. r.nonce \notin used /\ used' = used \cup {r.nonce}
      /\ done' = [done EXCEPT ![r.id] = done[r.id] + 1]
  BY DEF S!Process
<1>3. done[r.id] = 0
  BY <1>1, <1>2 DEF OneNonce
<1>4. done' \in [S!Calls -> Nat] /\ done'[r.id] = 1
      /\ \A id \in S!Calls : id # r.id => done'[id] = done[id]
  BY <1>1, <1>2, <1>3
<1>5. OneNonce'
  BY <1>1, <1>2, <1>4 DEF OneNonce, Requests
<1>6. \A id \in S!Calls : id # r.id => (Nothing(id) => Nothing(id)') /\ (Unsent(id) => Unsent(id)')
  BY <1>1, <1>2, <1>4 DEF Nothing, Unsent, S!Live
<1> QED
  BY <1>1, <1>2, <1>4, <1>5, <1>6 DEF OnlyFor

\* The types of a call in progress and of its request.
LEMMA CallFields ==
  ASSUME CallTyped, call # S!Idle
  PROVE  /\ call \in InProgress
         /\ call.pc \in {"attempt", "spend", "sign", "post", "outcome"}
         /\ call.id \in S!Calls /\ call.id = Len(made) /\ call.id \in 1..Len(made)
         /\ call.deferred \in BOOLEAN /\ call.row \in BOOLEAN /\ call.nonce \in Nat
         /\ call.tries \in Nat /\ call.elapsed \in Int /\ call.word \in S!Words
         /\ S!Request \in Requests /\ S!Request.id = call.id /\ S!Request.nonce = call.nonce
         /\ made \in Seq(S!Kinds) /\ made[call.id] \in S!Kinds
<1>1. call \in InProgress
  BY DEF CallTyped
<1>2. call.id \in S!Calls /\ call.nonce \in Nat /\ call.id = Len(made) /\ made \in Seq(S!Kinds)
  BY <1>1 DEF CallTyped, InProgress, S!TypeOK
<1>3. call.id \in 1..Len(made) /\ made[call.id] \in S!Kinds
  BY <1>2, CallConstants
<1> QED
  BY <1>1, <1>2, <1>3 DEF InProgress, S!Request, Requests

\* The request in flight is executed.
LEMMA RequestIsProcessed ==
  ASSUME CallTyped, OneNonce, CallNonce, call # S!Idle, S!Process(S!Request), UNCHANGED wire
  PROVE  OnlyFor(call.id) /\ NonceAfter
<1>1. OnlyFor(call.id) /\ call.nonce \in used'
  BY CallFields, ProcessIsOnce DEF CallNonce
<1> QED
  BY <1>1 DEF NonceAfter, CallNonce

\* The request in flight stays on its way.
LEMMA RequestTravels ==
  ASSUME CallTyped, OneNonce, CallNonce, call # S!Idle, UNCHANGED <<used, done>>,
         wire' = wire \cup {S!Request}
  PROVE  OnlyFor(call.id) /\ NonceAfter
<1>1. OneNonce' /\ wire' \subseteq Requests
  BY CallFields DEF OneNonce, CallNonce, CallTyped, Requests
<1>2. \A id \in S!Calls : id # call.id =>
        (Nothing(id) => Nothing(id)') /\ (Unsent(id) => Unsent(id)')
  BY CallFields DEF Nothing, Unsent, S!Live
<1> QED
  BY <1>1, <1>2, CallFields DEF OnlyFor, NonceAfter, CallNonce, CallTyped, S!TypeOK

\* The nonce is consumed without anything executing.
LEMMA NonceIsBurnt ==
  ASSUME CallTyped, OneNonce, CallNonce, call # S!Idle, UNCHANGED <<wire, done>>,
         used' = used \cup {call.nonce}
  PROVE  OnlyFor(call.id) /\ NonceAfter
<1>1. \A id \in S!Calls : (Nothing(id) => Nothing(id)') /\ (Unsent(id) => Unsent(id)')
  BY DEF Nothing, Unsent, S!Live
<1> QED
  BY <1>1, CallFields DEF OnlyFor, NonceAfter, OneNonce, CallNonce, CallTyped, S!TypeOK, Requests

\* What may have become of a request nobody answered.
LEMMA UnheardIsBounded ==
  ASSUME CallTyped, OneNonce, CallNonce, call # S!Idle, S!Unheard
  PROVE  /\ OnlyFor(call.id) /\ NonceAfter
         /\ S!Reading => UNCHANGED <<wire, used, done>>
<1>1. CASE UNCHANGED <<wire, used, done>>
  BY <1>1, SameExchange
<1>2. CASE ~S!Reading /\ S!Process(S!Request) /\ UNCHANGED wire
  BY <1>2, RequestIsProcessed
<1>3. CASE ~S!Reading /\ S!Unprocessed /\ wire' = wire \cup {S!Request}
  BY <1>3, RequestTravels DEF S!Unprocessed
<1> QED
  BY <1>1, <1>2, <1>3 DEF S!Unheard, S!exchange

\* A request that was still travelling arrives, and gives its call nothing that
\* was not on its way.
LEMMA ArriveIsBounded ==
  ASSUME CallTyped, OneNonce, S!Arrive
  PROVE  /\ OnlyFor(0)
         /\ CallNonce /\ call # S!Idle => NonceAfter
<1>1. PICK r \in wire : /\ wire' = wire \ {r}
                        /\ IF r.nonce \in used THEN S!Unprocessed ELSE S!Process(r)
  BY DEF S!Arrive
<1>2. r \in Requests /\ 0 \notin S!Calls
  BY CallConstants DEF CallTyped, Requests
<1>3. CASE S!Unprocessed
  BY <1>1, <1>2, <1>3
     DEF S!Unprocessed, OnlyFor, NonceAfter, OneNonce, CallNonce, CallTyped, S!TypeOK, Requests,
         Nothing, Unsent, S!Live
<1>4. CASE r.nonce \notin used /\ S!Process(r)
  <2>1. /\ OnlyFor(r.id) /\ used' = used \cup {r.nonce}
        /\ \A id \in S!Calls : id # r.id => done'[id] = done[id]
    BY <1>1, <1>2, <1>4, ProcessIsOnce DEF OneNonce
  <2>2. ~Nothing(r.id) /\ ~Unsent(r.id)
    BY <1>1, <1>4 DEF Nothing, Unsent, S!Live
  <2>3. OnlyFor(0)
    BY <2>1, <2>2 DEF OnlyFor
  <2>4. CallNonce /\ call # S!Idle => NonceAfter
    <3>1. SUFFICES ASSUME CallNonce, call # S!Idle
                   PROVE  NonceAfter
      OBVIOUS
    <3> QED
      BY <1>1, <2>1, <3>1, CallFields DEF NonceAfter, CallNonce
  <2> QED
    BY <2>3, <2>4
<1> QED
  BY <1>1, <1>3, <1>4
-----------------------------------------------------------------------------
(* The signed call: one action at a time. *)

\* The call as a try of it leaves it.
Tried(t, word, pc1) ==
  [call EXCEPT !.pc = pc1, !.word = word, !.tries = @ + 1, !.elapsed = @ + t]

\* What stays when only call x may have gained something: what was said of the
\* others, and what the trail holds of them.
LEMMA OthersStand ==
  ASSUME CallInv, NEW x, OnlyFor(x), UNCHANGED <<lane, made, audit, told>>,
         x \in S!Calls => told[x] \notin S!Clean,
         x \in S!Calls => \/ Nothing(x)'
                          \/ /\ lane # "watchdog" => S!Row(x, "submitted") \in audit
                             /\ \A entry \in audit : entry.id = x => entry.word \notin S!Clean
  PROVE  S!CleanMeansNothing' /\ S!TrailOwnsUp'
<1>1. \A id \in S!Calls : id # x => (Nothing(id) => Nothing(id)')
  BY DEF OnlyFor
<1>2. S!CleanMeansNothing /\ S!TrailOwnsUp
  BY DEF CallInv
<1>3. \A id \in S!Calls : ~Nothing(id)' <=> (done'[id] > 0 \/ S!Live(id)')
  BY DEF Nothing, OnlyFor, S!Live
<1>4. \A id \in S!Calls : ~Nothing(id) <=> (done[id] > 0 \/ S!Live(id))
  BY DEF Nothing, S!Live, CallInv, CallTyped, S!TypeOK
<1>5. S!CleanMeansNothing'
  BY <1>1, <1>2 DEF S!CleanMeansNothing, Nothing, S!Live, S!Clean
<1>6. S!TrailOwnsUp'
  <2>1. SUFFICES ASSUME NEW id \in S!Calls, ~Nothing(id)'
                 PROVE  /\ lane # "watchdog" => S!Row(id, "submitted") \in audit
                        /\ \A entry \in audit : entry.id = id => S!Believable(entry)
    BY <1>3 DEF S!TrailOwnsUp, S!Row, S!Believable, S!Clean
  <2>2. CASE id = x
    BY <2>1, <2>2 DEF S!Believable
  <2>3. CASE id # x
    BY <1>1, <1>2, <1>4, <2>1, <2>3 DEF S!TrailOwnsUp
  <2> QED
    BY <2>2, <2>3
<1> QED
  BY <1>5, <1>6

\* One try of the call has been made.
LEMMA TryKeeps ==
  ASSUME CallInv, call # S!Idle, NEW c, c = call.id, call.pc = "post", OnlyFor(call.id), NonceAfter,
         MustNotSend(call.id) => UNCHANGED <<wire, used, done>>,
         UNCHANGED <<lane, wireFirst, db, clock, nonce, crashes, made, audit, told>>,
         NEW t \in Int, NEW word, NEW pc1, call' = Tried(t, word, pc1),
         \/ pc1 = "post" /\ word = call.word /\ call.elapsed + t <= Total
         \/ /\ pc1 = "outcome" /\ word \in SaidAtTheEnd
            /\ call.elapsed + t <= Total + Timeout
            /\ word \in S!Clean => Nothing(c)'
  PROVE  CallInv'
<1>1. CallTyped /\ OneNonce /\ CallNonce /\ SentLate /\ WordIsDue /\ RowIsDue /\ WatchdogSends
  BY DEF CallInv
<1>2. call \in InProgress /\ call.id \in S!Calls /\ call.id \in 1..Len(made)
      /\ call.id = Len(made) /\ call.tries \in Nat /\ call.elapsed \in Int /\ call.nonce \in Nat
      /\ made \in Seq(S!Kinds)
  BY <1>1, CallFields
<1>3. /\ call' \in InProgress
      /\ call'.pc = pc1 /\ call'.id = call.id /\ call'.deferred = call.deferred
      /\ call'.nonce = call.nonce /\ call'.tries = call.tries + 1
      /\ call'.elapsed = call.elapsed + t /\ call'.word = word
  <2>1. pc1 \in {"attempt", "spend", "sign", "post", "outcome"} /\ word \in S!Words
    BY <1>2 DEF InProgress, SaidAtTheEnd, S!Words
  <2>2. call.elapsed + t \in Int /\ call.tries + 1 \in Nat
    BY <1>2
  <2> QED
    BY <1>2, <2>1, <2>2 DEF Tried, InProgress
<1>4. call' # S!Idle
  BY <1>3, CallConstants
<1>5. CallTyped'
  <2>1. S!TypeOK'
    BY <1>1 DEF CallTyped, S!TypeOK, OnlyFor, Requests
  <2> QED
    BY <1>2, <1>3, <2>1 DEF OnlyFor, Requests, CallTyped, S!Idle, InProgress, S!Calls, S!Words
<1>6. OneNonce' /\ CallNonce'
  BY <1>3 DEF OnlyFor, NonceAfter, CallNonce
<1>7. SentLate'
  <2>1. \A id \in S!Calls : id # call.id => (Unsent(id) => Unsent(id)')
    BY DEF OnlyFor
  <2>2. MustNotSend(call.id) => (Unsent(c) => Unsent(c)')
    BY DEF Unsent
  <2>3. ~(call.pc = "attempt" \/ call.pc = "spend" \/ call.pc = "sign")
    OBVIOUS
  <2>4. ~BeforeItsFirstTry'
    BY <1>2, <1>3 DEF BeforeItsFirstTry
  <2>5. \A id \in S!Calls : id > Len(made) => Unsent(id)' /\ told'[id] = "none"
    BY <1>1, <1>2, <2>1 DEF SentLate
  <2>6. 1..Len(made) \subseteq S!Calls
    BY <1>1, <1>2, CallConstants DEF CallTyped, S!TypeOK
  <2>7. \A id \in 1..Len(made) : MustNotSend(id) => Unsent(id)'
    <3>1. \A id \in 1..Len(made) : MustNotSend(id) => Unsent(id)
      BY <1>1 DEF SentLate
    <3>2. MustNotSend(c) => MustNotSend(call.id)
      OBVIOUS
    <3> QED
      BY <2>1, <2>2, <2>6, <3>1, <3>2
  <2> QED
    BY <2>4, <2>5, <2>7 DEF SentLate, MustNotSend, Unsent, S!Calls, S!Additive
<1>8. WordIsDue'
  BY <1>1, <1>3, <1>4 DEF WordIsDue, SaidAtTheEnd, S!Clean, Nothing, S!Live
<1>9. RowIsDue'
  BY <1>1, <1>3, <1>4 DEF RowIsDue, S!Row, S!Idle
<1>10. WatchdogSends'
  BY <1>1, <1>2, <1>3, <1>4 DEF WatchdogSends, S!Idle, S!Calls, S!Subtractive, S!Additive
<1>11. S!CleanMeansNothing' /\ S!TrailOwnsUp'
  <2>1. told[call.id] \notin S!Clean
    BY <1>1 DEF WordIsDue, S!Clean
  <2>2. \A entry \in audit : entry.id = call.id => entry.word \notin S!Clean
    BY <1>1 DEF RowIsDue, S!Clean
  <2>3. made[call.id] = "read" => Nothing(c)'
    <3>1. SUFFICES ASSUME made[call.id] = "read"
                   PROVE  Nothing(c)'
      OBVIOUS
    <3>2. Unsent(c) /\ UNCHANGED <<wire, used, done>>
      BY <1>1, <1>2, <3>1 DEF SentLate, MustNotSend
    <3> QED
      BY <1>2, <3>2 DEF Unsent, Nothing, S!Live
  <2>4. lane # "watchdog" /\ made[call.id] # "read" => S!Row(call.id, "submitted") \in audit
    BY <1>1 DEF RowIsDue
  <2> QED
    BY <1>1, <1>2, <2>1, <2>2, <2>3, <2>4, OthersStand DEF RowIsDue
<1> QED
  BY <1>5, <1>6, <1>7, <1>8, <1>9, <1>10, <1>11 DEF CallInv

\* The ways a try can go: answered, lost, garbled, never connected, limited.
LEMMA OneTry ==
  ASSUME CallInv, call.pc = "post", NEW took \in S!Stretches,
         \/ S!Answered(took) \/ S!Lost(took) \/ S!Garbled(took)
         \/ S!Unconnected(took) \/ S!Limited(took)
  PROVE  CallInv'
<1> PICK c : c = call.id
  OBVIOUS
<1>1. CallTyped /\ OneNonce /\ CallNonce /\ SentLate /\ WordIsDue /\ RowIsDue /\ WatchdogSends
  BY DEF CallInv
<1>2. call # S!Idle
  BY DEF S!Idle
<1>3. call \in InProgress /\ c \in S!Calls /\ c \in 1..Len(made)
      /\ call.tries \in Nat /\ call.elapsed \in Int /\ call.nonce \in Nat
      /\ made[c] \in S!Kinds /\ done \in [S!Calls -> Nat]
  BY <1>1, <1>2, CallFields DEF CallTyped, S!TypeOK
<1>4. took \in Int /\ call.elapsed + took <= Total + Timeout
  BY <1>1, <1>2, <1>3, CallConstants DEF S!Stretches, WordIsDue
<1>5. MustNotSend(c) => S!Reading
  BY <1>1, <1>2 DEF MustNotSend, WatchdogSends, S!Reading
<1>6. call.tries = 0 => Unsent(c)
  BY <1>1, <1>2 DEF SentLate, BeforeItsFirstTry
<1>7. call.nonce \notin used => done[c] = 0
  BY <1>1, <1>2, <1>3 DEF CallNonce, OneNonce
<1>8. \A t, w : S!Settle(w, t) => call' = Tried(t, w, "outcome")
  BY DEF S!Settle, Tried
<1>9. /\ UNCHANGED <<lane, wireFirst, db, clock, nonce, crashes, made, audit, told>>
  BY DEF S!Answered, S!Lost, S!Garbled, S!Unconnected, S!Limited, S!process
<1>10. CASE S!Answered(took)
  <2>1. CASE S!Reading /\ S!Unprocessed /\ S!Settle("ok", took)
    <3>1. UNCHANGED <<wire, used, done>>
      BY <1>10, <2>1 DEF S!Answered, S!Unprocessed
    <3>2. OnlyFor(c) /\ NonceAfter
      BY <1>1, <1>2, <3>1, SameExchange
    <3> QED
      BY <1>2, <1>4, <1>8, <1>9, <2>1, <3>1, <3>2, TryKeeps DEF SaidAtTheEnd, S!Clean
  <2>2. CASE ~S!Reading /\ S!Process(S!Request) /\ S!Settle("ok", took)
    <3>1. OnlyFor(c) /\ NonceAfter
      BY <1>1, <1>2, <1>10, <2>2, RequestIsProcessed DEF S!Answered
    <3> QED
      BY <1>2, <1>4, <1>5, <1>8, <1>9, <2>2, <3>1, TryKeeps DEF SaidAtTheEnd, S!Clean
  <2>3. CASE /\ ~S!Reading /\ call.nonce \in used /\ S!Unprocessed
             /\ S!Settle(IF call.tries > 0 THEN "ambiguous" ELSE "rejected", took)
    <3>1. UNCHANGED <<wire, used, done>>
      BY <1>10, <2>3 DEF S!Answered, S!Unprocessed
    <3>2. OnlyFor(c) /\ NonceAfter
      BY <1>1, <1>2, <3>1, SameExchange
    <3>3. CASE call.tries > 0
      BY <1>2, <1>4, <1>8, <1>9, <2>3, <3>1, <3>2, <3>3, TryKeeps DEF SaidAtTheEnd, S!Clean
    <3>4. CASE call.tries = 0
      <4>1. Nothing(c)'
        BY <1>2, <1>3, <1>6, <1>8, <2>3, <3>1, <3>4 DEF Unsent, Nothing, S!Live, Tried, InProgress
      <4> QED
        BY <1>2, <1>4, <1>8, <1>9, <2>3, <3>1, <3>2, <3>4, <4>1, TryKeeps DEF SaidAtTheEnd, S!Clean
    <3> QED
      BY <1>3, <3>3, <3>4
  <2>4. CASE /\ ~S!Reading /\ call.nonce \notin used /\ S!Settle("rejected", took)
             /\ used' = used \cup {call.nonce} /\ UNCHANGED done
    <3>1. UNCHANGED wire
      BY <1>10 DEF S!Answered
    <3>2. OnlyFor(c) /\ NonceAfter
      BY <1>1, <1>2, <2>4, <3>1, NonceIsBurnt
    <3>3. call'.id = c
      BY <1>3, <1>8, <2>4 DEF Tried, InProgress
    <3>4. Nothing(c)'
      BY <1>1, <1>2, <1>7, <2>4, <3>1, <3>3 DEF CallNonce, Nothing, S!Live
    <3> QED
      BY <1>2, <1>4, <1>5, <1>8, <1>9, <2>4, <3>2, <3>4, TryKeeps DEF SaidAtTheEnd
  <2> QED
    BY <1>10, <2>1, <2>2, <2>3, <2>4 DEF S!Answered
<1>11. CASE S!Lost(took) \/ S!Garbled(took)
  <2>1. /\ OnlyFor(c) /\ NonceAfter
        /\ S!Reading => UNCHANGED <<wire, used, done>>
    BY <1>1, <1>2, <1>11, UnheardIsBounded DEF S!Lost, S!Garbled
  <2>2. PICK w \in {"failed", "ambiguous", "garbled"} : call' = Tried(took, w, "outcome")
    BY <1>8, <1>11 DEF S!Lost, S!Garbled
  <2> QED
    BY <1>2, <1>4, <1>5, <1>9, <2>1, <2>2, TryKeeps DEF SaidAtTheEnd, S!Clean
<1>12. CASE S!Unconnected(took)
  <2>1. UNCHANGED <<wire, used, done>>
    BY <1>12 DEF S!Unconnected, S!exchange
  <2>2. OnlyFor(c) /\ NonceAfter
    BY <1>1, <1>2, <2>1, SameExchange
  <2>3. PICK w \in {"failed", "ambiguous", "error"} :
          /\ call' = Tried(took, w, "outcome")
          /\ w = "error" => ~(call.tries > 0)
    BY <1>8, <1>12 DEF S!Unconnected
  <2>4. call'.id = c
    BY <1>3, <2>3 DEF Tried, InProgress
  <2>5. w = "error" => Nothing(c)'
    BY <1>3, <1>6, <2>1, <2>3, <2>4 DEF Unsent, Nothing, S!Live
  <2> QED
    BY <1>2, <1>4, <1>9, <2>1, <2>2, <2>3, <2>5, TryKeeps DEF SaidAtTheEnd, S!Clean
<1>13. CASE S!Limited(took)
  <2>1. /\ OnlyFor(c) /\ NonceAfter
        /\ S!Reading => UNCHANGED <<wire, used, done>>
    <3>1. CASE ~S!Reading /\ S!Process(S!Request)
      BY <1>1, <1>2, <1>13, <3>1, RequestIsProcessed DEF S!Limited
    <3>2. CASE S!Unprocessed
      BY <1>1, <1>2, <1>13, <3>2, SameExchange DEF S!Limited, S!Unprocessed
    <3> QED
      BY <1>13, <3>1, <3>2 DEF S!Limited
  <2>2. PICK delay \in S!Delays(call.tries + 1) :
          IF call.tries + 1 < MaxTries /\ S!RetryFits(call.elapsed + took, delay)
          THEN call' = [call EXCEPT !.tries = @ + 1, !.elapsed = @ + took + delay]
          ELSE S!Settle(IF S!Reading THEN "failed" ELSE "ambiguous", took)
    BY <1>13 DEF S!Limited
  <2>3. delay \in Int
    BY <1>3, CallConstants DEF S!Delays, S!Window, S!Smaller
  <2>4. CASE /\ call.tries + 1 < MaxTries /\ S!RetryFits(call.elapsed + took, delay)
             /\ call' = [call EXCEPT !.tries = @ + 1, !.elapsed = @ + took + delay]
    <3>1. call' = Tried(took + delay, call.word, "post")
      <4>1. call.elapsed + took + delay = call.elapsed + (took + delay)
        BY <1>3, <1>4, <2>3
      <4>2. [call EXCEPT !.tries = @ + 1, !.elapsed = @ + (took + delay)]
              = Tried(took + delay, call.word, "post")
        BY <1>3 DEF Tried, InProgress
      <4> QED
        BY <2>4, <4>1, <4>2
    <3>2. call.elapsed + (took + delay) <= Total /\ took + delay \in Int
      BY <1>3, <1>4, <2>3, <2>4, CallConstants DEF S!RetryFits
    <3> QED
      BY <1>2, <1>5, <1>9, <2>1, <3>1, <3>2, TryKeeps
  <2>5. CASE \E w \in {"failed", "ambiguous"} : S!Settle(w, took)
    <3>1. PICK w \in {"failed", "ambiguous"} : call' = Tried(took, w, "outcome")
      BY <1>8, <2>5
    <3> QED
      BY <1>2, <1>4, <1>5, <1>9, <2>1, <3>1, TryKeeps DEF SaidAtTheEnd, S!Clean
  <2> QED
    BY <2>2, <2>4, <2>5
<1> QED
  BY <1>10, <1>11, <1>12, <1>13

\* A step that leaves the exchange, the trail and what was said alone, and moves
\* the call on to another step before its first try or to a clean end.
LEMMA CallMovesOn ==
  ASSUME CallInv, call # S!Idle, call.pc \in {"attempt", "spend", "sign"},
         UNCHANGED <<lane, wireFirst, crashes, made, told, wire, used, done>>,
         db' \in BOOLEAN, clock' \in Clocks, nonce' \in Nat,
         NEW pc1 \in {"attempt", "spend", "sign", "post", "outcome"}, NEW n \in Nat,
         NEW w \in S!Words, NEW r \in BOOLEAN,
         call' = [call EXCEPT !.pc = pc1, !.nonce = n, !.word = w, !.row = r],
         pc1 = "outcome" => w = "error" /\ (lane = "watchdog" => made[call.id] \in S!Additive),
         pc1 \in {"sign", "post"} => (lane = "watchdog" => made[call.id] \notin S!Additive),
         \/ audit' = audit \cup {S!Row(call.id, "submitted")}
         \/ UNCHANGED audit /\ (call.pc = "attempt" => pc1 = "attempt" \/ lane = "watchdog")
  PROVE  CallInv'
<1> PICK c : c = call.id
  OBVIOUS
<1>1. CallTyped /\ OneNonce /\ CallNonce /\ SentLate /\ WordIsDue /\ RowIsDue /\ WatchdogSends
      /\ S!CleanMeansNothing /\ S!TrailOwnsUp
  BY DEF CallInv
<1>2. call \in InProgress /\ c \in S!Calls /\ c \in 1..Len(made) /\ c = Len(made)
      /\ call.tries \in Nat /\ call.elapsed \in Int /\ call.nonce \in Nat
      /\ made[c] \in S!Kinds /\ done \in [S!Calls -> Nat]
  BY <1>1, CallFields DEF CallTyped, S!TypeOK
<1>3. /\ call' \in InProgress
      /\ call'.pc = pc1 /\ call'.id = c /\ call'.deferred = call.deferred
      /\ call'.nonce = n /\ call'.tries = call.tries
      /\ call'.elapsed = call.elapsed /\ call'.word = w
  BY <1>2 DEF InProgress
<1>4. call' # S!Idle
  BY <1>3, CallConstants
<1>5. Unsent(c) /\ Nothing(c)
  BY <1>1 DEF SentLate, BeforeItsFirstTry, Unsent, Nothing, S!Live
<1>6. CallTyped'
  <2>1. S!TypeOK'
    BY <1>1, <1>2 DEF CallTyped, S!TypeOK, S!Row, S!Words, S!Calls
  <2> QED
    BY <1>1, <1>2, <1>3, <2>1 DEF CallTyped, S!Idle, InProgress, S!Calls, S!Words
<1>7. OneNonce' /\ CallNonce'
  BY <1>1, <1>2, <1>3, <1>5 DEF OneNonce, CallNonce, Unsent, S!Calls
<1>8. SentLate'
  <2>1. Unsent(c)'
    BY <1>5 DEF Unsent
  <2>2. \A id \in S!Calls : id > Len(made) => Unsent(id)' /\ told'[id] = "none"
    BY <1>1 DEF SentLate, Unsent
  <2>3. \A id \in 1..Len(made) : MustNotSend(id) => Unsent(id)'
    BY <1>1 DEF SentLate, Unsent
  <2> QED
    BY <1>3, <2>1, <2>2, <2>3 DEF SentLate, MustNotSend, Unsent, S!Calls, S!Additive
<1>9. WordIsDue'
  <2>1. Nothing(c)'
    BY <1>5 DEF Nothing, S!Live
  <2>2. call.elapsed <= Total /\ call.elapsed <= Total + Timeout
    BY <1>1, <1>2, CallConstants DEF WordIsDue
  <2> QED
    BY <1>1, <1>3, <2>1, <2>2 DEF WordIsDue, SaidAtTheEnd, S!Clean, Nothing, S!Live
<1>10. RowIsDue'
  <2>1. \A entry \in audit' : entry \in audit \/ entry = S!Row(c, "submitted")
    OBVIOUS
  <2>2. \A entry \in audit' : entry.id \in 1..Len(made)
    BY <1>1, <1>2, <2>1 DEF RowIsDue, S!Row
  <2>3. \A entry \in audit' : entry.id = c => entry.word = "submitted"
    BY <1>1, <2>1 DEF RowIsDue, S!Row
  <2>4. lane # "watchdog" /\ made[c] # "read" /\ pc1 # "attempt" =>
          S!Row(c, "submitted") \in audit'
    BY <1>1 DEF RowIsDue
  <2> QED
    BY <1>1, <1>3, <2>2, <2>3, <2>4 DEF RowIsDue, S!Row, S!Idle
<1>11. WatchdogSends'
  <2>1. made[c] \in S!Additive => made[c] \notin S!Subtractive
    BY DEF S!Additive, S!Subtractive
  <2> QED
    BY <1>1, <1>2, <1>3, <2>1 DEF WatchdogSends, S!Idle, S!Calls, S!Subtractive, S!Additive
<1>12. S!CleanMeansNothing'
  BY <1>1 DEF S!CleanMeansNothing, S!Live, S!Calls, S!Clean
<1>13. S!TrailOwnsUp'
  <2>1. SUFFICES ASSUME NEW id \in S!Calls, done[id] > 0 \/ S!Live(id)
                 PROVE  /\ lane # "watchdog" => S!Row(id, "submitted") \in audit'
                        /\ \A entry \in audit' : entry.id = id => S!Believable(entry)
    BY DEF S!TrailOwnsUp, S!Row, S!Believable, S!Clean, S!Live, S!Calls
  <2>2. /\ lane # "watchdog" => S!Row(id, "submitted") \in audit
        /\ \A entry \in audit : entry.id = id => S!Believable(entry)
    BY <1>1, <2>1 DEF S!TrailOwnsUp
  <2>3. S!Believable(S!Row(c, "submitted"))
    BY DEF S!Believable, S!Row, S!Clean
  <2> QED
    BY <2>2, <2>3
<1> QED
  BY <1>6, <1>7, <1>8, <1>9, <1>10, <1>11, <1>12, <1>13 DEF CallInv

\* The call is over: its caller is told the word it deserves.
LEMMA CallEnds ==
  ASSUME CallInv, call # S!Idle, NEW c, c = call.id,
         UNCHANGED <<lane, wireFirst, db, clock, nonce, crashes, made, wire, used, done>>,
         call' = S!Idle, NEW w \in S!Words, told' = [told EXCEPT ![c] = w],
         w \in S!Clean => Nothing(c),
         lane = "watchdog" => w \notin {"unwritten", "unknown"},
         NEW rows, audit' = audit \cup rows,
         \A entry \in rows :
           /\ \/ entry = S!Row(c, "submitted")
              \/ entry = S!Row(c, S!Filed(call.word)) /\ w = call.word
           /\ call.pc = "outcome" /\ made[c] # "read"
  PROVE  CallInv'
<1>1. CallTyped /\ OneNonce /\ CallNonce /\ SentLate /\ WordIsDue /\ RowIsDue /\ WatchdogSends
      /\ S!CleanMeansNothing /\ S!TrailOwnsUp
  BY DEF CallInv
<1>2. call \in InProgress /\ c \in S!Calls /\ c \in 1..Len(made) /\ c = Len(made)
      /\ made[c] \in S!Kinds /\ done \in [S!Calls -> Nat] /\ told \in [S!Calls -> S!Words]
      /\ call.word \in S!Words
  BY <1>1, CallFields DEF CallTyped, S!TypeOK
<1>3. \A id \in S!Calls : told'[id] = IF id = c THEN w ELSE told[id]
  BY <1>2
<1>4. \A entry \in rows :
        /\ entry.id = c
        /\ \/ entry.word = "submitted" \/ entry.word = call.word
           \/ call.word = "garbled" /\ w = call.word /\ entry.word = "error"
  BY DEF S!Row, S!Filed
<1>5. CallTyped'
  <2>1. S!TypeOK'
    BY <1>1, <1>2, <1>4 DEF CallTyped, S!TypeOK, S!Words, S!Calls
  <2> QED
    BY <1>1, <2>1 DEF CallTyped, S!Idle, S!Calls
<1>6. OneNonce' /\ CallNonce'
  BY <1>1 DEF OneNonce, CallNonce, S!Idle, S!Calls
<1>7. SentLate'
  <2>1. \A id \in S!Calls : id > Len(made) => Unsent(id)' /\ told'[id] = "none"
    <3>1. \A id \in S!Calls : id > Len(made) => id # c
      BY <1>2
    <3> QED
      BY <1>1, <1>3, <3>1 DEF SentLate, Unsent
  <2>2. \A id \in 1..Len(made) : MustNotSend(id) => Unsent(id)'
    BY <1>1 DEF SentLate, Unsent
  <2> QED
    BY <2>1, <2>2 DEF SentLate, MustNotSend, Unsent, S!Calls, S!Additive, S!Idle
<1>8. WordIsDue' /\ WatchdogSends'
  BY <1>1, <1>2, <1>3 DEF WordIsDue, WatchdogSends, S!Calls, S!Idle
<1>9. RowIsDue'
  BY <1>1, <1>2, <1>4 DEF RowIsDue, S!Idle
<1>10. S!CleanMeansNothing'
  BY <1>1, <1>3 DEF S!CleanMeansNothing, S!Live, S!Calls, S!Clean, Nothing
<1>11. S!TrailOwnsUp'
  <2>1. SUFFICES ASSUME NEW id \in S!Calls, done[id] > 0 \/ S!Live(id)
                 PROVE  /\ lane # "watchdog" => S!Row(id, "submitted") \in audit
                        /\ \A entry \in audit' : entry.id = id => S!Believable(entry)'
    BY DEF S!TrailOwnsUp, S!Row, S!Believable, S!Clean, S!Live, S!Calls
  <2>2. /\ lane # "watchdog" => S!Row(id, "submitted") \in audit
        /\ \A entry \in audit : entry.id = id => S!Believable(entry)
    BY <1>1, <2>1 DEF S!TrailOwnsUp
  <2>3. ASSUME NEW entry \in audit, entry.id = id
        PROVE  S!Believable(entry)'
    <3>1. id = c => entry.word \notin S!Clean
      BY <1>1, <2>3 DEF RowIsDue, S!Clean
    <3>2. id # c => told'[id] = told[id]
      BY <1>3, <2>1
    <3> QED
      BY <2>2, <2>3, <3>1, <3>2 DEF S!Believable, S!Clean
  <2>4. ASSUME NEW entry \in rows, entry.id = id
        PROVE  S!Believable(entry)'
    <3>1. id = c
      BY <1>4, <2>4
    <3>2. call.word \notin S!Clean
      BY <1>1, <1>2, <2>1, <2>4, <3>1 DEF WordIsDue, Nothing
    <3>3. told'[entry.id] = w
      BY <1>2, <1>3, <2>4, <3>1
    <3> QED
      BY <1>4, <2>4, <3>2, <3>3 DEF S!Believable, S!Clean
  <2> QED
    BY <2>2, <2>3, <2>4
<1> QED
  BY <1>5, <1>6, <1>7, <1>8, <1>9, <1>10, <1>11 DEF CallInv

\* The attempt row: no evidence, no action.
LEMMA RecordAttemptKeeps == CallInv /\ S!RecordAttempt => CallInv'
<1> SUFFICES ASSUME CallInv, S!RecordAttempt
             PROVE  CallInv'
  OBVIOUS
<1>1. CallTyped /\ SentLate /\ call.pc = "attempt" /\ call # S!Idle
  BY DEF CallInv, S!RecordAttempt, S!Idle
<1>2. call \in InProgress /\ call.nonce \in Nat /\ call.word \in S!Words /\ call.row \in BOOLEAN
      /\ db \in BOOLEAN /\ clock \in Clocks /\ nonce \in Nat
  BY <1>1, CallFields DEF CallTyped, S!TypeOK
<1>3. UNCHANGED <<nonce, wire, used, done, lane, wireFirst, db, clock, crashes, made>>
  BY DEF S!RecordAttempt, S!exchange, S!process
<1>4. CASE /\ audit' = audit \cup {S!Row(call.id, "submitted")}
           /\ call' = [call EXCEPT !.pc = "spend", !.row = TRUE] /\ UNCHANGED told
  <2>1. call' = [call EXCEPT !.pc = "spend", !.nonce = call.nonce, !.word = call.word, !.row = TRUE]
    BY <1>2, <1>4 DEF InProgress
  <2> QED
    BY <1>1, <1>2, <1>3, <1>4, <2>1, CallMovesOn
<1>5. CASE lane = "watchdog" /\ call' = [call EXCEPT !.pc = "spend"] /\ UNCHANGED <<audit, told>>
  <2>1. call' = [call EXCEPT !.pc = "spend", !.nonce = call.nonce, !.word = call.word,
                             !.row = call.row]
    BY <1>2, <1>5 DEF InProgress
  <2>2. UNCHANGED audit /\ UNCHANGED told /\ lane = "watchdog"
    BY <1>5
  <2> QED
    BY <1>1, <1>2, <1>3, <2>1, <2>2, CallMovesOn
<1>6. CASE lane # "watchdog" /\ S!Tell("unwritten") /\ UNCHANGED audit
  <2>1. Nothing(call.id)
    BY <1>1 DEF SentLate, BeforeItsFirstTry, Unsent, Nothing, S!Live
  <2>2. PICK rows : rows = {}
    OBVIOUS
  <2>3. audit' = audit \cup rows /\ \A entry \in rows : FALSE
    BY <1>6, <2>2
  <2>4. "unwritten" \in S!Words
    BY DEF S!Words
  <2>5. call' = S!Idle /\ told' = [told EXCEPT ![call.id] = "unwritten"]
    BY <1>6 DEF S!Tell
  <2> QED
    BY <1>1, <1>3, <1>6, <2>1, <2>3, <2>4, <2>5, CallEnds
<1> QED
  BY <1>4, <1>5, <1>6 DEF S!RecordAttempt

\* From the row to the send: the gate, the budget, the nonce.
LEMMA PreparationKeeps == CallInv /\ (S!Refuse \/ S!Spend \/ S!Sign) => CallInv'
<1> SUFFICES ASSUME CallInv, S!Refuse \/ S!Spend \/ S!Sign
             PROVE  CallInv'
  OBVIOUS
<1>1. CallTyped /\ WatchdogSends /\ call # S!Idle /\ call.pc \in {"spend", "sign"}
  BY DEF CallInv, S!Refuse, S!Spend, S!Sign, S!Idle
<1>2. call \in InProgress /\ call.nonce \in Nat /\ call.word \in S!Words /\ call.row \in BOOLEAN
      /\ db \in BOOLEAN /\ clock \in Clocks /\ nonce \in Nat /\ clock \in Nat
  BY <1>1, CallFields, CallConstants DEF CallTyped, S!TypeOK
<1>3. UNCHANGED <<wire, used, done, lane, wireFirst, db, clock, crashes, made, audit, told>>
  BY DEF S!Refuse, S!Spend, S!Sign, S!exchange, S!process
<1>4. "error" \in S!Words
  BY DEF S!Words
<1>5. CASE S!Refuse
  <2>1. nonce' = nonce /\ lane = "watchdog" /\ made[call.id] \in S!Additive
    BY <1>5 DEF S!Refuse, S!Refused
  <2>2. call' = [call EXCEPT !.pc = "outcome", !.nonce = call.nonce, !.word = "error",
                             !.row = call.row]
    BY <1>2, <1>5 DEF InProgress, S!Refuse
  <2> QED
    BY <1>1, <1>2, <1>3, <1>4, <2>1, <2>2, CallMovesOn
<1>6. CASE S!Spend
  <2>1. nonce' = nonce /\ (lane = "watchdog" => made[call.id] \notin S!Additive)
    BY <1>6 DEF S!Spend, S!Refused
  <2>2. CASE call' = [call EXCEPT !.pc = "sign"]
    <3>1. call' = [call EXCEPT !.pc = "sign", !.nonce = call.nonce, !.word = call.word,
                               !.row = call.row]
      BY <1>2, <2>2 DEF InProgress
    <3>2. call.pc # "attempt" /\ UNCHANGED audit
      BY <1>3, <1>6 DEF S!Spend
    <3> QED
      BY <1>1, <1>2, <1>3, <2>1, <3>1, <3>2, CallMovesOn
  <2>3. CASE lane # "watchdog" /\ call' = [call EXCEPT !.pc = "outcome", !.word = "error"]
    <3>1. call' = [call EXCEPT !.pc = "outcome", !.nonce = call.nonce, !.word = "error",
                               !.row = call.row]
      BY <1>2, <2>3 DEF InProgress
    <3> QED
      BY <1>1, <1>2, <1>3, <1>4, <1>6, <2>1, <2>3, <3>1, CallMovesOn DEF S!Spend
  <2> QED
    BY <1>6, <2>2, <2>3 DEF S!Spend
<1>7. CASE S!Sign
  <2>1. nonce' \in Nat /\ S!NextNonce \in Nat
    BY <1>2, <1>7 DEF S!Sign, S!NextNonce, S!Larger
  <2>2. lane = "watchdog" => made[call.id] \notin S!Additive
    BY <1>1, <1>7 DEF WatchdogSends, S!Sign
  <2>3. call' = [call EXCEPT !.pc = "post", !.nonce = S!NextNonce, !.word = call.word,
                             !.row = call.row]
    BY <1>2, <1>7 DEF InProgress, S!Sign
  <2> QED
    BY <1>1, <1>2, <1>3, <1>7, <2>1, <2>2, <2>3, CallMovesOn DEF S!Sign
<1> QED
  BY <1>5, <1>6, <1>7

\* The outcome row says what the caller is told.
LEMMA RecordOutcomeKeeps == CallInv /\ S!RecordOutcome => CallInv'
<1> SUFFICES ASSUME CallInv, S!RecordOutcome
             PROVE  CallInv'
  OBVIOUS
<1>1. CallTyped /\ WordIsDue /\ call # S!Idle /\ call.pc = "outcome"
  BY DEF CallInv, S!RecordOutcome, S!Idle
<1>2. UNCHANGED <<lane, wireFirst, db, clock, nonce, crashes, made, wire, used, done>>
  BY DEF S!RecordOutcome, S!exchange, S!process
<1>3. call.word \in SaidAtTheEnd /\ (call.word \in S!Clean => Nothing(call.id))
  BY <1>1 DEF WordIsDue
<1> DEFINE begun == S!Row(call.id, "submitted")
           ended == S!Row(call.id, S!Filed(call.word))
<1>4. PICK w \in {call.word, "unknown"}, rows \in SUBSET {begun, ended} :
        /\ call' = S!Idle /\ told' = [told EXCEPT ![call.id] = w]
        /\ w = "unknown" /\ w # call.word => lane # "watchdog"
        /\ audit' = audit \cup rows
        /\ made[call.id] = "read" => rows = {}
        /\ rows # {} => w = call.word
  <2>1. CASE UNCHANGED audit /\ S!Tell(call.word)
    <3>1. audit' = audit \cup {} /\ {} \in SUBSET {begun, ended}
      BY <2>1
    <3> QED
      BY <2>1, <3>1 DEF S!Tell
  <2>2. CASE UNCHANGED audit /\ S!Tell(IF lane = "watchdog" THEN call.word ELSE "unknown")
    <3>1. audit' = audit \cup {} /\ {} \in SUBSET {begun, ended}
      BY <2>2
    <3> QED
      BY <2>2, <3>1 DEF S!Tell
  <2>3. ASSUME ~S!Reading, S!Tell(call.word), NEW R \in SUBSET {begun, ended}, audit' = audit \cup R
        PROVE  \E w \in {call.word, "unknown"}, rows \in SUBSET {begun, ended} :
                 /\ call' = S!Idle /\ told' = [told EXCEPT ![call.id] = w]
                 /\ w = "unknown" /\ w # call.word => lane # "watchdog"
                 /\ audit' = audit \cup rows
                 /\ made[call.id] = "read" => rows = {}
                 /\ rows # {} => w = call.word
    BY <2>3 DEF S!Tell, S!Reading
  <2>4. CASE ~S!Reading /\ S!Tell(call.word)
             /\ \/ audit' = audit \cup {ended} \/ audit' = audit \cup {begun}
                \/ audit' = audit \cup {begun, ended}
    <3>1. {ended} \in SUBSET {begun, ended} /\ {begun} \in SUBSET {begun, ended}
          /\ {begun, ended} \in SUBSET {begun, ended}
      OBVIOUS
    <3> HIDE DEF begun, ended
    <3> QED
      BY <2>3, <2>4, <3>1
  <2> QED
    BY <2>1, <2>2, <2>4 DEF S!RecordOutcome
<1>5. /\ w \in S!Words
      /\ w \in S!Clean => Nothing(call.id)
      /\ lane = "watchdog" => w \notin {"unwritten", "unknown"}
  BY <1>3, <1>4 DEF SaidAtTheEnd, S!Words, S!Clean
<1>6. \A entry \in rows :
        /\ entry = begun \/ (entry = ended /\ w = call.word)
        /\ made[call.id] # "read"
  BY <1>4
<1> QED
  BY <1>1, <1>2, <1>4, <1>5, <1>6, CallEnds

\* A new call has sent nothing and has no row.
LEMMA BeginKeeps ==
  ASSUME CallInv, NEW kind \in S!Kinds, S!Begin(kind)
  PROVE  CallInv'
<1> PICK n : n = Len(made) + 1
  OBVIOUS
<1>1. CallTyped /\ OneNonce /\ CallNonce /\ SentLate /\ WordIsDue /\ RowIsDue /\ WatchdogSends
      /\ S!CleanMeansNothing /\ S!TrailOwnsUp
  BY DEF CallInv
<1>2. UNCHANGED <<lane, wireFirst, db, clock, nonce, crashes, audit, told, wire, used, done>>
      /\ call = S!Idle
  BY DEF S!Begin, S!exchange
<1>3. made \in Seq(S!Kinds) /\ Len(made) \in Nat /\ made' \in Seq(S!Kinds) /\ Len(made') = n
      /\ Len(made') <= MaxCalls /\ made'[n] = kind
      /\ \A id \in 1..Len(made) : made'[id] = made[id]
  BY <1>1, CallConstants DEF CallTyped, S!TypeOK, S!Begin
<1>4. n \in S!Calls /\ n > Len(made) /\ \A id \in 1..n : id = n \/ id \in 1..Len(made)
  BY <1>3, CallConstants
<1>5. /\ call' \in InProgress
      /\ call'.pc \in {"attempt", "spend", "post"} /\ call'.id = n /\ call'.deferred = wireFirst
      /\ call'.tries = 0 /\ call'.elapsed = 0
      /\ kind # "read" => call'.pc = IF wireFirst THEN "spend" ELSE "attempt"
      /\ kind = "read" => call'.pc = "post"
  BY <1>1, <1>4 DEF S!Begin, InProgress, CallTyped, S!TypeOK, S!Words
<1>6. call' # S!Idle
  BY <1>5, CallConstants
<1>7. Unsent(n) /\ told[n] = "none" /\ \A entry \in audit : entry.id # n
  BY <1>1, <1>3, <1>4 DEF SentLate, RowIsDue
<1>8. CallTyped'
  <2>1. S!TypeOK'
    BY <1>1, <1>2, <1>3 DEF CallTyped, S!TypeOK, S!Calls, S!Words
  <2> QED
    BY <1>1, <1>2, <1>3, <1>5, <2>1 DEF CallTyped, S!Idle, InProgress, S!Calls, S!Words
<1>9. OneNonce' /\ CallNonce'
  BY <1>1, <1>2, <1>4, <1>5, <1>7 DEF OneNonce, CallNonce, Unsent, S!Calls
<1>10. SentLate'
  <2>1. Unsent(n)'
    BY <1>2, <1>3, <1>7 DEF Unsent
  <2>2. \A id \in S!Calls : id > n => Unsent(id)' /\ told'[id] = "none"
    BY <1>1, <1>2, <1>3, CallConstants DEF SentLate, Unsent
  <2>3. \A id \in 1..Len(made) : MustNotSend(id)' => Unsent(id)'
    BY <1>1, <1>2, <1>3 DEF SentLate, Unsent, MustNotSend, S!Additive
  <2>4. \A id \in 1..n : MustNotSend(id)' => Unsent(id)'
    BY <1>2, <1>4, <1>7, <2>3 DEF Unsent
  <2>5. Unsent(call.id)'
    BY <1>2, <1>5, <1>7 DEF Unsent
  <2> QED
    BY <1>3, <2>2, <2>4, <2>5 DEF SentLate, MustNotSend, Unsent, S!Calls, S!Additive
<1>11. WordIsDue'
  <2>1. 0 <= Total
    BY CallConstants
  <2> QED
    BY <1>2, <1>5, <1>7, <2>1 DEF WordIsDue
<1>12. RowIsDue'
  BY <1>1, <1>2, <1>3, <1>5, <1>7 DEF RowIsDue, S!Row, CallTyped, S!TypeOK
<1>13. WatchdogSends'
  BY <1>1, <1>2, <1>3, <1>5 DEF WatchdogSends, S!Calls, S!Subtractive, S!Additive
<1>14. S!CleanMeansNothing' /\ S!TrailOwnsUp'
  BY <1>1, <1>2
     DEF S!CleanMeansNothing, S!TrailOwnsUp, S!Believable, S!Live, S!Row, S!Calls, S!Clean
<1> QED
  BY <1>8, <1>9, <1>10, <1>11, <1>12, <1>13, <1>14 DEF CallInv

\* A step outside the call: a late arrival, the database, the clock, the
\* watchdog's posture between two calls.
LEMMA SurroundingsKeep ==
  ASSUME CallInv, OnlyFor(0), CallNonce /\ call # S!Idle => NonceAfter,
         UNCHANGED <<lane, nonce, call, crashes, made, audit, told>>,
         db' \in BOOLEAN, clock' \in Clocks, wireFirst' \in BOOLEAN,
         UNCHANGED wireFirst \/ (lane = "watchdog" /\ call = S!Idle)
  PROVE  CallInv'
<1>1. CallTyped /\ OneNonce /\ CallNonce /\ SentLate /\ WordIsDue /\ RowIsDue /\ WatchdogSends
      /\ S!CleanMeansNothing /\ S!TrailOwnsUp
  BY DEF CallInv
<1>2. \A id \in S!Calls : (Nothing(id) => Nothing(id)') /\ (Unsent(id) => Unsent(id)')
  BY CallConstants DEF OnlyFor
<1>3. call # S!Idle => call.id \in S!Calls
  BY <1>1, CallFields
<1>4. 1..Len(made) \subseteq S!Calls
  BY <1>1, CallConstants DEF CallTyped, S!TypeOK
<1>5. CallTyped'
  <2>1. S!TypeOK'
    BY <1>1 DEF CallTyped, S!TypeOK, OnlyFor, Requests
  <2> QED
    BY <1>1, <2>1 DEF OnlyFor, Requests, CallTyped, S!Idle, InProgress, S!Calls, S!Words
<1>6. OneNonce' /\ CallNonce'
  BY <1>1 DEF OnlyFor, NonceAfter, CallNonce, S!Idle
<1>7. SentLate'
  <2>1. call # S!Idle /\ BeforeItsFirstTry => Unsent(call.id)'
    <3>1. SUFFICES ASSUME call # S!Idle, BeforeItsFirstTry
                   PROVE  Unsent(call.id)'
      OBVIOUS
    <3>2. Unsent(call.id)
      BY <1>1, <3>1 DEF SentLate
    <3> QED
      BY <1>2, <1>3, <3>1, <3>2 DEF Unsent
  <2>2. \A id \in S!Calls : id > Len(made) => Unsent(id)' /\ told'[id] = "none"
    BY <1>1, <1>2 DEF SentLate
  <2>3. \A id \in 1..Len(made) : MustNotSend(id) => Unsent(id)'
    BY <1>1, <1>2, <1>4 DEF SentLate
  <2> QED
    BY <2>1, <2>2, <2>3 DEF SentLate, BeforeItsFirstTry, MustNotSend, Unsent, S!Calls, S!Additive,
                            S!Idle
<1>8. WordIsDue'
  <2>1. call # S!Idle => (Nothing(call.id) => Nothing(call.id)')
    BY <1>2, <1>3 DEF Nothing, S!Live
  <2> QED
    BY <1>1, <2>1 DEF WordIsDue, S!Clean, S!Idle
<1>9. RowIsDue' /\ WatchdogSends'
  BY <1>1 DEF RowIsDue, WatchdogSends, S!Row, S!Idle, S!Calls, S!Subtractive, S!Additive
<1>10. S!CleanMeansNothing' /\ S!TrailOwnsUp'
  BY OthersStand, CallConstants
<1> QED
  BY <1>5, <1>6, <1>7, <1>8, <1>9, <1>10 DEF CallInv

\* A crash leaves the call untold, its request perhaps on its way.
LEMMA CrashKeeps == CallInv /\ S!Crash => CallInv'
<1> SUFFICES ASSUME CallInv, S!Crash
             PROVE  CallInv'
  OBVIOUS
<1> PICK c : c = call.id
  OBVIOUS
<1>1. CallTyped /\ OneNonce /\ CallNonce /\ SentLate /\ WordIsDue /\ RowIsDue /\ WatchdogSends
      /\ S!CleanMeansNothing /\ S!TrailOwnsUp
  BY DEF CallInv
<1>2. call # S!Idle /\ call' = S!Idle /\ nonce' = 0 /\ crashes' = crashes + 1
      /\ crashes < MaxCrashes
      /\ UNCHANGED <<lane, wireFirst, db, clock, made, audit, told>>
  BY DEF S!Crash
<1>3. c \in S!Calls /\ c = Len(made) /\ c \in 1..Len(made)
  BY <1>1, <1>2, CallFields
<1>4. OnlyFor(c) /\ (MustNotSend(c) => UNCHANGED <<wire, used, done>>)
      /\ (call.pc # "post" => UNCHANGED <<wire, used, done>>)
  <2>1. CASE call.pc = "post" /\ S!Unheard
    <3>1. MustNotSend(c) => S!Reading
      BY <1>1, <1>2, <2>1 DEF MustNotSend, WatchdogSends, S!Reading
    <3> QED
      BY <1>1, <1>2, <2>1, <3>1, UnheardIsBounded
  <2>2. CASE call.pc # "post" /\ UNCHANGED <<wire, used, done>>
    BY <1>1, <2>2, SameExchange
  <2> QED
    BY <2>1, <2>2 DEF S!Crash, S!exchange
<1>5. \A id \in S!Calls : id # c => (Nothing(id) => Nothing(id)') /\ (Unsent(id) => Unsent(id)')
  BY <1>4 DEF OnlyFor
<1>6. 1..Len(made) \subseteq S!Calls /\ MaxCrashes \in Nat
  BY <1>1, CallConstants, ExchangeAssumption DEF CallTyped, S!TypeOK, S!CallAssumption
<1>7. CallTyped'
  <2>1. S!TypeOK'
    BY <1>1, <1>2, <1>4, <1>6 DEF CallTyped, S!TypeOK, OnlyFor, Requests
  <2> QED
    BY <1>2, <1>4, <2>1 DEF OnlyFor, Requests, CallTyped, S!Idle, S!Calls
<1>8. OneNonce' /\ CallNonce'
  BY <1>2, <1>4 DEF OnlyFor, CallNonce, S!Idle
<1>9. SentLate'
  <2>1. \A id \in S!Calls : id > Len(made) => Unsent(id)' /\ told'[id] = "none"
    BY <1>1, <1>2, <1>3, <1>5 DEF SentLate
  <2>2. MustNotSend(c) => (Unsent(c) => Unsent(c)')
    BY <1>4 DEF Unsent
  <2>3. \A id \in 1..Len(made) : MustNotSend(id) => Unsent(id)'
    <3>1. \A id \in 1..Len(made) : MustNotSend(id) => Unsent(id)
      BY <1>1 DEF SentLate
    <3> QED
      BY <1>5, <1>6, <2>2, <3>1
  <2> QED
    BY <1>2, <2>1, <2>3 DEF SentLate, MustNotSend, Unsent, S!Calls, S!Additive, S!Idle
<1>10. WordIsDue' /\ RowIsDue' /\ WatchdogSends'
  BY <1>1, <1>2 DEF WordIsDue, RowIsDue, WatchdogSends, S!Idle, S!Calls
<1>11. S!CleanMeansNothing' /\ S!TrailOwnsUp'
  <2>1. told[c] \notin S!Clean
    BY <1>1, <1>2 DEF WordIsDue, S!Clean
  <2>2. \A entry \in audit : entry.id = c => entry.word \notin S!Clean
    BY <1>1, <1>2 DEF RowIsDue, S!Clean
  <2>3. MustNotSend(c) \/ call.pc = "attempt" => Nothing(c)'
    <3>1. MustNotSend(c) \/ call.pc = "attempt" =>
            Unsent(c) /\ UNCHANGED <<wire, used, done>>
      BY <1>1, <1>2, <1>3, <1>4 DEF SentLate, BeforeItsFirstTry
    <3> QED
      BY <3>1 DEF Unsent, Nothing, S!Live
  <2>4. lane # "watchdog" /\ made[c] # "read" /\ call.pc # "attempt" =>
          S!Row(c, "submitted") \in audit
    BY <1>1, <1>2 DEF RowIsDue
  <2> QED
    BY <1>2, <1>4, <2>1, <2>2, <2>3, <2>4, OthersStand DEF MustNotSend
<1> QED
  BY <1>7, <1>8, <1>9, <1>10, <1>11 DEF CallInv

\* Every step of the call, and of what surrounds it, preserves the invariant.
LEMMA CallStep == CallInv /\ S!Next => CallInv'
<1> SUFFICES ASSUME CallInv, S!Next
             PROVE  CallInv'
  OBVIOUS
<1>1. CallTyped /\ OneNonce /\ db \in BOOLEAN /\ clock \in Clocks /\ wireFirst \in BOOLEAN
  BY DEF CallInv, CallTyped, S!TypeOK
<1>2. UNCHANGED <<wire, used, done>> =>
        OnlyFor(0) /\ (CallNonce /\ call # S!Idle => NonceAfter)
  BY <1>1, SameExchange
<1>3. CASE \E kind \in S!Kinds : S!Begin(kind)
  BY <1>3, BeginKeeps
<1>4. CASE S!RecordAttempt
  BY <1>4, RecordAttemptKeeps
<1>5. CASE S!Refuse \/ S!Spend \/ S!Sign
  BY <1>5, PreparationKeeps
<1>6. CASE S!RecordOutcome
  BY <1>6, RecordOutcomeKeeps
<1>7. CASE \E took \in S!Stretches :
             \/ S!Answered(took) \/ S!Lost(took) \/ S!Garbled(took)
             \/ S!Unconnected(took) \/ S!Limited(took)
  BY <1>7, OneTry DEF S!Answered, S!Lost, S!Garbled, S!Unconnected, S!Limited
<1>8. CASE S!Arrive
  BY <1>1, <1>8, ArriveIsBounded, SurroundingsKeep DEF S!Arrive, S!process
<1>9. CASE S!Crash
  BY <1>9, CrashKeeps
<1>10. CASE S!Postgres
  BY <1>1, <1>2, <1>10, SurroundingsKeep DEF S!Postgres, S!exchange
<1>11. CASE S!Tick
  BY <1>1, <1>2, <1>11, SurroundingsKeep DEF S!Tick, S!exchange
<1>12. CASE S!Posture
  BY <1>1, <1>2, <1>12, SurroundingsKeep DEF S!Posture, S!exchange
<1> QED
  BY <1>3, <1>4, <1>5, <1>6, <1>7, <1>8, <1>9, <1>10, <1>11, <1>12 DEF S!Next
-----------------------------------------------------------------------------
(* The parts together. *)

ExchangeInv == SwitchInv /\ CallInv /\ MonitorInv

\* The invariants hold initially, and while another part runs.
LEMMA SwitchBegins == D!Init => SwitchInv
<1> SUFFICES ASSUME D!Init
             PROVE  SwitchInv
  OBVIOUS
<1> USE SwitchConstants
<1>1. /\ left = 0 /\ real = 0 /\ wait = 0 /\ state = "unknown" /\ trail = "unknown"
      /\ spent = 0 /\ beaten = 0 /\ refill = PulseRefill /\ pulsed = 1 /\ pushed = 1
      /\ place = "start" /\ tried = FALSE /\ overran = FALSE
  BY DEF D!Init
<1>2. SwitchTyped
  BY <1>1 DEF SwitchTyped, D!States
<1>3. LegsTyped
  <2>1. /\ spent \in 0..1 /\ beaten \in 0..1 /\ refill \in 0..PulseRefill
        /\ pulsed \in 0..1 /\ pushed \in 0..1
    BY <1>1
  <2>2. tried \in BOOLEAN /\ overran \in BOOLEAN
    BY <1>1
  <2> QED
    BY <1>1, <2>1, <2>2 DEF LegsTyped, PastTyped
<1>4. WaitEndsInTime /\ UntriedIsFar /\ SpentIsRefilled /\ D!DeadlineIsConservative
  BY <1>1 DEF WaitEndsInTime, UntriedIsFar, Unattempted, SpentIsRefilled, D!DeadlineIsConservative
<1> QED
  BY <1>1, <1>2, <1>3, <1>4, SwitchTypes DEF SwitchInv

LEMMA CallBegins == S!Init => CallInv
<1> SUFFICES ASSUME S!Init
             PROVE  CallInv
  OBVIOUS
<1>1. /\ lane \in {"executor", "provisioning", "watchdog"}
      /\ wireFirst = FALSE /\ db = TRUE /\ clock \in Clocks /\ nonce = 0
      /\ call = S!Idle /\ crashes = 0 /\ made = <<>>
      /\ wire = {} /\ used = {} /\ done = [id \in S!Calls |-> 0]
      /\ audit = {} /\ told = [id \in S!Calls |-> "none"]
  BY DEF S!Init
<1>2. made \in Seq(S!Kinds) /\ Len(made) = 0 /\ 0 <= MaxCalls /\ crashes \in 0..MaxCrashes
  BY <1>1, CallConstants, ExchangeAssumption DEF S!CallAssumption
<1>3. done \in [S!Calls -> Nat] /\ told \in [S!Calls -> S!Words]
      /\ \A id \in S!Calls : done[id] = 0 /\ told[id] = "none"
  BY <1>1 DEF S!Words
<1>4. wireFirst \in BOOLEAN /\ db \in BOOLEAN /\ nonce \in Nat /\ used \in SUBSET Nat
  BY <1>1
<1>5. S!TypeOK
  BY <1>1, <1>2, <1>3, <1>4 DEF S!TypeOK
<1>6. \A id \in S!Calls : Unsent(id) /\ Nothing(id)
  BY <1>1, <1>3 DEF Unsent, Nothing, S!Live
<1>7. CallTyped /\ OneNonce /\ CallNonce
  BY <1>1, <1>3, <1>5 DEF CallTyped, OneNonce, CallNonce
<1>8. SentLate /\ WordIsDue /\ RowIsDue /\ WatchdogSends
  BY <1>1, <1>2, <1>3, <1>6 DEF SentLate, WordIsDue, RowIsDue, WatchdogSends
<1>9. S!CleanMeansNothing /\ S!TrailOwnsUp
  BY <1>1, <1>3, <1>6 DEF S!CleanMeansNothing, S!TrailOwnsUp, S!Clean, Nothing, S!Live
<1> QED
  BY <1>7, <1>8, <1>9 DEF CallInv

LEMMA MonitorBegins == M!Init => MonitorInv
BY MonitorConstants
   DEF M!Init, MonitorInv, M!TypeOK, BadIsFailing, LoopPlaces, UntoldIsYoung, Untold, BriefTo,
       SinceRead

LEMMA SwitchStands == SwitchInv /\ UNCHANGED ofDeadMan => SwitchInv'
BY DEF ofDeadMan, SwitchInv, D!TypeOK, D!DeadlineIsConservative, WaitEndsInTime, UntriedIsFar,
       Unattempted, SpentFar, SpentIsRefilled, D!States, D!PulseInterval, D!Window

LEMMA CallStands == CallInv /\ UNCHANGED ofCall => CallInv'
<1> SUFFICES ASSUME CallInv, UNCHANGED ofCall
             PROVE  CallInv'
  OBVIOUS
<1>1. CallTyped /\ OneNonce /\ db \in BOOLEAN /\ clock \in Clocks /\ wireFirst \in BOOLEAN
  BY DEF CallInv, CallTyped, S!TypeOK
<1>2. OnlyFor(0) /\ (CallNonce /\ call # S!Idle => NonceAfter)
  BY <1>1, SameExchange DEF ofCall
<1> QED
  BY <1>1, <1>2, SurroundingsKeep DEF ofCall

LEMMA MonitorStands == MonitorInv /\ UNCHANGED ofMonitor => MonitorInv'
BY DEF ofMonitor, MonitorInv, M!TypeOK, BadIsFailing, LoopPlaces, UntoldIsYoung, Untold, BriefTo,
       SinceRead, M!Rung, M!WatchdogRung

\* The parts' invariants together are inductive.
LEMMA ExchangeBegins == ExchangeInit => ExchangeInv
BY SwitchBegins, CallBegins, MonitorBegins DEF ExchangeInit, ExchangeInv

LEMMA ExchangeSteps == ExchangeInv /\ [ExchangeNext]_everything => ExchangeInv'
BY SwitchStep, CallStep, MonitorStep, SwitchStands, CallStands, MonitorStands
   DEF ExchangeInv, ExchangeNext, everything

\* The parts' invariants hold of every behaviour: no failure goes untold unless
\* young, no schedule is untried unless far, no clean word or row is untrue.
THEOREM ExchangeInvariant == ExchangeSpec => []ExchangeInv
BY ExchangeBegins, ExchangeSteps, PTL DEF ExchangeSpec

\* The switch believes in no push that may not have landed and in no state its
\* trail does not show, and no armed schedule lapses without an attempt that had
\* its whole ceiling ahead, unless a stretch between two pulses outran a step
\* (deadman.py, watchdog.py _pulse).
THEOREM SwitchAlwaysHolds == ExchangeSpec => SwitchHolds
<1>1. ExchangeInv => D!DeadlineIsConservative
  BY DEF ExchangeInv, SwitchInv
<1>2. ExchangeInv /\ [ExchangeNext]_everything =>
        [left > 0 /\ left' = 0 /\ place' # "start" => tried' \/ overran']_(D!vars)
  BY SwitchStep
     DEF ExchangeInv, ExchangeNext, everything, ofDeadMan, NoLapse, D!vars, D!switch, D!legs,
         D!past
<1> QED
  BY ExchangeInvariant, <1>1, <1>2, PTL DEF SwitchHolds, D!NoSilentLapse, ExchangeSpec

\* What the caller and the trail hear of a write is what became of it: it
\* executed at most once; told clean, it executed nothing and never will; no
\* evidence, no action; the watchdog's cancels get out, and in time.
THEOREM WriteIsAlwaysHonest == ExchangeSpec => []WriteIsHonest
<1>1. CallInv => WriteIsHonest
  <2>1. SUFFICES ASSUME CallInv
                 PROVE  WriteIsHonest
    OBVIOUS
  <2>2. CallTyped /\ OneNonce /\ SentLate /\ WordIsDue /\ WatchdogSends
        /\ S!CleanMeansNothing /\ S!TrailOwnsUp
    BY <2>1 DEF CallInv
  <2>3. S!AtMostOnce
    BY <2>2 DEF OneNonce, S!AtMostOnce
  <2>4. S!CancelGetsOut
    <3>1. \A id \in 1..Len(made) : lane = "watchdog" /\ made[id] \in S!Additive => Unsent(id)
      BY <2>2 DEF SentLate, MustNotSend
    <3> QED
      BY <2>2, <3>1 DEF WatchdogSends, S!CancelGetsOut, Unsent, S!Live
  <2>5. S!CallIsBounded
    <3>1. call # S!Idle => call.elapsed \in Int
      BY <2>2, CallFields
    <3> QED
      BY <2>2, <3>1, CallConstants DEF WordIsDue, S!CallIsBounded
  <2> QED
    BY <2>2, <2>3, <2>4, <2>5 DEF WriteIsHonest
<1> QED
  BY ExchangeInvariant, <1>1, PTL DEF ExchangeInv

\* A failure that has stood, unhindered, for a reminder and a cycle has been
\* told, whatever page was lost or monitor restarted before (alerting.py).
THEOREM FailureIsAlwaysTold == ExchangeSpec => []FailureIsTold
<1>1. MonitorInv => FailureIsTold
  BY MonitorConstants
     DEF MonitorInv, M!TypeOK, UntoldIsYoung, Untold, BriefTo, SinceRead, FailureIsTold,
         M!FailureIsTold
<1> QED
  BY ExchangeInvariant, <1>1, PTL DEF ExchangeInv

\* Between a page and its reminder there is no second page (alerting.py).
THEOREM PagesAreAlwaysPaced == ExchangeSpec => PagesArePaced
<1>1. MonitorInv /\ M!Next => (paged' = 0 /\ paged # 0 => paged \in {M!Never, Reminder})
  <2>1. SUFFICES ASSUME MonitorInv, M!Next, paged' = 0, paged # 0
                 PROVE  paged \in {M!Never, Reminder}
    OBVIOUS
  <2>2. ASSUME NEW rung, M!Evaluate(rung)
        PROVE  paged \in {M!Never, Reminder}
    BY <2>1, <2>2, MonitorConstants
       DEF MonitorInv, M!TypeOK, M!Evaluate, M!Page, M!Turned, M!Standing, M!Recovered
  <2>3. ~M!Tick /\ ~M!Restart /\ paged' # paged
    BY <2>1, MonitorConstants DEF M!Tick, M!Restart, M!Aged, MonitorInv, M!TypeOK
  <2> QED
    BY <2>1, <2>2, <2>3
       DEF M!Next, M!FullCycle, M!FullCycleFails, M!CeilingTrips, M!LivenessCycle,
           M!LivenessDropped, M!WatchdogBeats, M!WatchdogProbes, M!ExecutorBeats, M!Turns,
           M!Database, M!DayPasses, M!World, M!DatabaseDown, M!Untouched, M!history
<1>2. ExchangeInv /\ [ExchangeNext]_everything =>
        [paged' = 0 /\ paged # 0 => paged \in {M!Never, Reminder}]_(M!vars)
  BY <1>1 DEF ExchangeInv, ExchangeNext, everything, ofMonitor, M!vars, M!world, M!history
<1> QED
  BY ExchangeInvariant, <1>2, PTL DEF PagesArePaced, M!PagesArePaced, ExchangeSpec
-----------------------------------------------------------------------------
(* The keys: what each phase of a watchdog's start knows of the key it holds. *)

\* The address of a key stored for the watchdog's lane.  A tombstone keeps its
\* lane and blocks its address, so this never stops being true of an address.
WatchdogKey(a) == a \in Agents /\ keys[a] # None /\ keys[a].lane = "watchdog"

\* Whatever holds an address holds one of these, and the cache the key it names.
KeysAreOwn ==
  /\ cache # None => cache.key = cache.agent /\ WatchdogKey(cache.agent)
  /\ signer # None => WatchdogKey(signer)
  /\ record # None => WatchdogKey(record)

\* A sleep that began within the grace is over an interval past it at the latest,
\* the probe after it a probe later, and its attempt another interval later.
DueInTime ==
  /\ launched <= hour
  /\ phase \in K!Starting => hour <= due /\ due - launched < Grace + 2 * Retry + Probe
  /\ phase = "probing" => due - launched < Grace + Retry + Probe
  /\ phase = "sleeping" => due - launched < Grace + Retry

\* The stamp is written before the rest of the reconnect, and the event last.
Written ==
  /\ phase \in K!Reconnecting \cup {"wired", "joined"} => stamp = launched
  /\ K!TrailKnowsKey

KeyInv == K!TypeOK /\ KeysAreOwn /\ DueInTime /\ Written

LEMMA KeyConstants ==
  /\ MaxDays \in Nat /\ Grace \in Nat /\ Retry \in Nat \ {0} /\ Probe \in Nat
  /\ MaxStart \in Nat /\ MaxUpsets \in Nat /\ Validities \subseteq Int /\ MaxKeks \in Nat \ {0}
BY ExchangeAssumption DEF K!KeyAssumption

LEMMA NoKeyIsNone == None \notin K!Rows
BY ExchangeAssumption DEF K!NoneAssumption
-----------------------------------------------------------------------------
(* The keystore. *)

\* What a lane's row is, when it has one.
LEMMA ActiveIsStored ==
  ASSUME NEW side, K!Active(side) # None
  PROVE  K!Active(side) \in K!ActiveOn(side)
BY DEF K!Active

LEMMA OwnSignerIsStored ==
  ASSUME K!OwnSigner # None
  PROVE  WatchdogKey(K!OwnSigner)
BY ActiveIsStored DEF K!OwnSigner, K!Signable, K!ActiveOn, WatchdogKey

LEMMA ActiveIsOwn ==
  ASSUME K!Active("watchdog") # None
  PROVE  WatchdogKey(K!Active("watchdog"))
BY ActiveIsStored DEF K!ActiveOn, WatchdogKey

\* Revoking leaves a row a row, of its lane.
LEMMA Revoked ==
  ASSUME NEW r \in K!Rows
  PROVE  /\ [r EXCEPT !.revoked = TRUE] \in K!Rows
         /\ [r EXCEPT !.revoked = TRUE].lane = r.lane
BY DEF K!Rows

\* A ceremony keeps the rows rows, and takes no key from the store or its lane.
RowsKept ==
  /\ keys' \in [Agents -> K!Rows \cup {None}]
  /\ \A a \in Agents : keys[a] # None => keys'[a] # None /\ keys'[a].lane = keys[a].lane

LEMMA StoreKeeps ==
  ASSUME K!TypeOK, NEW a \in Agents, NEW side \in K!SigningLanes, NEW days \in Validities,
         days \in Int, K!Store(a, side, days)
  PROVE  RowsKept
<1> DEFINE entry == [lane |-> side, until |-> hour + days, kek |-> kek, revoked |-> FALSE]
<1>1. entry \in K!Rows
  BY KeyConstants DEF K!Rows, K!Store, K!Validity, K!TypeOK
<1>2. keys' = [keys EXCEPT ![a] = entry] /\ keys[a] = None
  BY DEF K!Store
<1> HIDE DEF entry
<1> QED
  BY <1>1, <1>2 DEF RowsKept, K!TypeOK

LEMMA RevokeKeeps ==
  ASSUME K!TypeOK, NEW side \in K!SigningLanes, K!Revoke(side)
  PROVE  RowsKept
<1> DEFINE a == K!Active(side)
           entry == [keys[a] EXCEPT !.revoked = TRUE]
<1>1. a \in Agents /\ keys[a] # None
  BY DEF K!Revoke, K!Active, K!ActiveOn
<1>2. keys' = [keys EXCEPT ![a] = entry]
  BY DEF K!Revoke
<1>3. keys[a] \in K!Rows
  BY <1>1 DEF K!TypeOK
<1>4. entry \in K!Rows /\ entry.lane = keys[a].lane
  BY <1>3, Revoked
<1>5. entry # None
  BY <1>4, NoKeyIsNone
<1> HIDE DEF a, entry
<1> QED
  BY <1>1, <1>2, <1>4, <1>5 DEF RowsKept, K!TypeOK

\* The two ceremonies, or a step that leaves the rows alone.
LEMMA RowsStay ==
  ASSUME K!TypeOK, K!Next
  PROVE  RowsKept
<1>1. CASE UNCHANGED keys
  BY <1>1 DEF RowsKept, K!TypeOK
<1>2. ASSUME NEW a \in Agents, NEW side \in K!SigningLanes, NEW days \in Validities,
             K!Store(a, side, days)
      PROVE  RowsKept
  BY <1>2, StoreKeeps, KeyConstants
<1>3. ASSUME NEW side \in K!SigningLanes, K!Revoke(side)
      PROVE  RowsKept
  BY <1>3, RevokeKeeps
<1>4. ASSUME K!Next,
             ~(\E a \in Agents, side \in K!SigningLanes, days \in Validities :
                 K!Store(a, side, days)),
             ~(\E side \in K!SigningLanes : K!Revoke(side))
      PROVE  UNCHANGED keys
  BY <1>4
     DEF K!Next, K!NewKek, K!Launch, K!ProbeAgain, K!ProbeAnswers, K!ProbeFails, K!AttemptFails, K!Abandon,
         K!ReadSigner, K!ReadRecord, K!StampLaunch, K!Reopen, K!ReopenFails, K!ReadActive,
         K!RefreshCache, K!ReconnectLost, K!Crash, K!DbGoes, K!DbReturns, K!Tick, K!ofOperator
<1> QED
  BY <1>1, <1>2, <1>3, <1>4

LEMMA WatchdogKeyStays ==
  ASSUME K!TypeOK, K!Next, NEW a, WatchdogKey(a)
  PROVE  WatchdogKey(a)'
BY RowsStay DEF RowsKept, WatchdogKey
-----------------------------------------------------------------------------
(* Types. *)

\* What a cache file holds after a write that went through.
LEMMA FilesKept ==
  ASSUME K!TypeOK, NEW rec, NEW key, NEW saved \in BOOLEAN, K!Write(rec, key, saved),
         rec # None, WatchdogKey(rec)
  PROVE  cache' \in K!Files \cup {None}
<1>1. keys[rec] \in K!Rows
  BY DEF K!TypeOK, WatchdogKey
<1> QED
  BY <1>1 DEF K!Write, K!Files, K!Rows, K!TypeOK, WatchdogKey

LEMMA FilesStay ==
  ASSUME KeyInv, K!Next
  PROVE  cache' \in K!Files \cup {None}
<1>1. CASE UNCHANGED cache
  BY <1>1 DEF KeyInv, K!TypeOK
<1>2. CASE K!ReadRecord
  BY <1>2, ActiveIsOwn, FilesKept DEF K!ReadRecord, KeyInv, K!TypeOK
<1>3. CASE K!RefreshCache
  <2>1. PICK saved \in BOOLEAN : (saved => K!OwnSigner # None) /\ K!Write(record, K!OwnSigner,
         saved)
    BY <1>3 DEF K!RefreshCache
  <2>2. CASE saved
    BY <2>1, <2>2, OwnSignerIsStored, FilesKept DEF K!Write, KeyInv
  <2>3. CASE ~saved
    BY <2>1, <2>3 DEF K!Write, KeyInv, K!TypeOK
  <2> QED
    BY <2>2, <2>3
<1>4. ASSUME ~K!ReadRecord, ~K!RefreshCache
      PROVE  UNCHANGED cache
  BY <1>4
     DEF K!Next, K!Store, K!Revoke, K!NewKek, K!Launch, K!ProbeAgain, K!ProbeAnswers, K!ProbeFails,
         K!AttemptFails, K!Abandon, K!ReadSigner, K!StampLaunch, K!Reopen, K!ReopenFails,
         K!ReadActive, K!ReconnectLost, K!Crash, K!DbGoes, K!DbReturns, K!Tick, K!ofFiles
<1> QED
  BY <1>1, <1>2, <1>3, <1>4

\* The clock, the upsets, the KEK and the stamp.
LEMMA WorldStays ==
  ASSUME KeyInv, K!Next
  PROVE  /\ hour' \in 0..MaxStart /\ postgres' \in BOOLEAN /\ upsets' \in 0..MaxUpsets
         /\ kek' \in 1..MaxKeks /\ stamp' \in (0..MaxStart) \cup {None}
<1> USE KeyConstants DEF KeyInv, K!TypeOK, K!Upset, K!ofOperator, K!ofFiles, K!ofProcess, K!ofWorld
<1>1. CASE K!NewKek
  BY <1>1 DEF K!NewKek
<1>2. CASE K!StampLaunch \/ K!Reopen
  BY <1>2 DEF K!StampLaunch, K!Reopen
<1>3. CASE K!Crash
  BY <1>3 DEF K!Crash
<1>7. CASE K!DbGoes
  <2>1. postgres' \in BOOLEAN
    BY <1>7, Zenon DEF K!DbGoes
  <2>2. upsets' \in 0..MaxUpsets /\ UNCHANGED <<hour, kek, stamp>>
    BY <1>7 DEF K!DbGoes
  <2> QED
    BY <2>1, <2>2
<1>8. CASE K!DbReturns
  BY <1>8 DEF K!DbReturns
<1>4. CASE K!Tick
  BY <1>4 DEF K!Tick
<1>5. ASSUME ~K!NewKek, ~K!StampLaunch, ~K!Reopen, ~K!Crash, ~K!DbGoes, ~K!DbReturns, ~K!Tick
      PROVE  UNCHANGED <<hour, postgres, upsets, kek, stamp>>
  BY <1>5
     DEF K!Next, K!Store, K!Revoke, K!Launch, K!ProbeAgain, K!ProbeAnswers, K!ProbeFails, K!AttemptFails,
         K!Abandon, K!ReadSigner, K!ReadRecord, K!ReopenFails, K!ReadActive, K!RefreshCache,
         K!ReconnectLost
<1>6. CASE UNCHANGED <<hour, postgres, upsets, kek, stamp>>
  BY <1>6
<1> HIDE DEF KeyInv, K!TypeOK, K!Upset, K!ofOperator, K!ofFiles, K!ofProcess, K!ofWorld
<1> QED
  BY <1>1, <1>2, <1>3, <1>4, <1>5, <1>6, <1>7, <1>8

ProcessTyped ==
  /\ phase \in K!Starting \cup K!Reconnecting \cup {"off", "wired", "blind", "joined"}
  /\ launched \in 0..MaxStart /\ due \in 0..(MaxStart + Grace + Retry + Probe) /\ loaded \in 1..MaxKeks
  /\ signer \in Agents \cup {None} /\ record \in Agents \cup {None}
  /\ said \in [refreshed : BOOLEAN, matches : BOOLEAN] \cup {None}

LEMMA StopTyped ==
  ASSUME K!Stop
  PROVE  ProcessTyped'
BY KeyConstants DEF K!Stop, ProcessTyped, K!Starting, K!Attempting, K!Reconnecting

LEMMA FailedTyped ==
  ASSUME KeyInv, K!Failed
  PROVE  ProcessTyped'
<1>1. CASE ~K!Stop /\ hour - launched >= Grace
  BY <1>1, KeyConstants
     DEF KeyInv, KeysAreOwn, WatchdogKey, K!TypeOK, K!Failed, K!Usable, ProcessTyped, K!Starting,
         K!Attempting
<1>2. CASE ~K!Stop /\ ~(hour - launched >= Grace)
  BY <1>2, KeyConstants DEF KeyInv, K!TypeOK, K!Failed, ProcessTyped, K!Starting, K!Attempting
<1> QED
  BY <1>1, <1>2, StopTyped

LEMMA ProcessStays ==
  ASSUME KeyInv, K!Next
  PROVE  ProcessTyped'
<1> DEFINE Quiet == UNCHANGED K!ofProcess
<1>1. CASE Quiet
  BY <1>1 DEF KeyInv, K!TypeOK, ProcessTyped, K!ofProcess
<1>2. CASE K!Launch
  BY <1>2, KeyConstants DEF KeyInv, K!TypeOK, K!Launch, ProcessTyped, K!Starting, K!Attempting
<1>3. CASE K!ProbeAgain \/ K!ProbeAnswers
  BY <1>3, KeyConstants
     DEF KeyInv, K!TypeOK, DueInTime, K!ProbeAgain, K!ProbeAnswers, K!AttemptCeiling, ProcessTyped, K!Starting,
         K!Attempting
<1>4. CASE K!ProbeFails \/ K!AttemptFails \/ K!Abandon
  BY <1>4, FailedTyped DEF K!ProbeFails, K!AttemptFails, K!Abandon
<1>5. CASE K!ReadSigner
  BY <1>5, OwnSignerIsStored, StopTyped
     DEF KeyInv, K!TypeOK, WatchdogKey, K!ReadSigner, ProcessTyped, K!Starting, K!Attempting
<1>6. CASE K!ReadRecord
  <2>1. CASE K!Active("watchdog") = None
    BY <1>6, <2>1, FailedTyped DEF K!ReadRecord
  <2>2. CASE K!Active("watchdog") # None
    BY <1>6, <2>2, ActiveIsOwn
       DEF K!ReadRecord, KeyInv, K!TypeOK, WatchdogKey, ProcessTyped, K!Starting, K!Attempting
  <2> QED
    BY <2>1, <2>2
<1>7. CASE K!StampLaunch
  BY <1>7, KeyConstants DEF K!StampLaunch, KeyInv, K!TypeOK, ProcessTyped, K!Starting, K!Attempting
<1>8. CASE K!Reopen \/ K!ReopenFails
  BY <1>8, KeyConstants DEF K!Reopen, K!ReopenFails, KeyInv, K!TypeOK, ProcessTyped, K!Reconnecting
<1>9. CASE K!ReadActive
  <2>1. record' \in Agents \cup {None}
    BY <1>9, ActiveIsOwn DEF K!ReadActive, WatchdogKey
  <2>2. said' \in [refreshed : BOOLEAN, matches : BOOLEAN] \cup {None}
    <3>1. CASE K!Tell(FALSE)
      BY <3>1 DEF K!Tell
    <3>2. CASE UNCHANGED said
      BY <3>2 DEF KeyInv, K!TypeOK
    <3> QED
      BY <1>9, <3>1, <3>2 DEF K!ReadActive
  <2>3. phase' \in {"asked", "joined"}
    BY <1>9 DEF K!ReadActive, K!Tell
  <2> QED
    BY <1>9, <2>1, <2>2, <2>3 DEF K!ReadActive, KeyInv, K!TypeOK, ProcessTyped, K!Reconnecting
<1>10. CASE K!RefreshCache
  BY <1>10 DEF K!RefreshCache, K!Tell, KeyInv, K!TypeOK, ProcessTyped
<1>11. CASE K!ReconnectLost
  BY <1>11 DEF K!ReconnectLost, KeyInv, K!TypeOK, ProcessTyped
<1>12. CASE K!Crash
  BY <1>12, StopTyped DEF K!Crash
<1>13. ASSUME ~K!Launch, ~K!ProbeAgain, ~K!ProbeAnswers, ~K!ProbeFails, ~K!AttemptFails, ~K!Abandon,
              ~K!ReadSigner, ~K!ReadRecord, ~K!StampLaunch, ~K!Reopen, ~K!ReopenFails,
              ~K!ReadActive, ~K!RefreshCache, ~K!ReconnectLost, ~K!Crash
       PROVE  Quiet
  BY <1>13 DEF K!Next, K!Store, K!Revoke, K!NewKek, K!DbGoes, K!DbReturns, K!Tick
<1> HIDE DEF Quiet
<1> QED
  BY <1>1, <1>2, <1>3, <1>4, <1>5, <1>6, <1>7, <1>8, <1>9, <1>10, <1>11, <1>12, <1>13

LEMMA TypesStep ==
  ASSUME KeyInv, K!Next
  PROVE  K!TypeOK'
<1>1. K!TypeOK
  BY DEF KeyInv
<1> QED
  BY <1>1, RowsStay, FilesStay, WorldStays, ProcessStays DEF RowsKept, ProcessTyped, K!TypeOK
-----------------------------------------------------------------------------
(* The signer is the lane's own. *)

\* WatchdogKey of the next state's store.
StillOwn(a) == a \in Agents /\ keys'[a] # None /\ keys'[a].lane = "watchdog"

LEMMA KeysStep ==
  ASSUME KeyInv, K!Next
  PROVE  KeysAreOwn'
<1>0. K!TypeOK /\ KeysAreOwn
  BY DEF KeyInv
<1>1. \A a : WatchdogKey(a) => StillOwn(a)
  BY <1>0, WatchdogKeyStays DEF WatchdogKey, StillOwn
<1>2. cache' # None => cache'.key = cache'.agent /\ StillOwn(cache'.agent)
  <2>1. CASE UNCHANGED cache
    BY <1>0, <1>1, <2>1 DEF KeysAreOwn
  <2>2. CASE K!ReadRecord
    <3>1. PICK saved \in BOOLEAN : \/ UNCHANGED cache
                                   \/ /\ K!Active("watchdog") # None
                                      /\ K!Write(K!Active("watchdog"), signer, saved)
      BY <2>2 DEF K!ReadRecord
    <3> QED
      BY <1>1, <2>1, <3>1, ActiveIsOwn DEF K!Write
  <2>3. CASE K!RefreshCache
    <3>1. PICK saved \in BOOLEAN :
            (saved => K!OwnSigner # None) /\ K!Write(record, K!OwnSigner, saved)
      BY <2>3 DEF K!RefreshCache
    <3> QED
      BY <1>1, <2>1, <3>1, OwnSignerIsStored DEF K!Write
  <2>4. ASSUME ~K!ReadRecord, ~K!RefreshCache
        PROVE  UNCHANGED cache
    BY <2>4
       DEF K!Next, K!Store, K!Revoke, K!NewKek, K!Launch, K!ProbeAgain, K!ProbeAnswers, K!ProbeFails,
           K!AttemptFails, K!Abandon, K!ReadSigner, K!StampLaunch, K!Reopen, K!ReopenFails,
           K!ReadActive, K!ReconnectLost, K!Crash, K!DbGoes, K!DbReturns, K!Tick, K!ofFiles
  <2> QED
    BY <2>1, <2>2, <2>3, <2>4
<1>3. signer' # None => StillOwn(signer')
  <2>1. CASE UNCHANGED signer
    BY <1>0, <1>1, <2>1 DEF KeysAreOwn
  <2>2. CASE K!ReadSigner
    BY <1>1, <2>2, OwnSignerIsStored DEF K!ReadSigner, K!Stop
  <2>3. CASE K!Failed
    BY <1>0, <1>1, <2>3 DEF K!Failed, K!Stop, K!Usable, KeysAreOwn
  <2>4. CASE K!Crash
    BY <2>4 DEF K!Crash, K!Stop
  <2>5. ASSUME ~K!ReadSigner, ~K!Failed, ~K!Crash
        PROVE  UNCHANGED signer
    BY <2>5
       DEF K!Next, K!Store, K!Revoke, K!NewKek, K!Launch, K!ProbeAgain, K!ProbeAnswers, K!ProbeFails,
           K!AttemptFails, K!Abandon, K!ReadRecord, K!StampLaunch, K!Reopen, K!ReopenFails,
           K!ReadActive, K!RefreshCache, K!ReconnectLost, K!DbGoes, K!DbReturns, K!Tick,
           K!ofProcess
  <2> QED
    BY <2>1, <2>2, <2>3, <2>4, <2>5
<1>4. record' # None => StillOwn(record')
  <2>1. CASE UNCHANGED record
    BY <1>0, <1>1, <2>1 DEF KeysAreOwn
  <2>2. CASE K!ReadRecord /\ ~K!Failed
    BY <1>1, <2>2, ActiveIsOwn DEF K!ReadRecord
  <2>3. CASE K!ReadActive
    BY <1>1, <2>3, ActiveIsOwn DEF K!ReadActive
  <2>4. CASE K!Failed \/ K!ReadSigner \/ K!Crash \/ K!StampLaunch
    BY <1>0, <1>1, <2>4 DEF K!Failed, K!ReadSigner, K!Crash, K!StampLaunch, K!Stop, KeysAreOwn
  <2>5. ASSUME ~K!ReadRecord, ~K!ReadActive, ~K!Failed, ~K!ReadSigner, ~K!Crash, ~K!StampLaunch
        PROVE  UNCHANGED record
    BY <2>5
       DEF K!Next, K!Store, K!Revoke, K!NewKek, K!Launch, K!ProbeAgain, K!ProbeAnswers, K!ProbeFails,
           K!AttemptFails, K!Abandon, K!Reopen, K!ReopenFails, K!RefreshCache, K!ReconnectLost,
           K!DbGoes, K!DbReturns, K!Tick, K!ofProcess
  <2> QED
    BY <2>1, <2>2, <2>3, <2>4, <2>5
<1> QED
  BY <1>2, <1>3, <1>4 DEF KeysAreOwn, WatchdogKey, StillOwn
-----------------------------------------------------------------------------
(* The start is decided in time. *)

LEMMA FailedIsInTime ==
  ASSUME KeyInv, K!Failed, UNCHANGED hour, phase \in K!Starting
  PROVE  DueInTime'
<1> USE KeyConstants DEF KeyInv, K!TypeOK, DueInTime, K!Starting, K!Attempting
<1>1. CASE K!Stop
  BY <1>1 DEF K!Stop
<1>2. CASE ~K!Stop
  BY <1>2 DEF K!Failed
<1> QED
  BY <1>1, <1>2

LEMMA DueStep ==
  ASSUME KeyInv, K!Next
  PROVE  DueInTime'
<1>1. ASSUME UNCHANGED <<hour, launched, due, phase>>
      PROVE  DueInTime'
  BY <1>1 DEF KeyInv, DueInTime, K!Starting, K!Attempting
<1> USE KeyConstants DEF KeyInv, K!TypeOK, DueInTime, K!Starting, K!Attempting, K!ofWorld
<1>2. CASE K!Launch
  BY <1>2 DEF K!Launch
<1>3. CASE K!ProbeAgain \/ K!ProbeAnswers
  BY <1>3 DEF K!ProbeAgain, K!ProbeAnswers, K!AttemptCeiling
<1>4. CASE K!Tick
  BY <1>4 DEF K!Tick, K!ofProcess
<1>5. CASE K!Crash
  BY <1>5 DEF K!Crash, K!Stop
<1>6. CASE K!ProbeFails \/ K!AttemptFails \/ K!Abandon
  BY <1>6, FailedIsInTime DEF K!ProbeFails, K!AttemptFails, K!Abandon
<1>7. CASE K!ReadSigner
  BY <1>7 DEF K!ReadSigner, K!Stop
<1>8. CASE K!ReadRecord
  BY <1>8, FailedIsInTime DEF K!ReadRecord
<1>9. CASE \/ K!StampLaunch \/ K!Reopen \/ K!ReopenFails
           \/ K!ReadActive \/ K!RefreshCache \/ K!ReconnectLost
  BY <1>9
     DEF K!StampLaunch, K!Reopen, K!ReopenFails, K!ReadActive, K!RefreshCache, K!ReconnectLost,
         K!Tell, K!Reconnecting
<1> HIDE DEF KeyInv, K!TypeOK, DueInTime, K!Starting, K!Attempting, K!ofWorld
<1>10. ASSUME ~K!Launch, ~K!ProbeAgain, ~K!ProbeAnswers, ~K!Tick, ~K!Crash, ~K!ProbeFails, ~K!AttemptFails,
              ~K!Abandon, ~K!ReadSigner, ~K!ReadRecord, ~K!StampLaunch, ~K!Reopen, ~K!ReopenFails,
              ~K!ReadActive, ~K!RefreshCache, ~K!ReconnectLost
       PROVE  UNCHANGED <<hour, launched, due, phase>>
  BY <1>10 DEF K!Next, K!Store, K!Revoke, K!NewKek, K!DbGoes, K!DbReturns, K!ofWorld, K!ofProcess
<1> QED
  BY <1>1, <1>2, <1>3, <1>4, <1>5, <1>6, <1>7, <1>8, <1>9, <1>10
-----------------------------------------------------------------------------
(* The stamp and the event. *)

LEMMA WrittenStep ==
  ASSUME KeyInv, K!Next
  PROVE  Written'
<1> DEFINE Places == K!Reconnecting \cup {"wired", "joined"}
<1>1. ASSUME phase' \notin Places
      PROVE  Written'
  BY <1>1 DEF Written, K!TrailKnowsKey
<1>2. CASE UNCHANGED <<K!ofFiles, K!ofProcess>>
  BY <1>2 DEF KeyInv, Written, K!TrailKnowsKey, K!Reconnecting, K!ofFiles, K!ofProcess
<1>3. CASE K!StampLaunch \/ K!Reopen
  BY <1>3 DEF K!StampLaunch, K!Reopen, Written, K!TrailKnowsKey
<1>4. CASE K!ReadActive
  BY <1>4 DEF K!ReadActive, K!Tell, KeyInv, Written, K!TrailKnowsKey, K!Reconnecting, K!ofFiles
<1>5. CASE K!RefreshCache
  <2>1. PICK saved \in BOOLEAN : K!Write(record, K!OwnSigner, saved) /\ K!Tell(saved)
    BY <1>5 DEF K!RefreshCache
  <2>2. stamp' = launched' /\ UNCHANGED <<signer, record>>
    BY <1>5 DEF K!RefreshCache, KeyInv, Written, K!Reconnecting
  <2>3. said'.refreshed = saved /\ said'.matches = (saved => record = signer)
    BY <2>1 DEF K!Tell
  <2>4. saved => cache'.key = record
    BY <2>1 DEF K!Write
  <2>5. K!TrailKnowsKey'
    <3>1. CASE saved
      BY <2>2, <2>3, <2>4, <3>1 DEF K!TrailKnowsKey
    <3>2. CASE ~saved
      BY <2>3, <3>2 DEF K!TrailKnowsKey
    <3> QED
      BY <3>1, <3>2
  <2> QED
    BY <2>2, <2>5 DEF Written
<1>6. CASE K!ReopenFails \/ K!ReconnectLost
  BY <1>6, <1>1 DEF K!ReopenFails, K!ReconnectLost, K!Reconnecting
<1>7. ASSUME K!Failed \/ K!Stop
      PROVE  phase' \notin Places
  BY <1>7 DEF K!Failed, K!Stop, K!Reconnecting
<1>8. CASE K!ProbeFails \/ K!AttemptFails \/ K!Abandon \/ K!Crash
  BY <1>8, <1>1, <1>7 DEF K!ProbeFails, K!AttemptFails, K!Abandon, K!Crash
<1>9. CASE K!Launch \/ K!ProbeAgain \/ K!ProbeAnswers \/ K!ReadSigner \/ K!ReadRecord
  BY <1>9, <1>1, <1>7 DEF K!Launch, K!ProbeAgain, K!ProbeAnswers, K!ReadSigner, K!ReadRecord, K!Reconnecting
<1>10. ASSUME ~K!Launch, ~K!ProbeAgain, ~K!ProbeAnswers, ~K!Crash, ~K!ProbeFails, ~K!AttemptFails, ~K!Abandon,
              ~K!ReadSigner, ~K!ReadRecord, ~K!StampLaunch, ~K!Reopen, ~K!ReopenFails,
              ~K!ReadActive, ~K!RefreshCache, ~K!ReconnectLost
       PROVE  UNCHANGED <<K!ofFiles, K!ofProcess>>
  BY <1>10 DEF K!Next, K!Store, K!Revoke, K!NewKek, K!DbGoes, K!DbReturns, K!Tick
<1> QED
  BY <1>2, <1>3, <1>4, <1>5, <1>6, <1>8, <1>9, <1>10
-----------------------------------------------------------------------------
LEMMA KeysBegin == ExchangeInit => KeyInv
BY KeyConstants
   DEF ExchangeInit, K!Init, KeyInv, K!TypeOK, KeysAreOwn, DueInTime, Written, K!TrailKnowsKey,
       K!Starting, K!Attempting, K!Reconnecting

LEMMA KeysMove == KeyInv /\ K!Next => KeyInv'
BY TypesStep, KeysStep, DueStep, WrittenStep DEF KeyInv

LEMMA KeysStand == KeyInv /\ UNCHANGED ofKeys => KeyInv'
BY DEF KeyInv, K!TypeOK, KeysAreOwn, DueInTime, Written, K!TrailKnowsKey, WatchdogKey, K!Starting,
       K!Attempting, K!Reconnecting, ofKeys

\* The invariant is inductive: another part's step leaves it alone.
THEOREM KeyInvariant == ExchangeSpec => []KeyInv
<1>1. KeyInv /\ [ExchangeNext]_everything => KeyInv'
  BY KeysMove, KeysStand DEF ExchangeNext, everything
<1> QED
  BY <1>1, KeysBegin, PTL DEF ExchangeSpec

\* Every variable has its type (keystore.py, safety/keycache.py).
THEOREM KeyTypeCorrect == ExchangeSpec => []K!TypeOK
<1>1. KeyInv => K!TypeOK
  BY DEF KeyInv
<1> QED
  BY <1>1, KeyInvariant, PTL

\* However the watchdog came by its key and its database, and whatever rotated,
\* failed or flapped on the way: the key is its own lane's, the start is decided
\* less than two retry intervals and a probe past the grace, the stamp is the launch's and
\* the reconnect's event true (safety/coldstart.py, safety/keycache.py).
THEOREM ColdStartIsSoundHolds == ExchangeSpec => []ColdStartIsSound
<1>1. KeyInv => K!CacheOpens /\ K!OwnAuthority
  BY DEF KeyInv, KeysAreOwn, WatchdogKey, K!CacheOpens, K!OwnAuthority
<1>2. KeyInv => K!StartIsDecided
  BY KeyConstants DEF KeyInv, K!TypeOK, DueInTime, K!StartIsDecided
<1>3. KeyInv => K!StampIsLaunch /\ K!TrailKnowsKey
  BY DEF KeyInv, Written, K!StampIsLaunch, K!Reconnecting
<1>4. KeyInv => ColdStartIsSound
  BY <1>1, <1>2, <1>3 DEF ColdStartIsSound, K!ColdStartIsSound
<1> QED
  BY <1>4, KeyInvariant, PTL
-----------------------------------------------------------------------------
(* The rate budget, for its own specification: what the IP may spend. *)

\* A lane's attempt read its clock no longer ago than it may wait for the lock.
AsksAreRecent == \A l \in Lanes : asks[l].weight > 0 => now <= asks[l].at + MaxLag

\* What was sent since the mark was sent by a transaction whose instant is no
\* older than that, and the row's last refill remembers it.
SentIsRemembered == since > 0 => mark <= last + MaxLag

BudgetInv == TypeOK /\ AsksAreRecent /\ SentIsRemembered /\ SpendIsBounded

\* A product over a sum, for the pace and the rate.
LEMMA Distributes ==
  ASSUME NEW c \in Nat, NEW x \in Int, NEW y \in Int
  PROVE  c * (x + y) = c * x + c * y
  OBVIOUS

\* A longer time covers no less.
LEMMA Grows ==
  ASSUME NEW c \in Nat, NEW x \in Int, NEW y \in Int, x <= y
  PROVE  c * x <= c * y
<1>1. y - x \in Nat /\ c * (y - x) \in Nat
  OBVIOUS
<1>2. c * (x + (y - x)) = c * x + c * (y - x)
  BY Distributes
<1>3. x + (y - x) = y
  OBVIOUS
<1>4. c * x \in Int /\ c * y \in Int
  OBVIOUS
<1> QED BY <1>1, <1>2, <1>3, <1>4

\* The gate's window is worth its weight.
LEMMA WindowWorth ==
  ASSUME NEW w \in Weights
  PROVE  GateWindow(w) \in Nat /\ Pace * GateWindow(w) = w /\ w \in Nat \ {0}
  BY BudgetAssumption DEF GateWindow

\* A refill fills no further than the rim, and by no more than the rate.
LEMMA RefillBounds ==
  ASSUME TypeOK, NEW at \in 0 .. now
  PROVE  /\ Refilled(at) \in Int /\ Refilled(at) <= Burst
         /\ at <= last => Refilled(at) = available
         /\ at > last => Refilled(at) <= available + Rate * (at - last)
<1> USE BudgetAssumption DEF TypeOK
<1>1. CASE at <= last
  <2>1. Max(0, at - last) = 0
    BY <1>1 DEF Max
  <2>2. Rate * Max(0, at - last) = 0
    BY <2>1
  <2>3. Refilled(at) = available /\ available \in Int /\ available <= Burst
    BY <2>2 DEF Refilled, Min
  <2>4. ~(at > last)
    BY <1>1
  <2> QED BY <1>1, <2>3, <2>4
<1>2. CASE at > last
  <2> DEFINE more == Rate * (at - last)
  <2>1. Max(0, at - last) = at - last /\ more \in Int
    BY <1>2 DEF Max
  <2>2. Refilled(at) = Min(Burst, available + more)
    BY <2>1 DEF Refilled
  <2> HIDE DEF more
  <2>3. Refilled(at) \in Int /\ Refilled(at) <= Burst /\ Refilled(at) <= available + more
    BY <2>1, <2>2 DEF Min
  <2>4. ~(at <= last)
    BY <1>2
  <2> QED BY <2>3, <2>4 DEF more
<1> QED BY <1>1, <1>2

-----------------------------------------------------------------------------
\* Initially the bucket is full and nothing has been sent.
LEMMA InitInv == Init => BudgetInv
<1> SUFFICES ASSUME Init PROVE BudgetInv
  OBVIOUS
<1> USE BudgetAssumption DEF Init
<1>1. TypeOK
  BY DEF TypeOK, NoAsk
<1>2. AsksAreRecent /\ SentIsRemembered /\ SpendIsPaced
  BY DEF AsksAreRecent, SentIsRemembered, SpendIsPaced, NoAsk
<1>3. SpendIsCovered
  <2>1. Max(0, last - mark + MaxLag) = MaxLag /\ Rate * MaxLag \in Nat
    BY DEF Max
  <2> QED BY <2>1 DEF SpendIsCovered
<1> QED BY <1>1, <1>2, <1>3 DEF BudgetInv, SpendIsBounded

\* The steps that send nothing and move neither the mark nor the row.
LEMMA QuietStep ==
  ASSUME BudgetInv, TypeOK', AsksAreRecent', UNCHANGED <<row, mark, since>>
  PROVE  BudgetInv'
  BY DEF BudgetInv, row, SentIsRemembered, SpendIsBounded, SpendIsPaced, SpendIsCovered

\* What was sent stays covered by the refilled row.
LEMMA RefillCovers ==
  ASSUME BudgetInv, NEW at \in 0 .. now, mark <= at + MaxLag
  PROVE  /\ Rate * Max(0, Max(at, last) - mark + MaxLag) \in Nat
         /\ since <= Burst - Refilled(at) + Rate * Max(0, Max(at, last) - mark + MaxLag)
<1> USE BudgetAssumption
<1> DEFINE span == last - mark + MaxLag
           next == Max(at, last) - mark + MaxLag
<1>1. TypeOK /\ mark \in Int /\ last \in Int /\ since \in Nat /\ available \in Int
  BY DEF BudgetInv, TypeOK
<1>2. /\ Refilled(at) \in Int /\ Refilled(at) <= Burst
      /\ at <= last => Refilled(at) = available
      /\ at > last => Refilled(at) <= available + Rate * (at - last)
  BY <1>1, RefillBounds
<1>3. span \in Int /\ next \in Nat /\ Max(0, next) = next
  BY <1>1 DEF Max
<1>4. Rate * next \in Nat
  BY <1>3
<1> SUFFICES since <= Burst - Refilled(at) + Rate * next
  BY <1>3, <1>4
<1>5. CASE since = 0
  <2> HIDE DEF next
  <2> QED BY <1>2, <1>3, <1>4, <1>5
<1>6. CASE since > 0
  <2>1. span \in Nat /\ Max(0, last - mark + MaxLag) = span
    BY <1>1, <1>6 DEF BudgetInv, SentIsRemembered, Max
  <2>2. since <= Burst - available + Rate * span
    BY <2>1 DEF BudgetInv, SpendIsBounded, SpendIsCovered
  <2>3. CASE at <= last
    <3>1. next = span
      BY <1>1, <2>3 DEF Max
    <3> QED BY <1>2, <1>3, <1>4, <2>2, <2>3, <3>1
  <2>4. CASE at > last
    <3>1. at - last \in Nat /\ next = span + (at - last)
      BY <1>1, <2>4 DEF Max
    <3>2. Rate * next = Rate * span + Rate * (at - last)
      BY <2>1, <3>1, Distributes
    <3>3. Rate * span \in Int /\ Rate * (at - last) \in Int
      BY <2>1, <3>1
    <3> HIDE DEF next, span
    <3> QED BY <1>1, <1>2, <1>3, <1>4, <2>2, <2>4, <3>2, <3>3
  <2> QED BY <1>1, <2>3, <2>4
<1> QED BY <1>1, <1>5, <1>6

\* A send of a lane's weight w, at the instant it read, in a row that was
\* refilled: the gate advances by w's window from where it was, or from that
\* instant if it was open.
LEMMA SendKeepsBounds ==
  ASSUME BudgetInv, NEW at \in 0 .. now, NEW w \in Weights, NEW g \in Nat,
         mark <= at + MaxLag, at <= g, since > 0 => gate <= g,
         mark' = mark, since' = since + w, last' = Max(at, last),
         available' = Refilled(at) - w, gate' = g + GateWindow(w)
  PROVE  SentIsRemembered' /\ SpendIsBounded'
<1> USE BudgetAssumption
<1>1. TypeOK /\ mark \in Int /\ last \in Int /\ gate \in Nat /\ since \in Nat /\ available \in Int
  BY DEF BudgetInv, TypeOK
<1>2. GateWindow(w) \in Nat /\ Pace * GateWindow(w) = w /\ w \in Nat \ {0}
  BY WindowWorth
<1>3. /\ Refilled(at) \in Int /\ Refilled(at) <= Burst
  BY <1>1, RefillBounds
<1>4. SentIsRemembered'
  BY <1>1 DEF SentIsRemembered, Max
<1>5. SpendIsPaced'
  <2> DEFINE before == g - mark + MaxLag
  <2>1. before \in Nat /\ g - mark + MaxLag \in Int
    BY <1>1
  <2>2. Pace * (before + GateWindow(w)) = Pace * before + w
    BY <1>2, <2>1, Distributes
  <2>3. gate' - mark' + MaxLag = before + GateWindow(w)
    BY <1>1, <1>2
  <2>4. since <= Pace * before
    <3>1. CASE since = 0
      BY <2>1, <3>1
    <3>2. CASE since > 0
      <4>1. since <= Pace * (gate - mark + MaxLag)
        BY <3>2 DEF BudgetInv, SpendIsBounded, SpendIsPaced
      <4>2. gate - mark + MaxLag \in Int /\ gate - mark + MaxLag <= before
        BY <1>1, <3>2
      <4>3. Pace * (gate - mark + MaxLag) <= Pace * before
        BY <2>1, <4>2, Grows
      <4>4. Pace * (gate - mark + MaxLag) \in Int /\ Pace * before \in Int
        BY <2>1, <4>2
      <4> QED BY <1>1, <4>1, <4>3, <4>4
    <3> QED BY <1>1, <3>1, <3>2
  <2>5. Pace * before \in Int
    BY <2>1
  <2> HIDE DEF before
  <2>6. since + w <= Pace * (before + GateWindow(w))
    BY <1>1, <1>2, <2>2, <2>4, <2>5
  <2> QED BY <2>3, <2>6 DEF SpendIsPaced
<1>6. SpendIsCovered'
  <2> DEFINE cover == Rate * Max(0, Max(at, last) - mark + MaxLag)
  <2>1. cover \in Nat /\ since <= Burst - Refilled(at) + cover
    BY RefillCovers
  <2>2. Rate * Max(0, last' - mark' + MaxLag) = cover
    OBVIOUS
  <2> HIDE DEF cover
  <2> QED BY <1>1, <1>2, <1>3, <2>1, <2>2 DEF SpendIsCovered
<1> QED BY <1>4, <1>5, <1>6 DEF SpendIsBounded

-----------------------------------------------------------------------------
\* Each step keeps the row, the attempts and the bounds.
LEMMA TickInv == BudgetInv /\ Tick => BudgetInv'
<1> SUFFICES ASSUME BudgetInv, Tick PROVE BudgetInv'
  OBVIOUS
<1> USE BudgetAssumption
<1>1. TypeOK'
  BY DEF BudgetInv, TypeOK, Tick, row
<1>2. AsksAreRecent'
  BY DEF BudgetInv, TypeOK, AsksAreRecent, Tick
<1> QED BY <1>1, <1>2, QuietStep DEF Tick

LEMMA WatchInv == BudgetInv /\ Watch => BudgetInv'
<1> SUFFICES ASSUME BudgetInv, Watch PROVE BudgetInv'
  OBVIOUS
<1> USE BudgetAssumption
<1>1. TypeOK' /\ AsksAreRecent'
  BY DEF BudgetInv, TypeOK, AsksAreRecent, Watch, row
<1>2. SentIsRemembered' /\ SpendIsPaced'
  BY DEF Watch, SentIsRemembered, SpendIsPaced
<1>3. SpendIsCovered'
  <2>1. available' \in Int /\ available' <= Burst /\ last' \in Int /\ mark' \in Int
    BY <1>1 DEF TypeOK
  <2> DEFINE span == last' - mark' + MaxLag
  <2>2. Max(0, span) \in Nat
    <3>1. span \in Int
      BY <2>1
    <3> HIDE DEF span
    <3> QED BY <3>1 DEF Max
  <2>3. Rate * Max(0, last' - mark' + MaxLag) \in Nat
    BY <2>2
  <2> QED BY <2>1, <2>3 DEF Watch, SpendIsCovered
<1> QED BY <1>1, <1>2, <1>3 DEF BudgetInv, SpendIsBounded

LEMMA AskInv == ASSUME NEW l \in Lanes, BudgetInv, Ask(l) PROVE BudgetInv'
<1> USE BudgetAssumption
<1>1. TypeOK'
  BY DEF BudgetInv, TypeOK, Ask, row
<1>2. AsksAreRecent'
  BY DEF BudgetInv, TypeOK, AsksAreRecent, Ask
<1> QED BY <1>1, <1>2, QuietStep DEF Ask

\* What a transaction of a lane knows of the attempt it serves.
LEMMA AttemptIsRecent ==
  ASSUME NEW l \in Lanes, BudgetInv, asks[l].weight > 0
  PROVE  /\ asks[l].weight \in Weights /\ asks[l].at \in 0 .. now
         /\ mark <= asks[l].at + MaxLag
  BY BudgetAssumption DEF BudgetInv, TypeOK, AsksAreRecent

LEMMA TrySpendInv == ASSUME NEW l \in Lanes, BudgetInv, TrySpend(l) PROVE BudgetInv'
<1> DEFINE w == asks[l].weight
           at == asks[l].at
<1> USE BudgetAssumption
<1>1. w \in Weights /\ at \in 0 .. now /\ mark <= at + MaxLag /\ w \in Nat \ {0}
  BY AttemptIsRecent DEF TrySpend
<1>2. /\ TypeOK
      /\ Refilled(at) \in Int /\ Refilled(at) <= Burst
  BY <1>1, RefillBounds DEF BudgetInv
<1>3. /\ asks' = [asks EXCEPT ![l] = NoAsk] /\ last' = Max(at, last)
      /\ UNCHANGED <<now, mark>>
  BY DEF TrySpend
<1>4. AsksAreRecent'
  BY <1>1, <1>2, <1>3 DEF BudgetInv, TypeOK, AsksAreRecent, NoAsk
<1>5. /\ now' \in 0 .. MaxTime /\ last' \in 0 .. now' /\ mark' \in 0 .. now'
      /\ asks' \in [Lanes -> [weight : Weights \cup {0}, at : 0 .. now']]
  BY <1>1, <1>2, <1>3 DEF TypeOK, Max, NoAsk
<1>6. CASE Fits(l, at)
  <2>1. /\ available' = Refilled(at) - w /\ gate' = at + GateWindow(w) /\ since' = since + w
        /\ \E s \in Weights \cup {0} : owed' = [owed EXCEPT ![l] = s]
    BY <1>6 DEF TrySpend, Sends
  <2>2. GateWindow(w) \in Nat /\ gate <= at /\ at \in Nat
    BY <1>1, <1>6, WindowWorth DEF Fits
  <2>3. TypeOK'
    BY <1>1, <1>2, <1>5, <2>1, <2>2 DEF TypeOK
  <2>4. SentIsRemembered' /\ SpendIsBounded'
    <3> HIDE DEF w, at
    <3> QED BY <1>1, <1>3, <2>1, <2>2, SendKeepsBounds
  <2> QED BY <1>4, <2>3, <2>4 DEF BudgetInv
<1>7. CASE ~Fits(l, at)
  <2>1. available' = Refilled(at) /\ UNCHANGED <<gate, owed, since>>
    BY <1>7 DEF TrySpend
  <2>2. TypeOK'
    BY <1>2, <1>5, <2>1 DEF TypeOK
  <2>3. SentIsRemembered'
    BY <1>1, <1>2, <1>3, <2>1 DEF BudgetInv, TypeOK, SentIsRemembered, Max
  <2>4. SpendIsPaced'
    BY <1>3, <2>1 DEF BudgetInv, SpendIsBounded, SpendIsPaced
  <2>5. SpendIsCovered'
    <3> HIDE DEF w, at
    <3>1. since <= Burst - Refilled(at) + Rate * Max(0, Max(at, last) - mark + MaxLag)
      BY <1>1, RefillCovers
    <3> QED BY <1>3, <2>1, <3>1 DEF SpendIsCovered
  <2> QED BY <1>4, <2>2, <2>3, <2>4, <2>5 DEF BudgetInv, SpendIsBounded
<1> QED BY <1>6, <1>7

LEMMA SettleInv == ASSUME NEW l \in Lanes, BudgetInv, Settle(l) PROVE BudgetInv'
<1> DEFINE w == owed[l]
           at == asks[l].at
           g == Max(gate, at)
<1> USE BudgetAssumption
<1>1. /\ w \in Weights /\ w \in Nat \ {0} /\ at \in 0 .. now
      /\ mark <= at + MaxLag
  <2>1. owed[l] \in Weights
    BY DEF Settle, BudgetInv, TypeOK
  <2>2. asks[l].at \in 0 .. now /\ mark <= asks[l].at + MaxLag
    BY AttemptIsRecent DEF Settle
  <2> QED BY <2>1, <2>2
<1>2. /\ TypeOK
      /\ Refilled(at) \in Int /\ Refilled(at) <= Burst
  BY <1>1, RefillBounds DEF BudgetInv
<1>3. /\ asks' = [asks EXCEPT ![l] = NoAsk] /\ owed' = [owed EXCEPT ![l] = 0]
      /\ last' = Max(at, last) /\ UNCHANGED <<now, mark>>
      /\ available' = Refilled(at) - w /\ gate' = g + GateWindow(w) /\ since' = since + w
  BY DEF Settle, Sends
<1>4. AsksAreRecent'
  BY <1>1, <1>2, <1>3 DEF BudgetInv, TypeOK, AsksAreRecent, NoAsk
<1>5. GateWindow(w) \in Nat /\ g \in Nat /\ at <= g /\ gate <= g
  BY <1>1, <1>2, WindowWorth DEF TypeOK, Max
<1>6. TypeOK'
  <2>1. last' \in 0 .. now' /\ gate' \in Nat /\ since' \in Nat /\ available' \in Int
        /\ available' <= Burst
    BY <1>1, <1>2, <1>3, <1>5 DEF TypeOK, Max
  <2> QED BY <1>1, <1>2, <1>3, <2>1 DEF TypeOK, NoAsk
<1>7. SentIsRemembered' /\ SpendIsBounded'
  <2> HIDE DEF w, at, g
  <2> QED BY <1>1, <1>3, <1>5, SendKeepsBounds
<1> QED BY <1>4, <1>6, <1>7 DEF BudgetInv

LEMMA NextInv == BudgetInv /\ [Next]_vars => BudgetInv'
<1> SUFFICES ASSUME BudgetInv, [Next]_vars PROVE BudgetInv'
  OBVIOUS
<1>1. CASE Tick
  BY <1>1, TickInv
<1>2. CASE Watch
  BY <1>2, WatchInv
<1>3. ASSUME NEW l \in Lanes, Ask(l) PROVE BudgetInv'
  BY <1>3, AskInv
<1>4. ASSUME NEW l \in Lanes, TrySpend(l) PROVE BudgetInv'
  BY <1>4, TrySpendInv
<1>5. ASSUME NEW l \in Lanes, Settle(l) PROVE BudgetInv'
  BY <1>5, SettleInv
<1>6. CASE UNCHANGED vars
  BY <1>6 DEF vars, row, BudgetInv, TypeOK, AsksAreRecent, SentIsRemembered, SpendIsBounded,
              SpendIsPaced, SpendIsCovered
<1> QED BY <1>1, <1>2, <1>3, <1>4, <1>5, <1>6 DEF Next

\* The bucket, the gate and the attempts keep their types: the bucket is never
\* above its rim, and no refill or gate is ahead of what time allows.
THEOREM BudgetTypeCorrect == Spec => []TypeOK
<1>1. BudgetInv => TypeOK
  BY DEF BudgetInv
<1> QED BY InitInv, NextInv, <1>1, PTL DEF Spec

\* Whatever lanes, weights and rate: from any instant on, the IP sends no more
\* than the pace allows until the gate opens again, and no more than one full
\* bucket, the refill and the standing debt cover (budget.py _try_spend and
\* settle, with clocks read before the row's lock).
THEOREM SpendIsBoundedHolds == Spec => []SpendIsBounded
<1>1. BudgetInv => SpendIsBounded
  BY DEF BudgetInv
<1> QED BY InitInv, NextInv, <1>1, PTL DEF Spec

-----------------------------------------------------------------------------
(* The six parts together. *)

LEMMA BudgetInExchange == ExchangeSpec => []BudgetInv
<1>1. ExchangeInit => BudgetInv
  BY InitInv DEF ExchangeInit
<1>2. BudgetInv /\ [ExchangeNext]_everything => BudgetInv'
  BY NextInv DEF ExchangeNext, everything
<1> QED BY <1>1, <1>2, PTL DEF ExchangeSpec

\* Every variable of the six modules keeps its type, in one behaviour of them all:
\* the switch, the bucket, the call and its trail, the keys, the track record (no
\* stored trip ends before it begins) and the monitor.
THEOREM TypesAlwaysHold == ExchangeSpec => []TypesOK
<1>1. BudgetInv => TypeOK
  BY DEF BudgetInv
<1>2. ExchangeInv => D!TypeOK /\ S!TypeOK /\ M!TypeOK
  BY DEF ExchangeInv, SwitchInv, CallInv, CallTyped, MonitorInv
<1>3. TypeOK /\ D!TypeOK /\ S!TypeOK /\ M!TypeOK /\ K!TypeOK /\ T!TypeOK => TypesOK
  BY DEF TypesOK
<1> QED
  BY <1>1, <1>2, <1>3, BudgetInExchange, ExchangeInvariant, KeyTypeCorrect, StoreTypeCorrect, PTL
=============================================================================
