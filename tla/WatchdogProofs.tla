--------------------------- MODULE WatchdogProofs ---------------------------
(***************************************************************************)
(* What a stamped sweep means, for every set of sub-accounts, threshold,   *)
(* and number of halts and faults.                                         *)
(***************************************************************************)
EXTENDS Watchdog, TLAPS

USE SubAssumption, BoundsAssumption, NothingAssumption

-----------------------------------------------------------------------------
(* Type correctness. *)

ForHalt == {"sweep", "verify"}

\* What TypeOK leaves out: there is room for the next halt, a cycle that works
\* has a task, and one that works for a halt names a row.
CycleOK ==
  /\ ~Halted => Len(halts) < MaxHalts
  /\ wd.at \in {"scope", "walk", "cancel"} => wd.task # "none"
  /\ wd.at = "stamp" => wd.task \in ForHalt
  /\ wd.task \in ForHalt \/ wd.at = "clear" => wd.halt \in DOMAIN halts

WInv == TypeOK /\ CycleOK

LEMMA IdleCycle ==
  /\ Idle \in Cycle /\ Idle.at = "idle" /\ Idle.task = "none"
  /\ \A t \in Task, h \in {0} \cup HaltId, a \in {"scope", "settle"} :
       [Idle EXCEPT !.at = a, !.task = t, !.halt = h] \in Cycle
  /\ \A a \in At : [Idle EXCEPT !.at = a] \in Cycle
  /\ \A t \in Task : [Idle EXCEPT !.at = "settle", !.task = t] \in Cycle
  BY DEF Idle, Cycle, At, Task

\* The rows as a sequence.
LEMMA Rows ==
  ASSUME TypeOK
  PROVE  /\ Len(halts) \in Nat /\ DOMAIN halts = 1 .. Len(halts) /\ DOMAIN halts \subseteq HaltId
         /\ \A h \in DOMAIN halts : halts[h] \in HaltRow
         /\ Standing \in 0 .. Len(halts)
         /\ Halted <=> halts # <<>> /\ ~halts[Len(halts)].resumed
         /\ Halted => Standing = Len(halts) /\ Standing \in DOMAIN halts
         /\ Standing \in {0} \cup HaltId
  <1>1. Len(halts) \in Nat /\ DOMAIN halts = 1 .. Len(halts) /\ Len(halts) <= MaxHalts
    BY DEF TypeOK
  <1>2. DOMAIN halts \subseteq HaltId
    BY <1>1 DEF HaltId
  <1>3. \A h \in DOMAIN halts : halts[h] \in HaltRow
    BY <1>1 DEF TypeOK
  <1>4. halts # <<>> => Len(halts) > 0
    BY DEF TypeOK
  <1>5. QED
    BY <1>1, <1>2, <1>3, <1>4 DEF Standing, Halted, HaltId

\* Opening a row, or joining the one that stands.
LEMMA OpenedRows ==
  ASSUME WInv, halts' = Opened
  PROVE  /\ halts' \in Seq(HaltRow) /\ Len(halts') <= MaxHalts /\ Len(halts') \in Nat \ {0}
         /\ DOMAIN halts \subseteq DOMAIN halts' /\ Len(halts') \in DOMAIN halts'
         /\ \A h \in DOMAIN halts : halts'[h] = halts[h]
         /\ Halted'
         /\ Halted => halts' = halts
         /\ ~Halted => /\ Standing' = Len(halts) + 1 /\ DOMAIN halts' = DOMAIN halts \cup {Len(halts) + 1}
                       /\ halts'[Len(halts) + 1] = [swept |-> FALSE, resumed |-> FALSE, seenEmpty |-> {}]
  <1>1. CASE Halted
    <2>1. halts' = halts
      BY <1>1 DEF Opened
    <2>2. Len(halts) # 0
      BY <1>1, Rows DEF WInv
    <2>3. Halted'
      BY <1>1, <2>1 DEF Halted, Standing
    <2>4. QED
      BY <1>1, <2>1, <2>2, <2>3, Rows DEF WInv, TypeOK
  <1>2. CASE ~Halted
    <2> DEFINE row == [swept |-> FALSE, resumed |-> FALSE, seenEmpty |-> {}]
    <2>1. row \in HaltRow /\ row.resumed = FALSE
      BY DEF HaltRow
    <2>2. halts' = Append(halts, row)
      BY <1>2 DEF Opened
    <2> HIDE DEF row
    <2>3. /\ halts' \in Seq(HaltRow) /\ Len(halts') = Len(halts) + 1
          /\ halts'[Len(halts) + 1] = row
          /\ \A h \in 1 .. Len(halts) : halts'[h] = halts[h]
      BY <2>1, <2>2 DEF WInv, TypeOK
    <2>4. Len(halts) < MaxHalts /\ Len(halts) \in Nat
      BY <1>2, Rows DEF WInv, CycleOK
    <2>5. Standing' = Len(halts) + 1
      BY <2>1, <2>3, <2>4 DEF Standing
    <2>6. DOMAIN halts = 1 .. Len(halts) /\ DOMAIN halts' = 1 .. (Len(halts) + 1)
      BY <2>3, <2>4, Rows DEF WInv
    <2>7. QED
      BY <1>2, <2>3, <2>4, <2>5, <2>6 DEF row, Halted
  <1>3. QED
    BY <1>1, <1>2

\* An update of a row in place: as many rows, the same ones standing.
LEMMA SameStanding ==
  ASSUME TypeOK, halts' \in Seq(HaltRow), Len(halts') = Len(halts),
         \A h \in DOMAIN halts : halts'[h].resumed = halts[h].resumed
  PROVE  Standing' = Standing /\ (Halted' <=> Halted) /\ DOMAIN halts' = DOMAIN halts
  <1>1. DOMAIN halts' = DOMAIN halts /\ Len(halts) \in Nat
    BY DEF TypeOK
  <1>2. (halts' = <<>>) <=> (halts = <<>>)
    BY DEF TypeOK
  <1>3. halts # <<>> => Len(halts) \in DOMAIN halts
    BY <1>1 DEF TypeOK
  <1>4. QED
    BY <1>1, <1>2, <1>3 DEF Standing, Halted

\* An account read empty is noted in every row.
LEMMA SeenEmptyRows ==
  ASSUME TypeOK, NEW a \in Sub
  PROVE  /\ SeenEmpty(a) \in Seq(HaltRow) /\ Len(SeenEmpty(a)) = Len(halts)
         /\ \A h \in DOMAIN halts :
              /\ SeenEmpty(a)[h].resumed = halts[h].resumed
              /\ SeenEmpty(a)[h].swept = halts[h].swept
              /\ SeenEmpty(a)[h].seenEmpty = halts[h].seenEmpty \cup {a}
  <1>1. \A h \in DOMAIN halts :
          LET row == [halts[h] EXCEPT !.seenEmpty = @ \cup {a}]
          IN  /\ row \in HaltRow /\ row.resumed = halts[h].resumed /\ row.swept = halts[h].swept
              /\ row.seenEmpty = halts[h].seenEmpty \cup {a}
    BY Rows DEF HaltRow
  <1>2. SeenEmpty(a) \in [1 .. Len(halts) -> HaltRow] /\ Len(halts) \in Nat
    BY <1>1, Rows DEF SeenEmpty
  <1>3. SeenEmpty(a) \in Seq(HaltRow) /\ Len(SeenEmpty(a)) = Len(halts)
    BY <1>2
  <1>4. QED
    BY <1>1, <1>3, Rows DEF SeenEmpty

LEMMA StampedRows ==
  ASSUME TypeOK, NEW h \in DOMAIN halts, halts' = [halts EXCEPT ![h].swept = TRUE]
  PROVE  /\ halts' \in Seq(HaltRow) /\ Len(halts') = Len(halts)
         /\ halts'[h].swept /\ \A k \in DOMAIN halts \ {h} : halts'[k] = halts[k]
         /\ \A k \in DOMAIN halts : /\ halts'[k].resumed = halts[k].resumed
                                    /\ halts'[k].seenEmpty = halts[k].seenEmpty
  <1>1. [halts[h] EXCEPT !.swept = TRUE] \in HaltRow
    BY Rows DEF HaltRow
  <1>2. halts' = [halts EXCEPT ![h] = [halts[h] EXCEPT !.swept = TRUE]]
    OBVIOUS
  <1>3. halts' \in Seq(HaltRow) /\ Len(halts') = Len(halts)
    BY <1>1, <1>2 DEF TypeOK
  <1>4. /\ halts'[h] = [halts[h] EXCEPT !.swept = TRUE]
        /\ \A k \in DOMAIN halts \ {h} : halts'[k] = halts[k]
    BY <1>2, Rows DEF TypeOK
  <1>5. QED
    BY <1>3, <1>4, Rows DEF HaltRow

LEMMA ResumedRows ==
  ASSUME TypeOK, NEW h \in DOMAIN halts, halts' = [halts EXCEPT ![h].resumed = TRUE]
  PROVE  /\ halts' \in Seq(HaltRow) /\ Len(halts') = Len(halts)
         /\ halts'[h].resumed
         /\ \A k \in DOMAIN halts : /\ halts'[k].swept = halts[k].swept
                                    /\ halts'[k].seenEmpty = halts[k].seenEmpty
  <1>1. [halts[h] EXCEPT !.resumed = TRUE] \in HaltRow
    BY Rows DEF HaltRow
  <1>2. halts' = [halts EXCEPT ![h] = [halts[h] EXCEPT !.resumed = TRUE]]
    OBVIOUS
  <1>3. halts' \in Seq(HaltRow) /\ Len(halts') = Len(halts)
    BY <1>1, <1>2 DEF TypeOK
  <1>4. /\ halts'[h] = [halts[h] EXCEPT !.resumed = TRUE]
        /\ \A k \in DOMAIN halts \ {h} : halts'[k] = halts[k]
    BY <1>2, Rows DEF TypeOK
  <1>5. QED
    BY <1>3, <1>4, Rows DEF HaltRow

LEMMA InitWInv == Init => WInv
  <1> SUFFICES ASSUME Init PROVE WInv
    OBVIOUS
  <1>1. halts \in Seq(HaltRow) /\ Len(halts) = 0
    BY DEF Init
  <1>2. executor \in ExecutorState
    BY DEF Init, ExecutorState
  <1>3. wd \in Cycle /\ wd.at = "idle" /\ wd.task = "none"
    BY IdleCycle DEF Init
  <1>4. TypeOK
    BY <1>1, <1>2, <1>3 DEF Init, TypeOK, Incident
  <1>5. CycleOK
    BY <1>1, <1>3 DEF CycleOK, ForHalt
  <1>6. QED
    BY <1>4, <1>5 DEF WInv

LEMMA UpsetType ==
  ASSUME TypeOK, upsets' = upsets \/ Upset
  PROVE  upsets' \in 0 .. MaxUpsets
  BY DEF TypeOK, Upset

\* The executor, the venue, the clock and Postgres itself leave the rows and the
\* watchdog alone.
OutsideStep ==
  \/ Executor \/ ExecutorDies \/ ExecutorStarts \/ BeatAges
  \/ PostgresFails \/ PostgresReturns \/ OrderLeaves

LEMMA OutsideTypes ==
  ASSUME WInv, OutsideStep
  PROVE  WInv'
  <1>1. UNCHANGED <<halts, wd, incident, streak>>
    BY DEF OutsideStep, Executor, ExecutorBeats, ExecutorRests, BracketGate, BracketAttempt,
           BracketLands, ExecutorDies, ExecutorStarts, BeatAges, PostgresFails,
           PostgresReturns, OrderLeaves
  <1>2. executor' \in ExecutorState
    <2>1. CASE Executor
      BY <2>1 DEF Executor, ExecutorBeats, ExecutorRests, BracketGate, BracketAttempt,
                  BracketLands, ExecutorAt, ExecutorState, WInv, TypeOK
    <2>2. CASE ExecutorDies \/ ExecutorStarts
      BY <2>2 DEF ExecutorDies, ExecutorStarts, ExecutorAt, ExecutorState
    <2>3. CASE BeatAges \/ PostgresFails \/ PostgresReturns \/ OrderLeaves
      BY <2>3 DEF BeatAges, PostgresFails, PostgresReturns, OrderLeaves, WInv, TypeOK
    <2>4. QED
      BY <2>1, <2>2, <2>3 DEF OutsideStep
  <1>3. resting' \subseteq Sub
    <2>1. executor.at = "wire" => executor.on \in Sub
      BY DEF WInv, TypeOK, ExecutorState
    <2>2. resting \subseteq Sub
      BY DEF WInv, TypeOK
    <2>3. QED
      BY <2>1, <2>2 DEF OutsideStep, Executor, ExecutorBeats, ExecutorRests, BracketGate,
           BracketAttempt, BracketLands, ExecutorDies, ExecutorStarts, BeatAges,
           PostgresFails, PostgresReturns, OrderLeaves
  <1>4. postgres' \in BOOLEAN /\ beat' \in {"none", "fresh", "stale"}
    BY DEF OutsideStep, Executor, ExecutorBeats, ExecutorRests, BracketGate, BracketAttempt,
           BracketLands, ExecutorDies, ExecutorStarts, BeatAges, PostgresFails,
           PostgresReturns, OrderLeaves, WInv, TypeOK
  <1>5. upsets' \in 0 .. MaxUpsets
    <2>1. upsets' = upsets \/ Upset
      BY DEF OutsideStep, Executor, ExecutorBeats, ExecutorRests, BracketGate, BracketAttempt,
             BracketLands, ExecutorDies, ExecutorStarts, BeatAges, PostgresFails,
             PostgresReturns, OrderLeaves
    <2>2. QED
      BY <2>1, UpsetType DEF WInv
  <1>6. QED
    BY <1>1, <1>2, <1>3, <1>4, <1>5 DEF WInv, TypeOK, CycleOK, Halted, Standing

\* How the helpers of the cycle move it.
LEMMA BeginMoves ==
  ASSUME NEW t \in Task, NEW h \in {0} \cup HaltId, Begin(t, h)
  PROVE  wd' \in Cycle /\ wd'.at = "scope" /\ wd'.task = t /\ wd'.halt = h
  BY DEF Begin, Idle, Cycle, At, Task

LEMMA PassOverMoves ==
  ASSUME PassOver
  PROVE  wd' \in Cycle /\ wd'.at \in {"idle", "settle"} /\ wd'.task \in {"none", "pass"}
  BY DEF PassOver, Idle, Cycle, At, Task

\* What a step of the watchdog has to show.
WatchShows ==
  /\ halts' \in Seq(HaltRow) /\ Len(halts') <= MaxHalts /\ (~Halted' => Len(halts') < MaxHalts)
  /\ wd' \in Cycle
  /\ wd'.at \in {"scope", "walk", "cancel"} => wd'.task # "none"
  /\ wd'.at = "stamp" => wd'.task \in ForHalt
  /\ wd'.task \in ForHalt \/ wd'.at = "clear" => wd'.halt \in DOMAIN halts'
  /\ incident' \in Incident /\ streak' \in 0 .. BlindAfter

LEMMA WatchTypes ==
  ASSUME WInv, WatchShows, UNCHANGED <<postgres, executor, beat>>,
         resting' \subseteq Sub, upsets' = upsets \/ Upset
  PROVE  WInv'
  <1>1. upsets' \in 0 .. MaxUpsets
    BY UpsetType DEF WInv
  <1>2. postgres' \in BOOLEAN /\ executor' \in ExecutorState /\ beat' \in {"none", "fresh", "stale"}
    BY DEF WInv, TypeOK
  <1>3. QED
    BY <1>1, <1>2 DEF WatchShows, WInv, TypeOK, CycleOK

\* A step that leaves the rows alone has its own place to answer for.
LEMMA SameRows ==
  ASSUME WInv, UNCHANGED <<halts>>, wd' \in Cycle, incident' \in Incident, streak' \in 0 .. BlindAfter,
         wd'.at \in {"scope", "walk", "cancel"} => wd'.task # "none",
         wd'.at = "stamp" => wd'.task \in ForHalt,
         wd'.task \in ForHalt \/ wd'.at = "clear" => wd'.halt \in DOMAIN halts
  PROVE  WatchShows
  <1>1. Halted' <=> Halted
    BY DEF Halted, Standing
  <1>2. QED
    BY <1>1 DEF WatchShows, WInv, TypeOK, CycleOK

\* Deciding what to do; dying and starting.
LEMMA DecideTypes ==
  ASSUME WInv, IncidentCycle \/ LivenessRead \/ LivenessUnreadable \/ WatchdogDies \/ WatchdogStarts
  PROVE  WInv'
  <1>1. /\ UNCHANGED <<postgres, executor, beat, resting, halts>>
        /\ upsets' = upsets \/ Upset
    BY DEF IncidentCycle, LivenessRead, LivenessUnreadable, WatchdogDies, WatchdogStarts, world
  <1>2. resting' \subseteq Sub /\ wd \in Cycle /\ incident \in Incident /\ streak \in 0 .. BlindAfter
    BY <1>1 DEF WInv, TypeOK
  <1>3. CASE IncidentCycle
    <2>1. Begin("pass", 0) /\ UNCHANGED <<incident, streak>>
      BY <1>3 DEF IncidentCycle
    <2>2. wd' \in Cycle /\ wd'.at = "scope" /\ wd'.task = "pass"
      BY <2>1, BeginMoves DEF Task
    <2>3. QED
      BY <1>1, <1>2, <2>1, <2>2, SameRows, WatchTypes DEF ForHalt
  <1>4. CASE LivenessRead
    <2>1. streak' \in 0 .. BlindAfter /\ incident' \in Incident
      BY <1>2, <1>4 DEF LivenessRead, Incident
    <2>2. \/ wd' = wd
          \/ Begin("pass", 0)
          \/ Halted /\ Begin("sweep", Standing)
      BY <1>4 DEF LivenessRead, OwedSweep
    <2>3. CASE wd' = wd
      BY <1>1, <1>2, <2>1, <2>3, SameRows, WatchTypes DEF WInv, CycleOK
    <2>4. CASE Begin("pass", 0)
      <3>1. wd' \in Cycle /\ wd'.at = "scope" /\ wd'.task = "pass"
        BY <2>4, BeginMoves DEF Task
      <3>2. QED
        BY <1>1, <1>2, <2>1, <3>1, SameRows, WatchTypes DEF ForHalt
    <2>5. CASE Halted /\ Begin("sweep", Standing)
      <3>1. Standing \in {0} \cup HaltId /\ Standing \in DOMAIN halts
        BY <2>5, Rows DEF WInv
      <3>2. wd' \in Cycle /\ wd'.at = "scope" /\ wd'.task = "sweep" /\ wd'.halt = Standing
        BY <2>5, <3>1, BeginMoves DEF Task
      <3>3. QED
        BY <1>1, <1>2, <2>1, <3>1, <3>2, SameRows, WatchTypes DEF ForHalt
    <2>6. QED
      BY <2>2, <2>3, <2>4, <2>5
  <1>5. CASE LivenessUnreadable
    <2>1. CASE Blind
      <3>1. incident' = "blind" /\ Begin("dark", 0) /\ streak' = streak
        BY <1>5, <2>1 DEF LivenessUnreadable
      <3>2. wd' \in Cycle /\ wd'.at = "scope" /\ wd'.task = "dark"
        BY <3>1, BeginMoves DEF Task
      <3>3. QED
        BY <1>1, <1>2, <3>1, <3>2, SameRows, WatchTypes DEF ForHalt, Incident
    <2>2. CASE ~Blind
      <3>1. UNCHANGED <<wd, incident>> /\ streak' = streak + 1
        BY <1>5, <2>2 DEF LivenessUnreadable
      <3>2. streak' \in 0 .. BlindAfter
        BY <1>2, <2>2, <3>1 DEF Blind
      <3>3. QED
        BY <1>1, <1>2, <3>1, <3>2, SameRows, WatchTypes DEF WInv, CycleOK
    <2>3. QED
      BY <2>1, <2>2
  <1>6. CASE WatchdogDies \/ WatchdogStarts
    <2>1. ASSUME WatchdogDies
          PROVE  wd' \in Cycle /\ wd'.at = "down" /\ wd'.task = "none"
      <3>1. wd' = [Idle EXCEPT !.at = "down"]
        BY <2>1 DEF WatchdogDies
      <3>2. QED
        BY <3>1 DEF Idle, Cycle, At, Task
    <2>2. wd' \in Cycle /\ wd'.at \in {"idle", "down"} /\ wd'.task = "none"
      BY <1>6, <2>1, IdleCycle DEF WatchdogStarts
    <2>3. incident' \in Incident /\ streak' \in 0 .. BlindAfter
      BY <1>2, <1>6 DEF WatchdogDies, WatchdogStarts, Incident
    <2>4. QED
      BY <1>1, <1>2, <2>2, <2>3, SameRows, WatchTypes DEF ForHalt
  <1>7. QED
    BY <1>3, <1>4, <1>5, <1>6

\* The pass over the wire.
LEMMA PassTypes ==
  ASSUME WInv, Fails \/ Scope \/ Walk \/ Walked \/ Cancel \/ Cancelled
  PROVE  WInv'
  <1>1. /\ UNCHANGED <<postgres, executor, beat, incident, streak>>
        /\ upsets' = upsets \/ Upset
    BY DEF Fails, Scope, Walk, Walked, Cancel, Cancelled, world
  <1>2. /\ wd \in Cycle /\ incident' \in Incident /\ streak' \in 0 .. BlindAfter
        /\ resting \subseteq Sub
    BY <1>1 DEF WInv, TypeOK
  <1>3. resting' \subseteq Sub
    BY <1>2 DEF Fails, Scope, Walk, Walked, Cancel, Cancelled, world
  <1>4. ASSUME UNCHANGED halts, wd' \in Cycle, wd'.task = wd.task, wd'.halt = wd.halt,
               wd'.at \in {"scope", "walk", "cancel"} => wd.task # "none",
               wd'.at = "stamp" => wd.task \in ForHalt, wd'.at # "clear"
        PROVE  WInv'
    BY <1>1, <1>2, <1>3, <1>4, SameRows, WatchTypes DEF WInv, CycleOK
  <1>5. ASSUME UNCHANGED halts, wd' = Idle \/ PassOver PROVE WInv'
    <2>1. wd' \in Cycle /\ wd'.at \in {"idle", "settle"} /\ wd'.task \in {"none", "pass"}
      BY <1>5, IdleCycle, PassOverMoves
    <2>2. QED
      BY <1>1, <1>2, <1>3, <1>5, <2>1, SameRows, WatchTypes DEF ForHalt
  <1>6. CASE Fails
    BY <1>5, <1>6 DEF Fails, world
  <1>7. CASE Scope
    <2>1. PICK covered \in SUBSET Sub, whole \in BOOLEAN :
            wd' = [wd EXCEPT !.at = "walk", !.todo = covered, !.complete = whole]
      BY <1>7 DEF Scope
    <2>2. wd' \in Cycle /\ wd'.task = wd.task /\ wd'.halt = wd.halt /\ wd'.at = "walk"
      BY <1>2, <2>1 DEF Cycle, At
    <2>3. wd.task # "none"
      BY <1>7 DEF Scope, WInv, CycleOK
    <2>4. QED
      BY <1>4, <1>7, <2>2, <2>3 DEF Scope, world
  <1>8. CASE Walk
    <2>1. PICK a \in wd.todo :
            /\ wd' = [wd EXCEPT !.todo = @ \ {a},
                                !.found = IF a \in resting THEN @ \cup {a} ELSE @]
            /\ halts' = IF a \in resting THEN halts ELSE SeenEmpty(a)
      BY <1>8 DEF Walk
    <2>2. a \in Sub
      BY <1>2 DEF Cycle
    <2>3. wd' \in Cycle /\ wd'.task = wd.task /\ wd'.halt = wd.halt /\ wd'.at = wd.at
      BY <1>2, <2>1, <2>2 DEF Cycle
    <2>4. /\ halts' \in Seq(HaltRow) /\ Len(halts') = Len(halts)
          /\ \A h \in DOMAIN halts : halts'[h].resumed = halts[h].resumed
      BY <2>1, <2>2, SeenEmptyRows DEF WInv, TypeOK
    <2>5. QED
      BY <1>1, <1>2, <1>3, <2>3, <2>4, SameStanding, WatchTypes DEF WatchShows, WInv, CycleOK, TypeOK
  <1>9. CASE Walked
    <2>1. UNCHANGED halts /\ wd.task # "none"
      BY <1>9 DEF Walked, WInv, CycleOK
    <2>2. \/ wd' = Idle \/ PassOver
          \/ wd' = [wd EXCEPT !.at = "cancel", !.todo = wd.found]
          \/ wd.task \in ForHalt /\ wd' = [wd EXCEPT !.at = "stamp"]
      BY <1>9 DEF Walked, ForHalt
    <2>3. ASSUME wd' = [wd EXCEPT !.at = "cancel", !.todo = wd.found]
          PROVE  wd' \in Cycle /\ wd'.task = wd.task /\ wd'.halt = wd.halt /\ wd'.at = "cancel"
      BY <1>2, <2>3 DEF Cycle, At
    <2>4. ASSUME wd' = [wd EXCEPT !.at = "stamp"]
          PROVE  wd' \in Cycle /\ wd'.task = wd.task /\ wd'.halt = wd.halt /\ wd'.at = "stamp"
      BY <1>2, <2>4 DEF Cycle, At
    <2>5. QED
      BY <1>4, <1>5, <2>1, <2>2, <2>3, <2>4
  <1>10. CASE Cancel
    <2>1. PICK a \in wd.todo : wd' = [wd EXCEPT !.todo = @ \ {a}]
      BY <1>10 DEF Cancel
    <2>2. wd' \in Cycle /\ wd'.task = wd.task /\ wd'.halt = wd.halt /\ wd'.at = wd.at
      BY <1>2, <2>1 DEF Cycle
    <2>3. QED
      BY <1>4, <1>10, <2>2 DEF Cancel, WInv, CycleOK
  <1>11. CASE Cancelled
    <2>1. UNCHANGED halts /\ wd.task # "none"
      BY <1>11 DEF Cancelled, WInv, CycleOK
    <2>2. PassOver \/ (wd.task \in ForHalt /\ Begin("verify", wd.halt))
      BY <1>2, <1>11, <2>1 DEF Cancelled, Cancelling, ForHalt, Cycle, Task
    <2>3. ASSUME wd.task \in ForHalt, Begin("verify", wd.halt) PROVE WInv'
      <3>1. wd.halt \in {0} \cup HaltId /\ wd.halt \in DOMAIN halts
        BY <1>2, <2>3 DEF Cycle, WInv, CycleOK
      <3>2. wd' \in Cycle /\ wd'.at = "scope" /\ wd'.task = "verify" /\ wd'.halt = wd.halt
        BY <2>3, <3>1, BeginMoves DEF Task
      <3>3. QED
        BY <1>1, <1>2, <1>3, <2>1, <3>1, <3>2, SameRows, WatchTypes
    <2>4. QED
      BY <1>5, <2>1, <2>2, <2>3
  <1>12. QED
    BY <1>6, <1>7, <1>8, <1>9, <1>10, <1>11

\* The rows change hands: the stamp, the incident's books, the operator.
LEMMA BooksTypes ==
  ASSUME WInv, Stamp \/ SettleHalt \/ SettleFails \/ SettleClears
  PROVE  WInv'
  <1>1. /\ UNCHANGED <<postgres, executor, beat, resting>>
        /\ upsets' = upsets \/ Upset
    BY DEF Stamp, SettleHalt, SettleFails, SettleClears, world
  <1>2. /\ wd \in Cycle /\ incident \in Incident /\ streak \in 0 .. BlindAfter
        /\ resting' \subseteq Sub
    BY <1>1 DEF WInv, TypeOK
  <1>3. CASE Stamp
    <2>1. wd' = Idle /\ UNCHANGED <<incident, streak>>
      BY <1>3 DEF Stamp
    <2>2. wd' \in Cycle /\ wd'.at = "idle" /\ wd'.task = "none"
      BY <2>1, IdleCycle
    <2>3. wd.halt \in DOMAIN halts
      BY <1>3 DEF Stamp, WInv, CycleOK
    <2>4. /\ halts' \in Seq(HaltRow) /\ Len(halts') = Len(halts)
          /\ \A h \in DOMAIN halts : halts'[h].resumed = halts[h].resumed
      BY <1>3, <2>3, StampedRows DEF Stamp, WInv, TypeOK
    <2>5. QED
      BY <1>1, <1>2, <2>1, <2>2, <2>4, SameStanding, WatchTypes
         DEF WatchShows, WInv, CycleOK, TypeOK, ForHalt
  <1>4. CASE SettleHalt
    <2>1. halts' = Opened /\ wd' = [wd EXCEPT !.at = "clear", !.halt = Len(halts')]
          /\ UNCHANGED <<incident, streak>>
      BY <1>4 DEF SettleHalt
    <2>2. /\ halts' \in Seq(HaltRow) /\ Len(halts') <= MaxHalts /\ Halted'
          /\ Len(halts') \in HaltId /\ Len(halts') \in DOMAIN halts'
      BY <2>1, OpenedRows DEF HaltId
    <2>3. wd' \in Cycle /\ wd'.at = "clear" /\ wd'.halt = Len(halts')
      BY <1>2, <2>1, <2>2 DEF Cycle, At
    <2>4. QED
      BY <1>1, <1>2, <2>1, <2>2, <2>3, WatchTypes DEF WatchShows
  <1>5. CASE SettleFails
    <2>1. wd' = Idle /\ UNCHANGED <<halts, incident, streak>>
      BY <1>5 DEF SettleFails
    <2>2. QED
      BY <1>1, <1>2, <2>1, IdleCycle, SameRows, WatchTypes DEF ForHalt
  <1>6. CASE SettleClears
    <2>1. /\ UNCHANGED halts /\ incident' = "none" /\ streak' = 0
          /\ wd' = Idle \/ Begin("verify", wd.halt)
          /\ wd.at = "clear"
      BY <1>6 DEF SettleClears
    <2>2. incident' \in Incident /\ streak' \in 0 .. BlindAfter
      BY <2>1 DEF Incident
    <2>3. wd.halt \in {0} \cup HaltId /\ wd.halt \in DOMAIN halts
      BY <1>2, <2>1 DEF Cycle, WInv, CycleOK
    <2>4. ASSUME Begin("verify", wd.halt)
          PROVE  wd' \in Cycle /\ wd'.at = "scope" /\ wd'.task = "verify" /\ wd'.halt = wd.halt
      BY <2>3, <2>4, BeginMoves DEF Task
    <2>5. QED
      BY <1>1, <1>2, <2>1, <2>2, <2>3, <2>4, IdleCycle, SameRows, WatchTypes DEF ForHalt
  <1>7. QED
    BY <1>3, <1>4, <1>5, <1>6

LEMMA OperatorTypes ==
  ASSUME WInv, Kill \/ Resume
  PROVE  WInv'
  <1>1. UNCHANGED <<postgres, resting, executor, beat, wd, incident, streak, upsets>>
    BY DEF Kill, Resume
  <1>2. /\ wd \in Cycle /\ incident \in Incident /\ streak \in 0 .. BlindAfter
        /\ resting \subseteq Sub
    BY DEF WInv, TypeOK
  <1>3. CASE Kill
    <2>1. /\ halts' \in Seq(HaltRow) /\ Len(halts') <= MaxHalts /\ Halted'
          /\ DOMAIN halts \subseteq DOMAIN halts'
      BY <1>3, OpenedRows DEF Kill
    <2>2. QED
      BY <1>1, <1>2, <2>1, WatchTypes DEF WatchShows, WInv, CycleOK
  <1>4. CASE Resume
    <2>1. Standing \in DOMAIN halts /\ Len(halts) < MaxHalts
      BY <1>4, Rows DEF Resume, WInv
    <2>2. halts' \in Seq(HaltRow) /\ Len(halts') = Len(halts)
      BY <1>4, <2>1, ResumedRows DEF Resume, WInv
    <2>3. DOMAIN halts' = DOMAIN halts
      BY <2>2 DEF WInv, TypeOK
    <2>4. QED
      BY <1>1, <1>2, <2>1, <2>2, <2>3, WatchTypes DEF WatchShows, WInv, CycleOK, TypeOK
  <1>5. QED
    BY <1>3, <1>4

LEMMA NextWInv == WInv /\ [Next]_vars => WInv'
  <1> SUFFICES ASSUME WInv, [Next]_vars PROVE WInv'
    OBVIOUS
  <1>1. CASE UNCHANGED vars
    BY <1>1 DEF vars, WInv, TypeOK, CycleOK, Halted, Standing
  <1>2. CASE Next
    BY <1>2, OutsideTypes, DecideTypes, PassTypes, BooksTypes, OperatorTypes
       DEF Next, Watch, Environment, OutsideStep
  <1>3. QED
    BY <1>1, <1>2

THEOREM WatchInv == Spec => []WInv
  BY InitWInv, NextWInv, PTL DEF Spec

\* The halt rows, the cycle and the book are well typed in every execution; in
\* particular the rows never outgrow what the operator opened and lifted.
THEOREM WatchdogTypeCorrect == Spec => []TypeOK
  <1>1. WInv => TypeOK
    BY DEF WInv
  <1>2. QED
    BY <1>1, WatchInv, PTL
-----------------------------------------------------------------------------
(* A stamped halt was seen empty. *)

\* What the walk for a halt knows: of a complete scope, whatever is no longer to
\* be read was found with an order or seen empty since the halt was opened.
WalkOK ==
  /\ wd.at = "walk" /\ wd.task \in ForHalt /\ wd.complete =>
       Sub \subseteq wd.todo \cup wd.found \cup halts[wd.halt].seenEmpty
  /\ wd.at = "stamp" => halts[wd.halt].seenEmpty = Sub

WalkInv == SweptWasSeenEmpty /\ WalkOK

\* No row of `halts'` is stamped that was not, and none forgets what was seen.
RowsGrow ==
  /\ DOMAIN halts \subseteq DOMAIN halts'
  /\ \A h \in DOMAIN halts : /\ halts'[h].swept = halts[h].swept
                             /\ halts[h].seenEmpty \subseteq halts'[h].seenEmpty
                             /\ halts'[h].seenEmpty \subseteq Sub
  /\ \A h \in DOMAIN halts' \ DOMAIN halts : ~halts'[h].swept

LEMMA SeenInSub == TypeOK => \A h \in DOMAIN halts : halts[h].seenEmpty \subseteq Sub
  BY Rows DEF HaltRow

LEMMA GrowKeepsSwept ==
  ASSUME SweptWasSeenEmpty, RowsGrow
  PROVE  SweptWasSeenEmpty'
  BY DEF SweptWasSeenEmpty, RowsGrow

LEMMA GrowKeepsWalk ==
  ASSUME WInv, WalkInv, RowsGrow, wd' = wd
  PROVE  WalkInv'
  <1>1. wd.task \in ForHalt => wd.halt \in DOMAIN halts
    BY DEF WInv, CycleOK
  <1>2. wd.at = "stamp" => wd.halt \in DOMAIN halts
    BY <1>1 DEF WInv, CycleOK
  <1>3. WalkOK'
    BY <1>1, <1>2 DEF WalkInv, WalkOK, RowsGrow
  <1>4. QED
    BY <1>3, GrowKeepsSwept DEF WalkInv

LEMMA SameRowsGrow == ASSUME TypeOK, UNCHANGED halts PROVE RowsGrow
  BY SeenInSub DEF RowsGrow

LEMMA OpenedGrows == ASSUME WInv, halts' = Opened PROVE RowsGrow
  <1>1. \A h \in DOMAIN halts' \ DOMAIN halts : ~halts'[h].swept
    BY OpenedRows
  <1>2. QED
    BY <1>1, OpenedRows, SeenInSub DEF RowsGrow, WInv

LEMMA InitWalk == Init => WalkInv
  <1> SUFFICES ASSUME Init PROVE WalkInv
    OBVIOUS
  <1>1. DOMAIN halts = {} /\ wd.at = "idle"
    BY DEF Init, Idle
  <1>2. QED
    BY <1>1 DEF WalkInv, WalkOK, SweptWasSeenEmpty

\* Anything but a walk and a stamp starts or leaves the walk with nothing known.
LEMMA ElsewhereKeepsWalk ==
  ASSUME WalkInv, RowsGrow, wd'.at \notin {"walk", "stamp"}
  PROVE  WalkInv'
  BY GrowKeepsSwept DEF WalkInv, WalkOK

LEMMA WatchWalk ==
  ASSUME WInv, WalkInv, Scope \/ Walk \/ Walked \/ Stamp
  PROVE  WalkInv'
  <1>1. /\ TypeOK /\ SweptWasSeenEmpty /\ wd \in Cycle
        /\ wd.task \in ForHalt => wd.halt \in DOMAIN halts
    BY DEF WInv, WalkInv, TypeOK, CycleOK
  <1>2. CASE Scope
    <2>1. RowsGrow
      BY <1>1, <1>2, SameRowsGrow DEF Scope
    <2>2. wd'.at = "walk" /\ (wd'.complete => wd'.todo = Sub)
      BY <1>1, <1>2 DEF Scope, Cycle
    <2>3. QED
      BY <2>1, <2>2, GrowKeepsSwept DEF WalkInv, WalkOK
  <1>3. CASE Walk
    <2>1. PICK a \in wd.todo :
            /\ wd' = [wd EXCEPT !.todo = @ \ {a},
                                !.found = IF a \in resting THEN @ \cup {a} ELSE @]
            /\ halts' = IF a \in resting THEN halts ELSE SeenEmpty(a)
      BY <1>3 DEF Walk
    <2>2. a \in Sub /\ wd.at = "walk"
      BY <1>1, <1>3 DEF Cycle, Walk
    <2>3. /\ wd'.task = wd.task /\ wd'.halt = wd.halt /\ wd'.complete = wd.complete
          /\ wd'.at = "walk" /\ wd'.todo = wd.todo \ {a}
          /\ wd'.found = IF a \in resting THEN wd.found \cup {a} ELSE wd.found
      BY <1>1, <2>1, <2>2 DEF Cycle
    <2>4. RowsGrow /\ (a \notin resting => \A h \in DOMAIN halts : a \in halts'[h].seenEmpty)
      <3>1. CASE a \in resting
        BY <1>1, <2>1, <3>1, SameRowsGrow
      <3>2. CASE a \notin resting
        <4>1. halts' = SeenEmpty(a) /\ DOMAIN halts' = DOMAIN halts
          BY <2>1, <3>2 DEF SeenEmpty
        <4>2. QED
          BY <1>1, <2>2, <4>1, SeenEmptyRows, SeenInSub DEF RowsGrow
      <3>3. QED
        BY <3>1, <3>2
    <2>5. WalkOK'
      BY <1>1, <2>2, <2>3, <2>4 DEF WalkInv, WalkOK, RowsGrow
    <2>6. QED
      BY <1>1, <2>4, <2>5, GrowKeepsSwept DEF WalkInv
  <1>4. CASE Walked
    <2>1. RowsGrow
      BY <1>1, <1>4, SameRowsGrow DEF Walked
    <2>2. \/ wd'.at \in {"idle", "settle", "cancel"}
          \/ /\ wd.task \in ForHalt /\ wd.found = {} /\ wd.complete
             /\ wd' = [wd EXCEPT !.at = "stamp"]
      BY <1>1, <1>4, IdleCycle, PassOverMoves DEF Walked, Cycle, ForHalt
    <2>3. CASE wd'.at \in {"idle", "settle", "cancel"}
      BY <2>1, <2>3, ElsewhereKeepsWalk
    <2>4. CASE /\ wd.task \in ForHalt /\ wd.found = {} /\ wd.complete
               /\ wd' = [wd EXCEPT !.at = "stamp"]
      <3>1. wd'.at = "stamp" /\ wd'.halt = wd.halt /\ halts' = halts
        BY <1>1, <1>4, <2>4 DEF Cycle, Walked
      <3>2. wd.at = "walk" /\ wd.todo = {}
        BY <1>4 DEF Walked
      <3>3. halts[wd.halt].seenEmpty = Sub
        BY <1>1, <2>4, <3>2, SeenInSub DEF WalkInv, WalkOK
      <3>4. QED
        BY <1>1, <2>1, <3>1, <3>3, GrowKeepsSwept DEF WalkInv, WalkOK
    <2>5. QED
      BY <2>2, <2>3, <2>4
  <1>5. CASE Stamp
    <2>1. wd'.at = "idle" /\ wd.halt \in DOMAIN halts /\ halts[wd.halt].seenEmpty = Sub
      BY <1>5, IdleCycle DEF Stamp, WInv, CycleOK, WalkInv, WalkOK
    <2>2. \A h \in DOMAIN halts' :
            /\ h \in DOMAIN halts /\ halts'[h].seenEmpty = halts[h].seenEmpty
            /\ halts'[h].swept => h = wd.halt \/ halts[h].swept
      <3>1. CASE halts' = halts
        BY <3>1
      <3>2. CASE halts' = [halts EXCEPT ![wd.halt].swept = TRUE]
        <4>1. DOMAIN halts' = DOMAIN halts
          BY <3>2
        <4>2. QED
          BY <1>1, <2>1, <3>2, <4>1, StampedRows
      <3>3. QED
        BY <1>5, <3>1, <3>2 DEF Stamp
    <2>3. QED
      BY <1>1, <2>1, <2>2 DEF WalkInv, WalkOK, SweptWasSeenEmpty
  <1>6. QED
    BY <1>2, <1>3, <1>4, <1>5

LEMMA NextWalk == WInv /\ WalkInv /\ [Next]_vars => WalkInv'
  <1> SUFFICES ASSUME WInv, WalkInv, [Next]_vars PROVE WalkInv'
    OBVIOUS
  <1>1. TypeOK /\ wd \in Cycle
    BY DEF WInv, TypeOK
  <1>2. CASE OutsideStep \/ UNCHANGED vars
    <2>1. UNCHANGED <<halts, wd>>
      BY <1>2 DEF OutsideStep, Executor, ExecutorBeats, ExecutorRests, BracketGate, BracketAttempt,
             BracketLands, ExecutorDies, ExecutorStarts, BeatAges, PostgresFails,
             PostgresReturns, OrderLeaves, vars
    <2>2. QED
      BY <1>1, <2>1, SameRowsGrow, GrowKeepsWalk
  <1>3. CASE Kill
    BY <1>3, OpenedGrows, GrowKeepsWalk DEF Kill
  <1>4. CASE Resume
    <2>1. Standing \in DOMAIN halts
      BY <1>4, Rows DEF Resume, WInv
    <2>2. RowsGrow
      BY <1>1, <1>4, <2>1, ResumedRows, SeenInSub, Rows DEF Resume, RowsGrow
    <2>3. QED
      BY <1>4, <2>2, GrowKeepsWalk DEF Resume
  <1>5. CASE IncidentCycle \/ LivenessRead \/ LivenessUnreadable
    <2>1. UNCHANGED halts /\ wd.at = "idle"
      BY <1>5 DEF IncidentCycle, LivenessRead, LivenessUnreadable, world
    <2>2. wd' = wd \/ wd'.at = "scope"
      BY <1>5 DEF IncidentCycle, LivenessRead, LivenessUnreadable, Begin, Idle
    <2>3. QED
      BY <1>1, <2>1, <2>2, SameRowsGrow, GrowKeepsWalk, ElsewhereKeepsWalk
  <1>6. CASE WatchdogDies \/ WatchdogStarts \/ Fails \/ Cancelled \/ SettleFails \/ SettleClears
    <2>1. UNCHANGED halts
      BY <1>6 DEF WatchdogDies, WatchdogStarts, Fails, Cancelled, SettleFails, SettleClears, world
    <2>2. wd'.at \in {"idle", "down", "settle", "scope"}
      BY <1>6, IdleCycle, PassOverMoves
         DEF WatchdogDies, WatchdogStarts, Fails, Cancelled, SettleFails, SettleClears, Begin, Idle
    <2>3. QED
      BY <1>1, <2>1, <2>2, SameRowsGrow, ElsewhereKeepsWalk
  <1>7. CASE Cancel
    <2>1. UNCHANGED halts /\ wd'.at = "cancel"
      BY <1>1, <1>7 DEF Cancel, Cycle
    <2>2. QED
      BY <1>1, <2>1, SameRowsGrow, ElsewhereKeepsWalk
  <1>8. CASE SettleHalt
    <2>1. RowsGrow /\ wd'.at = "clear"
      BY <1>1, <1>8, OpenedGrows DEF SettleHalt, Cycle
    <2>2. QED
      BY <2>1, ElsewhereKeepsWalk
  <1>9. QED
    BY <1>2, <1>3, <1>4, <1>5, <1>6, <1>7, <1>8, WatchWalk
       DEF Next, Watch, Environment, OutsideStep

THEOREM WalkInvHolds == Spec => []WalkInv
  BY InitWalk, NextWalk, WatchInv, PTL DEF Spec

\* Whatever fails, crashes, is lifted or opened while the watchdog enumerates: a
\* halt that is stamped swept was seen empty, every sub-account, since it was opened.
THEOREM SweptWasSeenEmptyHolds == Spec => []SweptWasSeenEmpty
  <1>1. WalkInv => SweptWasSeenEmpty
    BY DEF WalkInv
  <1>2. QED
    BY <1>1, WalkInvHolds, PTL
-----------------------------------------------------------------------------
(* The one bracket a halt may overtake. *)

\* Of what was seen empty under the standing halt, what rests again.
Stray == resting \cap halts[Standing].seenEmpty

\* Under a halt no gate opens, so one bracket at most is on its way, and while it
\* is nothing has strayed yet.
StrayInv ==
  Halted => /\ \A a, b \in Stray : a = b
            /\ executor.at \in {"gated", "wire"} => Stray = {}

LEMMA StrayShrinks ==
  ASSUME WInv, StrayInv, UNCHANGED <<halts>>, resting' \subseteq resting,
         Halted /\ executor'.at \in {"gated", "wire"} => executor.at \in {"gated", "wire"}
  PROVE  StrayInv'
  <1>1. Standing' = Standing /\ Halted' = Halted
    BY DEF Standing, Halted
  <1>2. Stray' \subseteq Stray
    BY <1>1 DEF Stray
  <1>3. QED
    BY <1>1, <1>2 DEF StrayInv

\* The only thing that adds to the book is the bracket that was on its way.
LEMMA StrayLands ==
  ASSUME WInv, StrayInv, UNCHANGED <<halts>>, executor.at = "wire",
         resting' \subseteq resting \cup {executor.on}, executor'.at \notin {"gated", "wire"}
  PROVE  StrayInv'
  <1>1. Standing' = Standing /\ Halted' = Halted
    BY DEF Standing, Halted
  <1>2. Stray' \subseteq Stray \cup {executor.on}
    BY <1>1 DEF Stray
  <1>3. QED
    BY <1>1, <1>2 DEF StrayInv

LEMMA OpenedStray ==
  ASSUME WInv, StrayInv, halts' = Opened, UNCHANGED <<resting, executor>>
  PROVE  StrayInv'
  <1>1. CASE Halted
    <2>1. UNCHANGED <<halts>>
      BY <1>1, OpenedRows
    <2>2. QED
      BY <2>1, StrayShrinks
  <1>2. CASE ~Halted
    <2>1. halts'[Standing'].seenEmpty = {}
      BY <1>2, OpenedRows
    <2>2. Stray' = {}
      BY <2>1 DEF Stray
    <2>3. QED
      BY <2>2 DEF StrayInv
  <1>3. QED
    BY <1>1, <1>2

\* Rows rewritten in place, and the standing one with what it has seen as it was.
LEMMA RewrittenStray ==
  ASSUME WInv, StrayInv, halts' \in Seq(HaltRow), Len(halts') = Len(halts),
         \A h \in DOMAIN halts : halts'[h].resumed = halts[h].resumed,
         \A h \in DOMAIN halts : resting \cap halts'[h].seenEmpty \subseteq halts[h].seenEmpty,
         UNCHANGED <<resting, executor>>
  PROVE  StrayInv'
  <1>1. Standing' = Standing /\ (Halted' <=> Halted)
    BY SameStanding DEF WInv
  <1>2. Halted => Standing \in DOMAIN halts
    BY Rows DEF WInv
  <1>3. Halted => Stray' \subseteq Stray
    BY <1>1, <1>2 DEF Stray
  <1>4. QED
    BY <1>1, <1>3 DEF StrayInv

LEMMA InitStray == Init => StrayInv
  BY DEF Init, StrayInv, Halted, Standing

LEMMA ExecutorStray ==
  ASSUME WInv, StrayInv, Executor \/ ExecutorDies \/ ExecutorStarts
  PROVE  StrayInv'
  <1>1. UNCHANGED <<halts>> /\ executor \in ExecutorState
    BY DEF Executor, ExecutorBeats, ExecutorRests, BracketGate, BracketAttempt,
           BracketLands, ExecutorDies, ExecutorStarts, WInv, TypeOK
  <1>2. CASE ExecutorBeats \/ ExecutorRests \/ ExecutorStarts
    <2>1. resting' = resting /\ executor'.at \notin {"gated", "wire"}
      BY <1>2 DEF ExecutorBeats, ExecutorRests, ExecutorStarts, ExecutorAt
    <2>2. QED
      BY <1>1, <2>1, StrayShrinks
  <1>3. CASE BracketGate
    BY <1>1, <1>3, StrayShrinks DEF BracketGate
  <1>4. CASE BracketAttempt
    BY <1>1, <1>4, StrayShrinks DEF BracketAttempt
  <1>5. CASE BracketLands
    <2>1. /\ executor.at = "wire" /\ executor'.at = "cycle"
          /\ resting' \subseteq resting \cup {executor.on}
      BY <1>5 DEF BracketLands, ExecutorAt
    <2>2. QED
      BY <1>1, <2>1, StrayLands
  <1>6. CASE ExecutorDies
    <2>1. executor'.at = "dead"
      BY <1>6 DEF ExecutorDies, ExecutorAt
    <2>2. resting' = resting \/ (executor.at = "wire" /\ resting' = resting \cup {executor.on})
      BY <1>6 DEF ExecutorDies
    <2>3. QED
      BY <1>1, <2>1, <2>2, StrayShrinks, StrayLands
  <1>7. QED
    BY <1>2, <1>3, <1>4, <1>5, <1>6 DEF Executor

LEMMA NextStray == WInv /\ StrayInv /\ [Next]_vars => StrayInv'
  <1> SUFFICES ASSUME WInv, StrayInv, [Next]_vars PROVE StrayInv'
    OBVIOUS
  <1>1. TypeOK /\ wd \in Cycle
    BY DEF WInv, TypeOK
  <1>2. CASE \/ BeatAges \/ PostgresFails \/ PostgresReturns \/ IncidentCycle \/ LivenessRead
             \/ LivenessUnreadable \/ Scope \/ Walked \/ Cancelled \/ SettleFails \/ SettleClears
             \/ WatchdogStarts \/ WatchdogDies \/ Fails \/ UNCHANGED vars
    <2>1. UNCHANGED <<halts, resting, executor>>
      BY <1>2 DEF BeatAges, PostgresFails, PostgresReturns, IncidentCycle, LivenessRead,
             LivenessUnreadable, Scope, Walked, Cancelled, SettleFails, SettleClears,
             WatchdogStarts, WatchdogDies, Fails, world, vars
    <2>2. QED
      BY <2>1, StrayShrinks
  <1>3. CASE OrderLeaves \/ Cancel
    <2>1. UNCHANGED <<halts, executor>> /\ resting' \subseteq resting
      BY <1>3 DEF OrderLeaves, Cancel
    <2>2. QED
      BY <2>1, StrayShrinks
  <1>4. CASE Kill
    BY <1>4, OpenedStray DEF Kill
  <1>5. CASE SettleHalt
    BY <1>5, OpenedStray DEF SettleHalt, world
  <1>6. CASE Resume
    <2>1. Halted /\ halts' = [halts EXCEPT ![Standing].resumed = TRUE]
      BY <1>6 DEF Resume
    <2>2. Standing = Len(halts) /\ Standing \in DOMAIN halts
      BY <2>1, Rows DEF WInv
    <2>3. Len(halts') = Len(halts) /\ halts'[Len(halts')].resumed
      BY <1>1, <2>1, <2>2, ResumedRows
    <2>4. ~Halted'
      BY <2>3 DEF Halted, Standing
    <2>5. QED
      BY <2>4 DEF StrayInv
  <1>7. CASE Stamp
    <2>1. UNCHANGED <<resting, executor>> /\ wd.halt \in DOMAIN halts
      BY <1>7 DEF Stamp, world, WInv, CycleOK
    <2>2. CASE halts' = halts
      BY <2>1, <2>2, StrayShrinks
    <2>3. CASE halts' = [halts EXCEPT ![wd.halt].swept = TRUE]
      BY <1>1, <2>1, <2>3, StampedRows, RewrittenStray
    <2>4. QED
      BY <1>7, <2>2, <2>3 DEF Stamp
  <1>8. CASE Walk
    <2>1. PICK a \in wd.todo : halts' = IF a \in resting THEN halts ELSE SeenEmpty(a)
      BY <1>8 DEF Walk
    <2>2. a \in Sub /\ UNCHANGED <<resting, executor>>
      BY <1>1, <1>8 DEF Walk, Cycle, world
    <2>3. CASE a \in resting
      BY <2>1, <2>2, <2>3, StrayShrinks
    <2>4. CASE a \notin resting
      <3>1. halts' = SeenEmpty(a)
        BY <2>1, <2>4
      <3>2. QED
        BY <1>1, <2>2, <2>4, <3>1, SeenEmptyRows, RewrittenStray
    <2>5. QED
      BY <2>3, <2>4
  <1>9. QED
    BY <1>2, <1>3, <1>4, <1>5, <1>6, <1>7, <1>8, ExecutorStray
       DEF Next, Watch, Environment, Executor

THEOREM StrayInvHolds == Spec => []StrayInv
  BY InitStray, NextStray, WatchInv, PTL DEF Spec

\* Under a swept, standing halt at most one sub-account has an order resting,
\* however many sub-accounts, halts and failures: the residual race of a halt with
\* a signature costs one bracket.
THEOREM OneStrayAtMostHolds == Spec => []OneStrayAtMost
  <1>1. WInv /\ WalkInv /\ StrayInv => OneStrayAtMost
    <2> SUFFICES ASSUME WInv, WalkInv, StrayInv, Halted, halts[Standing].swept
                 PROVE  \A a, b \in resting : a = b
      BY DEF OneStrayAtMost
    <2>1. halts[Standing].seenEmpty = Sub
      BY Rows DEF WInv, WalkInv, SweptWasSeenEmpty
    <2>2. Stray = resting
      BY <2>1 DEF Stray, WInv, TypeOK
    <2>3. QED
      BY <2>2 DEF StrayInv
  <1>2. QED
    BY <1>1, WatchInv, WalkInvHolds, StrayInvHolds, PTL
=============================================================================
