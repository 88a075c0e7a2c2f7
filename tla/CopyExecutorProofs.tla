------------------------- MODULE CopyExecutorProofs -------------------------
(***************************************************************************)
(* What the copy executor guarantees for every number of instances, events *)
(* and retries and every choice of faults.  First the types, then the      *)
(* claim that precedes the wire: an event is entered at most once, at most *)
(* one signature outlives a halt, a flip opens only over an exit that is   *)
(* out, and the executor keeps the promise of CopyPromise, whatever        *)
(* crashes and however many instances race for the same events.  And what  *)
(* holds of an executor by itself: a done exit ends the episode, and no    *)
(* open doubles a held fill whose reply arrived.                           *)
(***************************************************************************)
EXTENDS CopyExecutor, TLAPS

USE InstanceAssumption, BoundsAssumption, FaultsAssumption, NoOneAssumption

-----------------------------------------------------------------------------
(* The shapes of the data. *)

LEMMA Shapes == NoJob \in Job /\ NoEpisode \in Episode /\ Flat \in Position
  BY DEF NoJob, Job, NoEpisode, Episode, Flat, Position, Leg, EntryLeg, OpenLeg

\* A fill, an entry or a rest leaves a position.
LEMMA ApplyFillType ==
  ASSUME NEW s \in Side, NEW n \in Int
  PROVE  ApplyFill(s, n) \in Position
  BY DEF ApplyFill, Position, Flat

LEMMA NetType ==
  ASSUME NEW p \in Position, NEW s \in Side, NEW n \in Nat \ {0}
  PROVE  Net(p, s, n) \in Position
  BY DEF Net, Position, Flat, Side

\* The part of the inductive invariant that TypeOK leaves out: the leg an
\* instance works on is one of its event's, nothing fills before the claim, and an
\* exit on its way to the wire remembers a live episode and takes no more of it
\* than it asked.
JobOK(i) ==
  /\ pc[i] \in Working => Cur(i) \in Ids /\ job[i].leg \in LegsOf(log[Cur(i)].kind)
  /\ pc[i] \in Unclaimed => job[i].filled = 0
  /\ pc[i] \in Sending \cup {"claim"} /\ Exiting(i) =>
       job[i].seen # NoEpisode /\ job[i].filled <= job[i].target

TInv == TypeOK /\ \A i \in Instance : JobOK(i)

LEMMA InitTInv == Init => TInv
  <1> SUFFICES ASSUME Init PROVE TInv
    OBVIOUS
  <1>1. log \in Seq(Event) /\ Len(log) = 0
    BY DEF Init
  <1>2. owner \in [EventId -> Instance \cup {NoOne}] /\ opens \in [EventId -> Nat]
    BY DEF Init
  <1>3. /\ exitTrail \in [EventId -> {"none", "skipped", "halted", "failed", "unfilled", "done"}]
        /\ signed \in [Instance -> Nat]
    BY DEF Init
  <1>4. /\ view \in [Instance -> Position] /\ position \in Position
        /\ episode \in Episode /\ job \in [Instance -> Job]
    BY Shapes DEF Init
  <1>5. \A i \in Instance : JobOK(i)
    BY DEF Init, JobOK, Working, Unclaimed, Sending
  <1>6. /\ stale \in 0 .. Len(log) /\ upsets \in 0 .. MaxUpsets /\ Len(log) <= MaxEvents
        /\ copied \in Nat
    BY <1>1, BoundsAssumption DEF Init
  <1>7. pc \in [Instance -> Place] /\ backlog \in [Instance -> SUBSET Ids]
    BY DEF Init, Place
  <1>8. halted \in BOOLEAN
    BY DEF Init
  <1>9. QED
    BY <1>1, <1>2, <1>3, <1>4, <1>5, <1>6, <1>7, <1>8 DEF TypeOK, TInv
-----------------------------------------------------------------------------
(* How the helpers of the cycle move an instance. *)

LEMMA GotoMoves ==
  ASSUME TypeOK, NEW i \in Instance, NEW l \in Place, Goto(i, l)
  PROVE  /\ pc' \in [Instance -> Place] /\ pc'[i] = l
         /\ \A j \in Instance \ {i} : pc'[j] = pc[j]
  BY DEF TypeOK, Goto

LEMMA LeaveMoves ==
  ASSUME TypeOK, NEW i \in Instance, Leave(i)
  PROVE  /\ pc' \in [Instance -> Place] /\ job' \in [Instance -> Job]
         /\ pc'[i] = "drain" /\ job'[i] = NoJob
         /\ \A j \in Instance \ {i} : pc'[j] = pc[j] /\ job'[j] = job[j]
  BY Shapes DEF TypeOK, Leave, Goto, Place

LEMMA ForgetMoves ==
  ASSUME TypeOK, NEW i \in Instance, Forget(i)
  PROVE  /\ pc' \in [Instance -> Place] /\ job' \in [Instance -> Job]
         /\ view' \in [Instance -> Position] /\ backlog' \in [Instance -> SUBSET Ids]
         /\ pc'[i] = "idle" /\ job'[i] = NoJob /\ backlog'[i] = {}
         /\ \A j \in Instance \ {i} :
              pc'[j] = pc[j] /\ job'[j] = job[j] /\ backlog'[j] = backlog[j]
  BY Shapes DEF TypeOK, Forget, Goto, Place

LEMMA NextLegMoves ==
  ASSUME TypeOK, NEW i \in Instance, NextLeg(i)
  PROVE  /\ pc' \in [Instance -> Place] /\ job' \in [Instance -> Job]
         /\ \/ pc'[i] = "drain" /\ job'[i] = NoJob /\ job[i].leg # "flip_close"
            \/ /\ pc'[i] = "judge" /\ job[i].leg = "flip_close"
               /\ job'[i] = [NoJob EXCEPT !.event = Cur(i), !.leg = "flip_open"]
         /\ \A j \in Instance \ {i} : pc'[j] = pc[j] /\ job'[j] = job[j]
  <1> DEFINE opening == [NoJob EXCEPT !.event = Cur(i), !.leg = "flip_open"]
  <1>1. opening \in Job
    BY Shapes DEF TypeOK, Cur, Job, Leg, EntryLeg, OpenLeg
  <1>2. CASE job[i].leg = "flip_close"
    <2>1. job' = [job EXCEPT ![i] = opening] /\ pc' = [pc EXCEPT ![i] = "judge"]
      BY <1>2 DEF NextLeg, Goto
    <2> HIDE DEF opening
    <2>2. job' \in [Instance -> Job] /\ job'[i] = opening
      BY <1>1, <2>1 DEF TypeOK
    <2>3. pc' \in [Instance -> Place] /\ pc'[i] = "judge"
      BY <2>1 DEF TypeOK, Place, Working, Unclaimed
    <2>4. \A j \in Instance \ {i} : pc'[j] = pc[j] /\ job'[j] = job[j]
      BY <2>1 DEF TypeOK
    <2>5. QED
      BY <1>2, <2>2, <2>3, <2>4 DEF opening
  <1>3. CASE job[i].leg # "flip_close"
    BY <1>3, LeaveMoves DEF NextLeg
  <1>4. QED
    BY <1>2, <1>3

LEMMA SignCounts ==
  ASSUME TypeOK, NEW i \in Instance, Sign(i)
  PROVE  signed' \in [Instance -> Nat]
  BY DEF TypeOK, Sign

LEMMA ReportType ==
  ASSUME TypeOK, NEW i \in Instance, Report(i, "skipped") \/ Report(i, "halted")
           \/ Report(i, "failed") \/ Report(i, "unfilled") \/ Report(i, "done")
  PROVE  exitTrail' \in [EventId -> {"none", "skipped", "halted", "failed", "unfilled", "done"}]
  BY DEF TypeOK, Report
-----------------------------------------------------------------------------
(* Type correctness. *)

Trail == {"none", "skipped", "halted", "failed", "unfilled", "done"}

\* What an executor step has to show: its own place and job are sound, the rows
\* it writes have their types.
LEMMA StepTInv ==
  ASSUME TInv, NEW i \in Instance, UNCHANGED <<log, stale, halted>>,
         owner' \in [EventId -> Instance \cup {NoOne}], exitTrail' \in [EventId -> Trail],
         episode' \in Episode, position' \in Position, opens' \in [EventId -> Nat],
         signed' \in [Instance -> Nat], copied' \in Nat, upsets' \in 0 .. MaxUpsets,
         pc' \in [Instance -> Place], job' \in [Instance -> Job],
         view' \in [Instance -> Position], backlog' \in [Instance -> SUBSET Ids],
         \A j \in Instance \ {i} : pc'[j] = pc[j] /\ job'[j] = job[j],
         JobOK(i)'
  PROVE  TInv'
  <1>1. TypeOK'
    <2>1. log' \in Seq(Event) /\ Len(log') <= MaxEvents /\ stale' \in 0 .. Len(log')
      BY DEF TInv, TypeOK
    <2>2. halted' \in BOOLEAN
      BY DEF TInv, TypeOK
    <2>3. backlog' \in [Instance -> SUBSET Ids']
      BY DEF Ids
    <2>4. QED
      BY <2>1, <2>2, <2>3 DEF TypeOK, Trail
  <1>2. ASSUME NEW j \in Instance PROVE JobOK(j)'
    <2>1. CASE j = i
      BY <2>1
    <2>2. CASE j # i
      BY <2>2 DEF TInv, JobOK, Cur, Exiting, Ids
    <2>3. QED
      BY <2>1, <2>2
  <1>3. QED
    BY <1>1, <1>2 DEF TInv

\* The steps that leave the rows and the history alone.
LEMMA QuietTInv ==
  ASSUME TInv, NEW i \in Instance, UNCHANGED <<shared, history>>,
         pc' \in [Instance -> Place], job' \in [Instance -> Job],
         view' \in [Instance -> Position], backlog' \in [Instance -> SUBSET Ids],
         \A j \in Instance \ {i} : pc'[j] = pc[j] /\ job'[j] = job[j],
         JobOK(i)'
  PROVE  TInv'
  <1>1. UNCHANGED <<log, stale, halted, owner, exitTrail, episode, position,
                    opens, signed, copied, upsets>>
    BY DEF shared, history
  <1>2. QED
    BY <1>1, StepTInv DEF TInv, TypeOK, Trail

LEMMA AtRest ==
  ASSUME NEW i \in Instance, pc'[i] \notin Working
  PROVE  JobOK(i)'
  BY DEF JobOK, Working, Unclaimed, Sending

LEMMA Places == \A l \in {"idle", "reconcile", "cycleGate", "fetch", "drain"} :
                  l \in Place /\ l \notin Working
  BY DEF Place, Working, Unclaimed, Sending

LEMMA CycleTInv ==
  ASSUME TInv, NEW i \in Instance, Cycle(i)
  PROVE  TInv'
  <1> USE DEF TInv
  <1>1. CASE ReadState(i)
    <2>1. pc' \in [Instance -> Place] /\ pc'[i] = "reconcile" /\ \A j \in Instance \ {i} : pc'[j] = pc[j]
      BY <1>1, Places, GotoMoves DEF ReadState
    <2>2. view' \in [Instance -> Position] /\ UNCHANGED <<backlog, job>>
      BY <1>1 DEF ReadState, TypeOK
    <2>3. job' \in [Instance -> Job] /\ backlog' \in [Instance -> SUBSET Ids]
      BY <2>2 DEF TypeOK
    <2>4. QED
      BY <1>1, <2>1, <2>2, <2>3, Places, AtRest, QuietTInv DEF ReadState
  <1>2. CASE Reconcile(i)
    <2>1. pc' \in [Instance -> Place] /\ pc'[i] = "cycleGate" /\ \A j \in Instance \ {i} : pc'[j] = pc[j]
      BY <1>2, Places, GotoMoves DEF Reconcile
    <2>2. episode' \in Episode
      <3>1. episode \in Episode /\ view[i] \in Position
        BY DEF TypeOK
      <3>2. ASSUME view[i] # Flat, view[i].side = episode.side
            PROVE  [episode EXCEPT !.size = view[i].size] \in Episode
        <4>1. view[i].side \in Side /\ view[i].size \in Nat
          BY <3>1, <3>2 DEF Position
        <4>2. episode # NoEpisode
          BY <3>2, <4>1 DEF NoEpisode, Side
        <4>3. QED
          BY <3>1, <4>1, <4>2 DEF Episode
      <3>3. QED
        BY <1>2, <3>1, <3>2, Shapes DEF Reconcile
    <2>3. UNCHANGED <<log, stale, halted, owner, exitTrail, position>>
      BY <1>2 DEF Reconcile
    <2>4. UNCHANGED <<opens, signed, copied, upsets, view, backlog, job>>
      BY <1>2 DEF Reconcile, history
    <2>5. JobOK(i)'
      BY <2>1, Places, AtRest
    <2>6. QED
      BY <2>1, <2>2, <2>3, <2>4, <2>5, StepTInv DEF TypeOK, Trail
  <1>3. CASE CycleGate(i)
    <2>1. CASE halted
      BY <1>3, <2>1, Places, AtRest, ForgetMoves, QuietTInv DEF CycleGate
    <2>2. CASE ~halted
      <3>1. pc' \in [Instance -> Place] /\ pc'[i] = "fetch" /\ \A j \in Instance \ {i} : pc'[j] = pc[j]
        BY <1>3, <2>2, Places, GotoMoves DEF CycleGate
      <3>2. QED
        BY <1>3, <2>2, <3>1, Places, AtRest, QuietTInv DEF CycleGate, TypeOK
    <2>3. QED
      BY <2>1, <2>2
  <1>4. CASE FetchBacklog(i)
    <2>1. pc' \in [Instance -> Place] /\ pc'[i] = "drain" /\ \A j \in Instance \ {i} : pc'[j] = pc[j]
      BY <1>4, Places, GotoMoves DEF FetchBacklog
    <2>2. backlog' \in [Instance -> SUBSET Ids]
      BY <1>4 DEF FetchBacklog, Outstanding, TypeOK
    <2>3. QED
      BY <1>4, <2>1, <2>2, Places, AtRest, QuietTInv DEF FetchBacklog, TypeOK
  <1>5. CASE Take(i)
    <2>1. PICK e \in backlog[i] :
            /\ job' = [job EXCEPT ![i] = [NoJob EXCEPT !.event = e, !.leg = FirstLeg(log[e].kind)]]
            /\ backlog' = [backlog EXCEPT ![i] = @ \ {e}]
      BY <1>5 DEF Take
    <2> DEFINE new == [NoJob EXCEPT !.event = e, !.leg = FirstLeg(log[e].kind)]
    <2>2. e \in Ids /\ e \in EventId /\ log[e] \in Event
      BY DEF TypeOK, Ids, EventId
    <2>3. FirstLeg(log[e].kind) \in Leg /\ FirstLeg(log[e].kind) \in LegsOf(log[e].kind)
      BY <2>2 DEF FirstLeg, LegsOf, Event, Kind, Leg, EntryLeg, OpenLeg, ExitLeg, FullExitLeg
    <2>4. new \in Job /\ new.event = e /\ new.leg = FirstLeg(log[e].kind)
      BY <2>2, <2>3, Shapes DEF NoJob, Job
    <2> HIDE DEF new
    <2>5. job' \in [Instance -> Job] /\ job'[i] = new /\ \A j \in Instance \ {i} : job'[j] = job[j]
      BY <2>1, <2>4 DEF TypeOK, new
    <2>6. pc' \in [Instance -> Place] /\ pc'[i] = "judge" /\ \A j \in Instance \ {i} : pc'[j] = pc[j]
      BY <1>5, GotoMoves DEF Take, Place, Working, Unclaimed
    <2>7. UNCHANGED <<shared, history, log, view>>
      BY <1>5 DEF Take, shared
    <2>8. JobOK(i)'
      BY <2>2, <2>3, <2>4, <2>5, <2>6, <2>7 DEF JobOK, Cur, Ids, Sending, new, NoJob
    <2>9. backlog' \in [Instance -> SUBSET Ids]
      BY <2>1 DEF TypeOK
    <2>10. QED
      BY <2>5, <2>6, <2>7, <2>8, <2>9, QuietTInv DEF TypeOK
  <1>6. CASE EndCycle(i)
    BY <1>6, Places, AtRest, ForgetMoves, QuietTInv DEF EndCycle
  <1>7. QED
    BY <1>1, <1>2, <1>3, <1>4, <1>5, <1>6 DEF Cycle

LEMMA Legs == /\ EntryLeg \cap ExitLeg = {} /\ Leg = EntryLeg \cup ExitLeg
              /\ OpenLeg \subseteq EntryLeg /\ FullExitLeg \subseteq ExitLeg
              /\ "flip_open" \in OpenLeg /\ "flip_close" \in FullExitLeg
  BY DEF EntryLeg, ExitLeg, OpenLeg, FullExitLeg, Leg

LEMMA WorkPlaces == \A l \in Working : l \in Place
  BY DEF Place

LEMMA ClaimType ==
  ASSUME TypeOK, NEW i \in Instance, ClaimEvent(i)
  PROVE  owner' \in [EventId -> Instance \cup {NoOne}]
  BY DEF TypeOK, ClaimEvent

\* An instance that stays on its job only has to carry an exit's memory along.
LEMMA StaysOnJob ==
  ASSUME TInv, NEW i \in Instance, pc[i] \in Working, log' = log, job'[i] = job[i],
         pc[i] \in Unclaimed \/ pc'[i] \notin Unclaimed,
         Exiting(i) /\ pc'[i] \in Sending \cup {"claim"} =>
           job[i].seen # NoEpisode /\ job[i].filled <= job[i].target
  PROVE  JobOK(i)'
  BY DEF TInv, JobOK, Cur, Exiting, Ids

\* The next leg of a flip is one of its event's legs, and is not an exit.
LEMMA NextLegOK ==
  ASSUME TInv, NEW i \in Instance, pc[i] \in Working, log' = log, NextLeg(i)
  PROVE  JobOK(i)'
  <1>1. CASE pc'[i] = "drain"
    BY <1>1, Places, AtRest
  <1>2. CASE pc'[i] = "judge" /\ job[i].leg = "flip_close"
             /\ job'[i] = [NoJob EXCEPT !.event = Cur(i), !.leg = "flip_open"]
    <2>1. job'[i].event = Cur(i) /\ job'[i].leg = "flip_open"
      BY <1>2 DEF NoJob
    <2>2. Cur(i) \in Ids /\ log[Cur(i)].kind = "flip"
      <3>1. Cur(i) \in Ids /\ job[i].leg \in LegsOf(log[Cur(i)].kind) /\ log[Cur(i)] \in Event
        BY DEF TInv, TypeOK, JobOK, Ids
      <3>2. QED
        BY <1>2, <3>1 DEF LegsOf, Event, Kind
    <2>3. QED
      BY <1>2, <2>1, <2>2 DEF JobOK, Cur, Ids, LegsOf, Sending, Unclaimed, Working, NoJob
  <1>3. QED
    BY <1>1, <1>2, NextLegMoves DEF TInv

LEMMA HandleTInv ==
  ASSUME TInv, NEW i \in Instance, Handle(i)
  PROVE  TInv'
  <1> USE DEF TInv
  <1>1. CASE JudgeEntry(i)
    <2>1. pc[i] \in Working /\ job[i].leg \in EntryLeg
      BY <1>1 DEF JudgeEntry, Entering, Working, Unclaimed
    <2>2. pc' \in [Instance -> Place] /\ \A j \in Instance \ {i} : pc'[j] = pc[j]
      BY <1>1, WorkPlaces, GotoMoves DEF JudgeEntry, Working, Unclaimed
    <2>3. UNCHANGED <<shared, history, log, view, backlog, job>>
      BY <1>1 DEF JudgeEntry, shared
    <2>4. JobOK(i)'
      BY <1>1, <2>1, <2>3, Legs, StaysOnJob DEF Exiting, JudgeEntry, Unclaimed
    <2>5. QED
      BY <2>2, <2>3, <2>4, QuietTInv DEF TypeOK
  <1>2. CASE Defer(i)
    BY <1>2, LeaveMoves, Places, AtRest, QuietTInv DEF Defer, TypeOK
  <1>3. CASE JudgeExit(i)
    <2>1. pc[i] \in Working
      BY <1>3 DEF JudgeExit, Working, Unclaimed
    <2>2. pc' \in [Instance -> Place] /\ \A j \in Instance \ {i} : pc'[j] = pc[j]
      BY <1>3, WorkPlaces, GotoMoves DEF JudgeExit, Working, Unclaimed
    <2>3. UNCHANGED <<shared, history, log, view, backlog>>
      BY <1>3 DEF JudgeExit, shared
    <2>4. CASE job' = job /\ pc'[i] = "skip"
      <3>1. JobOK(i)'
        BY <1>3, <2>1, <2>3, <2>4, StaysOnJob DEF JudgeExit, Sending, Unclaimed
      <3>2. QED
        BY <2>2, <2>3, <2>4, <3>1, QuietTInv DEF TypeOK
    <2>5. CASE Holds(i) /\ \E n \in 1 .. view[i].size :
                 job' = [job EXCEPT ![i].seen = episode, ![i].target = n]
      <3>1. PICK n \in 1 .. view[i].size : job' = [job EXCEPT ![i].seen = episode, ![i].target = n]
        BY <2>5
      <3> DEFINE new == [job[i] EXCEPT !.seen = episode, !.target = n]
      <3>2. n \in Nat /\ job[i] \in Job /\ episode \in Episode /\ episode # NoEpisode
        BY <2>5 DEF Holds, TypeOK, Position
      <3>3. new \in Job /\ new.event = job[i].event /\ new.leg = job[i].leg
        BY <3>2 DEF Job
      <3>4. job' = [job EXCEPT ![i] = new]
        BY <3>1
      <3> HIDE DEF new
      <3>5. job' \in [Instance -> Job] /\ job'[i] = new /\ \A j \in Instance \ {i} : job'[j] = job[j]
        BY <3>3, <3>4 DEF TypeOK
      <3>6. new.seen = episode /\ new.target = n /\ new.filled = job[i].filled
        BY <3>2 DEF new, Job
      <3>7. job[i].filled = 0 /\ Cur(i) \in Ids /\ job[i].leg \in LegsOf(log[Cur(i)].kind)
        BY <1>3 DEF JudgeExit, JobOK, Unclaimed, Working
      <3>8. JobOK(i)'
        BY <2>3, <3>2, <3>3, <3>5, <3>6, <3>7 DEF JobOK, Cur, Ids
      <3>9. QED
        BY <2>2, <2>3, <3>5, <3>8, QuietTInv DEF TypeOK
    <2>6. QED
      BY <1>3, <2>4, <2>5 DEF JudgeExit, Goto, TypeOK
  <1>4. CASE SkipEvent(i)
    <2>1. pc[i] \in Working
      BY <1>4 DEF SkipEvent, Working, Unclaimed
    <2>2. UNCHANGED <<log, stale, halted, episode, position, view, backlog>>
      BY <1>4 DEF SkipEvent
    <2>3. UNCHANGED <<opens, signed, copied, upsets>>
      BY <1>4 DEF SkipEvent, history
    <2>4. CASE ClaimEvent(i) /\ Report(i, "skipped") /\ NextLeg(i)
      <3>1. JobOK(i)'
        BY <2>1, <2>2, <2>4, NextLegOK
      <3>2. QED
        BY <2>2, <2>3, <2>4, <3>1, ClaimType, ReportType, NextLegMoves, StepTInv DEF TypeOK, Trail
    <2>5. CASE Leave(i) /\ UNCHANGED <<owner, exitTrail>>
      <3>1. JobOK(i)'
        BY <2>5, LeaveMoves, Places, AtRest
      <3>2. QED
        BY <2>2, <2>3, <2>5, <3>1, LeaveMoves, StepTInv DEF TypeOK, Trail
    <2>6. QED
      BY <1>4, <2>4, <2>5 DEF SkipEvent, LoseClaim
  <1>5. CASE ClaimAndAttempt(i)
    <2>1. pc[i] = "claim" /\ pc[i] \in Working
      BY <1>5 DEF ClaimAndAttempt, Working, Unclaimed
    <2>2. UNCHANGED <<log, stale, halted, exitTrail, episode, position, view, backlog>>
      BY <1>5 DEF ClaimAndAttempt
    <2>3. UNCHANGED <<opens, signed, copied, upsets>>
      BY <1>5 DEF ClaimAndAttempt, history
    <2>4. CASE Goto(i, "legGate") /\ job' = job /\ (ClaimEvent(i) \/ owner' = owner)
      <3>1. owner' \in [EventId -> Instance \cup {NoOne}]
        BY <2>4, ClaimType DEF TypeOK
      <3>2. pc' \in [Instance -> Place] /\ pc'[i] = "legGate" /\ \A j \in Instance \ {i} : pc'[j] = pc[j]
        BY <2>4, WorkPlaces, GotoMoves DEF Working, Sending
      <3>3. JobOK(i)'
        BY <2>1, <2>2, <2>4, StaysOnJob DEF JobOK, Unclaimed
      <3>4. QED
        BY <2>2, <2>3, <2>4, <3>1, <3>2, <3>3, StepTInv DEF TypeOK, Trail
    <2>5. CASE Leave(i) /\ owner' = owner
      <3>1. JobOK(i)'
        BY <2>5, LeaveMoves, Places, AtRest
      <3>2. QED
        BY <2>2, <2>3, <2>5, <3>1, LeaveMoves, StepTInv DEF TypeOK, Trail
    <2>6. QED
      BY <1>5, <2>4, <2>5 DEF ClaimAndAttempt, LoseClaim
  <1>6. CASE LegGate(i)
    <2>1. pc[i] = "legGate" /\ pc[i] \in Working
      BY <1>6 DEF LegGate, Working, Sending
    <2>2. UNCHANGED <<log, stale, owner, halted, episode, position, view, backlog>>
      BY <1>6 DEF LegGate
    <2>3. UNCHANGED <<opens, signed, copied, upsets>>
      BY <1>6 DEF LegGate, history
    <2>4. CASE Report(i, "halted") /\ Leave(i)
      <3>1. JobOK(i)'
        BY <2>4, LeaveMoves, Places, AtRest
      <3>2. QED
        BY <2>2, <2>3, <2>4, <3>1, ReportType, LeaveMoves, StepTInv DEF TypeOK, Trail
    <2>5. CASE (Goto(i, "leverage") \/ Goto(i, "wire")) /\ UNCHANGED <<exitTrail, job>>
      <3>1. /\ pc' \in [Instance -> Place] /\ pc'[i] \in {"leverage", "wire"}
            /\ \A j \in Instance \ {i} : pc'[j] = pc[j]
        BY <2>5, WorkPlaces, GotoMoves DEF Working, Sending
      <3>2. JobOK(i)'
        BY <2>1, <2>2, <2>5, <3>1, StaysOnJob DEF JobOK, Unclaimed, Sending
      <3>3. QED
        BY <2>2, <2>3, <2>5, <3>1, <3>2, StepTInv DEF TypeOK, Trail
    <2>6. QED
      BY <1>6, <2>4, <2>5 DEF LegGate
  <1>7. QED
    BY <1>1, <1>2, <1>3, <1>4, <1>5, <1>6 DEF Handle

LEMMA StillCopiedType ==
  ASSUME TypeOK, NEW p \in Position
  PROVE  StillCopied(p) \in Nat
  BY DEF TypeOK, StillCopied, Position, Flat

\* The event an entry works on names a side.
LEMMA EntrySide ==
  ASSUME TInv, NEW i \in Instance, pc[i] \in Working, Entering(i)
  PROVE  Cur(i) \in Ids /\ Cur(i) \in EventId /\ log[Cur(i)].side \in Side
  <1>1. /\ Cur(i) \in Ids /\ Cur(i) \in EventId /\ log[Cur(i)] \in Event
        /\ job[i].leg \in LegsOf(log[Cur(i)].kind)
    BY DEF TInv, TypeOK, JobOK, Ids, EventId
  <1>2. log[Cur(i)].kind # "close"
    BY <1>1 DEF Entering, EntryLeg, OpenLeg, LegsOf
  <1>3. QED
    BY <1>1, <1>2 DEF Event

LEMMA EntryExecutesType ==
  ASSUME TInv, NEW i \in Instance, pc[i] \in Working, Entering(i),
         NEW n \in 1 .. Lot, EntryExecutes(i, n)
  PROVE  position' \in Position /\ copied' \in Nat
  <1>1. n \in Nat \ {0} /\ log[Cur(i)].side \in Side
    BY EntrySide, BoundsAssumption
  <1>2. Net(position, log[Cur(i)].side, n) \in Position
    BY <1>1, NetType DEF TInv, TypeOK
  <1>3. StillCopied(Net(position, log[Cur(i)].side, n)) \in Nat
    BY <1>2, StillCopiedType DEF TInv
  <1>4. \A p \in Position : p.size \in Nat
    BY DEF Position, Flat
  <1>5. PICK p \in Position, k \in Nat : p = Net(position, log[Cur(i)].side, n) /\ k = StillCopied(p)
    BY <1>2, <1>3
  <1>6. k + n \in Nat /\ p.size \in Nat
    BY <1>1, <1>4
  <1>7. QED
    BY <1>5, <1>6 DEF EntryExecutes

LEMMA SignEntryType ==
  ASSUME TInv, NEW i \in Instance, SignEntry(i)
  PROVE  opens' \in [EventId -> Nat] /\ signed' \in [Instance -> Nat]
  <1>1. opens' \in [EventId -> Nat]
    <2>1. opens \in [EventId -> Nat]
      BY DEF TInv, TypeOK
    <2>2. opens' = [opens EXCEPT ![Cur(i)] = opens[Cur(i)] + 1]
      BY DEF SignEntry
    <2>3. Cur(i) \in EventId /\ opens[Cur(i)] \in Nat
      BY <2>1, EntrySide DEF SignEntry, Working, Sending
    <2>4. opens[Cur(i)] + 1 \in Nat
      BY <2>3
    <2>5. QED
      BY <2>1, <2>2, <2>4
  <1>2. signed' \in [Instance -> Nat]
    BY SignCounts DEF TInv, SignEntry
  <1>3. QED
    BY <1>1, <1>2

LEMMA ReduceExecutesType ==
  ASSUME TInv, NEW i \in Instance, NEW n \in Nat, ReduceExecutes(i, n)
  PROVE  position' \in Position /\ copied' \in Nat
  <1>1. copied' \in Nat
    BY DEF TInv, TypeOK, ReduceExecutes
  <1>2. CASE n = 0
    BY <1>1, <1>2 DEF TInv, TypeOK, ReduceExecutes
  <1>3. CASE n > 0
    <2>1. position \in Position /\ n <= position.size
      BY <1>3 DEF TInv, TypeOK, ReduceExecutes
    <2>2. position # Flat /\ position \in [side : Side, size : Nat \ {0}]
      BY <1>3, <2>1 DEF Position, Flat
    <2>3. n # position.size => [position EXCEPT !.size = @ - n] \in Position
      BY <1>3, <2>1, <2>2 DEF Position
    <2>4. QED
      BY <1>1, <1>3, <2>3, Shapes DEF ReduceExecutes
  <1>4. QED
    BY <1>2, <1>3

LEMMA WireTInv ==
  ASSUME TInv, NEW i \in Instance, Wire(i)
  PROVE  TInv'
  <1> USE DEF TInv
  <1>1. pc[i] \in Sending /\ pc[i] \in Working
    BY DEF Wire, SetLeverage, ReGate, EntryFills, EntryRefused, EntryReplyLost, SignEntry, SettleEntry,
           ReduceAnswered, ReduceRaises, SignReduce, ReduceUnpriceable, RetryGate, SettleExit,
           Sending, Working
  <1>2. CASE SetLeverage(i)
    <2>1. UNCHANGED <<shared, log, stale, halted, view, backlog, opens, copied, upsets>>
      BY <1>2 DEF SetLeverage, shared
    <2>2. UNCHANGED <<owner, exitTrail, episode, position>>
      BY <2>1 DEF shared
    <2>3. signed' \in [Instance -> Nat]
      BY <1>2, SignCounts DEF SetLeverage
    <2>4. CASE Leave(i)
      <3>1. JobOK(i)'
        BY <2>4, LeaveMoves, Places, AtRest
      <3>2. QED
        BY <2>1, <2>2, <2>3, <2>4, <3>1, LeaveMoves, StepTInv DEF TypeOK, Trail
    <2>5. CASE Goto(i, "reGate") /\ job' = job
      <3>1. pc' \in [Instance -> Place] /\ pc'[i] = "reGate" /\ \A j \in Instance \ {i} : pc'[j] = pc[j]
        BY <2>5, WorkPlaces, GotoMoves DEF Working, Sending
      <3>2. JobOK(i)'
        BY <1>1, <2>1, <2>5, <3>1, StaysOnJob DEF JobOK, Unclaimed
      <3>3. QED
        BY <2>1, <2>2, <2>3, <2>5, <3>1, <3>2, StepTInv DEF TypeOK, Trail
    <2>6. QED
      BY <1>2, <2>4, <2>5 DEF SetLeverage
  <1>3. CASE ReGate(i)
    <2>1. CASE halted
      <3>1. JobOK(i)'
        BY <1>3, <2>1, LeaveMoves, Places, AtRest DEF ReGate
      <3>2. QED
        BY <1>3, <2>1, <3>1, LeaveMoves, QuietTInv DEF ReGate, TypeOK
    <2>2. CASE ~halted
      <3>1. pc' \in [Instance -> Place] /\ pc'[i] = "wire" /\ \A j \in Instance \ {i} : pc'[j] = pc[j]
        BY <1>3, <2>2, WorkPlaces, GotoMoves DEF ReGate, Working, Sending
      <3>2. JobOK(i)'
        BY <1>1, <1>3, <2>2, <3>1, StaysOnJob DEF ReGate, JobOK, Unclaimed, shared
      <3>3. QED
        BY <1>3, <2>2, <3>1, <3>2, QuietTInv DEF ReGate, TypeOK
    <2>3. QED
      BY <2>1, <2>2
  <1>4. CASE EntryFills(i)
    <2>1. PICK n \in 1 .. Lot : EntryExecutes(i, n) /\ job' = [job EXCEPT ![i].filled = n]
      BY <1>4 DEF EntryFills
    <2>2. Entering(i) /\ SignEntry(i)
      BY <1>4 DEF EntryFills, SignEntry
    <2>3. position' \in Position /\ copied' \in Nat /\ opens' \in [EventId -> Nat] /\ signed' \in [Instance -> Nat]
      BY <1>1, <2>1, <2>2, EntryExecutesType, SignEntryType
    <2>4. pc' \in [Instance -> Place] /\ pc'[i] = "settle" /\ \A j \in Instance \ {i} : pc'[j] = pc[j]
      BY <1>4, WorkPlaces, GotoMoves DEF EntryFills, Working, Sending
    <2>5. /\ job' \in [Instance -> Job] /\ job'[i].event = job[i].event /\ job'[i].leg = job[i].leg
          /\ \A j \in Instance \ {i} : job'[j] = job[j]
      <3> DEFINE new == [job[i] EXCEPT !.filled = n]
      <3>1. n \in Nat /\ job[i] \in Job
        BY BoundsAssumption DEF TypeOK
      <3>2. new \in Job /\ new.event = job[i].event /\ new.leg = job[i].leg
        BY <3>1 DEF Job
      <3>3. job' = [job EXCEPT ![i] = new]
        BY <2>1
      <3> HIDE DEF new
      <3>4. QED
        BY <3>2, <3>3 DEF TypeOK
    <2>6. UNCHANGED <<log, stale, owner, exitTrail, episode, halted, view, backlog, upsets>>
      BY <1>4 DEF EntryFills
    <2>7. JobOK(i)'
      BY <1>1, <2>2, <2>4, <2>5, <2>6, Legs DEF JobOK, Cur, Ids, Entering, Exiting, Unclaimed
    <2>8. QED
      BY <2>3, <2>4, <2>5, <2>6, <2>7, StepTInv DEF TypeOK, Trail
  <1>5. CASE EntryRefused(i)
    <2>1. UNCHANGED <<log, stale, owner, exitTrail, episode, halted, position, view, backlog, copied, upsets>>
      BY <1>5 DEF EntryRefused, shared
    <2>2. JobOK(i)'
      BY <1>5, LeaveMoves, Places, AtRest DEF EntryRefused
    <2>3. QED
      BY <1>5, <2>1, <2>2, SignEntryType, LeaveMoves, StepTInv DEF EntryRefused, TypeOK, Trail
  <1>6. CASE EntryReplyLost(i)
    <2>1. PICK n \in 1 .. Lot : EntryExecutes(i, n)
      BY <1>6 DEF EntryReplyLost
    <2>2. Entering(i) /\ SignEntry(i)
      BY <1>6 DEF EntryReplyLost, SignEntry
    <2>3. position' \in Position /\ copied' \in Nat /\ opens' \in [EventId -> Nat] /\ signed' \in [Instance -> Nat]
      BY <1>1, <2>1, <2>2, EntryExecutesType, SignEntryType
    <2>4. UNCHANGED <<log, stale, owner, exitTrail, episode, halted, view, backlog, upsets>>
      BY <1>6 DEF EntryReplyLost
    <2>5. JobOK(i)'
      BY <1>6, LeaveMoves, Places, AtRest DEF EntryReplyLost
    <2>6. QED
      BY <1>6, <2>3, <2>4, <2>5, LeaveMoves, StepTInv DEF EntryReplyLost, TypeOK, Trail
  <1>7. CASE SettleEntry(i)
    <2>1. /\ Cur(i) \in EventId /\ log[Cur(i)].side \in Side /\ job[i].filled \in Nat
          /\ view[i] \in Position /\ view[i].size \in Nat
      <3>1. Cur(i) \in EventId /\ log[Cur(i)].side \in Side
        BY <1>1, <1>7, EntrySide DEF SettleEntry
      <3>2. job[i].filled \in Nat /\ view[i] \in Position
        BY DEF TypeOK, Job
      <3>3. QED
        BY <3>1, <3>2 DEF Position, Flat
    <2>2. episode' \in Episode
      <3>1. [by |-> Cur(i), side |-> log[Cur(i)].side, size |-> job[i].filled] \in Episode
        BY <2>1 DEF Episode
      <3>2. ASSUME episode # NoEpisode
            PROVE  [episode EXCEPT !.size = @ + job[i].filled] \in Episode
        <4>1. episode \in [by : EventId, side : Side, size : Nat]
          BY <3>2 DEF TypeOK, Episode
        <4>2. episode.size + job[i].filled \in Nat
          BY <2>1, <4>1
        <4>3. QED
          BY <4>1, <4>2 DEF Episode
      <3>3. QED
        BY <1>7, <3>1, <3>2 DEF SettleEntry
    <2>3. view' \in [Instance -> Position]
      <3>1. ApplyFill(log[Cur(i)].side, view[i].size + job[i].filled) \in Position
        BY <2>1, ApplyFillType
      <3>2. QED
        BY <1>7, <3>1 DEF SettleEntry, TypeOK
    <2>4. UNCHANGED <<log, stale, owner, exitTrail, halted, position, backlog>>
      BY <1>7 DEF SettleEntry
    <2>5. UNCHANGED <<opens, signed, copied, upsets>>
      BY <1>7 DEF SettleEntry, history
    <2>6. Leave(i) /\ JobOK(i)'
      BY <1>7, LeaveMoves, Places, AtRest DEF SettleEntry
    <2>7. QED
      BY <2>2, <2>3, <2>4, <2>5, <2>6, LeaveMoves, StepTInv DEF TypeOK, Trail
  <1>8. CASE ReduceAnswered(i)
    <2>1. PICK n \in 0 .. MaxSize :
            /\ ReduceExecutes(i, n)
            /\ job' = [job EXCEPT ![i].filled = @ + n, ![i].tries = @ + 1]
      BY <1>8 DEF ReduceAnswered
    <2> DEFINE new == [job[i] EXCEPT !.filled = @ + n, !.tries = @ + 1]
    <2>2. n \in Nat /\ job[i] \in Job
      BY BoundsAssumption DEF TypeOK
    <2>3. position' \in Position /\ copied' \in Nat
      BY <2>1, <2>2, ReduceExecutesType
    <2>4. /\ new \in Job /\ new.event = job[i].event /\ new.leg = job[i].leg /\ new.seen = job[i].seen
          /\ new.target = job[i].target /\ new.filled = job[i].filled + n
      <3>1. job[i].filled + n \in Nat /\ job[i].tries + 1 \in Nat
        BY <2>2 DEF Job
      <3>2. new = [[job[i] EXCEPT !.filled = job[i].filled + n] EXCEPT !.tries = job[i].tries + 1]
        BY <2>2 DEF Job
      <3>3. QED
        BY <2>2, <3>1, <3>2 DEF Job
    <2>5. job' = [job EXCEPT ![i] = new]
      BY <2>1
    <2> HIDE DEF new
    <2>6. job' \in [Instance -> Job] /\ job'[i] = new /\ \A j \in Instance \ {i} : job'[j] = job[j]
      BY <2>4, <2>5 DEF TypeOK
    <2>7. /\ pc' \in [Instance -> Place] /\ pc'[i] \in {"settle", "retry"}
          /\ \A j \in Instance \ {i} : pc'[j] = pc[j]
      <3>1. Goto(i, "settle") \/ Goto(i, "retry")
        BY <1>8 DEF ReduceAnswered
      <3>2. QED
        BY <3>1, WorkPlaces, GotoMoves DEF Working, Sending
    <2>8. UNCHANGED <<log, stale, owner, exitTrail, episode, halted, view, backlog, opens, upsets>>
      BY <1>8 DEF ReduceAnswered
    <2>9. signed' \in [Instance -> Nat]
      BY <1>8, SignCounts DEF ReduceAnswered, SignReduce
    <2>10. new.filled <= new.target
      <3>1. n <= job[i].target - job[i].filled /\ job[i].target \in Nat /\ job[i].filled \in Nat
        BY <2>1, <2>2 DEF ReduceExecutes, Job
      <3>2. QED
        BY <2>2, <2>4, <3>1
    <2>11. job[i].seen # NoEpisode
      BY <1>1, <1>8 DEF ReduceAnswered, SignReduce, JobOK
    <2>12. Cur(i) \in Ids /\ job[i].leg \in LegsOf(log[Cur(i)].kind)
      BY <1>1 DEF JobOK
    <2>13. JobOK(i)'
      BY <2>4, <2>6, <2>7, <2>8, <2>10, <2>11, <2>12 DEF JobOK, Cur, Ids, Unclaimed
    <2>14. QED
      BY <2>3, <2>6, <2>7, <2>8, <2>9, <2>13, StepTInv DEF TypeOK, Trail
  <1>9. CASE ReduceRaises(i)
    <2>1. PICK n \in 0 .. MaxSize : ReduceExecutes(i, n)
      BY <1>9 DEF ReduceRaises
    <2>2. position' \in Position /\ copied' \in Nat
      BY <2>1, BoundsAssumption, ReduceExecutesType
    <2>3. exitTrail' \in [EventId -> Trail]
      BY <1>9, ReportType DEF ReduceRaises, Trail
    <2>4. signed' \in [Instance -> Nat]
      BY <1>9, SignCounts DEF ReduceRaises, SignReduce
    <2>5. UNCHANGED <<log, stale, owner, episode, halted, view, backlog, opens, upsets>>
      BY <1>9 DEF ReduceRaises
    <2>6. Leave(i) /\ JobOK(i)'
      BY <1>9, LeaveMoves, Places, AtRest DEF ReduceRaises
    <2>7. QED
      BY <2>2, <2>3, <2>4, <2>5, <2>6, LeaveMoves, StepTInv DEF TypeOK, Trail
  <1>10. CASE ReduceUnpriceable(i)
    <2>1. pc' \in [Instance -> Place] /\ pc'[i] = "settle" /\ \A j \in Instance \ {i} : pc'[j] = pc[j]
      BY <1>10, WorkPlaces, GotoMoves DEF ReduceUnpriceable, Working, Sending
    <2>2. UNCHANGED <<shared, history, log, view, backlog, job>>
      BY <1>10 DEF ReduceUnpriceable, shared
    <2>3. JobOK(i)'
      BY <1>1, <2>1, <2>2, StaysOnJob DEF JobOK, Unclaimed
    <2>4. QED
      BY <2>1, <2>2, <2>3, QuietTInv DEF TypeOK
  <1>11. CASE RetryGate(i)
    <2>1. /\ pc' \in [Instance -> Place] /\ pc'[i] \in {"settle", "wire"}
          /\ \A j \in Instance \ {i} : pc'[j] = pc[j]
      <3>1. Goto(i, "settle") \/ Goto(i, "wire")
        BY <1>11 DEF RetryGate
      <3>2. QED
        BY <3>1, WorkPlaces, GotoMoves DEF Working, Sending
    <2>2. UNCHANGED <<shared, history, log, view, backlog, job>>
      BY <1>11 DEF RetryGate, shared
    <2>3. JobOK(i)'
      BY <1>1, <2>1, <2>2, StaysOnJob DEF JobOK, Unclaimed
    <2>4. QED
      BY <2>1, <2>2, <2>3, QuietTInv DEF TypeOK
  <1>12. CASE SettleExit(i)
    <2>1. /\ job[i].seen # NoEpisode /\ job[i].seen \in Episode
          /\ job[i].filled \in Nat /\ job[i].target \in Nat /\ job[i].filled <= job[i].target
      BY <1>1, <1>12 DEF SettleExit, JobOK, TypeOK, Job
    <2>2. job[i].seen.side \in Side /\ job[i].seen.by \in EventId /\ job[i].seen.size \in Nat
      BY <2>1 DEF Episode
    <2>3. view' \in [Instance -> Position]
      <3>1. view[i].size \in Nat
        BY DEF TypeOK, Position, Flat
      <3>2. ApplyFill(job[i].seen.side, view[i].size - job[i].filled) \in Position
        BY <2>1, <2>2, <3>1, ApplyFillType
      <3>3. QED
        BY <1>12, <3>2 DEF SettleExit, TypeOK
    <2>4. episode' \in Episode
      <3>1. CASE episode.by = job[i].seen.by
        <4>1. episode \in Episode /\ episode # NoEpisode
          BY <2>2, <3>1 DEF TypeOK, NoEpisode, EventId
        <4>2. ASSUME NEW n \in Nat PROVE [episode EXCEPT !.size = n] \in Episode
          BY <4>1 DEF Episode
        <4>3. job[i].target - job[i].filled \in Nat /\ BookedRest(i) \in Nat
          BY <2>1, <2>2 DEF BookedRest
        <4>4. ExitBooks(i) \in Episode
          BY <4>2, <4>3, Shapes DEF ExitBooks
        <4>5. QED
          BY <1>12, <3>1, <4>4 DEF SettleExit
      <3>2. CASE episode.by # job[i].seen.by
        BY <1>12, <3>2 DEF SettleExit, TypeOK
      <3>3. QED
        BY <3>1, <3>2
    <2>5. exitTrail' \in [EventId -> Trail]
      BY <1>12, ReportType DEF SettleExit, Trail
    <2>6. UNCHANGED <<log, stale, owner, halted, position, backlog>>
      BY <1>12 DEF SettleExit
    <2>7. UNCHANGED <<opens, signed, copied, upsets>>
      BY <1>12 DEF SettleExit, history
    <2>8. NextLeg(i)
      BY <1>12 DEF SettleExit
    <2>9. JobOK(i)'
      BY <1>1, <2>6, <2>8, NextLegOK
    <2>10. QED
      BY <2>3, <2>4, <2>5, <2>6, <2>7, <2>8, <2>9, NextLegMoves, StepTInv DEF TypeOK, Trail
  <1>13. QED
    BY <1>2, <1>3, <1>4, <1>5, <1>6, <1>7, <1>8, <1>9, <1>10, <1>11, <1>12 DEF Wire

LEMMA CrashTInv ==
  ASSUME TInv, NEW i \in Instance, Crash(i)
  PROVE  TInv'
  <1>1. UNCHANGED <<log, stale, halted, owner, exitTrail, episode, position, opens, signed, copied>>
    BY DEF Crash, shared
  <1>2. Forget(i)
    BY DEF Crash
  <1>3. upsets' \in 0 .. MaxUpsets
    BY BoundsAssumption DEF Crash, Upset, TInv, TypeOK
  <1>4. JobOK(i)'
    BY <1>2, ForgetMoves, Places, AtRest DEF TInv
  <1>5. QED
    BY <1>1, <1>2, <1>3, <1>4, ForgetMoves, StepTInv DEF TInv, TypeOK, Trail

\* The log only grows: what the instances know of it stays true.
LEMMA PublishTInv ==
  ASSUME TInv, NEW k, NEW s, [kind |-> k, side |-> s] \in Event, Publish(k, s)
  PROVE  TInv'
  <1> DEFINE ev == [kind |-> k, side |-> s]
  <1>1. log \in Seq(Event) /\ Len(log) \in Nat /\ Len(log) < MaxEvents /\ log' = Append(log, ev)
    BY DEF Publish, TInv, TypeOK
  <1> HIDE DEF ev
  <1>2. ev \in Event
    BY DEF ev
  <1>3. /\ log' \in Seq(Event) /\ Len(log') = Len(log) + 1 /\ Len(log') <= MaxEvents
        /\ \A e \in Ids : e \in Ids' /\ log'[e] = log[e]
    BY <1>1, <1>2, BoundsAssumption DEF Ids
  <1>4. UNCHANGED <<stale, owner, exitTrail, episode, halted, position, pc, view, backlog, job,
                    opens, signed, copied, upsets>>
    BY DEF Publish, local, history
  <1>5. backlog' \in [Instance -> SUBSET Ids']
    BY <1>3, <1>4 DEF TInv, TypeOK
  <1>6. stale' \in 0 .. Len(log')
    BY <1>1, <1>3, <1>4 DEF TInv, TypeOK
  <1>7. \A i \in Instance : JobOK(i)'
    BY <1>3, <1>4 DEF TInv, JobOK, Cur, Exiting
  <1>8. halted' \in BOOLEAN
    BY <1>4 DEF TInv, TypeOK
  <1>9. TypeOK'
    BY <1>3, <1>4, <1>5, <1>6, <1>8 DEF TInv, TypeOK
  <1>10. QED
    BY <1>7, <1>9 DEF TInv

\* The other steps of the environment touch no instance and no event.
LEMMA WorldTInv ==
  ASSUME TInv, UNCHANGED <<log, owner, exitTrail, episode, local, opens>>,
         stale' \in 0 .. Len(log), halted' \in BOOLEAN, position' \in Position,
         signed' \in [Instance -> Nat], copied' \in Nat, upsets' \in 0 .. MaxUpsets
  PROVE  TInv'
  <1>1. UNCHANGED <<pc, view, backlog, job>>
    BY DEF local
  <1>2. \A i \in Instance : JobOK(i)'
    BY <1>1 DEF TInv, JobOK, Cur, Exiting, Ids
  <1>3. backlog' \in [Instance -> SUBSET Ids']
    BY <1>1 DEF TInv, TypeOK, Ids
  <1>4. TypeOK'
    BY <1>1, <1>3 DEF TInv, TypeOK
  <1>5. QED
    BY <1>2, <1>4 DEF TInv

LEMMA EnvironmentTInv ==
  ASSUME TInv, Environment
  PROVE  TInv'
  <1> USE DEF TInv
  <1>1. CASE LeaderMoves
    <2>1. leader = "flat" \/ leader \in Side
      <3>1. CASE log = <<>>
        BY <3>1 DEF leader
      <3>2. CASE log # <<>>
        <4>1. log[Len(log)] \in Event
          BY <3>2 DEF TypeOK
        <4>2. QED
          BY <3>2, <4>1 DEF leader, Event
      <3>3. QED
        BY <3>1, <3>2
    <2>2. \A s \in Side : Opposite(s) \in Side
      BY DEF Opposite, Side
    <2>3. /\ [kind |-> "close", side |-> "flat"] \in Event
          /\ \A s \in Side, k \in {"open", "scale_in", "scale_out", "flip"} :
               [kind |-> k, side |-> s] \in Event
      BY DEF Event, Kind
    <2>4. QED
      BY <1>1, <2>1, <2>2, <2>3, PublishTInv DEF LeaderMoves
  <1>2. CASE EventAges
    <2>1. stale' \in 0 .. Len(log)
      BY <1>2 DEF EventAges, TypeOK
    <2>2. UNCHANGED <<opens, signed, copied, upsets>>
      BY <1>2 DEF EventAges, history
    <2>3. halted' \in BOOLEAN
      BY <1>2 DEF EventAges, TypeOK
    <2>4. QED
      BY <1>2, <2>1, <2>2, <2>3, WorldTInv DEF EventAges, TypeOK
  <1>3. ASSUME NEW b \in BOOLEAN, SetHalted(b) PROVE TInv'
    <2>1. halted' \in BOOLEAN /\ signed' \in [Instance -> Nat]
      BY <1>3 DEF SetHalted
    <2>2. QED
      BY <1>3, <2>1, WorldTInv DEF SetHalted, TypeOK
  <1>4. CASE PositionMoves
    <2>1. PICK p \in {Flat} \cup [side : Side, size : 1 .. MaxSize] :
            position' = p /\ copied' = StillCopied(p)
      BY <1>4 DEF PositionMoves
    <2>2. p \in Position
      BY <2>1, BoundsAssumption DEF Position
    <2>3. position' \in Position /\ copied' \in Nat
      BY <2>1, <2>2, StillCopiedType
    <2>4. upsets' \in 0 .. MaxUpsets
      BY <1>4, BoundsAssumption DEF PositionMoves, Upset, TypeOK
    <2>5. halted' \in BOOLEAN
      BY <1>4 DEF PositionMoves, TypeOK
    <2>6. QED
      BY <1>4, <2>3, <2>4, <2>5, WorldTInv DEF PositionMoves, TypeOK
  <1>5. QED
    BY <1>1, <1>2, <1>3, <1>4 DEF Environment, Halt, Resume

\* TInv is inductive.
LEMMA NextTInv == TInv /\ [Next]_vars => TInv'
  <1> SUFFICES ASSUME TInv, [Next]_vars PROVE TInv'
    OBVIOUS
  <1>1. CASE Environment
    BY <1>1, EnvironmentTInv
  <1>2. ASSUME NEW i \in Instance, Step(i) PROVE TInv'
    BY <1>2, CycleTInv, HandleTInv, WireTInv DEF Step
  <1>3. ASSUME NEW i \in Instance, Crash(i) PROVE TInv'
    BY <1>3, CrashTInv
  <1>4. CASE UNCHANGED vars
    <2>1. UNCHANGED <<shared, local, history, log, stale, halted>>
      BY <1>4 DEF vars, shared
    <2>2. UNCHANGED <<owner, exitTrail, episode, position, opens, signed, copied, upsets>>
      BY <2>1 DEF shared, history
    <2>3. halted' \in BOOLEAN
      BY <2>1 DEF TInv, TypeOK
    <2>4. QED
      BY <2>1, <2>2, <2>3, WorldTInv DEF TInv, TypeOK
  <1>5. QED
    BY <1>1, <1>2, <1>3, <1>4 DEF Next

THEOREM TypedInv == Spec => []TInv
  BY InitTInv, NextTInv, PTL DEF Spec

\* The rows, the positions and the working copies of every instance keep their
\* types through every race, crash and unreadable read.
THEOREM TypeCorrect == Spec => []TypeOK
  <1>1. TInv => TypeOK
    BY DEF TInv
  <1>2. QED
    BY <1>1, TypedInv, PTL
-----------------------------------------------------------------------------
(* The claim and the wire. *)

\* The instance is past the claim of the event it works on.
Owns(i) == pc[i] \in Sending \/ (pc[i] \in Unclaimed /\ job[i].leg = "flip_open")

\* The entry order of the event may still be ahead.
MayEnter(i) == Owns(i) /\ (job[i].leg = "flip_close" \/ (Entering(i) /\ pc[i] # "settle"))

\* AtMostOneEntryOrder is not inductive: it needs to know that only the owner
\* of a claim sends, and that it does so before the order and not after it.
EntryInv ==
  /\ \A i \in Instance : Owns(i) => owner[Cur(i)] = i
  /\ \A e \in EventId : owner[e] = NoOne => opens[e] = 0
  /\ \A i \in Instance : MayEnter(i) => opens[Cur(i)] = 0
  /\ AtMostOneEntryOrder

LEMMA WorkingEvent ==
  ASSUME TInv, NEW i \in Instance, pc[i] \in Working
  PROVE  Cur(i) \in EventId /\ Cur(i) \in Ids /\ job[i].leg \in LegsOf(log[Cur(i)].kind)
  <1>1. Cur(i) \in Ids /\ job[i].leg \in LegsOf(log[Cur(i)].kind)
    BY DEF TInv, JobOK
  <1>2. Ids \subseteq EventId
    BY BoundsAssumption DEF TInv, TypeOK, Ids, EventId
  <1>3. QED
    BY <1>1, <1>2

LEMMA OwnersWork == \A i \in Instance : Owns(i) => pc[i] \in Working
  BY DEF Owns, Working

LEMMA InitEntry == Init => EntryInv
  <1> SUFFICES ASSUME Init PROVE EntryInv
    OBVIOUS
  <1>1. \A i \in Instance : ~ Owns(i) /\ ~ MayEnter(i)
    BY DEF Init, Owns, MayEnter, Sending, Unclaimed
  <1>2. \A e \in EventId : opens[e] = 0
    BY DEF Init
  <1>3. QED
    BY <1>1, <1>2 DEF EntryInv, AtMostOneEntryOrder

\* A step that claims nothing and signs no entry.
LEMMA KeepsEntryInv ==
  ASSUME EntryInv, NEW i \in Instance, UNCHANGED <<owner, opens>>,
         \A j \in Instance \ {i} : pc'[j] = pc[j] /\ job'[j] = job[j],
         Owns(i)' => Owns(i) /\ Cur(i)' = Cur(i),
         MayEnter(i)' => MayEnter(i)
  PROVE  EntryInv'
  <1>1. ASSUME NEW j \in Instance \ {i}
        PROVE  (Owns(j)' <=> Owns(j)) /\ (MayEnter(j)' <=> MayEnter(j)) /\ Cur(j)' = Cur(j)
    BY <1>1 DEF Owns, MayEnter, Entering, Cur
  <1>2. ASSUME NEW j \in Instance, Owns(j)' PROVE owner'[Cur(j)'] = j
    BY <1>1, <1>2 DEF EntryInv
  <1>3. ASSUME NEW j \in Instance, MayEnter(j)' PROVE opens'[Cur(j)'] = 0
    BY <1>1, <1>3 DEF EntryInv, MayEnter
  <1>4. QED
    BY <1>2, <1>3 DEF EntryInv, AtMostOneEntryOrder

\* The winner of a claim is the first to work on the event past its claim.
LEMMA ClaimEntryInv ==
  ASSUME TInv, EntryInv, NEW i \in Instance, pc[i] \in Working, ClaimEvent(i), opens' = opens,
         \A j \in Instance \ {i} : pc'[j] = pc[j] /\ job'[j] = job[j],
         Owns(i)' => Cur(i)' = Cur(i)
  PROVE  EntryInv'
  <1>1. /\ Cur(i) \in EventId /\ owner[Cur(i)] = NoOne /\ owner'[Cur(i)] = i
        /\ \A e \in EventId \ {Cur(i)} : owner'[e] = owner[e]
    BY WorkingEvent DEF ClaimEvent, TInv, TypeOK
  <1>2. opens[Cur(i)] = 0
    BY <1>1 DEF EntryInv
  <1>3. ASSUME NEW j \in Instance \ {i}
        PROVE  (Owns(j)' <=> Owns(j)) /\ (MayEnter(j)' <=> MayEnter(j)) /\ Cur(j)' = Cur(j)
    BY <1>3 DEF Owns, MayEnter, Entering, Cur
  <1>4. ASSUME NEW j \in Instance \ {i}, Owns(j)
        PROVE  Cur(j) \in EventId \ {Cur(i)}
    BY <1>1, <1>4, WorkingEvent, OwnersWork, NoOneAssumption DEF EntryInv
  <1>5. ASSUME NEW j \in Instance, Owns(j)' PROVE owner'[Cur(j)'] = j
    BY <1>1, <1>3, <1>4, <1>5 DEF EntryInv
  <1>6. ASSUME NEW j \in Instance, MayEnter(j)' PROVE opens'[Cur(j)'] = 0
    <2>1. CASE j = i
      BY <1>2, <1>6, <2>1 DEF MayEnter
    <2>2. CASE j # i
      BY <1>3, <1>6, <2>2 DEF EntryInv
    <2>3. QED
      BY <2>1, <2>2
  <1>7. ASSUME NEW e \in EventId, owner'[e] = NoOne PROVE opens'[e] = 0
    BY <1>1, <1>7, NoOneAssumption DEF EntryInv
  <1>8. QED
    BY <1>5, <1>6, <1>7 DEF EntryInv, AtMostOneEntryOrder

\* The owner signs its one entry, and is past it.
LEMMA SignEntryInv ==
  ASSUME TInv, EntryInv, NEW i \in Instance, SignEntry(i), owner' = owner,
         \A j \in Instance \ {i} : pc'[j] = pc[j] /\ job'[j] = job[j],
         Owns(i)' => Cur(i)' = Cur(i),
         ~ MayEnter(i)'
  PROVE  EntryInv'
  <1>1. Owns(i) /\ MayEnter(i) /\ pc[i] \in Working
    BY DEF SignEntry, Owns, MayEnter, Sending, Working
  <1>2. Cur(i) \in EventId /\ opens[Cur(i)] = 0 /\ owner[Cur(i)] = i
    BY <1>1, WorkingEvent DEF EntryInv
  <1>3. opens'[Cur(i)] = 1 /\ \A e \in EventId \ {Cur(i)} : opens'[e] = opens[e]
    <2>1. opens \in [EventId -> Nat] /\ opens' = [opens EXCEPT ![Cur(i)] = opens[Cur(i)] + 1]
      BY DEF SignEntry, TInv, TypeOK
    <2>2. QED
      BY <1>2, <2>1
  <1>4. ASSUME NEW j \in Instance \ {i}
        PROVE  (Owns(j)' <=> Owns(j)) /\ (MayEnter(j)' <=> MayEnter(j)) /\ Cur(j)' = Cur(j)
    BY <1>4 DEF Owns, MayEnter, Entering, Cur
  <1>5. ASSUME NEW j \in Instance \ {i}, Owns(j)
        PROVE  Cur(j) \in EventId \ {Cur(i)}
    BY <1>2, <1>5, WorkingEvent, OwnersWork DEF EntryInv
  <1>6. ASSUME NEW j \in Instance, Owns(j)' PROVE owner'[Cur(j)'] = j
    BY <1>1, <1>2, <1>4, <1>6 DEF EntryInv
  <1>7. ASSUME NEW j \in Instance, MayEnter(j)' PROVE opens'[Cur(j)'] = 0
    BY <1>3, <1>4, <1>5, <1>7 DEF EntryInv, MayEnter
  <1>8. ASSUME NEW e \in EventId, owner'[e] = NoOne PROVE opens'[e] = 0
    BY <1>2, <1>3, <1>8, NoOneAssumption DEF EntryInv
  <1>9. AtMostOneEntryOrder'
    BY <1>3 DEF EntryInv, AtMostOneEntryOrder
  <1>10. QED
    BY <1>6, <1>7, <1>8, <1>9 DEF EntryInv

\* An instance that goes back to the drain, or to no cycle, owns nothing.
LEMMA AtRestOwnsNothing ==
  ASSUME NEW i \in Instance, pc'[i] \notin Working
  PROVE  ~ Owns(i)' /\ ~ MayEnter(i)'
  BY DEF Owns, MayEnter, Working

LEMMA CycleEntryInv ==
  ASSUME TInv, EntryInv, NEW i \in Instance, Cycle(i)
  PROVE  EntryInv'
  <1>1. UNCHANGED <<owner, opens>>
    BY DEF Cycle, ReadState, Reconcile, CycleGate, FetchBacklog, Take, EndCycle, shared, history
  <1>2. CASE Take(i)
    <2>1. PICK e \in backlog[i] :
            job' = [job EXCEPT ![i] = [NoJob EXCEPT !.event = e, !.leg = FirstLeg(log[e].kind)]]
      BY <1>2 DEF Take
    <2>2. e \in Ids /\ log[e] \in Event
      BY DEF TInv, TypeOK, Ids
    <2>3. job'[i].leg # "flip_open" /\ \A j \in Instance \ {i} : job'[j] = job[j]
      BY <2>1, <2>2 DEF TInv, TypeOK, FirstLeg, Event, Kind, NoJob
    <2>4. pc'[i] = "judge" /\ \A j \in Instance \ {i} : pc'[j] = pc[j]
      BY <1>2, GotoMoves DEF TInv, Take, Place, Working, Unclaimed
    <2>5. ~ Owns(i)'
      BY <2>3, <2>4 DEF Owns, Sending
    <2>6. QED
      BY <1>1, <2>3, <2>4, <2>5, KeepsEntryInv DEF MayEnter
  <1>3. CASE ~ Take(i)
    <2>1. /\ pc'[i] \notin Working
          /\ \A j \in Instance \ {i} : pc'[j] = pc[j] /\ job'[j] = job[j]
      BY <1>3, Places, GotoMoves, ForgetMoves
         DEF TInv, Cycle, ReadState, Reconcile, CycleGate, FetchBacklog, EndCycle
    <2>2. QED
      BY <1>1, <2>1, AtRestOwnsNothing, KeepsEntryInv
  <1>4. QED
    BY <1>2, <1>3
\* What a step to the next leg leaves the instance owning.
LEMMA NextLegOwns ==
  ASSUME TInv, NEW i \in Instance, pc[i] \in Working, NextLeg(i)
  PROVE  Owns(i)' => Cur(i)' = Cur(i) /\ job[i].leg = "flip_close"
  <1>1. CASE pc'[i] = "drain"
    BY <1>1, Places, AtRestOwnsNothing
  <1>2. CASE job[i].leg = "flip_close" /\ job'[i] = [NoJob EXCEPT !.event = Cur(i), !.leg = "flip_open"]
    BY <1>2 DEF Cur, NoJob
  <1>3. QED
    BY <1>1, <1>2, NextLegMoves DEF TInv

LEMMA HandleEntryInv ==
  ASSUME TInv, EntryInv, NEW i \in Instance, Handle(i)
  PROVE  EntryInv'
  <1>1. pc[i] \in Working
    BY DEF Handle, JudgeEntry, Defer, JudgeExit, SkipEvent, ClaimAndAttempt, LegGate,
           Working, Unclaimed, Sending
  <1>2. opens' = opens
    BY DEF Handle, JudgeEntry, Defer, JudgeExit, SkipEvent, ClaimAndAttempt, LegGate, history
  <1>3. CASE JudgeEntry(i) \/ JudgeExit(i)
    <2>1. pc[i] = "judge" /\ pc'[i] \in Unclaimed /\ \A j \in Instance \ {i} : pc'[j] = pc[j]
      BY <1>3, GotoMoves, WorkPlaces DEF TInv, JudgeEntry, JudgeExit, Working, Unclaimed
    <2>2. /\ job'[i].event = job[i].event /\ job'[i].leg = job[i].leg
          /\ \A j \in Instance \ {i} : job'[j] = job[j]
      <3>1. CASE job' = job
        BY <3>1
      <3>2. ASSUME NEW n \in Nat, job' = [job EXCEPT ![i].seen = episode, ![i].target = n]
            PROVE  /\ job'[i].event = job[i].event /\ job'[i].leg = job[i].leg
                   /\ \A j \in Instance \ {i} : job'[j] = job[j]
        BY <3>2 DEF TInv, TypeOK, Job
      <3>3. QED
        BY <1>3, <3>1, <3>2 DEF JudgeEntry, JudgeExit
    <2>3. owner' = owner
      BY <1>3 DEF JudgeEntry, JudgeExit, shared
    <2>4. (Owns(i)' <=> Owns(i)) /\ Cur(i)' = Cur(i) /\ (MayEnter(i)' <=> MayEnter(i))
      <3>1. pc[i] # "settle" /\ pc'[i] # "settle" /\ pc[i] \notin Sending /\ pc'[i] \notin Sending
            /\ pc[i] \in Unclaimed
        BY <2>1 DEF Unclaimed, Sending
      <3>2. QED
        BY <2>1, <2>2, <3>1 DEF Owns, MayEnter, Cur, Entering
    <2>5. QED
      BY <1>2, <2>1, <2>2, <2>3, <2>4, KeepsEntryInv
  <1>4. CASE Defer(i)
    BY <1>2, <1>4, LeaveMoves, Places, AtRestOwnsNothing, KeepsEntryInv DEF TInv, Defer, shared
  <1>5. CASE SkipEvent(i)
    <2>1. CASE ClaimEvent(i) /\ NextLeg(i)
      BY <1>1, <1>2, <2>1, NextLegMoves, NextLegOwns, ClaimEntryInv DEF TInv
    <2>2. CASE Leave(i) /\ owner' = owner
      BY <1>2, <2>2, LeaveMoves, Places, AtRestOwnsNothing, KeepsEntryInv DEF TInv
    <2>3. QED
      BY <1>5, <2>1, <2>2 DEF SkipEvent, LoseClaim
  <1>6. CASE ClaimAndAttempt(i)
    <2>1. pc[i] = "claim"
      BY <1>6 DEF ClaimAndAttempt
    <2>2. CASE Leave(i) /\ owner' = owner
      BY <1>2, <2>2, LeaveMoves, Places, AtRestOwnsNothing, KeepsEntryInv DEF TInv
    <2>3. CASE Goto(i, "legGate") /\ job' = job
      <3>1. pc'[i] = "legGate" /\ \A j \in Instance \ {i} : pc'[j] = pc[j]
        BY <2>3, GotoMoves, WorkPlaces DEF TInv, Working, Sending
      <3>2. CASE ClaimEvent(i)
        BY <1>1, <1>2, <2>3, <3>1, <3>2, ClaimEntryInv DEF Cur
      <3>3. CASE job[i].leg = "flip_open" /\ owner' = owner
        <4>1. MayEnter(i) /\ Cur(i)' = Cur(i)
          BY <2>1, <2>3, <3>3, Legs DEF Owns, MayEnter, Entering, Unclaimed, Cur
        <4>2. QED
          BY <1>2, <2>3, <3>1, <3>3, <4>1, KeepsEntryInv DEF MayEnter
      <3>4. QED
        BY <1>6, <2>1, <2>3, <3>1, <3>2, <3>3, LeaveMoves DEF ClaimAndAttempt, LoseClaim, TInv
    <2>4. QED
      BY <1>6, <2>2, <2>3 DEF ClaimAndAttempt, LoseClaim
  <1>7. CASE LegGate(i)
    <2>1. owner' = owner /\ pc[i] = "legGate"
      BY <1>7 DEF LegGate
    <2>2. CASE Leave(i)
      BY <1>2, <2>1, <2>2, LeaveMoves, Places, AtRestOwnsNothing, KeepsEntryInv DEF TInv
    <2>3. CASE (Goto(i, "leverage") \/ Goto(i, "wire")) /\ job' = job
      <3>1. pc'[i] \in {"leverage", "wire"} /\ \A j \in Instance \ {i} : pc'[j] = pc[j]
        BY <2>3, GotoMoves, WorkPlaces DEF TInv, Working, Sending
      <3>2. Owns(i) /\ Cur(i)' = Cur(i) /\ (MayEnter(i)' => MayEnter(i))
        BY <2>1, <2>3 DEF Owns, MayEnter, Sending, Cur, Entering
      <3>3. QED
        BY <1>2, <2>1, <2>3, <3>1, <3>2, KeepsEntryInv
    <2>4. QED
      BY <1>7, <2>2, <2>3 DEF LegGate
  <1>8. QED
    BY <1>3, <1>4, <1>5, <1>6, <1>7 DEF Handle

\* On the wire an instance owns its event, and whatever leg it stays on it had.
LEMMA StaysOwner ==
  ASSUME EntryInv, NEW i \in Instance, pc[i] \in Sending, UNCHANGED <<owner, opens>>,
         \A j \in Instance \ {i} : pc'[j] = pc[j] /\ job'[j] = job[j],
         job'[i].event = job[i].event, job'[i].leg = job[i].leg,
         Entering(i) => pc[i] # "settle"
  PROVE  EntryInv'
  <1>1. Owns(i) /\ Cur(i)' = Cur(i) /\ (MayEnter(i)' => MayEnter(i))
    BY DEF Owns, MayEnter, Entering, Cur
  <1>2. QED
    BY <1>1, KeepsEntryInv

LEMMA WireEntryInv ==
  ASSUME TInv, EntryInv, NEW i \in Instance, Wire(i)
  PROVE  EntryInv'
  <1>1. pc[i] \in Sending /\ pc[i] \in Working
    BY DEF Wire, SetLeverage, ReGate, EntryFills, EntryRefused, EntryReplyLost, SignEntry, SettleEntry,
           ReduceAnswered, ReduceRaises, SignReduce, ReduceUnpriceable, RetryGate, SettleExit,
           Sending, Working
  <1>2. owner' = owner
    BY DEF Wire, SetLeverage, ReGate, EntryFills, EntryRefused, EntryReplyLost, SettleEntry,
           ReduceAnswered, ReduceRaises, ReduceUnpriceable, RetryGate, SettleExit, shared
  <1>3. CASE SignEntry(i)
    <2>1. CASE Leave(i)
      BY <1>2, <1>3, <2>1, LeaveMoves, Places, AtRestOwnsNothing, SignEntryInv DEF TInv
    <2>2. ASSUME NEW n \in 1 .. Lot, job' = [job EXCEPT ![i].filled = n], Goto(i, "settle")
          PROVE  EntryInv'
      <3>1. pc'[i] = "settle" /\ \A j \in Instance \ {i} : pc'[j] = pc[j]
        BY <2>2, GotoMoves, WorkPlaces DEF TInv, Working, Sending
      <3>2. /\ job'[i].event = job[i].event /\ job'[i].leg = job[i].leg
            /\ \A j \in Instance \ {i} : job'[j] = job[j]
        BY <2>2 DEF TInv, TypeOK, Job
      <3>3. Cur(i)' = Cur(i) /\ ~ MayEnter(i)'
        BY <1>3, <3>1, <3>2 DEF Cur, MayEnter, SignEntry, Entering, EntryLeg, OpenLeg
      <3>4. QED
        BY <1>2, <1>3, <3>1, <3>2, <3>3, SignEntryInv
    <2>3. QED
      BY <1>3, <2>1, <2>2, Legs
         DEF Wire, SetLeverage, ReGate, EntryFills, EntryRefused, EntryReplyLost, SignEntry,
             SettleEntry, ReduceAnswered, ReduceRaises, SignReduce, ReduceUnpriceable, RetryGate,
             SettleExit, Entering, Exiting
  <1>4. CASE SetLeverage(i) \/ ReGate(i)
    <2>1. opens' = opens /\ pc[i] # "settle"
      BY <1>4 DEF SetLeverage, ReGate, history
    <2>2. CASE Leave(i)
      BY <1>2, <2>1, <2>2, LeaveMoves, Places, AtRestOwnsNothing, KeepsEntryInv DEF TInv
    <2>3. CASE (Goto(i, "reGate") \/ Goto(i, "wire")) /\ job' = job
      <3>1. \A j \in Instance \ {i} : pc'[j] = pc[j]
        BY <2>3, GotoMoves, WorkPlaces DEF TInv, Working, Sending
      <3>2. QED
        BY <1>1, <1>2, <2>1, <2>3, <3>1, StaysOwner
    <2>4. QED
      BY <1>4, <2>2, <2>3 DEF SetLeverage, ReGate
  <1>5. CASE SettleEntry(i)
    BY <1>2, <1>5, LeaveMoves, Places, AtRestOwnsNothing, KeepsEntryInv DEF TInv, SettleEntry, history
  <1>6. CASE ReduceAnswered(i)
    <2>1. PICK n \in 0 .. MaxSize : job' = [job EXCEPT ![i].filled = @ + n, ![i].tries = @ + 1]
      BY <1>6 DEF ReduceAnswered
    <2>2. /\ job'[i].event = job[i].event /\ job'[i].leg = job[i].leg
          /\ \A j \in Instance \ {i} : job'[j] = job[j]
      BY <2>1 DEF TInv, TypeOK, Job
    <2>3. \A j \in Instance \ {i} : pc'[j] = pc[j]
      BY <1>6, GotoMoves, WorkPlaces DEF TInv, ReduceAnswered, Working, Sending
    <2>4. opens' = opens /\ pc[i] = "wire"
      BY <1>6 DEF ReduceAnswered, SignReduce
    <2>5. QED
      BY <1>1, <1>2, <2>2, <2>3, <2>4, StaysOwner
  <1>7. CASE ReduceRaises(i)
    BY <1>2, <1>7, LeaveMoves, Places, AtRestOwnsNothing, KeepsEntryInv DEF TInv, ReduceRaises
  <1>8. CASE ReduceUnpriceable(i) \/ RetryGate(i)
    <2>1. opens' = opens /\ job' = job /\ pc[i] # "settle"
      BY <1>8 DEF ReduceUnpriceable, RetryGate, history
    <2>2. \A j \in Instance \ {i} : pc'[j] = pc[j]
      BY <1>8, GotoMoves, WorkPlaces DEF TInv, ReduceUnpriceable, RetryGate, Working, Sending
    <2>3. QED
      BY <1>1, <1>2, <2>1, <2>2, StaysOwner
  <1>9. CASE SettleExit(i)
    <2>1. NextLeg(i) /\ opens' = opens
      BY <1>9 DEF SettleExit, history
    <2>2. Owns(i)' => Owns(i) /\ Cur(i)' = Cur(i) /\ MayEnter(i)
      BY <1>1, <2>1, NextLegOwns DEF Owns, MayEnter
    <2>3. QED
      BY <1>2, <2>1, <2>2, NextLegMoves, KeepsEntryInv DEF TInv, MayEnter
  <1>10. QED
    BY <1>3, <1>4, <1>5, <1>6, <1>7, <1>8, <1>9 DEF Wire, EntryFills, EntryRefused, EntryReplyLost

LEMMA NextEntryInv == TInv /\ EntryInv /\ [Next]_vars => EntryInv'
  <1> SUFFICES ASSUME TInv, EntryInv, [Next]_vars PROVE EntryInv'
    OBVIOUS
  <1>1. ASSUME NEW i \in Instance, Step(i) PROVE EntryInv'
    BY <1>1, CycleEntryInv, HandleEntryInv, WireEntryInv DEF Step
  <1>2. ASSUME NEW i \in Instance, Crash(i) PROVE EntryInv'
    BY <1>2, ForgetMoves, Places, AtRestOwnsNothing, KeepsEntryInv DEF TInv, Crash, shared
  <1>3. CASE Environment \/ UNCHANGED vars
    <2>1. UNCHANGED <<owner, opens, pc, job>>
      BY <1>3 DEF Environment, LeaderMoves, Publish, EventAges, Halt, Resume, SetHalted,
                  PositionMoves, vars, shared, local, history
    <2>2. QED
      BY <2>1 DEF EntryInv, Owns, MayEnter, Entering, Cur, AtMostOneEntryOrder
  <1>4. QED
    BY <1>1, <1>2, <1>3 DEF Next

THEOREM EntryInvHolds == Spec => []EntryInv
  BY InitEntry, NextEntryInv, TypedInv, PTL DEF Spec

\* An event is entered at most once, whatever crashes, however many instances
\* race for it, and though a flip sends two orders under one claim.
THEOREM AtMostOneEntryOrderHolds == Spec => []AtMostOneEntryOrder
  <1>1. EntryInv => AtMostOneEntryOrder
    BY DEF EntryInv
  <1>2. QED
    BY <1>1, EntryInvHolds, PTL
-----------------------------------------------------------------------------
(* The halt. *)

\* An instance that has used its one signature of a halt has left the places a
\* signature is made from, and every way back to them is a gate.
HaltInv ==
  \A i \in Instance :
    signed[i] # 0 => signed[i] = 1 /\ halted /\ pc[i] \notin {"leverage", "wire"}

LEMMA InitHalt == Init => HaltInv
  BY DEF Init, HaltInv

\* A step that signs nothing, and enters no signing place past a halt.
LEMMA KeepsHaltInv ==
  ASSUME HaltInv, NEW i \in Instance, signed' = signed, halted' = halted,
         \A j \in Instance \ {i} : pc'[j] = pc[j],
         pc'[i] \in {"leverage", "wire"} => ~ halted
  PROVE  HaltInv'
  <1>1. ASSUME NEW j \in Instance, signed'[j] # 0
        PROVE  signed'[j] = 1 /\ halted' /\ pc'[j] \notin {"leverage", "wire"}
    <2>1. signed[j] = 1 /\ halted /\ pc[j] \notin {"leverage", "wire"}
      BY <1>1 DEF HaltInv
    <2>2. CASE j = i
      BY <2>1, <2>2
    <2>3. CASE j # i
      BY <2>1, <2>3
    <2>4. QED
      BY <2>2, <2>3
  <1>2. QED
    BY <1>1 DEF HaltInv

\* A signature is made from a signing place, and the step leaves it.
LEMMA SignHaltInv ==
  ASSUME TInv, HaltInv, NEW i \in Instance, Sign(i), pc[i] \in {"leverage", "wire"}, halted' = halted,
         \A j \in Instance \ {i} : pc'[j] = pc[j],
         pc'[i] \notin {"leverage", "wire"}
  PROVE  HaltInv'
  <1>1. signed[i] = 0
    BY DEF HaltInv
  <1>2. CASE halted
    <2>1. signed \in [Instance -> Nat] /\ signed' = [signed EXCEPT ![i] = signed[i] + 1]
      BY <1>2 DEF Sign, TInv, TypeOK
    <2>2. signed'[i] = 1 /\ \A j \in Instance \ {i} : signed'[j] = signed[j]
      BY <1>1, <2>1
    <2>3. ASSUME NEW j \in Instance, signed'[j] # 0
          PROVE  signed'[j] = 1 /\ halted' /\ pc'[j] \notin {"leverage", "wire"}
      <3>1. CASE j = i
        BY <1>2, <2>2, <3>1
      <3>2. CASE j # i
        BY <2>2, <2>3, <3>2 DEF HaltInv
      <3>3. QED
        BY <3>1, <3>2
    <2>4. QED
      BY <2>3 DEF HaltInv
  <1>3. CASE ~ halted
    BY <1>3, KeepsHaltInv DEF Sign
  <1>4. QED
    BY <1>2, <1>3

LEMMA NotSigning ==
  /\ \A l \in {"idle", "reconcile", "cycleGate", "fetch", "drain", "judge", "skip", "claim",
               "legGate", "reGate", "retry", "settle"} :
       l \in Place /\ l \notin {"leverage", "wire"}
  /\ "leverage" \in Place /\ "wire" \in Place
  BY DEF Place, Working, Unclaimed, Sending

LEMMA StepHaltInv ==
  ASSUME TInv, HaltInv, NEW i \in Instance, Step(i) \/ Crash(i)
  PROVE  HaltInv'
  <1> USE DEF TInv
  <1>1. halted' = halted
    BY DEF Step, Cycle, Handle, Wire, Crash, ReadState, Reconcile, CycleGate, FetchBacklog, Take, EndCycle,
           JudgeEntry, Defer, JudgeExit, SkipEvent, ClaimAndAttempt, LegGate,
           SetLeverage, ReGate, EntryFills, EntryRefused, EntryReplyLost, SettleEntry,
           ReduceAnswered, ReduceRaises, ReduceUnpriceable, RetryGate, SettleExit, shared
  <1>2. CASE Cycle(i) \/ Crash(i)
    <2>1. signed' = signed
      BY <1>2 DEF Cycle, Crash, ReadState, Reconcile, CycleGate, FetchBacklog, Take, EndCycle, history
    <2>2. pc'[i] \notin {"leverage", "wire"} /\ \A j \in Instance \ {i} : pc'[j] = pc[j]
      BY <1>2, NotSigning, GotoMoves, ForgetMoves
         DEF Cycle, Crash, ReadState, Reconcile, CycleGate, FetchBacklog, Take, EndCycle
    <2>3. QED
      BY <1>1, <2>1, <2>2, KeepsHaltInv
  <1>3. CASE Handle(i)
    <2>1. signed' = signed
      BY <1>3 DEF Handle, JudgeEntry, Defer, JudgeExit, SkipEvent, ClaimAndAttempt, LegGate, history
    <2>2. CASE LegGate(i) /\ ~ halted
      <3>1. Goto(i, "leverage") \/ Goto(i, "wire")
        BY <2>2 DEF LegGate
      <3>2. \A j \in Instance \ {i} : pc'[j] = pc[j]
        BY <3>1, NotSigning, GotoMoves
      <3>3. QED
        BY <1>1, <2>1, <2>2, <3>2, KeepsHaltInv
    <2>3. CASE LegGate(i) /\ halted
      <3>1. Leave(i)
        BY <2>3 DEF LegGate
      <3>2. QED
        BY <1>1, <2>1, <3>1, NotSigning, LeaveMoves, KeepsHaltInv
    <2>4. CASE ~ LegGate(i)
      <3>1. \/ Leave(i) \/ NextLeg(i)
            \/ \E l \in {"skip", "claim", "legGate"} : Goto(i, l)
        BY <1>3, <2>4 DEF Handle, JudgeEntry, Defer, JudgeExit, SkipEvent, ClaimAndAttempt, LoseClaim
      <3>2. pc'[i] \in {"drain", "judge", "skip", "claim", "legGate"} /\ \A j \in Instance \ {i} : pc'[j] = pc[j]
        <4>1. CASE Leave(i)
          BY <4>1, LeaveMoves
        <4>2. CASE NextLeg(i)
          BY <4>2, NextLegMoves
        <4>3. CASE \E l \in {"skip", "claim", "legGate"} : Goto(i, l)
          BY <4>3, NotSigning, GotoMoves
        <4>4. QED
          BY <3>1, <4>1, <4>2, <4>3
      <3>3. QED
        BY <1>1, <2>1, <3>2, KeepsHaltInv
    <2>5. QED
      BY <2>2, <2>3, <2>4
  <1>4. CASE Wire(i)
    <2>1. CASE SetLeverage(i) \/ SignEntry(i) \/ SignReduce(i)
      <3>1. Sign(i) /\ pc[i] \in {"leverage", "wire"}
        BY <2>1 DEF SetLeverage, SignEntry, SignReduce
      <3>2. Leave(i) \/ \E l \in {"reGate", "settle", "retry"} : Goto(i, l)
        BY <1>4, <2>1, Legs
           DEF Wire, SetLeverage, ReGate, EntryFills, EntryRefused, EntryReplyLost, SignEntry,
               SettleEntry, ReduceAnswered, ReduceRaises, SignReduce, ReduceUnpriceable, RetryGate,
               SettleExit
      <3>3. pc'[i] \notin {"leverage", "wire"} /\ \A j \in Instance \ {i} : pc'[j] = pc[j]
        BY <3>2, NotSigning, GotoMoves, LeaveMoves
      <3>4. QED
        BY <1>1, <3>1, <3>3, SignHaltInv
    <2>2. CASE ReGate(i) \/ RetryGate(i)
      <3>1. signed' = signed
        BY <2>2 DEF ReGate, RetryGate, history
      <3>2. Leave(i) \/ Goto(i, "settle") \/ (~ halted /\ Goto(i, "wire"))
        BY <2>2 DEF ReGate, RetryGate
      <3>3. /\ pc'[i] \in {"leverage", "wire"} => ~ halted
            /\ \A j \in Instance \ {i} : pc'[j] = pc[j]
        BY <3>2, NotSigning, GotoMoves, LeaveMoves
      <3>4. QED
        BY <1>1, <3>1, <3>3, KeepsHaltInv
    <2>3. CASE SettleEntry(i) \/ SettleExit(i) \/ ReduceUnpriceable(i)
      <3>1. signed' = signed
        BY <2>3 DEF SettleEntry, SettleExit, ReduceUnpriceable, history
      <3>2. Leave(i) \/ NextLeg(i) \/ Goto(i, "settle")
        BY <2>3 DEF SettleEntry, SettleExit, ReduceUnpriceable
      <3>3. pc'[i] \notin {"leverage", "wire"} /\ \A j \in Instance \ {i} : pc'[j] = pc[j]
        <4>1. CASE Leave(i)
          BY <4>1, NotSigning, LeaveMoves
        <4>2. CASE NextLeg(i)
          BY <4>2, NotSigning, NextLegMoves
        <4>3. CASE Goto(i, "settle")
          <5>1. "settle" \in Place
            BY NotSigning
          <5>2. pc'[i] = "settle" /\ \A j \in Instance \ {i} : pc'[j] = pc[j]
            BY <4>3, <5>1, GotoMoves
          <5> QED  BY <5>2
        <4> QED  BY <3>2, <4>1, <4>2, <4>3
      <3>4. QED
        BY <1>1, <3>1, <3>3, KeepsHaltInv
    <2>4. QED
      BY <1>4, <2>1, <2>2, <2>3 DEF Wire, EntryFills, EntryRefused, EntryReplyLost,
                                    ReduceAnswered, ReduceRaises
  <1>5. QED
    BY <1>2, <1>3, <1>4 DEF Step

LEMMA NextHaltInv == TInv /\ HaltInv /\ [Next]_vars => HaltInv'
  <1> SUFFICES ASSUME TInv, HaltInv, [Next]_vars PROVE HaltInv'
    OBVIOUS
  <1>1. ASSUME NEW i \in Instance, Step(i) \/ Crash(i) PROVE HaltInv'
    BY <1>1, StepHaltInv
  <1>2. CASE Halt \/ Resume
    BY <1>2 DEF Halt, Resume, SetHalted, HaltInv
  <1>3. CASE LeaderMoves \/ EventAges \/ PositionMoves \/ UNCHANGED vars
    <2>1. UNCHANGED <<signed, halted, pc>>
      BY <1>3 DEF LeaderMoves, Publish, EventAges, PositionMoves, vars, shared, local, history
    <2>2. QED
      BY <2>1 DEF HaltInv
  <1>4. QED
    BY <1>1, <1>2, <1>3 DEF Next, Environment

\* From the moment a halt is requested until it is lifted an instance signs at
\* most once more: the gates bound what is in flight, crash or no crash.
THEOREM OneSignatureOutlivesHaltHolds == Spec => []OneSignatureOutlivesHalt
  <1>1. TInv /\ HaltInv => OneSignatureOutlivesHalt
    <2>1. ASSUME TInv, HaltInv, NEW i \in Instance PROVE signed[i] <= 1
      <3>1. signed[i] \in Nat /\ (signed[i] = 0 \/ signed[i] = 1)
        BY <2>1 DEF HaltInv, TInv, TypeOK
      <3>2. QED
        BY <3>1
    <2>2. QED
      BY <2>1 DEF OneSignatureOutlivesHalt
  <1>2. QED
    BY <1>1, InitHalt, NextHaltInv, TypedInv, PTL DEF Spec
-----------------------------------------------------------------------------
(* The promise. *)

\* A won claim takes the event off the backlog, for good.
LEMMA ClaimTakes ==
  ASSUME TInv, NEW i \in Instance, pc[i] \in Working, ClaimEvent(i), opens' = opens
  PROVE  Promise!Take(Cur(i)) /\ Cur(i) \in EventId
  <1>1. /\ Cur(i) \in EventId /\ owner[Cur(i)] = NoOne /\ owner'[Cur(i)] = i
        /\ \A e \in EventId \ {Cur(i)} : owner'[e] = owner[e]
    BY WorkingEvent DEF ClaimEvent, TInv, TypeOK
  <1>2. Cur(i) \notin Claimed /\ Claimed' = Claimed \cup {Cur(i)}
    BY <1>1, NoOneAssumption DEF Claimed
  <1>3. QED
    BY <1>1, <1>2 DEF Promise!Take

\* The entry order is signed after the claim, and for the first time.
LEMMA SignEnters ==
  ASSUME TInv, EntryInv, NEW i \in Instance, SignEntry(i), owner' = owner
  PROVE  Promise!Enter(Cur(i)) /\ Cur(i) \in EventId
  <1>1. Owns(i) /\ MayEnter(i) /\ pc[i] \in Working
    BY DEF SignEntry, Owns, MayEnter, Sending, Working
  <1>2. Cur(i) \in EventId /\ opens[Cur(i)] = 0 /\ owner[Cur(i)] = i
    BY <1>1, WorkingEvent DEF EntryInv
  <1>3. Cur(i) \in Claimed /\ Claimed' = Claimed
    BY <1>2, NoOneAssumption DEF Claimed
  <1>4. opens' = [opens EXCEPT ![Cur(i)] = 1]
    BY <1>2 DEF SignEntry
  <1>5. QED
    BY <1>2, <1>3, <1>4 DEF Promise!Enter

LEMMA StepKeepsPromise ==
  TInv /\ EntryInv /\ [Next]_vars => [Promise!Next]_(Promise!vars)
  <1> SUFFICES ASSUME TInv, EntryInv, [Next]_vars
               PROVE  Promise!Next \/ UNCHANGED <<owner, opens>>
    BY DEF Promise!vars, Claimed
  <1>1. ASSUME NEW i \in Instance, Cycle(i) \/ Crash(i) PROVE UNCHANGED <<owner, opens>>
    BY <1>1 DEF Cycle, Crash, ReadState, Reconcile, CycleGate, FetchBacklog, Take, EndCycle, shared, history
  <1>2. ASSUME NEW i \in Instance, Handle(i) PROVE Promise!Next \/ UNCHANGED <<owner, opens>>
    <2>1. opens' = opens /\ pc[i] \in Working
      BY <1>2 DEF Handle, JudgeEntry, Defer, JudgeExit, SkipEvent, ClaimAndAttempt, LegGate, history,
                  Working, Unclaimed, Sending
    <2>2. ClaimEvent(i) \/ owner' = owner
      BY <1>2 DEF Handle, JudgeEntry, Defer, JudgeExit, SkipEvent, ClaimAndAttempt, LegGate, LoseClaim, shared
    <2>3. QED
      BY <2>1, <2>2, ClaimTakes DEF Promise!Next
  <1>3. ASSUME NEW i \in Instance, Wire(i) PROVE Promise!Next \/ UNCHANGED <<owner, opens>>
    <2>1. owner' = owner
      BY <1>3 DEF Wire, SetLeverage, ReGate, EntryFills, EntryRefused, EntryReplyLost, SettleEntry,
             ReduceAnswered, ReduceRaises, ReduceUnpriceable, RetryGate, SettleExit, shared
    <2>2. SignEntry(i) \/ opens' = opens
      BY <1>3 DEF Wire, SetLeverage, ReGate, EntryFills, EntryRefused, EntryReplyLost, SettleEntry,
             ReduceAnswered, ReduceRaises, ReduceUnpriceable, RetryGate, SettleExit, history
    <2>3. QED
      BY <2>1, <2>2, SignEnters DEF Promise!Next
  <1>4. CASE Environment \/ UNCHANGED vars
    BY <1>4 DEF Environment, LeaderMoves, Publish, EventAges, Halt, Resume, SetHalted,
                PositionMoves, vars, shared, history
  <1>5. QED
    BY <1>1, <1>2, <1>3, <1>4 DEF Next, Step

\* The executor, instances and all, implements CopyPromise: what it claims it
\* never hands back, and no entry order goes out before its claim or twice.
THEOREM PromiseKeptHolds == Spec => PromiseKept
  <1>1. Init => Promise!Init
    BY DEF Init, Promise!Init, Claimed
  <1>2. QED
    BY <1>1, StepKeepsPromise, TypedInv, EntryInvHolds, PTL DEF Spec, PromiseKept, Promise!Spec
-----------------------------------------------------------------------------
(* The order of the events. *)

\* What the instance has yet to come to, and what it is at.
Ahead(i) == backlog[i] \cup (IF pc[i] \in Working THEN {Cur(i)} ELSE {})

\* A cycle's backlog has no gap: an event older than one still ahead is ahead
\* too, or claimed; and the event in hand is the oldest ahead.
OrderInv ==
  /\ \A i \in Instance : \A e \in Ids, f \in Ahead(i) : e < f => e \in Claimed \cup Ahead(i)
  /\ \A i \in Instance : pc[i] \in Working => \A f \in backlog[i] : Cur(i) < f
  /\ HandledInOrder

LEMMA InitOrder == Init => OrderInv
  BY DEF Init, OrderInv, Ahead, Working, Unclaimed, Sending, HandledInOrder, Claimed

\* A step of one instance leaves the others' clauses alone: claims only grow.
LEMMA OthersInOrder ==
  ASSUME OrderInv, NEW i \in Instance, log' = log, Claimed \subseteq Claimed',
         \A j \in Instance \ {i} : pc'[j] = pc[j] /\ job'[j] = job[j] /\ backlog'[j] = backlog[j],
         \A e \in Ids, f \in Ahead(i)' : e < f => e \in Claimed' \cup Ahead(i)',
         pc'[i] \in Working => \A f \in backlog'[i] : Cur(i)' < f,
         HandledInOrder'
  PROVE  OrderInv'
  <1>1. Ids' = Ids
    BY DEF Ids
  <1>2. ASSUME NEW j \in Instance \ {i}
        PROVE  Ahead(j)' = Ahead(j) /\ Cur(j)' = Cur(j) /\ pc'[j] = pc[j] /\ backlog'[j] = backlog[j]
    BY <1>2 DEF Ahead, Cur
  <1>3. ASSUME NEW j \in Instance, NEW e \in Ids', NEW f \in Ahead(j)', e < f
        PROVE  e \in Claimed' \cup Ahead(j)'
    <2>1. CASE j = i
      BY <1>1, <1>3, <2>1
    <2>2. CASE j # i
      BY <1>1, <1>2, <1>3, <2>2 DEF OrderInv
    <2>3. QED
      BY <2>1, <2>2
  <1>4. ASSUME NEW j \in Instance, pc'[j] \in Working, NEW f \in backlog'[j]
        PROVE  Cur(j)' < f
    <2>1. CASE j = i
      BY <1>4, <2>1
    <2>2. CASE j # i
      BY <1>2, <1>4, <2>2 DEF OrderInv
    <2>3. QED
      BY <2>1, <2>2
  <1>5. QED
    BY <1>3, <1>4 DEF OrderInv

\* At work, a step keeps the event in hand or lets it go claimed; and the event
\* it claims has nothing older outstanding.
LEMMA WorkInOrder ==
  ASSUME TInv, OrderInv, NEW i \in Instance, pc[i] \in Working, log' = log, backlog' = backlog,
         \A j \in Instance \ {i} : pc'[j] = pc[j] /\ job'[j] = job[j],
         owner' = owner \/ ClaimEvent(i),
         \/ pc'[i] \in Working /\ Cur(i)' = Cur(i)
         \/ pc'[i] \notin Working /\ Cur(i) \in Claimed'
  PROVE  OrderInv'
  <1>1. Cur(i) \in Ids /\ Cur(i) \in EventId /\ Ahead(i) = backlog[i] \cup {Cur(i)}
    BY WorkingEvent DEF Ahead
  <1>2. Claimed' = Claimed \/ Claimed' = Claimed \cup {Cur(i)}
    <2>1. CASE owner' = owner
      BY <2>1 DEF Claimed
    <2>2. CASE ClaimEvent(i)
      <3>1. owner'[Cur(i)] = i /\ \A e \in EventId \ {Cur(i)} : owner'[e] = owner[e]
        BY <1>1, <2>2 DEF ClaimEvent, TInv, TypeOK
      <3>2. QED
        BY <1>1, <3>1, NoOneAssumption DEF Claimed
    <2>3. QED
      BY <2>1, <2>2
  <1>3. ASSUME NEW e \in Ids, e < Cur(i) PROVE e \in Claimed
    <2>1. e \in Claimed \/ e \in backlog[i] \/ e = Cur(i)
      BY <1>1, <1>3 DEF OrderInv
    <2>2. e \in Int /\ Cur(i) \in Int
      BY <1>1 DEF Ids
    <2>3. e \notin backlog[i]
      BY <1>3, <2>2 DEF OrderInv
    <2>4. QED
      BY <1>3, <2>1, <2>2, <2>3
  <1>4. HandledInOrder'
    <2>1. ASSUME NEW e \in EventId, e < Cur(i) PROVE e \in Ids
      BY <1>1, <2>1 DEF Ids, EventId, TInv, TypeOK
    <2>2. QED
      BY <1>2, <1>3, <2>1 DEF OrderInv, HandledInOrder
  <1>5. Ahead(i)' \subseteq Ahead(i) /\ Ahead(i) \subseteq Ahead(i)' \cup Claimed'
    BY <1>1 DEF Ahead
  <1>6. \A e \in Ids, f \in Ahead(i)' : e < f => e \in Claimed' \cup Ahead(i)'
    BY <1>2, <1>5 DEF OrderInv
  <1>7. pc'[i] \in Working => \A f \in backlog'[i] : Cur(i)' < f
    BY DEF OrderInv
  <1>8. QED
    BY <1>2, <1>4, <1>6, <1>7, OthersInOrder

\* A step between events, or back to the start of a cycle.
LEMMA CycleInOrder ==
  ASSUME TInv, OrderInv, NEW i \in Instance, Cycle(i) \/ Crash(i)
  PROVE  OrderInv'
  <1> USE DEF TInv
  <1>1. owner' = owner /\ log' = log
    BY DEF Cycle, Crash, ReadState, Reconcile, CycleGate, FetchBacklog, Take, EndCycle, shared
  <1>2. HandledInOrder' /\ Claimed' = Claimed
    BY <1>1 DEF OrderInv, HandledInOrder, Claimed
  <1>3. CASE Forget(i)
    <2>1. pc'[i] \notin Working /\ backlog'[i] = {}
      BY <1>3, ForgetMoves, Places
    <2>2. Ahead(i)' = {}
      BY <2>1 DEF Ahead
    <2>3. QED
      BY <1>1, <1>2, <1>3, <2>1, <2>2, ForgetMoves, OthersInOrder
  <1>4. ASSUME NEW l \in {"reconcile", "cycleGate", "fetch"}, Goto(i, l), UNCHANGED <<backlog, job>>,
               pc[i] \notin Working
        PROVE  OrderInv'
    <2>1. pc'[i] \notin Working /\ \A j \in Instance \ {i} : pc'[j] = pc[j]
      BY <1>4, GotoMoves, Places
    <2>2. Ahead(i)' = Ahead(i)
      BY <1>4, <2>1 DEF Ahead
    <2>3. \A e \in Ids, f \in Ahead(i)' : e < f => e \in Claimed' \cup Ahead(i)'
      BY <1>2, <2>2 DEF OrderInv
    <2>4. QED
      BY <1>1, <1>2, <1>4, <2>1, <2>3, OthersInOrder
  <1>5. CASE FetchBacklog(i)
    <2>1. pc'[i] = "drain" /\ pc'[i] \notin Working /\ \A j \in Instance \ {i} : pc'[j] = pc[j]
      BY <1>5, GotoMoves, Places DEF FetchBacklog
    <2>2. backlog'[i] = Ids \ Claimed /\ \A j \in Instance \ {i} : backlog'[j] = backlog[j]
      BY <1>5 DEF FetchBacklog, TypeOK, Outstanding
    <2>3. Ahead(i)' = Ids \ Claimed
      BY <2>1, <2>2 DEF Ahead
    <2>4. job' = job
      BY <1>5 DEF FetchBacklog
    <2>5. QED
      BY <1>1, <1>2, <2>1, <2>2, <2>3, <2>4, OthersInOrder
  <1>6. CASE Take(i)
    <2>1. PICK e \in backlog[i] :
            /\ \A f \in backlog[i] : e <= f
            /\ job' = [job EXCEPT ![i] = [NoJob EXCEPT !.event = e, !.leg = FirstLeg(log[e].kind)]]
            /\ backlog' = [backlog EXCEPT ![i] = @ \ {e}]
      BY <1>6 DEF Take
    <2>2. /\ pc[i] = "drain" /\ pc[i] \notin Working
          /\ pc'[i] \in Working /\ \A j \in Instance \ {i} : pc'[j] = pc[j]
      BY <1>6, GotoMoves, Places, WorkPlaces DEF Take, Working, Unclaimed
    <2>3. backlog'[i] = backlog[i] \ {e} /\ \A j \in Instance \ {i} : backlog'[j] = backlog[j]
      BY <2>1 DEF TypeOK
    <2>4. Cur(i)' = e /\ \A j \in Instance \ {i} : job'[j] = job[j]
      BY <2>1 DEF TypeOK, Cur, NoJob
    <2>5. Ahead(i)' = Ahead(i)
      BY <2>2, <2>3, <2>4 DEF Ahead
    <2>6. \A f \in backlog'[i] : Cur(i)' < f
      <3>1. \A f \in backlog[i] : f \in Int
        BY DEF TypeOK, Ids
      <3>2. QED
        BY <2>1, <2>3, <2>4, <3>1
    <2>7. \A d \in Ids, f \in Ahead(i)' : d < f => d \in Claimed' \cup Ahead(i)'
      BY <1>2, <2>5 DEF OrderInv
    <2>8. QED
      BY <1>1, <1>2, <2>2, <2>3, <2>4, <2>6, <2>7, OthersInOrder
  <1>7. CASE ReadState(i) \/ Reconcile(i) \/ CycleGate(i)
    <2>1. pc[i] \notin Working
      BY <1>7, Places DEF ReadState, Reconcile, CycleGate
    <2>2. QED
      BY <1>3, <1>4, <1>7, <2>1 DEF ReadState, Reconcile, CycleGate
  <1>8. QED
    BY <1>3, <1>5, <1>6, <1>7 DEF Cycle, Crash, EndCycle

\* With the Leader's equity and the market readable nothing is deferred, so an
\* instance lets go only of events that are claimed.
LEMMA HandleInOrder ==
  ASSUME "unreadable" \notin Faults, TInv, EntryInv, OrderInv, NEW i \in Instance, Handle(i)
  PROVE  OrderInv'
  <1> USE DEF TInv
  <1>1. pc[i] \in Working /\ log' = log /\ backlog' = backlog
    BY DEF Handle, JudgeEntry, Defer, JudgeExit, SkipEvent, ClaimAndAttempt, LegGate,
           Working, Unclaimed, Sending, shared
  <1>2. owner' = owner \/ ClaimEvent(i)
    BY DEF Handle, JudgeEntry, Defer, JudgeExit, SkipEvent, ClaimAndAttempt, LegGate, LoseClaim, shared
  <1>3. Cur(i) \in EventId
    BY <1>1, WorkingEvent
  <1>4. Owns(i) => Cur(i) \in Claimed
    BY <1>3, NoOneAssumption DEF EntryInv, Claimed
  <1>5. CASE Leave(i) \/ NextLeg(i)
    <2>1. Cur(i) \in Claimed'
      <3>1. CASE ClaimEvent(i)
        <4>1. owner'[Cur(i)] = i
          BY <1>3, <3>1 DEF ClaimEvent, TypeOK
        <4>2. QED
          BY <1>3, <4>1, NoOneAssumption DEF Claimed
      <3>2. CASE owner' = owner /\ (LoseClaim(i) \/ Owns(i))
        BY <1>3, <1>4, <3>2 DEF LoseClaim, Claimed
      <3>3. SkipEvent(i) \/ ClaimAndAttempt(i) \/ LegGate(i)
        <4>1. pc[i] = "judge" => pc'[i] \notin {"skip", "claim"}
          BY <1>5, LeaveMoves, NextLegMoves
        <4>2. ~ Defer(i)
          BY DEF Defer
        <4>3. JudgeEntry(i) \/ JudgeExit(i) => pc[i] = "judge" /\ pc'[i] \in {"skip", "claim"}
          BY GotoMoves, WorkPlaces DEF JudgeEntry, JudgeExit, Working, Unclaimed
        <4>4. QED
          BY <4>1, <4>2, <4>3 DEF Handle
      <3>4. ClaimEvent(i) \/ (owner' = owner /\ (LoseClaim(i) \/ Owns(i)))
        <4>1. ASSUME SkipEvent(i) PROVE ClaimEvent(i) \/ (owner' = owner /\ (LoseClaim(i) \/ Owns(i)))
          BY <4>1 DEF SkipEvent, LoseClaim, Owns, Unclaimed
        <4>2. ASSUME ClaimAndAttempt(i) PROVE ClaimEvent(i) \/ (owner' = owner /\ (LoseClaim(i) \/ Owns(i)))
          BY <4>2 DEF ClaimAndAttempt, LoseClaim, Owns, Unclaimed
        <4>3. ASSUME LegGate(i) PROVE owner' = owner /\ Owns(i)
          BY <4>3 DEF LegGate, Owns, Sending
        <4>4. QED
          BY <3>3, <4>1, <4>2, <4>3
      <3>5. QED
        BY <3>1, <3>2, <3>4
    <2>2. /\ \A j \in Instance \ {i} : pc'[j] = pc[j] /\ job'[j] = job[j]
          /\ (pc'[i] \in Working /\ Cur(i)' = Cur(i)) \/ pc'[i] \notin Working
      <3>1. CASE Leave(i)
        BY <3>1, LeaveMoves, Places
      <3>2. CASE NextLeg(i)
        <4>1. job'[i] = [NoJob EXCEPT !.event = Cur(i), !.leg = "flip_open"] => Cur(i)' = Cur(i)
          BY DEF Cur, NoJob
        <4>2. QED
          BY <3>2, <4>1, NextLegMoves, Places DEF Working, Unclaimed
      <3>3. QED
        BY <1>5, <3>1, <3>2
    <2>3. QED
      BY <1>1, <1>2, <2>1, <2>2, WorkInOrder
  <1>6. ASSUME NEW l \in {"skip", "claim", "legGate", "leverage", "wire"}, Goto(i, l),
               job'[i].event = job[i].event, \A j \in Instance \ {i} : job'[j] = job[j]
        PROVE  OrderInv'
    <2>1. pc'[i] \in Working /\ \A j \in Instance \ {i} : pc'[j] = pc[j]
      BY <1>6, GotoMoves, WorkPlaces DEF Working, Unclaimed, Sending
    <2>2. Cur(i)' = Cur(i)
      BY <1>6 DEF Cur
    <2>3. QED
      BY <1>1, <1>2, <1>6, <2>1, <2>2, WorkInOrder
  <1>7. ASSUME NEW n \in Nat, job' = [job EXCEPT ![i].seen = episode, ![i].target = n]
        PROVE  job'[i].event = job[i].event /\ \A j \in Instance \ {i} : job'[j] = job[j]
    BY <1>7 DEF TypeOK, Job
  <1>8. ASSUME JudgeExit(i) PROVE OrderInv'
    <2>1. job' = job \/ \E n \in Nat : job' = [job EXCEPT ![i].seen = episode, ![i].target = n]
      BY <1>8 DEF JudgeExit
    <2>2. job'[i].event = job[i].event /\ \A j \in Instance \ {i} : job'[j] = job[j]
      BY <1>7, <2>1
    <2>3. Goto(i, "skip") \/ Goto(i, "claim")
      BY <1>8 DEF JudgeExit
    <2>4. QED
      BY <1>6, <2>2, <2>3
  <1>9. QED
    BY <1>5, <1>6, <1>8 DEF Handle, JudgeEntry, Defer, SkipEvent, ClaimAndAttempt, LegGate, LoseClaim

LEMMA WireInOrder ==
  ASSUME TInv, EntryInv, OrderInv, NEW i \in Instance, Wire(i)
  PROVE  OrderInv'
  <1> USE DEF TInv
  <1>1. pc[i] \in Sending /\ pc[i] \in Working
    BY DEF Wire, SetLeverage, ReGate, EntryFills, EntryRefused, EntryReplyLost, SignEntry, SettleEntry,
           ReduceAnswered, ReduceRaises, SignReduce, ReduceUnpriceable, RetryGate, SettleExit,
           Sending, Working
  <1>2. UNCHANGED <<owner, log, backlog>>
    BY DEF Wire, SetLeverage, ReGate, EntryFills, EntryRefused, EntryReplyLost, SettleEntry,
           ReduceAnswered, ReduceRaises, ReduceUnpriceable, RetryGate, SettleExit, shared
  <1>3. Cur(i) \in Claimed'
    <2>1. Cur(i) \in EventId /\ owner[Cur(i)] = i
      BY <1>1, WorkingEvent DEF EntryInv, Owns
    <2>2. QED
      BY <1>2, <2>1, NoOneAssumption DEF Claimed
  <1>4. CASE Leave(i)
    BY <1>1, <1>2, <1>3, <1>4, LeaveMoves, Places, WorkInOrder
  <1>5. CASE NextLeg(i)
    <2>1. job'[i] = [NoJob EXCEPT !.event = Cur(i), !.leg = "flip_open"] => Cur(i)' = Cur(i)
      BY DEF Cur, NoJob
    <2>2. (pc'[i] \in Working /\ Cur(i)' = Cur(i)) \/ pc'[i] \notin Working
      BY <1>5, <2>1, NextLegMoves, Places DEF Working, Unclaimed
    <2>3. QED
      BY <1>1, <1>2, <1>3, <1>5, <2>2, NextLegMoves, WorkInOrder
  <1>6. ASSUME NEW l \in {"reGate", "wire", "settle", "retry"}, Goto(i, l),
               job'[i].event = job[i].event, \A j \in Instance \ {i} : job'[j] = job[j]
        PROVE  OrderInv'
    <2>1. pc'[i] \in Working /\ Cur(i)' = Cur(i) /\ \A j \in Instance \ {i} : pc'[j] = pc[j]
      BY <1>6, GotoMoves, WorkPlaces DEF Working, Sending, Cur
    <2>2. QED
      BY <1>1, <1>2, <1>6, <2>1, WorkInOrder
  <1>7. ASSUME EntryFills(i) PROVE OrderInv'
    <2>1. PICK n \in 1 .. Lot : job' = [job EXCEPT ![i].filled = n]
      BY <1>7 DEF EntryFills
    <2>2. job'[i].event = job[i].event /\ \A j \in Instance \ {i} : job'[j] = job[j]
      BY <2>1 DEF TypeOK, Job
    <2>3. QED
      BY <1>6, <1>7, <2>2 DEF EntryFills
  <1>8. ASSUME ReduceAnswered(i) PROVE OrderInv'
    <2>1. PICK n \in 0 .. MaxSize : job' = [job EXCEPT ![i].filled = @ + n, ![i].tries = @ + 1]
      BY <1>8 DEF ReduceAnswered
    <2>2. job'[i].event = job[i].event /\ \A j \in Instance \ {i} : job'[j] = job[j]
      BY <2>1 DEF TypeOK, Job
    <2>3. Goto(i, "settle") \/ Goto(i, "retry")
      BY <1>8 DEF ReduceAnswered
    <2>4. QED
      BY <1>6, <2>2, <2>3
  <1>9. ASSUME ReGate(i) \/ ReduceUnpriceable(i) \/ RetryGate(i) \/ SetLeverage(i) PROVE OrderInv'
    <2>1. \/ Leave(i)
          \/ job' = job /\ \E l \in {"reGate", "wire", "settle", "retry"} : Goto(i, l)
      BY <1>9 DEF ReGate, ReduceUnpriceable, RetryGate, SetLeverage
    <2>2. QED
      BY <1>4, <1>6, <2>1
  <1>10. QED
    BY <1>4, <1>5, <1>7, <1>8, <1>9
       DEF Wire, EntryRefused, EntryReplyLost, SettleEntry, ReduceRaises, SettleExit

LEMMA EnvironmentInOrder ==
  ASSUME TInv, OrderInv, Environment \/ UNCHANGED vars
  PROVE  OrderInv'
  <1>1. UNCHANGED <<owner, pc, backlog, job>>
    BY DEF Environment, LeaderMoves, Publish, EventAges, Halt, Resume, SetHalted,
           PositionMoves, vars, shared, local
  <1>2. Claimed' = Claimed /\ \A i \in Instance : Ahead(i)' = Ahead(i) /\ Cur(i)' = Cur(i)
    BY <1>1 DEF Claimed, Ahead, Cur
  <1>3. \A i \in Instance : Ahead(i) \subseteq Ids
    BY WorkingEvent DEF Ahead, TInv, TypeOK
  <1>4. Ids' = Ids \/ Ids' = Ids \cup {Len(log) + 1}
    <2>1. CASE log' = log
      BY <2>1 DEF Ids
    <2>2. ASSUME NEW ev, log' = Append(log, ev) PROVE Ids' = Ids \cup {Len(log) + 1}
      <3>1. Len(log') = Len(log) + 1 /\ Len(log) \in Nat
        BY <2>2 DEF TInv, TypeOK
      <3>2. QED
        BY <3>1 DEF Ids
    <2>3. QED
      BY <2>1, <2>2 DEF Environment, LeaderMoves, Publish, EventAges, Halt, Resume, SetHalted,
                        PositionMoves, vars, shared
  <1>5. ASSUME NEW i \in Instance, NEW e \in Ids', NEW f \in Ahead(i), e < f PROVE e \in Ids
    <2>1. Len(log) \in Nat
      BY DEF TInv, TypeOK
    <2>2. QED
      BY <1>3, <1>4, <1>5, <2>1 DEF Ids
  <1>6. QED
    BY <1>1, <1>2, <1>5 DEF OrderInv, HandledInOrder

LEMMA NextOrder ==
  ASSUME "unreadable" \notin Faults
  PROVE  TInv /\ EntryInv /\ OrderInv /\ [Next]_vars => OrderInv'
  BY CycleInOrder, HandleInOrder, WireInOrder, EnvironmentInOrder DEF Next, Step

\* While nothing is deferred, no event is claimed over an older outstanding one,
\* however many instances drain the backlog: the Ordering of ADR-0006.
THEOREM HandledInOrderHolds ==
  ASSUME "unreadable" \notin Faults
  PROVE  Spec => []HandledInOrder
  <1>1. OrderInv => HandledInOrder
    BY DEF OrderInv
  <1>2. TInv /\ EntryInv /\ OrderInv /\ [Next]_vars => OrderInv'
    BY NextOrder
  <1>3. QED
    BY <1>1, <1>2, InitOrder, TypedInv, EntryInvHolds, PTL DEF Spec

-----------------------------------------------------------------------------
(* The two legs of a flip. *)

\* An executor's step leaves the others where they are.
LEMMA OthersStand ==
  ASSUME TInv, NEW i \in Instance, Step(i) \/ Crash(i), NEW j \in Instance \ {i}
  PROVE  pc'[j] = pc[j] /\ job'[j] = job[j] /\ view'[j] = view[j]
  <1> USE DEF TInv, TypeOK
  <1>1. CASE Cycle(i) \/ Crash(i)
    BY <1>1 DEF Cycle, Crash, ReadState, Reconcile, CycleGate, FetchBacklog, Take, EndCycle, Forget, Goto
  <1>2. CASE Handle(i)
    BY <1>2 DEF Handle, JudgeEntry, Defer, JudgeExit, SkipEvent, ClaimAndAttempt, LegGate, LoseClaim,
                NextLeg, Leave, Goto
  <1>3. CASE Wire(i)
    BY <1>3 DEF Wire, SetLeverage, ReGate, EntryFills, EntryRefused, EntryReplyLost, SettleEntry,
                ReduceAnswered, ReduceRaises, ReduceUnpriceable, RetryGate, SettleExit, NextLeg,
                Leave, Goto
  <1>4. QED
    BY <1>1, <1>2, <1>3 DEF Step

\* The steps that report how an exit ended.
LEMMA ReportingSteps ==
  ASSUME NEW i \in Instance, Step(i) \/ Crash(i), exitTrail' # exitTrail
  PROVE  \/ SkipEvent(i) /\ ClaimEvent(i) /\ Report(i, "skipped")
         \/ LegGate(i) /\ Report(i, "halted")
         \/ ReduceRaises(i) /\ Report(i, "failed")
         \/ SettleExit(i) /\ Report(i, IF Unfilled(i) THEN "unfilled" ELSE "done")
  <1>1. ~ Cycle(i) /\ ~ Crash(i)
    BY DEF Cycle, Crash, ReadState, Reconcile, CycleGate, FetchBacklog, Take, EndCycle, shared
  <1>2. CASE Handle(i)
    <2>1. SkipEvent(i) \/ LegGate(i)
      BY <1>2 DEF Handle, JudgeEntry, Defer, JudgeExit, ClaimAndAttempt, shared
    <2>2. SkipEvent(i) => ClaimEvent(i) /\ Report(i, "skipped")
      BY DEF SkipEvent
    <2>3. LegGate(i) => Report(i, "halted")
      BY DEF LegGate
    <2>4. QED
      BY <2>1, <2>2, <2>3
  <1>3. CASE Wire(i)
    BY <1>3 DEF Wire, SetLeverage, ReGate, EntryFills, EntryRefused, EntryReplyLost, SettleEntry,
                ReduceAnswered, ReduceRaises, ReduceUnpriceable, RetryGate, SettleExit, shared
  <1>4. QED
    BY <1>1, <1>2, <1>3 DEF Step

\* How an exit ended is reported by the instance at it, which owns the event or
\* is about to.
LEMMA ReportsItsOwn ==
  ASSUME TInv, EntryInv, NEW i \in Instance, Step(i) \/ Crash(i),
         NEW e \in EventId, exitTrail'[e] # exitTrail[e]
  PROVE  /\ e = Cur(i) /\ pc[i] \in Working /\ Exiting(i)
         /\ owner[e] \in {i, NoOne} /\ owner'[e] = i
         /\ log[e].kind = "flip" => opens[e] = 0
  <1> USE DEF TInv
  <1>1. \/ SkipEvent(i) /\ ClaimEvent(i) /\ Report(i, "skipped")
        \/ LegGate(i) /\ Report(i, "halted")
        \/ ReduceRaises(i) /\ Report(i, "failed")
        \/ SettleExit(i) /\ Report(i, IF Unfilled(i) THEN "unfilled" ELSE "done")
    BY ReportingSteps
  <1>2. e = Cur(i) /\ Exiting(i)
    BY <1>1 DEF Report, TypeOK
  <1>3. pc[i] \in {"skip", "legGate", "wire", "settle"}
    BY <1>1 DEF SkipEvent, LegGate, ReduceRaises, SignReduce, SettleExit
  <1>4. pc[i] \in Working /\ job[i].leg \in LegsOf(log[e].kind)
    BY <1>2, <1>3, WorkingEvent DEF Working, Unclaimed, Sending
  <1>5. CASE ClaimEvent(i)
    BY <1>2, <1>4, <1>5 DEF ClaimEvent, EntryInv, TypeOK
  <1>6. CASE owner' = owner /\ Owns(i)
    <2>1. log[e].kind = "flip" => job[i].leg = "flip_close"
      BY <1>2, <1>4 DEF LegsOf, Exiting, ExitLeg, FullExitLeg
    <2>2. QED
      BY <1>2, <1>4, <1>6, <2>1 DEF EntryInv, MayEnter
  <1>7. QED
    BY <1>1, <1>5, <1>6 DEF LegGate, ReduceRaises, SignReduce, SettleExit, Owns, Sending

\* A full exit past its judgement aims at all the working copy holds.  The open
\* leg of a flip is past its judgement only if the close leg completed or found
\* nothing; before it, the rest a close left still shows in the working copy.
FlipOK(i) ==
  /\ pc[i] \in Sending \cup {"claim"} /\ job[i].leg \in FullExitLeg => job[i].target = view[i].size
  /\ pc[i] \in Working /\ job[i].leg = "flip_open" =>
       \/ exitTrail[Cur(i)] \in {"done", "skipped"}
       \/ pc[i] \in {"judge", "skip"} /\ view[i] # Flat

\* Only events of the log are claimed.
FlipInv ==
  /\ Claimed \subseteq Ids
  /\ \A i \in Instance : FlipOK(i)
  /\ FlipOpensOnlyWhenOut

LEMMA InitFlip == Init => FlipInv
  BY DEF Init, FlipInv, FlipOK, FlipOpensOnlyWhenOut, Claimed, Ids, EventId, Working, Unclaimed, Sending

\* What an executor's step has to show of itself.
LEMMA KeepsFlipInv ==
  ASSUME TInv, EntryInv, FlipInv, NEW i \in Instance, Step(i) \/ Crash(i),
         owner' = owner \/ ClaimEvent(i), FlipOK(i)',
         opens' = opens \/ (SignEntry(i) /\ exitTrail' = exitTrail)
  PROVE  FlipInv'
  <1> USE DEF TInv
  <1>0. log' = log
    BY DEF Step, Cycle, Handle, Wire, Crash, ReadState, Reconcile, CycleGate, FetchBacklog, Take,
           EndCycle, JudgeEntry, Defer, JudgeExit, SkipEvent, ClaimAndAttempt, LegGate,
           SetLeverage, ReGate, EntryFills, EntryRefused, EntryReplyLost, SettleEntry,
           ReduceAnswered, ReduceRaises, ReduceUnpriceable, RetryGate, SettleExit, shared
  <1>1. Claimed' \subseteq Ids'
    <2>1. CASE owner' = owner
      BY <1>0, <2>1 DEF FlipInv, Claimed, Ids
    <2>2. CASE ClaimEvent(i) /\ pc[i] \in Working
      <3>1. Cur(i) \in Ids /\ Cur(i) \in EventId
        BY <2>2, WorkingEvent
      <3>2. \A e \in EventId \ {Cur(i)} : owner'[e] = owner[e]
        BY <2>2 DEF ClaimEvent, TypeOK
      <3>3. QED
        BY <1>0, <3>1, <3>2 DEF FlipInv, Claimed, Ids
    <2>3. pc[i] \in Working \/ owner' = owner
      BY DEF Step, Cycle, Handle, Wire, Crash, ReadState, Reconcile, CycleGate, FetchBacklog, Take,
             EndCycle, JudgeEntry, Defer, JudgeExit, SkipEvent, ClaimAndAttempt, LegGate,
             SetLeverage, ReGate, EntryFills, EntryRefused, EntryReplyLost, SettleEntry, SignEntry,
             SignReduce, ReduceAnswered, ReduceRaises, ReduceUnpriceable, RetryGate, SettleExit,
             shared, Working, Unclaimed, Sending
    <2>4. QED
      BY <2>1, <2>2, <2>3
  <1>2. ASSUME NEW j \in Instance \ {i} PROVE FlipOK(j)'
    <2>1. pc'[j] = pc[j] /\ job'[j] = job[j] /\ view'[j] = view[j] /\ Cur(j)' = Cur(j)
      BY OthersStand DEF Cur
    <2>2. ASSUME pc[j] \in Working, job[j].leg = "flip_open" PROVE exitTrail'[Cur(j)] = exitTrail[Cur(j)]
      <3>1. Owns(j)
        BY <2>2 DEF Owns, Working
      <3>2. owner[Cur(j)] = j /\ Cur(j) \in EventId
        BY <2>2, <3>1, WorkingEvent DEF EntryInv
      <3>3. QED
        BY <3>2, ReportsItsOwn, NoOneAssumption
    <2>3. QED
      BY <2>1, <2>2 DEF FlipInv, FlipOK
  <1>3. ASSUME NEW e \in Ids, log[e].kind = "flip", opens'[e] > 0 PROVE exitTrail'[e] \in {"done", "skipped"}
    <2>0. e \in EventId
      BY BoundsAssumption DEF TypeOK, Ids, EventId
    <2>1. CASE opens' = opens
      <3>1. opens[e] # 0
        BY <1>3, <2>1
      <3>2. exitTrail'[e] = exitTrail[e]
        BY <1>3, <2>0, <3>1, ReportsItsOwn
      <3>3. QED
        BY <1>3, <2>1, <3>2 DEF FlipInv, FlipOpensOnlyWhenOut
    <2>2. CASE SignEntry(i) /\ exitTrail' = exitTrail /\ e # Cur(i)
      <3>1. opens'[e] = opens[e]
        BY <2>0, <2>2 DEF SignEntry, TypeOK
      <3>2. QED
        BY <1>3, <2>2, <3>1 DEF FlipInv, FlipOpensOnlyWhenOut
    <2>3. CASE SignEntry(i) /\ exitTrail' = exitTrail /\ e = Cur(i)
      <3>1. pc[i] = "wire" /\ pc[i] \in Working /\ Entering(i)
        BY <2>3 DEF SignEntry, Working, Sending
      <3>2. job[i].leg = "flip_open"
        BY <1>3, <2>3, <3>1, WorkingEvent DEF LegsOf, Entering, EntryLeg, OpenLeg
      <3>3. QED
        BY <2>3, <3>1, <3>2 DEF FlipInv, FlipOK
    <2>4. QED
      BY <2>1, <2>2, <2>3
  <1>4. FlipOpensOnlyWhenOut'
    BY <1>0, <1>3 DEF FlipOpensOnlyWhenOut, Ids
  <1>5. QED
    BY <1>1, <1>2, <1>4 DEF FlipInv

\* An instance that is at no leg, or begins one that is not a flip's open.
LEMMA FlipAtRest ==
  ASSUME NEW i \in Instance, pc'[i] \notin Working PROVE FlipOK(i)'
  BY DEF FlipOK, Working, Unclaimed

LEMMA CycleFlip ==
  ASSUME TInv, EntryInv, FlipInv, NEW i \in Instance, Cycle(i) \/ Crash(i)
  PROVE  FlipInv'
  <1> USE DEF TInv
  <1>1. UNCHANGED <<owner, opens>>
    BY DEF Cycle, Crash, ReadState, Reconcile, CycleGate, FetchBacklog, Take, EndCycle, shared, history
  <1>2. CASE Take(i)
    <2>1. PICK e \in backlog[i] :
            job' = [job EXCEPT ![i] = [NoJob EXCEPT !.event = e, !.leg = FirstLeg(log[e].kind)]]
      BY <1>2 DEF Take
    <2>2. e \in Ids /\ log[e] \in Event
      BY DEF TypeOK, Ids
    <2>3. job'[i].leg # "flip_open"
      BY <2>1, <2>2 DEF TypeOK, FirstLeg, Event, Kind, NoJob
    <2>4. pc'[i] = "judge"
      BY <1>2, GotoMoves DEF Take, Place, Working, Unclaimed
    <2>5. QED
      BY <1>1, <2>3, <2>4, KeepsFlipInv DEF FlipOK, Step, Sending
  <1>3. CASE ~ Take(i)
    <2>1. pc'[i] \notin Working
      BY <1>3, Places, GotoMoves, ForgetMoves
         DEF Cycle, Crash, ReadState, Reconcile, CycleGate, FetchBacklog, EndCycle
    <2>2. QED
      BY <1>1, <2>1, FlipAtRest, KeepsFlipInv DEF Step
  <1>4. QED
    BY <1>2, <1>3

\* A step that stays on the leg past its judgement, or goes on to it unjudged.
LEMMA StaysFlip ==
  ASSUME TInv, FlipInv, NEW i \in Instance, pc[i] \in Sending \cup {"claim"},
         view' = view, exitTrail' = exitTrail, job'[i].event = job[i].event,
         job'[i].leg = job[i].leg, job'[i].target = job[i].target
  PROVE  FlipOK(i)'
  <1>1. Cur(i)' = Cur(i) /\ pc[i] \in Working /\ pc[i] \notin {"judge", "skip"}
    BY DEF Cur, Working, Unclaimed, Sending
  <1>2. QED
    BY <1>1 DEF FlipInv, FlipOK

LEMMA HandleFlip ==
  ASSUME TInv, EntryInv, FlipInv, NEW i \in Instance, Handle(i)
  PROVE  FlipInv'
  <1> USE DEF TInv
  <1>1. /\ opens' = opens /\ (owner' = owner \/ ClaimEvent(i)) /\ view' = view
        /\ pc[i] \in Working
    BY DEF Handle, JudgeEntry, Defer, JudgeExit, SkipEvent, ClaimAndAttempt, LegGate, LoseClaim,
           shared, history, Working, Unclaimed, Sending
  <1>2. CASE Leave(i)
    BY <1>2, LeaveMoves, Places, FlipAtRest, <1>1, KeepsFlipInv DEF Step
  <1>3. ASSUME JudgeEntry(i) PROVE FlipOK(i)'
    <2>1. /\ pc[i] = "judge" /\ Entering(i) /\ UNCHANGED <<job, exitTrail>> /\ Cur(i)' = Cur(i)
          /\ (EntryAllowed(i) /\ Goto(i, "claim")) \/ Goto(i, "skip")
      BY <1>3 DEF JudgeEntry, shared, Cur
    <2>2. job[i].leg \notin FullExitLeg
      BY <2>1 DEF Entering, EntryLeg, OpenLeg, FullExitLeg
    <2>3. (EntryAllowed(i) /\ pc'[i] = "claim") \/ pc'[i] = "skip"
      BY <2>1, GotoMoves, WorkPlaces DEF Working, Unclaimed
    <2>4. EntryAllowed(i) /\ job[i].leg = "flip_open" => view[i] = Flat
      BY DEF EntryAllowed, Occupied
    <2>5. QED
      BY <1>1, <2>1, <2>2, <2>3, <2>4 DEF FlipInv, FlipOK
  <1>4. ASSUME JudgeExit(i) PROVE FlipOK(i)'
    <2>1. job[i].leg \in ExitLeg /\ pc[i] = "judge"
      BY <1>4 DEF JudgeExit, Exiting
    <2>2. CASE Goto(i, "skip") /\ job' = job
      BY <1>1, <2>1, <2>2, GotoMoves, WorkPlaces
         DEF FlipOK, Working, Unclaimed, Sending, ExitLeg, FullExitLeg
    <2>3. ASSUME NEW n \in 1 .. view[i].size, job[i].leg \in FullExitLeg => n = view[i].size,
                 job' = [job EXCEPT ![i].seen = episode, ![i].target = n]
          PROVE  FlipOK(i)'
      <3>1. job'[i].target = n /\ job'[i].leg = job[i].leg
        BY <2>3 DEF TypeOK, Job
      <3>2. QED
        BY <1>1, <2>1, <2>3, <3>1 DEF FlipOK, ExitLeg, FullExitLeg
    <2>4. QED
      BY <1>4, <2>2, <2>3 DEF JudgeExit
  <1>5. ASSUME SkipEvent(i), ClaimEvent(i), Report(i, "skipped"), NextLeg(i) PROVE FlipOK(i)'
    <2>1. CASE pc'[i] = "drain"
      BY <2>1, Places, FlipAtRest
    <2>2. CASE /\ pc'[i] = "judge" /\ job[i].leg = "flip_close"
               /\ job'[i] = [NoJob EXCEPT !.event = Cur(i), !.leg = "flip_open"]
      <3>1. Cur(i)' = Cur(i) /\ Cur(i) \in EventId
        BY <1>1, <2>2, WorkingEvent DEF Cur, NoJob
      <3>2. exitTrail'[Cur(i)] = "skipped"
        BY <1>5, <2>2, <3>1 DEF Report, Exiting, ExitLeg, FullExitLeg, TypeOK
      <3>3. job'[i].leg = "flip_open"
        BY <2>2 DEF NoJob
      <3>4. QED
        BY <2>2, <3>1, <3>2, <3>3 DEF FlipOK, FullExitLeg
    <2>3. QED
      BY <1>5, <2>1, <2>2, NextLegMoves
  <1>6. ASSUME pc[i] \in {"claim", "legGate"}, job' = job, exitTrail' = exitTrail PROVE FlipOK(i)'
    BY <1>1, <1>6, StaysFlip DEF Sending
  <1>7. CASE FlipOK(i)'
    BY <1>1, <1>7, KeepsFlipInv DEF Step
  <1>8. QED
    BY <1>2, <1>3, <1>4, <1>5, <1>6, <1>7
       DEF Handle, Defer, SkipEvent, ClaimAndAttempt, LegGate, LoseClaim, shared

\* What a close leaves of the working copy.
LEMMA RestShows ==
  ASSUME NEW s, NEW n \in Int, n > 0 PROVE ApplyFill(s, n) # Flat
  <1>1. ApplyFill(s, n).size = n /\ Flat.size = 0
    BY DEF ApplyFill, Flat
  <1> QED BY <1>1

LEMMA WireFlip ==
  ASSUME TInv, EntryInv, FlipInv, NEW i \in Instance, Wire(i)
  PROVE  FlipInv'
  <1> USE DEF TInv
  <1>1. owner' = owner /\ pc[i] \in Sending /\ pc[i] \in Working
    BY DEF Wire, SetLeverage, ReGate, EntryFills, EntryRefused, EntryReplyLost, SettleEntry, SignEntry,
           SignReduce, ReduceAnswered, ReduceRaises, ReduceUnpriceable, RetryGate, SettleExit, shared,
           Working, Sending
  <1>2. opens' = opens \/ (SignEntry(i) /\ exitTrail' = exitTrail)
    BY DEF Wire, SetLeverage, ReGate, EntryFills, EntryRefused, EntryReplyLost, SettleEntry,
           ReduceAnswered, ReduceRaises, ReduceUnpriceable, RetryGate, SettleExit, shared, history
  <1>3. SUFFICES FlipOK(i)'
    BY <1>1, <1>2, KeepsFlipInv DEF Step
  <1>4. CASE Leave(i)
    BY <1>4, LeaveMoves, Places, FlipAtRest
  <1>5. CASE job' = job /\ view' = view /\ exitTrail' = exitTrail
    BY <1>1, <1>5, StaysFlip
  <1>6. CASE EntryFills(i)
    <2>1. PICK n \in 1 .. Lot : job' = [job EXCEPT ![i].filled = n]
      BY <1>6 DEF EntryFills
    <2>2. job'[i].event = job[i].event /\ job'[i].leg = job[i].leg /\ job'[i].target = job[i].target
      BY <2>1 DEF TypeOK, Job
    <2>3. QED
      BY <1>1, <1>6, <2>2, StaysFlip DEF EntryFills
  <1>7. CASE ReduceAnswered(i)
    <2>1. PICK n \in 0 .. MaxSize : job' = [job EXCEPT ![i].filled = @ + n, ![i].tries = @ + 1]
      BY <1>7 DEF ReduceAnswered
    <2>2. job'[i].event = job[i].event /\ job'[i].leg = job[i].leg /\ job'[i].target = job[i].target
      BY <2>1 DEF TypeOK, Job
    <2>3. QED
      BY <1>1, <1>7, <2>2, StaysFlip DEF ReduceAnswered
  <1>8. CASE SettleExit(i)
    <2>1. CASE pc'[i] = "drain"
      BY <2>1, Places, FlipAtRest
    <2>2. CASE /\ pc'[i] = "judge" /\ job[i].leg = "flip_close"
               /\ job'[i] = [NoJob EXCEPT !.event = Cur(i), !.leg = "flip_open"]
      <3>1. Cur(i)' = Cur(i) /\ Cur(i) \in EventId /\ job'[i].leg = "flip_open"
        BY <1>1, <2>2, WorkingEvent DEF Cur, NoJob
      <3>2. /\ job[i].target = view[i].size /\ job[i].filled <= job[i].target
            /\ job[i].target \in Nat /\ job[i].filled \in Nat
        <4>1. job[i] \in Job
          BY DEF TypeOK
        <4>2. job[i].filled <= job[i].target
          BY <1>1, <2>2 DEF JobOK, Exiting, ExitLeg, FullExitLeg
        <4>3. job[i].target = view[i].size
          BY <1>1, <2>2 DEF FlipInv, FlipOK, FullExitLeg
        <4> QED BY <4>1, <4>2, <4>3 DEF Job
      <3>3. /\ view'[i] = ApplyFill(job[i].seen.side, view[i].size - job[i].filled)
            /\ exitTrail'[Cur(i)] = IF Unfilled(i) THEN "unfilled" ELSE "done"
        BY <1>8, <2>2, <3>1 DEF SettleExit, Report, Exiting, ExitLeg, FullExitLeg, TypeOK
      <3>4. Unfilled(i) => view'[i] # Flat
        BY <3>2, <3>3, RestShows DEF Unfilled
      <3>5. exitTrail'[Cur(i)] = "done" \/ view'[i] # Flat
        BY <3>3, <3>4
      <3>6. QED
        BY <2>2, <3>1, <3>5 DEF FlipOK, FullExitLeg
    <2>3. QED
      BY <1>8, <2>1, <2>2, NextLegMoves DEF SettleExit
  <1>9. QED
    BY <1>4, <1>5, <1>6, <1>7, <1>8
       DEF Wire, SetLeverage, ReGate, EntryRefused, EntryReplyLost, SettleEntry,
           ReduceRaises, ReduceUnpriceable, RetryGate, shared

\* The log grows at its end, over an event nobody has claimed.
LEMMA EnvironmentFlip ==
  ASSUME TInv, EntryInv, FlipInv, Environment \/ UNCHANGED vars
  PROVE  FlipInv'
  <1>1. UNCHANGED <<owner, exitTrail, pc, job, view, opens>>
    BY DEF Environment, LeaderMoves, Publish, EventAges, Halt, Resume, SetHalted,
           PositionMoves, vars, shared, local, history
  <1>2. /\ Ids \subseteq Ids'
        /\ \A e \in Ids : log'[e] = log[e]
    <2>1. CASE log' = log
      BY <2>1 DEF Ids
    <2>2. ASSUME NEW ev, log' = Append(log, ev)
          PROVE  Ids \subseteq Ids' /\ \A e \in Ids : log'[e] = log[e]
      BY <2>2 DEF Ids, TInv, TypeOK
    <2>3. QED
      BY <2>1, <2>2 DEF Environment, LeaderMoves, Publish, EventAges, Halt, Resume, SetHalted,
                        PositionMoves, vars, shared
  <1>3. Claimed' = Claimed /\ \A i \in Instance : FlipOK(i) => FlipOK(i)'
    BY <1>1 DEF Claimed, FlipOK, Cur
  <1>4. ASSUME NEW e \in Ids' \ Ids PROVE opens'[e] = 0
    <2>1. e \in EventId
      <3>1. Len(log') <= MaxEvents /\ Len(log') \in Nat
        BY NextTInv DEF Next, TInv, TypeOK
      <3> QED BY <3>1, BoundsAssumption DEF Ids, EventId
    <2>2. e \notin Claimed
      BY DEF FlipInv
    <2> QED BY <1>1, <2>1, <2>2 DEF Claimed, EntryInv
  <1>5. FlipOpensOnlyWhenOut'
    BY <1>1, <1>2, <1>4 DEF FlipInv, FlipOpensOnlyWhenOut
  <1>6. QED
    BY <1>2, <1>3, <1>5 DEF FlipInv

LEMMA NextFlip == TInv /\ EntryInv /\ FlipInv /\ [Next]_vars => FlipInv'
  BY CycleFlip, HandleFlip, WireFlip, EnvironmentFlip DEF Next, Step

THEOREM FlipInvHolds == Spec => []FlipInv
  BY InitFlip, NextFlip, TypedInv, EntryInvHolds, PTL DEF Spec

\* A flip opens the other side only over an exit that completed or found nothing
\* to close, however many instances and whatever crashes: the working copy the
\* close leg leaves is what the open leg is judged by.
THEOREM FlipOpensOnlyWhenOutHolds == Spec => []FlipOpensOnlyWhenOut
  <1>1. FlipInv => FlipOpensOnlyWhenOut
    BY DEF FlipInv
  <1>2. QED
    BY <1>1, FlipInvHolds, PTL

-----------------------------------------------------------------------------
(* An executor by itself. *)

\* Only the executor writes the books, so an exit settles on the row it saw.
SeenStands(i) ==
  pc[i] \in Sending \cup {"claim"} /\ Exiting(i) => episode = job[i].seen

LEMMA SeenStandsStep ==
  ASSUME NEW i, Instance = {i}, TInv, SeenStands(i), [Next]_vars PROVE SeenStands(i)'
  <1> USE DEF TInv, TypeOK
  <1>1. CASE Cycle(i) \/ Crash(i)
    <2>1. CASE Take(i)
      <3>1. pc'[i] = "judge"
        BY <2>1 DEF Take, Goto
      <3> QED BY <3>1 DEF SeenStands, Sending
    <2>2. CASE ~ Take(i)
      <3>1. pc'[i] \in {"idle", "reconcile", "cycleGate", "fetch", "drain"}
        BY <1>1, <2>2, GotoMoves, ForgetMoves, Places
           DEF Cycle, Crash, ReadState, Reconcile, CycleGate, FetchBacklog, EndCycle
      <3> QED BY <3>1 DEF SeenStands, Sending
    <2> QED BY <2>1, <2>2
  <1>2. CASE Leave(i) \/ NextLeg(i)
    <2>1. pc'[i] \notin Sending \cup {"claim"}
      BY <1>2, LeaveMoves, NextLegMoves DEF Sending
    <2> QED BY <2>1 DEF SeenStands
  <1>3. ASSUME pc[i] \in Sending \cup {"claim"}, episode' = episode, job'[i].leg = job[i].leg,
               job'[i].seen = job[i].seen
        PROVE  SeenStands(i)'
    BY <1>3 DEF SeenStands, Exiting
  <1>4. CASE Handle(i)
    <2>1. CASE JudgeEntry(i)
      BY <2>1, Legs DEF JudgeEntry, SeenStands, Exiting, Entering
    <2>2. CASE JudgeExit(i)
      <3>1. CASE Goto(i, "skip")
        <4>1. pc'[i] = "skip"
          BY <3>1, GotoMoves, WorkPlaces DEF Working, Unclaimed
        <4> QED BY <4>1 DEF SeenStands, Sending
      <3>2. ASSUME NEW n \in 1 .. view[i].size,
                   job' = [job EXCEPT ![i].seen = episode, ![i].target = n]
            PROVE  SeenStands(i)'
        <4>1. job'[i].seen = episode
          BY <3>2 DEF Job
        <4> QED BY <2>2, <4>1 DEF JudgeExit, SeenStands, shared
      <3> QED BY <2>2, <3>1, <3>2 DEF JudgeExit
    <2>3. CASE ClaimAndAttempt(i) \/ LegGate(i)
      BY <1>2, <1>3, <2>3 DEF ClaimAndAttempt, LegGate, LoseClaim, Sending
    <2> QED BY <1>2, <1>4, <2>1, <2>2, <2>3 DEF Handle, Defer, SkipEvent, LoseClaim
  <1>5. CASE Wire(i)
    <2>1. pc[i] \in Sending
      BY <1>5 DEF Wire, SetLeverage, ReGate, EntryFills, EntryRefused, EntryReplyLost, SettleEntry,
                  SignEntry, SignReduce, ReduceAnswered, ReduceRaises, ReduceUnpriceable, RetryGate,
                  SettleExit, Sending
    <2>2. CASE EntryFills(i)
      <3>1. PICK n \in 1 .. Lot : job' = [job EXCEPT ![i].filled = n]
        BY <2>2 DEF EntryFills
      <3>2. job'[i].leg = job[i].leg /\ job'[i].seen = job[i].seen
        BY <3>1 DEF Job
      <3> QED BY <1>3, <2>1, <2>2, <3>2 DEF EntryFills
    <2>3. CASE ReduceAnswered(i)
      <3>1. PICK n \in 0 .. MaxSize : job' = [job EXCEPT ![i].filled = @ + n, ![i].tries = @ + 1]
        BY <2>3 DEF ReduceAnswered
      <3>2. job'[i].leg = job[i].leg /\ job'[i].seen = job[i].seen
        BY <3>1 DEF Job
      <3> QED BY <1>3, <2>1, <2>3, <3>2 DEF ReduceAnswered
    <2>4. CASE job' = job /\ episode' = episode
      BY <1>3, <2>1, <2>4
    <2> QED BY <1>2, <1>5, <2>2, <2>3, <2>4
            DEF Wire, SetLeverage, ReGate, EntryRefused, EntryReplyLost, SettleEntry,
                ReduceRaises, ReduceUnpriceable, RetryGate, SettleExit, shared
  <1>6. CASE Environment \/ UNCHANGED vars
    BY <1>6 DEF Environment, LeaderMoves, Publish, EventAges, Halt, Resume, SetHalted,
                PositionMoves, vars, shared, local, SeenStands, Exiting
  <1>7. QED
    BY <1>1, <1>4, <1>5, <1>6 DEF Next, Step

\* An executor by itself that reports a full exit as done leaves no live episode
\* (executor.py _settle_exit): no retry, crash or manual trade puts another row
\* where it saw one.
THEOREM DoneExitEndsEpisodeHolds ==
  ASSUME NEW i, Instance = {i}
  PROVE  Spec => DoneExitEndsEpisode
  <1>1. Init => SeenStands(i)
    BY DEF Init, SeenStands, Sending
  <1>2. TInv /\ SeenStands(i) /\ [Next]_vars => SeenStands(i)'
    BY SeenStandsStep
  <1>3. TInv /\ EntryInv /\ SeenStands(i) /\ [Next]_vars =>
          [\A e \in Ids :
             log[e].kind \in {"close", "flip"} /\ exitTrail[e] # "done" /\ exitTrail'[e] = "done"
               => episode' = NoEpisode]_vars
    <2> SUFFICES ASSUME TInv, EntryInv, SeenStands(i), Next,
                        NEW e \in Ids, log[e].kind \in {"close", "flip"},
                        exitTrail[e] # "done", exitTrail'[e] = "done"
                 PROVE  episode' = NoEpisode
      OBVIOUS
    <2>1. e \in EventId
      BY BoundsAssumption DEF TInv, TypeOK, Ids, EventId
    <2>2. Step(i) \/ Crash(i)
      BY DEF Next, Environment, LeaderMoves, Publish, EventAges, Halt, Resume, SetHalted,
             PositionMoves
    <2>3. e = Cur(i) /\ pc[i] \in Working /\ Exiting(i)
      BY <2>1, <2>2, ReportsItsOwn
    <2>4. job[i].leg \in FullExitLeg
      BY <2>3, WorkingEvent DEF LegsOf, Exiting, ExitLeg, FullExitLeg, TInv
    <2>5. SettleExit(i)
      <3>1. \/ Report(i, "skipped") \/ Report(i, "halted") \/ Report(i, "failed")
            \/ SettleExit(i)
        BY <2>2, ReportingSteps
      <3> QED BY <2>1, <2>3, <3>1 DEF Report, TInv, TypeOK
    <2>6. ~ Unfilled(i)
      <3>1. Report(i, IF Unfilled(i) THEN "unfilled" ELSE "done")
        BY <2>5 DEF SettleExit
      <3> QED BY <2>1, <2>3, <3>1 DEF Report, TInv, TypeOK
    <2>7. episode = job[i].seen
      BY <2>3, <2>5 DEF SeenStands, SettleExit, Sending
    <2> QED BY <2>4, <2>5, <2>6, <2>7 DEF SettleExit, ExitBooks
  <1>4. QED
    BY <1>1, <1>2, <1>3, TypedInv, EntryInvHolds, PTL DEF Spec, DoneExitEndsEpisode

\* The fills of our own that the working copy accounts for: what it shows, less
\* what an exit under way has taken, plus what an entry not yet booked has got.
Accounted(i) ==
  IF pc[i] \in Sending /\ Exiting(i) THEN view[i].size - job[i].filled
  ELSE IF pc[i] = "settle" /\ Entering(i) THEN view[i].size + job[i].filled
  ELSE view[i].size

\* NeverDoubles speaks of the moment of an order, and the working copy was read
\* long before: from the read on it accounts for every fill of ours.
FillsInv(i) ==
  /\ copied <= position.size
  /\ pc[i] # "idle" => copied <= Accounted(i)
  /\ pc[i] \in Sending \cup {"claim"} /\ Exiting(i) => job[i].target <= view[i].size
  /\ pc[i] \in Sending \cup {"claim"} /\ job[i].leg \in OpenLeg => view[i] = Flat

LEMMA SizesAreNat == \A p \in Position : p.size \in Nat
  BY DEF Position, Flat

\* The numbers a step of the executor works with.
LEMMA Amounts ==
  ASSUME TInv, NEW i \in Instance
  PROVE  /\ position.size \in Nat /\ view[i].size \in Nat /\ copied \in Nat
         /\ job[i].filled \in Nat /\ job[i].target \in Nat /\ Flat.size = 0
  BY SizesAreNat DEF TInv, TypeOK, Job, Flat

\* A step that moves no position and no working copy, and leaves the wire or
\* stays on its leg there.
LEMMA QuietFills ==
  ASSUME TInv, NEW i \in Instance, FillsInv(i), UNCHANGED <<position, copied, view>>, pc[i] # "idle",
         pc[i] # "settle",
         \/ pc'[i] \notin Sending \cup {"claim"}
         \/ /\ pc[i] \in Sending \cup {"claim"} /\ pc'[i] \in Sending /\ job'[i] = job[i]
  PROVE  FillsInv(i)'
  <1>1. Accounted(i) <= view[i].size /\ Accounted(i) \in Int
    BY Amounts DEF Accounted
  <1>2. CASE pc'[i] \notin Sending \cup {"claim"}
    <2>1. Accounted(i)' = view[i].size
      BY <1>2 DEF Accounted, Sending
    <2> QED BY <1>1, <1>2, <2>1, Amounts DEF FillsInv
  <1>3. CASE pc[i] \in Sending \cup {"claim"} /\ pc'[i] \in Sending /\ job'[i] = job[i]
    <2>1. pc[i] = "claim" => job[i].filled = 0
      BY DEF TInv, JobOK, Unclaimed
    <2>2. Entering(i)' = Entering(i) /\ Exiting(i)' = Exiting(i)
      BY <1>3 DEF Entering, Exiting
    <2>3. Accounted(i) <= Accounted(i)'
      BY <1>3, <2>1, <2>2, Amounts DEF Accounted, Sending
    <2>4. Accounted(i)' \in Int
      BY <1>3, <2>2, Amounts DEF Accounted
    <2> QED BY <1>1, <1>3, <2>2, <2>3, <2>4, Amounts DEF FillsInv
  <1>4. QED
    BY <1>2, <1>3

LEMMA CycleFills ==
  ASSUME TInv, NEW i \in Instance, FillsInv(i), Cycle(i) \/ Crash(i) PROVE FillsInv(i)'
  <1> USE DEF TInv, TypeOK
  <1>1. UNCHANGED <<position, copied>>
    BY DEF Cycle, Crash, ReadState, Reconcile, CycleGate, FetchBacklog, Take, EndCycle, shared, history
  <1>2. CASE pc'[i] = "idle"
    BY <1>1, <1>2 DEF FillsInv, Sending
  <1>3. CASE ReadState(i)
    <2>1. view'[i] = position /\ pc'[i] = "reconcile"
      BY <1>3 DEF ReadState, Goto
    <2>2. Accounted(i)' = position.size
      BY <2>1 DEF Accounted, Sending
    <2> QED BY <1>1, <2>1, <2>2 DEF FillsInv, Sending
  <1>4. CASE /\ Reconcile(i) \/ CycleGate(i) \/ FetchBacklog(i) \/ Take(i)
             /\ pc'[i] # "idle"
    <2>1. view' = view
      BY <1>4, ForgetMoves DEF Reconcile, CycleGate, FetchBacklog, Take
    <2>2. pc[i] # "idle" /\ pc[i] # "settle" /\ pc'[i] \in {"cycleGate", "fetch", "drain", "judge"}
      BY <1>4, ForgetMoves DEF Reconcile, CycleGate, FetchBacklog, Take, Goto
    <2> QED BY <1>1, <2>1, <2>2, QuietFills DEF Sending
  <1>5. QED
    BY <1>2, <1>3, <1>4, ForgetMoves DEF Cycle, Crash, EndCycle

LEMMA HandleFills ==
  ASSUME TInv, NEW i \in Instance, FillsInv(i), Handle(i) PROVE FillsInv(i)'
  <1> USE DEF TInv, TypeOK
  <1>1. UNCHANGED <<position, copied, view>> /\ pc[i] # "idle" /\ pc[i] # "settle"
    BY DEF Handle, JudgeEntry, Defer, JudgeExit, SkipEvent, ClaimAndAttempt, LegGate, shared, history
  <1>2. CASE Leave(i) \/ NextLeg(i)
    BY <1>1, <1>2, LeaveMoves, NextLegMoves, QuietFills DEF Sending
  <1>3. CASE JudgeEntry(i)
    <2>1. /\ pc[i] = "judge" /\ Entering(i) /\ job' = job
          /\ (EntryAllowed(i) /\ pc'[i] = "claim") \/ pc'[i] = "skip"
      BY <1>3 DEF JudgeEntry, Goto
    <2>2. CASE pc'[i] = "skip"
      BY <1>1, <2>2, QuietFills DEF Sending
    <2>3. CASE pc'[i] = "claim" /\ EntryAllowed(i)
      <3>1. job[i].leg \in OpenLeg => view[i] = Flat
        BY <2>3 DEF EntryAllowed, Occupied, OpenLeg
      <3>2. ~ Exiting(i) /\ ~ Exiting(i)'
        BY <2>1, Legs DEF Entering, Exiting
      <3>3. Accounted(i) = view[i].size /\ Accounted(i)' = view[i].size
        BY <1>1, <2>1, <2>3 DEF Accounted, Sending
      <3> QED BY <1>1, <2>1, <2>3, <3>1, <3>2, <3>3 DEF FillsInv
    <2> QED BY <2>1, <2>2, <2>3
  <1>4. CASE JudgeExit(i)
    <2>1. CASE Goto(i, "skip")
      <3>1. pc'[i] = "skip"
        BY <2>1 DEF Goto
      <3> QED BY <1>1, <3>1, QuietFills DEF Sending
    <2>2. ASSUME NEW n \in 1 .. view[i].size, Goto(i, "claim"),
                 job' = [job EXCEPT ![i].seen = episode, ![i].target = n]
          PROVE  FillsInv(i)'
      <3>1. pc[i] = "judge" /\ pc'[i] = "claim" /\ job[i].leg \in ExitLeg
        BY <1>4, <2>2 DEF JudgeExit, Exiting, Goto
      <3>4. job'[i].target = n /\ job'[i].leg = job[i].leg
        BY <2>2 DEF Job
      <3>2. job'[i].leg \notin OpenLeg
        BY <3>1, <3>4 DEF ExitLeg, FullExitLeg, OpenLeg
      <3>3. Accounted(i) = view[i].size /\ Accounted(i)' = view[i].size
        BY <1>1, <3>1 DEF Accounted, Sending
      <3> QED BY <1>1, <2>2, <3>1, <3>2, <3>3, <3>4, Amounts DEF FillsInv
    <2> QED BY <1>4, <2>1, <2>2 DEF JudgeExit
  <1>5. CASE /\ pc[i] \in {"claim", "legGate"} /\ job' = job
             /\ \E l \in {"legGate", "leverage", "wire"} : Goto(i, l)
    <2>1. pc'[i] \in Sending
      BY <1>5 DEF Goto, Sending
    <2> QED BY <1>1, <1>5, <2>1, QuietFills DEF Sending
  <1>6. QED
    BY <1>2, <1>3, <1>4, <1>5 DEF Handle, Defer, SkipEvent, ClaimAndAttempt, LegGate, LoseClaim

\* What the exchange does with an order, in what is still ours.
LEMMA EntryAdds ==
  ASSUME TInv, NEW i \in Instance, pc[i] \in Working, Entering(i), NEW n \in 1 .. Lot,
         EntryExecutes(i, n)
  PROVE  copied' <= position'.size /\ copied' <= copied + n
  <1>1. log[Cur(i)].side \in Side /\ n \in Nat \ {0}
    BY EntrySide, BoundsAssumption
  <1>2. PICK p \in Position : p = Net(position, log[Cur(i)].side, n)
    BY <1>1, NetType DEF TInv, TypeOK
  <1>3. StillCopied(p) \in Nat /\ StillCopied(p) <= copied
    BY Amounts, SizesAreNat DEF StillCopied
  <1>4. PICK k \in Nat : k = StillCopied(p) /\ k <= copied
    BY <1>3
  <1>5. p.size \in Nat /\ copied \in Nat
    BY <1>2, SizesAreNat, Amounts
  <1>6. position' = p /\ (copied' = p.size \/ copied' = k \/ copied' = k + n)
        /\ copied' <= p.size
    BY <1>1, <1>2, <1>4, <1>5 DEF EntryExecutes
  <1>7. copied' <= k + n
    BY <1>1, <1>2, <1>4, <1>5 DEF EntryExecutes
  <1> QED BY <1>1, <1>4, <1>5, <1>6, <1>7

LEMMA ReduceTakes ==
  ASSUME TInv, NEW i \in Instance, NEW n \in Nat, ReduceExecutes(i, n), copied <= position.size
  PROVE  /\ copied' = (IF n < copied THEN copied - n ELSE 0) /\ copied' <= position'.size
         /\ n <= job[i].target - job[i].filled
  <1>1. position.size \in Nat /\ copied \in Nat
    BY Amounts
  <1>2. CASE n = 0
    BY <1>1, <1>2 DEF ReduceExecutes
  <1>3. CASE n # 0 /\ n = position.size
    <2>1. position' = Flat /\ Flat.size = 0
      BY <1>3 DEF ReduceExecutes, Flat
    <2> QED BY <1>1, <1>3, <2>1 DEF ReduceExecutes
  <1>4. CASE n # 0 /\ n # position.size
    <2>1. position' = [position EXCEPT !.size = @ - n] /\ n <= position.size
      BY <1>4 DEF ReduceExecutes
    <2>2. position # Flat
      BY <1>1, <1>4, <2>1 DEF Flat
    <2>3. position'.size = position.size - n
      BY <2>1, <2>2 DEF TInv, TypeOK, Position
    <2> QED BY <1>1, <2>1, <2>3 DEF ReduceExecutes
  <1> QED BY <1>2, <1>3, <1>4

LEMMA FillSize ==
  ASSUME NEW s, NEW n \in Int PROVE ApplyFill(s, n).size \in Nat /\ n <= ApplyFill(s, n).size
  BY DEF ApplyFill, Flat

LEMMA WireFills ==
  ASSUME "lost" \notin Faults, TInv, NEW i \in Instance, FillsInv(i), Wire(i) PROVE FillsInv(i)'
  <1> USE DEF TInv, TypeOK
  <1>1. pc[i] \in Sending /\ pc[i] \in Working /\ pc[i] # "idle"
    BY DEF Wire, SetLeverage, ReGate, EntryFills, EntryRefused, EntryReplyLost, SettleEntry,
           SignEntry, SignReduce, ReduceAnswered, ReduceRaises, ReduceUnpriceable, RetryGate,
           SettleExit, Sending, Working
  <1>2. CASE SetLeverage(i) \/ ReGate(i) \/ EntryRefused(i) \/ ReduceUnpriceable(i) \/ RetryGate(i)
    <2>1. UNCHANGED <<position, copied, view>> /\ pc[i] # "settle"
      BY <1>2 DEF SetLeverage, ReGate, EntryRefused, SignEntry, ReduceUnpriceable, RetryGate,
                  shared, history
    <2>2. Leave(i) \/ (job' = job /\ \E l \in {"reGate", "wire", "settle"} : Goto(i, l))
      BY <1>2 DEF SetLeverage, ReGate, EntryRefused, ReduceUnpriceable, RetryGate
    <2>3. CASE Leave(i)
      BY <1>1, <2>1, <2>3, LeaveMoves, QuietFills DEF Sending
    <2>4. CASE job' = job /\ \E l \in {"reGate", "wire", "settle"} : Goto(i, l)
      <3>1. pc'[i] \in Sending
        BY <2>4 DEF Goto, Sending
      <3> QED BY <1>1, <2>1, <2>4, <3>1, QuietFills
    <2> QED BY <2>2, <2>3, <2>4
  <1>3. CASE EntryFills(i)
    <2>1. PICK n \in 1 .. Lot : EntryExecutes(i, n) /\ job' = [job EXCEPT ![i].filled = n]
      BY <1>3 DEF EntryFills
    <2>2. pc[i] = "wire" /\ pc'[i] = "settle" /\ view' = view /\ Entering(i)
      BY <1>3 DEF EntryFills, SignEntry, Goto
    <2>3. job'[i].leg = job[i].leg /\ job'[i].filled = n /\ n \in Nat
      BY <2>1 DEF Job
    <2>4. ~ Exiting(i) /\ ~ Exiting(i)' /\ Entering(i)'
      BY <2>2, <2>3, Legs DEF Entering, Exiting
    <2>5. Accounted(i) = view[i].size /\ Accounted(i)' = view[i].size + n
      BY <2>2, <2>3, <2>4 DEF Accounted
    <2>6. copied' <= position'.size /\ copied' <= copied + n /\ copied' \in Nat
      BY <1>1, <2>1, <2>2, EntryAdds, EntryExecutesType
    <2> QED BY <1>1, <2>2, <2>3, <2>4, <2>5, <2>6, Amounts DEF FillsInv
  <1>4. CASE SettleEntry(i)
    <2>1. pc[i] = "settle" /\ Entering(i) /\ pc'[i] = "drain" /\ UNCHANGED <<position, copied>>
      BY <1>4, LeaveMoves DEF SettleEntry, history
    <2>2. view'[i] = ApplyFill(log[Cur(i)].side, view[i].size + job[i].filled)
      BY <1>4 DEF SettleEntry
    <2>3. Accounted(i) = view[i].size + job[i].filled /\ Accounted(i)' = view'[i].size
      BY <2>1, Legs DEF Accounted, Entering, Exiting, Sending
    <2> QED BY <1>1, <2>1, <2>2, <2>3, FillSize, Amounts DEF FillsInv, Sending
  <1>5. CASE ReduceAnswered(i)
    <2>1. PICK n \in 0 .. MaxSize :
            ReduceExecutes(i, n) /\ job' = [job EXCEPT ![i].filled = @ + n, ![i].tries = @ + 1]
      BY <1>5 DEF ReduceAnswered
    <2>2. pc[i] = "wire" /\ pc'[i] \in {"settle", "retry"} /\ view' = view /\ Exiting(i)
      BY <1>5 DEF ReduceAnswered, SignReduce, Goto
    <2>3. /\ job'[i].leg = job[i].leg /\ job'[i].filled = job[i].filled + n
          /\ job'[i].target = job[i].target /\ n \in Nat
      BY <2>1, BoundsAssumption DEF Job
    <2>4. Exiting(i)' /\ job[i].leg \notin OpenLeg
      BY <2>2, <2>3 DEF Exiting, ExitLeg, FullExitLeg, OpenLeg
    <2>5. /\ Accounted(i) = view[i].size - job[i].filled
          /\ Accounted(i)' = view[i].size - (job[i].filled + n)
      BY <2>2, <2>3, <2>4 DEF Accounted, Sending
    <2>6. /\ copied' = (IF n < copied THEN copied - n ELSE 0) /\ copied' <= position'.size
          /\ n <= job[i].target - job[i].filled
      BY <2>1, <2>3, ReduceTakes DEF FillsInv
    <2>7. copied <= view[i].size - job[i].filled /\ job[i].target <= view[i].size
      BY <1>1, <2>2, <2>5 DEF FillsInv
    <2>8. copied' <= Accounted(i)'
      <3>1. PICK v \in Nat, f \in Nat, t \in Nat, c \in Nat :
              v = view[i].size /\ f = job[i].filled /\ t = job[i].target /\ c = copied
        BY Amounts
      <3>2. c <= v - f /\ n <= t - f /\ t <= v /\ n \in Nat
        BY <2>3, <2>6, <2>7, <3>1
      <3>5. \A m \in Nat : c <= v - f /\ m <= t - f /\ t <= v =>
                            0 <= v - (f + m) /\ c - m <= v - (f + m)
        OBVIOUS
      <3>3. copied' = (IF n < c THEN c - n ELSE 0) /\ Accounted(i)' = v - (f + n)
        BY <2>5, <2>6, <3>1
      <3>4. (IF n < c THEN c - n ELSE 0) <= v - (f + n)
        BY <3>2, <3>5
      <3> QED BY <3>3, <3>4
    <2> QED BY <2>2, <2>3, <2>4, <2>6, <2>7, <2>8 DEF FillsInv
  <1>6. CASE ReduceRaises(i)
    <2>1. PICK n \in 0 .. MaxSize : n = 0 /\ ReduceExecutes(i, n)
      BY <1>6 DEF ReduceRaises
    <2>2. UNCHANGED view /\ pc[i] # "settle" /\ position' = position
      BY <1>6, <2>1 DEF ReduceRaises, ReduceExecutes, SignReduce
    <2>3. copied' = copied
      BY <2>1, ReduceTakes, Amounts DEF FillsInv
    <2> QED BY <1>1, <1>6, <2>2, <2>3, LeaveMoves, QuietFills DEF ReduceRaises, Sending
  <1>7. CASE SettleExit(i)
    <2>1. /\ pc[i] = "settle" /\ Exiting(i) /\ UNCHANGED <<position, copied>>
          /\ pc'[i] \in {"drain", "judge"}
      BY <1>7, NextLegMoves DEF SettleExit, history
    <2>2. view'[i] = ApplyFill(job[i].seen.side, view[i].size - job[i].filled)
      BY <1>7 DEF SettleExit
    <2>3. Accounted(i) = view[i].size - job[i].filled /\ Accounted(i)' = view'[i].size
      BY <2>1 DEF Accounted, Sending
    <2>4. copied <= position.size /\ copied <= Accounted(i)
      BY <1>1 DEF FillsInv
    <2>5. view[i].size - job[i].filled \in Int
      BY Amounts
    <2>6. /\ view'[i].size \in Nat
          /\ view[i].size - job[i].filled <= view'[i].size
      BY <2>2, <2>5, FillSize
    <2>7. copied' <= position'.size /\ copied' <= Accounted(i)'
      BY <2>1, <2>3, <2>4, <2>5, <2>6, Amounts
    <2>8. pc'[i] \notin Sending \cup {"claim"}
      BY <2>1 DEF Sending
    <2> QED BY <2>7, <2>8 DEF FillsInv
  <1>8. ~ EntryReplyLost(i)
    BY DEF EntryReplyLost
  <1>9. QED
    BY <1>2, <1>3, <1>4, <1>5, <1>6, <1>7, <1>8 DEF Wire

LEMMA EnvironmentFills ==
  ASSUME TInv, NEW i \in Instance, FillsInv(i), Environment \/ UNCHANGED vars PROVE FillsInv(i)'
  <1>1. UNCHANGED <<pc, job, view>>
    BY DEF Environment, LeaderMoves, Publish, EventAges, Halt, Resume, SetHalted,
           PositionMoves, vars, local
  <1>2. Accounted(i)' = Accounted(i) /\ Exiting(i)' = Exiting(i) /\ Accounted(i) \in Int
    BY <1>1, Amounts DEF Accounted, Exiting, Entering
  <1>3. copied' <= position'.size /\ copied' <= copied /\ copied' \in Nat
    <2>1. CASE UNCHANGED <<position, copied>>
      BY <2>1, Amounts DEF FillsInv
    <2>2. CASE PositionMoves
      <3>1. PICK p \in {Flat} \cup [side : Side, size : 1 .. MaxSize] :
              position' = p /\ copied' = StillCopied(p)
        BY <2>2 DEF PositionMoves
      <3>2. p.size \in Nat
        BY <3>1, BoundsAssumption DEF Flat
      <3> QED BY <3>1, <3>2, Amounts DEF StillCopied
    <2> QED BY <2>1, <2>2 DEF Environment, LeaderMoves, Publish, EventAges, Halt, Resume, SetHalted,
                              vars, shared, history
  <1>4. QED
    BY <1>1, <1>2, <1>3, Amounts DEF FillsInv

\* No open of an executor by itself is sent while an earlier fill of its own is
\* still held, as long as every reply arrives (executor.py _entry_skip): whatever
\* crashed, traded by hand, filled in part or failed to be read in between.
THEOREM NeverDoublesHolds ==
  ASSUME NEW one, Instance = {one}, "lost" \notin Faults
  PROVE  Spec => NeverDoubles
  <1>1. Init => FillsInv(one)
    BY DEF Init, FillsInv, Flat, Sending
  <1>2. TInv /\ FillsInv(one) /\ [Next]_vars => FillsInv(one)'
    BY CycleFills, HandleFills, WireFills, EnvironmentFills DEF Next, Step
  <1>3. TInv /\ FillsInv(one) /\ [Next]_vars =>
          [\A i \in Instance :
             pc[i] = "wire" /\ job[i].leg \in OpenLeg /\ opens'[Cur(i)] # opens[Cur(i)]
               => copied = 0]_vars
    <2> SUFFICES ASSUME TInv, FillsInv(one), pc[one] = "wire", job[one].leg \in OpenLeg
                 PROVE  copied = 0
      OBVIOUS
    <2>1. view[one] = Flat /\ copied <= Accounted(one)
      BY DEF FillsInv, Sending
    <2>2. Accounted(one) = view[one].size
      BY DEF Accounted, Exiting, ExitLeg, FullExitLeg, OpenLeg
    <2> QED BY <2>1, <2>2, Amounts
  <1>4. QED
    BY <1>1, <1>2, <1>3, TypedInv, PTL DEF Spec, NeverDoubles
=============================================================================
