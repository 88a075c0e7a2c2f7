------------------------------ MODULE Monitor ------------------------------
(***************************************************************************)
(* The health monitor (monitor/main.py, monitor/alerting.py,               *)
(* monitor/checks.py): one loop, two cadences, one alerting state machine. *)
(* Every tick reads the watchdog's heartbeat row; a full cycle, every      *)
(* Interval ticks, reads the whole board.  A check that turns failing is   *)
(* told to the operator once, then at most every Reminder ticks, then its  *)
(* recovery once; a message Telegram refuses is not kept.                  *)
(*                                                                         *)
(* The unit of time is the fast tick (watchdog_check); ages stop counting  *)
(* where nothing compares them any more.  No check reads another's state,  *)
(* so the module follows one, chosen at the start: the database's, the     *)
(* watchdog's, or one of Others, which differ only in what they read.      *)
(***************************************************************************)
EXTENDS Integers

CONSTANTS
  Others,      \* checks the full cycle alone evaluates, some of DOMAIN Rungs
  Interval,    \* ticks between two full cycles
  Reminder,    \* ticks between two messages about a standing failure
  Stale,       \* watchdog_stale
  Unverified,  \* CAPABILITY_VERDICT_STALE
  MaxFaults    \* bound: outages, lost messages and restarts

VARIABLES
  check,       \* the check followed
  beat,        \* age of the watchdog's heartbeat, or Never
  basis,       \* age of its capability verdict, of its start until there is one
  capable,     \* the verdict, TRUE until there is one
  executor,    \* whether the executor has a heartbeat
  trouble,     \* the rung a check of Others is on
  db,          \* "up", or "down": refusing or swallowing queries
  pc,          \* the loop: "check", "hung" in a gather, "sleep"
  sinceFull,   \* ticks since the last full cycle began
  state,       \* the check's _CheckState: Quiet, or the age of the last alert
  today,       \* the daily digest: "early", "due", "sent"
  told,        \* the last message about the check that reached the operator
  paged,       \* age of the last page about it, Never after a recovery
  bad,         \* ticks it has been failing without a break
  good,        \* ticks since the last fault
  faults

world == <<beat, basis, capable, executor, trouble, db>>
loop == <<pc, sinceFull, state, today>>
history == <<told, paged, bad, good, faults>>
vars == <<check, world, loop, history>>

Never == -1
Quiet == -1
Checks == {"database", "watchdog"} \cup Others

(* By this long after the last fault every standing failure has been told. *)
Settled == Reminder + Interval + 2
BeatCap == Stale + 4
Aged(age, cap) == IF age = Never \/ age = cap THEN age ELSE age + 1

-----------------------------------------------------------------------------
(* checks.py: what a check would say of the world as it is.                *)
WatchdogRung ==
  CASE beat = Never /\ executor -> "absent"
    [] beat = Never /\ ~executor -> "ok"
    [] beat > Stale -> "down"
    [] beat \in 0..Stale /\ ~capable -> "impotent"
    [] beat \in 0..Stale /\ capable /\ basis > Unverified -> "unverified"
    [] OTHER -> "ok"

(* What the other checks can say of what they read: a warning, or a page. *)
PassRungs == [c \in {"ingest", "coarse", "alerts", "rate", "fine_success"} |-> {"warning"}]
HostRungs == [c \in {"disk", "agent_key"} |-> {"warning", "critical"}]
TradingRungs ==
  [c \in {"copy_pager", "position_lane", "halt"} |->
     IF c = "position_lane" THEN {"warning"} ELSE {"critical"}]
Rungs ==
  [c \in DOMAIN PassRungs \cup DOMAIN HostRungs \cup DOMAIN TradingRungs |->
     IF c \in DOMAIN PassRungs THEN PassRungs[c]
     ELSE IF c \in DOMAIN HostRungs THEN HostRungs[c] ELSE TradingRungs[c]]

MonitorAssumption ==
  /\ Others \subseteq DOMAIN Rungs
  /\ {Interval, Reminder} \subseteq Nat \ {0}
  /\ {Stale, Unverified, MaxFaults} \subseteq Nat

Rung ==
  CASE check = "database" -> IF db = "up" THEN "ok" ELSE "down"
    [] check = "watchdog" -> WatchdogRung
    [] OTHER -> trouble

-----------------------------------------------------------------------------
(* alerting.py: the check's verdict against its state.                     *)
Turned(rung) == rung # "ok" /\ state = Quiet

(* Mutant: a check that failed is never told again. *)
OnceOnly(rung) == FALSE

Standing(rung) == rung # "ok" /\ state # Quiet /\ state >= Reminder
Recovered(rung) == rung = "ok" /\ state # Quiet
Page(rung) == Turned(rung) \/ Standing(rung)

(* Mutant: a reminder leaves the time of the last alert alone. *)
NotRearmed(rung) ==
  IF Turned(rung) THEN 0 ELSE IF Recovered(rung) THEN Quiet ELSE state

NextState(rung) ==
  IF Page(rung) THEN 0 ELSE IF Recovered(rung) THEN Quiet ELSE state

(* Monitor.transitions and the sends that follow; Telegram may refuse one,
   and nothing keeps it.                                                   *)
Evaluate(rung) ==
  LET message == Page(rung) \/ Recovered(rung)
  IN /\ state' = NextState(rung)
     /\ paged' = IF Page(rung) THEN 0 ELSE IF message THEN Never ELSE paged
     /\ \/ /\ told' = IF Page(rung) THEN rung ELSE IF message THEN "recovered" ELSE told
           /\ UNCHANGED <<good, faults>>
        \/ /\ message /\ faults < MaxFaults
           /\ faults' = faults + 1 /\ good' = 0 /\ UNCHANGED told

(* The cycle did not evaluate the check. *)
Untouched == UNCHANGED <<state, told, paged, good, faults>>

(* evaluate_checks of db_down: the database's check alone. *)
DatabaseDown == IF check = "database" THEN Evaluate("down") ELSE Untouched

-----------------------------------------------------------------------------
(* main.py monitor_loop.                                                   *)
Due == pc = "check" /\ sinceFull >= Interval

(* The digest goes with the first full cycle of the day at or after its hour. *)
Heartbeat == today' = IF today = "due" THEN "sent" ELSE today

FullCycle ==
  /\ Due /\ db = "up"
  /\ Evaluate(Rung) /\ Heartbeat
  /\ pc' = "sleep" /\ sinceFull' = 0
  /\ UNCHANGED <<check, world, bad>>

(* The gather raises, or hangs until its ceiling. *)
FullCycleFails ==
  /\ Due /\ db = "down"
  /\ sinceFull' = 0
  /\ \/ DatabaseDown /\ Heartbeat /\ pc' = "sleep"
     \/ pc' = "hung" /\ Untouched /\ UNCHANGED today
  /\ UNCHANGED <<check, world, bad>>

(* MONITOR_FULL_CEILING_SECONDS, a tick later. *)
CeilingTrips ==
  /\ pc = "expired"
  /\ DatabaseDown /\ Heartbeat
  /\ pc' = "sleep"
  /\ UNCHANGED <<check, world, sinceFull, bad>>

LivenessCycle ==
  /\ pc = "check" /\ ~Due /\ db = "up"
  /\ IF check = "watchdog" THEN Evaluate(WatchdogRung) ELSE Untouched
  /\ pc' = "sleep"
  /\ UNCHANGED <<check, world, sinceFull, today, bad>>

(* The read failed or ran into its ceiling: the tick is dropped. *)
LivenessDropped ==
  /\ pc = "check" /\ ~Due /\ db = "down"
  /\ pc' = "sleep"
  /\ UNCHANGED <<check, world, sinceFull, state, today, history>>

(* A tick of time: the loop sleeps, or a gather hangs. *)
Tick ==
  /\ pc \in {"sleep", "hung"}
  /\ pc' = IF pc = "hung" THEN "expired" ELSE "check"
  /\ sinceFull' = IF sinceFull = Interval THEN sinceFull ELSE sinceFull + 1
  /\ beat' = Aged(beat, BeatCap) /\ basis' = Aged(basis, Unverified + 1)
  /\ state' = Aged(state, Reminder) /\ paged' = Aged(paged, Reminder)
  /\ bad' = IF Rung = "ok" THEN 0 ELSE Aged(bad, Settled)
  /\ good' = IF db = "down" /\ check # "database" THEN 0 ELSE Aged(good, Settled)
  /\ UNCHANGED <<check, capable, executor, trouble, db, today, told, faults>>

(* In-memory state: a restarted monitor alerts what it finds, anew. *)
Restart ==
  /\ faults < MaxFaults
  /\ pc' = "check" /\ sinceFull' = Interval
  /\ state' = Quiet
  /\ today' = IF today = "sent" THEN "due" ELSE today
  /\ faults' = faults + 1 /\ good' = 0 /\ paged' = Never
  /\ UNCHANGED <<check, world, told, bad>>

-----------------------------------------------------------------------------
(* The world the followed check reads.                                     *)
World ==
  /\ UNCHANGED <<check, loop, told, paged>>
  /\ good' = IF db' = "down" /\ check # "database" THEN 0 ELSE good
  /\ bad' = IF Rung' = "ok" THEN 0 ELSE bad

WatchdogBeats ==
  /\ check = "watchdog"
  /\ beat' = 0
  /\ basis' = IF basis = Never THEN 0 ELSE basis
  /\ UNCHANGED <<capable, executor, trouble, db, faults>> /\ World

WatchdogProbes ==
  /\ check = "watchdog" /\ beat \in 0..Stale
  /\ basis' = 0 /\ capable' \in BOOLEAN
  /\ UNCHANGED <<beat, executor, trouble, db, faults>> /\ World

ExecutorBeats ==
  /\ check = "watchdog" /\ ~executor
  /\ executor' = TRUE
  /\ UNCHANGED <<beat, basis, capable, trouble, db, faults>> /\ World

Turns ==
  /\ check \in Others
  /\ trouble' \in {"ok"} \cup Rungs[check]
  /\ UNCHANGED <<beat, basis, capable, executor, db, faults>> /\ World

Database ==
  /\ \/ db = "up" /\ faults < MaxFaults /\ db' = "down" /\ faults' = faults + 1
     \/ db = "down" /\ db' = "up" /\ UNCHANGED faults
  /\ UNCHANGED <<beat, basis, capable, executor, trouble>> /\ World

DayPasses ==
  /\ today' = IF today = "early" THEN "due" ELSE "early"
  /\ UNCHANGED <<check, world, pc, sinceFull, state, history>>

Init ==
  /\ check \in Checks
  /\ beat = Never /\ basis = Never /\ capable = TRUE /\ executor = FALSE
  /\ trouble = "ok" /\ db = "up"
  /\ pc = "check" /\ sinceFull = Interval /\ today \in {"early", "due"}
  /\ state = Quiet /\ told = "nothing" /\ paged = Never
  /\ bad = 0 /\ good = 0 /\ faults = 0

Next ==
  \/ FullCycle \/ FullCycleFails \/ CeilingTrips \/ LivenessCycle \/ LivenessDropped
  \/ Tick \/ Restart
  \/ WatchdogBeats \/ WatchdogProbes \/ ExecutorBeats \/ Turns \/ Database \/ DayPasses

Spec == Init /\ [][Next]_vars

-----------------------------------------------------------------------------
(* Every variable keeps its type. *)
TypeOK ==
  /\ check \in Checks
  /\ beat \in {Never} \cup 0..BeatCap /\ basis \in {Never} \cup 0..(Unverified + 1)
  /\ pc \in {"check", "hung", "expired", "sleep"} /\ sinceFull \in 0..Interval
  /\ state \in {Quiet} \cup 0..Reminder
  /\ bad \in 0..Settled /\ good \in 0..Settled

(* Whatever was lost on the way, a failure that stands has been told.  The
   page itself may be lost to Telegram, to an outage or to a restart; the
   reminder is what says it again.                                         *)
FailureIsTold ==
  bad = Settled /\ good = Settled => told \notin {"nothing", "recovered"}

(* One failure, one page: between a page about a check and the reminder, no
   second page unless the check was told recovered or the monitor restarted,
   whichever cadence looks.                                                *)
PagesArePaced ==
  [][paged' = 0 /\ paged # 0 => paged \in {Never, Reminder}]_vars

(* monitor/config.py: "The absolute worst case from freeze to page is
   watchdog_stale + this", this being the fast cadence.  A page is a critical
   message; the warning about an unverified key is none.                    *)
DownIsPaged ==
  check = "watchdog" /\ beat = BeatCap /\ good >= BeatCap =>
    told \in {"down", "impotent", "absent"}

=============================================================================
