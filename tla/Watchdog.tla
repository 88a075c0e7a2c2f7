------------------------------ MODULE Watchdog ------------------------------
(***************************************************************************)
(* The kill switch: halt rows, the watchdog's cycle (liveness read, blind   *)
(* and stall incidents, cancel pass, verifying enumeration, the stamp) and   *)
(* the one thing the executor leaves resting, a bracket trigger, signed      *)
(* behind a halt gate that may be overtaken.                                 *)
(*                                                                         *)
(* Only the watchdog's decisions and what they read are kept: the book is   *)
(* the set of sub-accounts with an order resting, Postgres answers or does   *)
(* not, and a threshold of seconds is a number of cycles.  Pulses, pacing    *)
(* and the capability probe are advisory and change none of this state.      *)
(***************************************************************************)
EXTENDS Integers, Sequences

CONSTANTS
  Sub,          \* sub-accounts the exchange lists
  BlindAfter,   \* WATCHDOG_DB_BLIND_SECONDS, in cycles
  MaxHalts,     \* bound: halts opened (a /resume needs room for the next)
  MaxUpsets     \* bound: outages, crashes, failed reads and cancels

ASSUME SubAssumption == Sub # {}
ASSUME BoundsAssumption ==
  BlindAfter \in Nat \ {0} /\ MaxHalts \in Nat \ {0} /\ MaxUpsets \in Nat

Nothing == "nothing"
ASSUME NothingAssumption == Nothing \notin Sub

HaltId == 1 .. MaxHalts
\* A row of execution_halts; seenEmpty is history: the accounts that an
\* enumeration found empty since the row was inserted.
HaltRow == [swept : BOOLEAN, resumed : BOOLEAN, seenEmpty : SUBSET Sub]

\* How the present trip came about: Postgres unreadable past the threshold,
\* unreachable at launch, or a stale executor heartbeat.
Incident == {"none", "blind", "cold", "stall"}

\* "pass" and "dark" cancel for an incident, and a dark pass settles no books
\* after; "sweep" cancels for a halt, "verify" only looks.
Task == {"none", "pass", "dark", "sweep", "verify"}
At == {"down", "idle", "scope", "walk", "cancel", "stamp", "settle", "clear"}
Cycle == [at : At, task : Task, halt : {0} \cup HaltId,
          todo : SUBSET Sub, found : SUBSET Sub, complete : BOOLEAN]
Idle == [at |-> "idle", task |-> "none", halt |-> 0, todo |-> {}, found |-> {}, complete |-> FALSE]

\* The executor: off the book, or about to place on an account.
ExecutorState == [at : {"dead", "idle", "cycle"}, on : {Nothing}] \cup [at : {"gated", "wire"}, on : Sub]

VARIABLES
  postgres,   \* does the database answer?
  halts,      \* execution_halts, in id order
  resting,    \* the book: sub-accounts with an order resting
  executor,   \* where the executor is, and the sub-account it is placing on
  beat,       \* the executor's heartbeat row: none, fresh or stale
  wd,         \* the watchdog's cycle
  incident,   \* the watchdog's memory: the open incident,
  streak,     \* and the unbroken failures of its liveness read
  upsets      \* history: faults so far

vars == <<postgres, halts, resting, executor, beat, wd, incident, streak, upsets>>

\* Rows are opened one at a time, so the active one is the last.
Standing == IF halts # <<>> /\ ~halts[Len(halts)].resumed THEN Len(halts) ELSE 0
Halted == Standing # 0

Upset == upsets < MaxUpsets /\ upsets' = upsets + 1

Init ==
  /\ postgres = TRUE /\ halts = <<>> /\ resting = {}
  /\ executor = [at |-> "idle", on |-> Nothing] /\ beat = "none"
  /\ wd = Idle /\ incident = "none" /\ streak = 0 /\ upsets = 0
-----------------------------------------------------------------------------
(* The operator, the database, the venue. *)

\* request_halt: open a row, or join the one standing.
Opened == IF Halted THEN halts
          ELSE Append(halts, [swept |-> FALSE, resumed |-> FALSE, seenEmpty |-> {}])

Kill ==
  /\ postgres
  /\ halts' = Opened
  /\ UNCHANGED <<postgres, resting, executor, beat, wd, incident, streak, upsets>>

\* Lifts the standing halt, swept or not: the prompt only says the sweep pends.
\* (MaxHalts leaves room for the halt that may follow.)
Resume ==
  /\ postgres /\ Halted /\ Len(halts) < MaxHalts
  /\ halts' = [halts EXCEPT ![Standing].resumed = TRUE]
  /\ UNCHANGED <<postgres, resting, executor, beat, wd, incident, streak, upsets>>

PostgresFails ==
  /\ postgres /\ postgres' = FALSE /\ Upset
  /\ UNCHANGED <<halts, resting, executor, beat, wd, incident, streak>>

PostgresReturns ==
  /\ ~postgres /\ postgres' = TRUE
  /\ UNCHANGED <<halts, resting, executor, beat, wd, incident, streak, upsets>>

\* A trigger fires, or the operator cancels it.
OrderLeaves ==
  /\ \E a \in resting : resting' = resting \ {a}
  /\ UNCHANGED <<postgres, halts, executor, beat, wd, incident, streak, upsets>>
-----------------------------------------------------------------------------
(* The executor, as far as it touches the book and the heartbeat. *)

ExecutorAt(p, a) == executor' = [at |-> p, on |-> a]

\* A cycle begins by beating; without the database it does not begin.
ExecutorBeats ==
  /\ executor.at = "idle" /\ postgres
  /\ beat' = "fresh"
  /\ ExecutorAt("cycle", Nothing)
  /\ UNCHANGED <<postgres, halts, resting, wd, incident, streak, upsets>>

ExecutorRests ==
  /\ executor.at = "cycle"
  /\ ExecutorAt("idle", Nothing)
  /\ UNCHANGED <<postgres, halts, resting, beat, wd, incident, streak, upsets>>

\* Mutant: brackets are placed without asking for a halt.
BracketUngated ==
  /\ executor.at = "cycle" /\ postgres
  /\ \E a \in Sub \ resting : ExecutorAt("gated", a)
  /\ UNCHANGED <<postgres, halts, resting, beat, wd, incident, streak, upsets>>

\* A bracket that is missing, and the gate as late as it can be.
BracketGate ==
  /\ executor.at = "cycle" /\ postgres /\ ~Halted
  /\ \E a \in Sub \ resting : ExecutorAt("gated", a)
  /\ UNCHANGED <<postgres, halts, resting, beat, wd, incident, streak, upsets>>

\* The attempt row is write-ahead: with no database nothing is signed.
BracketAttempt ==
  /\ executor.at = "gated"
  /\ IF postgres THEN ExecutorAt("wire", executor.on) ELSE ExecutorAt("idle", Nothing)
  /\ UNCHANGED <<postgres, halts, resting, beat, wd, incident, streak, upsets>>

\* The triggers rest, or the placement failed.
BracketLands ==
  /\ executor.at = "wire"
  /\ resting' \in {resting, resting \cup {executor.on}}
  /\ ExecutorAt("cycle", Nothing)
  /\ UNCHANGED <<postgres, halts, beat, wd, incident, streak, upsets>>

\* Dying with the request on the wire leaves its outcome open.
ExecutorDies ==
  /\ executor.at # "dead" /\ Upset
  /\ ExecutorAt("dead", Nothing)
  /\ \/ resting' = resting
     \/ executor.at = "wire" /\ resting' = resting \cup {executor.on}
  /\ UNCHANGED <<postgres, halts, beat, wd, incident, streak>>

ExecutorStarts ==
  /\ executor.at = "dead"
  /\ ExecutorAt("idle", Nothing)
  /\ UNCHANGED <<postgres, halts, resting, beat, wd, incident, streak, upsets>>

\* A minute without a beat, whether the process is dead or only slow.
BeatAges ==
  /\ beat = "fresh" /\ beat' = "stale"
  /\ UNCHANGED <<postgres, halts, resting, executor, wd, incident, streak, upsets>>
-----------------------------------------------------------------------------
(* The watchdog: what a cycle decides to do. *)

world == <<postgres, resting, executor, beat>>

\* Scope first, whatever the task.
Begin(task, halt) == wd' = [Idle EXCEPT !.at = "scope", !.task = task, !.halt = halt]

\* Mutant: the limit is taken in the wrong unit, so no beat is ever past it.
StallNever == FALSE

\* No row means no executor was ever deployed.
Stall == beat = "stale"

\* Mutant: a halt is swept only while the executor is stale.
OwedSweepIfStale == Halted /\ ~halts[Standing].swept /\ Stall

\* The standing halt whose sweep is not finished.
OwedSweep == Halted /\ ~halts[Standing].swept

\* An open incident reaches the wire before any database work.
IncidentCycle ==
  /\ wd.at = "idle" /\ incident # "none"
  /\ Begin("pass", 0)
  /\ UNCHANGED <<world, halts, incident, streak, upsets>>

\* The liveness read answers: sweep what is owed, or trip on a stall.
LivenessRead ==
  /\ wd.at = "idle" /\ incident = "none" /\ postgres
  /\ streak' = 0
  /\ \/ OwedSweep /\ Begin("sweep", Standing) /\ incident' = incident
     \/ Halted /\ ~OwedSweep /\ UNCHANGED <<wd, incident>>
     \/ ~Halted /\ Stall /\ Begin("pass", 0) /\ incident' = "stall"
     \/ ~Halted /\ ~Stall /\ UNCHANGED <<wd, incident>>
  /\ UNCHANGED <<world, halts, upsets>>

\* Mutant: the threshold is passed one cycle late.
BlindLate == streak > BlindAfter

\* Unreadable without interruption for longer than the threshold.
Blind == streak >= BlindAfter

\* The read does not answer, or not within its ceiling: the streak ages, and
\* past the threshold an unknowable executor is a dead one.
LivenessUnreadable ==
  /\ wd.at = "idle" /\ incident = "none"
  /\ \/ ~postgres /\ upsets' = upsets
     \/ postgres /\ Upset
  /\ IF Blind
     THEN incident' = "blind" /\ Begin("dark", 0) /\ streak' = streak
     ELSE streak' = streak + 1 /\ UNCHANGED <<wd, incident>>
  /\ UNCHANGED <<world, halts>>

\* The process dies with what it remembered: incident, streak, the pass.
WatchdogDies ==
  /\ wd.at # "down" /\ Upset
  /\ wd' = [Idle EXCEPT !.at = "down"]
  /\ incident' = "none" /\ streak' = 0
  /\ UNCHANGED <<world, halts>>

\* Mutant: a start needs the database.
WatchdogStartsOnPostgres ==
  /\ wd.at = "down" /\ postgres
  /\ wd' = Idle
  /\ UNCHANGED <<world, halts, incident, streak, upsets>>

\* Backed by the database, or cold: past the grace the cached key is taken and
\* the incident is open from the first cycle.
WatchdogStarts ==
  /\ wd.at = "down"
  /\ wd' = Idle
  /\ incident' = IF postgres THEN "none" ELSE "cold"
  /\ UNCHANGED <<world, halts, streak, upsets>>
-----------------------------------------------------------------------------
(* The pass: scope, enumeration, cancels. *)

Cancelling == {"pass", "dark"}

\* The pass is over, whole or not: an incident settles its books next, unless
\* the liveness read of this very cycle has failed.
PassOver ==
  wd' = IF wd.task = "pass" THEN [Idle EXCEPT !.at = "settle", !.task = "pass"] ELSE Idle

\* An exchange call raises or outlives its ceiling.
Fails ==
  /\ wd.at \in {"scope", "walk", "cancel"} /\ Upset
  /\ IF wd.task \in Cancelling THEN PassOver ELSE wd' = Idle
  /\ UNCHANGED <<world, halts, incident, streak>>

\* Coverage: every venue and sub-account; every sub-account but not every
\* venue; or, with no listing of the sub-accounts, the master alone.
Scope ==
  /\ wd.at = "scope"
  /\ \/ wd' = [wd EXCEPT !.at = "walk", !.todo = Sub, !.complete = TRUE] /\ upsets' = upsets
     \/ \E covered \in {Sub, {}} :
          wd' = [wd EXCEPT !.at = "walk", !.todo = covered, !.complete = FALSE] /\ Upset
  /\ UNCHANGED <<world, halts, incident, streak>>

SeenEmpty(a) == [h \in DOMAIN halts |-> [halts[h] EXCEPT !.seenEmpty = @ \cup {a}]]

\* One account's orders are read.
Walk ==
  /\ wd.at = "walk"
  /\ \E a \in wd.todo :
       /\ wd' = [wd EXCEPT !.todo = @ \ {a},
                           !.found = IF a \in resting THEN @ \cup {a} ELSE @]
       /\ halts' = IF a \in resting THEN halts ELSE SeenEmpty(a)
  /\ UNCHANGED <<world, incident, streak, upsets>>

\* Every account of the scope has been read.
Walked ==
  /\ wd.at = "walk" /\ wd.todo = {}
  /\ \/ wd.task # "verify" /\ wd.found # {} /\ wd' = [wd EXCEPT !.at = "cancel", !.todo = wd.found]
     \/ wd.task \in Cancelling /\ wd.found = {} /\ PassOver
     \/ /\ wd.task \in {"sweep", "verify"} /\ wd.found = {} /\ wd.complete
        /\ wd' = [wd EXCEPT !.at = "stamp"]
     \/ wd.task = "sweep" /\ wd.found = {} /\ ~wd.complete /\ wd' = Idle
     \/ wd.task = "verify" /\ (wd.found # {} \/ ~wd.complete) /\ wd' = Idle
  /\ UNCHANGED <<world, halts, incident, streak, upsets>>

\* One account's cancel; its answer is not taken as proof, and a rejected leg
\* stays on the book.
Cancel ==
  /\ wd.at = "cancel"
  /\ \E a \in wd.todo :
       /\ wd' = [wd EXCEPT !.todo = @ \ {a}]
       /\ \/ resting' = resting \ {a} /\ upsets' = upsets
          \/ resting' = resting /\ Upset
  /\ UNCHANGED <<postgres, executor, beat, halts, incident, streak>>

\* Mutant: a cancel that was accepted counts as an empty book.
CancelledTrusted ==
  /\ wd.at = "cancel" /\ wd.todo = {}
  /\ IF wd.task \in Cancelling THEN PassOver
     ELSE wd' = IF wd.complete THEN [wd EXCEPT !.at = "stamp"] ELSE Idle
  /\ UNCHANGED <<world, halts, incident, streak, upsets>>

\* All cancels are out: a halt's sweep looks again, from a fresh scope.
Cancelled ==
  /\ wd.at = "cancel" /\ wd.todo = {}
  /\ IF wd.task \in Cancelling THEN PassOver ELSE Begin("verify", wd.halt)
  /\ UNCHANGED <<world, halts, incident, streak, upsets>>
-----------------------------------------------------------------------------
(* Bookkeeping after the wire. *)

\* The positions are read and the row is stamped, by its id; a failure leaves
\* the halt unswept.
Stamp ==
  /\ wd.at = "stamp"
  /\ \/ postgres /\ halts' = [halts EXCEPT ![wd.halt].swept = TRUE] /\ upsets' = upsets
     \/ ~postgres /\ UNCHANGED <<halts, upsets>>
     \/ postgres /\ Upset /\ halts' = halts
  /\ wd' = Idle
  /\ UNCHANGED <<world, incident, streak>>

\* The halt row commits, new or joined.
SettleHalt ==
  /\ wd.at = "settle" /\ postgres
  /\ halts' = Opened
  /\ wd' = [wd EXCEPT !.at = "clear", !.halt = Len(Opened)]
  /\ UNCHANGED <<world, incident, streak, upsets>>

\* The database does not answer, or the ceiling cuts the block, perhaps
\* between the row's commit and the incident's clearing.
SettleFails ==
  /\ wd.at \in {"settle", "clear"}
  /\ \/ ~postgres /\ upsets' = upsets
     \/ postgres /\ Upset
  /\ wd' = Idle
  /\ UNCHANGED <<world, halts, incident, streak>>

\* The window's event is written and the incident closed; a halt that still
\* owes its sweep is verified, not cancelled again.
SettleClears ==
  /\ wd.at = "clear" /\ postgres
  /\ incident' = "none" /\ streak' = 0
  /\ IF halts[wd.halt].swept THEN wd' = Idle ELSE Begin("verify", wd.halt)
  /\ UNCHANGED <<world, halts, upsets>>
-----------------------------------------------------------------------------
Executor == ExecutorBeats \/ ExecutorRests \/ BracketGate \/ BracketAttempt \/ BracketLands

Watch ==
  \/ IncidentCycle \/ LivenessRead \/ LivenessUnreadable
  \/ Scope \/ Walk \/ Walked \/ Cancel \/ Cancelled
  \/ Stamp \/ SettleHalt \/ SettleFails \/ SettleClears \/ WatchdogStarts

Environment ==
  \/ Kill \/ Resume \/ PostgresFails \/ PostgresReturns \/ OrderLeaves
  \/ ExecutorDies \/ ExecutorStarts \/ BeatAges \/ Fails \/ WatchdogDies

Next == Executor \/ Watch \/ Environment

Spec == Init /\ [][Next]_vars

\* The watchdog's loop never stops and a dead process is started again; a
\* request on the wire is answered; time passes.
FairSpec == Spec /\ WF_vars(Watch) /\ WF_vars(Executor) /\ WF_vars(BeatAges)
-----------------------------------------------------------------------------
(* Properties. *)

TypeOK ==
  /\ postgres \in BOOLEAN
  /\ halts \in Seq(HaltRow) /\ Len(halts) <= MaxHalts
  /\ resting \subseteq Sub
  /\ executor \in ExecutorState
  /\ beat \in {"none", "fresh", "stale"}
  /\ wd \in Cycle /\ incident \in Incident /\ streak \in 0 .. BlindAfter /\ upsets \in 0 .. MaxUpsets

\* A halt is stamped swept only after every sub-account was found empty by an
\* enumeration made since that very halt was opened: not on a cancel's word,
\* not on partial coverage, not for an earlier halt lifted in the meantime.
SweptWasSeenEmpty == \A h \in DOMAIN halts : halts[h].swept => halts[h].seenEmpty = Sub

\* What can rest under a swept, standing halt is the one bracket whose gate the
\* halt overtook: never two.
OneStrayAtMost ==
  Halted /\ halts[Standing].swept => \A a, b \in resting : a = b

\* A standing halt is swept, unless it is lifted or the database is down.
HaltIsSwept == \A h \in HaltId : (Standing = h) ~> (Standing # h \/ halts[h].swept \/ ~postgres)

\* A database that never answers again leaves an empty book: the blind trip
\* reaches the wire with no help from Postgres, even after a restart.
OutageEmptiesBook == <>[](~postgres) => <>[](resting = {})

\* An executor that dies for good does not leave its orders unattended: the
\* book is emptied, or a halt that was swept stands.
StallEmptiesBook ==
  <>[](executor.at = "dead") => []<>(resting = {} \/ (Halted /\ halts[Standing].swept))

\* The order a swept halt missed is cleaned up while the halt stands.
StrayIsCleaned == (Halted /\ halts[Standing].swept) ~> (resting = {} \/ ~Halted)
=============================================================================
