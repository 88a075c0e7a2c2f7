----------------------------- MODULE MCExchange -----------------------------
(***************************************************************************)
(* Talking to the exchange, and what watches over it, on small instances:  *)
(* the dead-man's switch (DeadMan), the shared rate budget (RateBudget),   *)
(* one signed call and its trail (SignedCall), the keys that sign and the  *)
(* watchdog's start (KeyCustody), the fold of a Trader's fills             *)
(* (TradeStore) and the health monitor (Monitor).  One part runs, the      *)
(* others stand where they began.                                          *)
(***************************************************************************)
EXTENDS RateBudget, TLC

CONSTANTS
  None,
  \* the switch (DeadMan), in proportion: 300 s of horizon, 30 of push, 20 of beat, 45
  \* of refill, 65 of step
  Horizon, Reprobe, Ceiling, BeatCeiling, PulseRefill, StepBound, Durations,
  \* the call (SignedCall)
  MaxCalls, MaxCrashes, Clocks, MaxTries, Cap, Total, Timeout,
  \* the keys and the start (KeyCustody)
  Agents, Validities, MaxDays, Grace, Retry, Probe, MaxStart, MaxKeks, MaxUpsets,
  \* the fills and their fold (TradeStore); a page is what a response serves
  Held, MaxFills, MaxInstant, Margin, Skew, PageSize,
  \* the monitor (Monitor)
  Others, Interval, Reminder, Stale, Unverified, MaxFaults

VARIABLES
  part,
  left, real, wait, state, trail, spent, beaten, refill, pulsed, pushed, place, tried, overran,
  lane, wireFirst, db, clock, nonce, call, crashes, made, wire, used, done, audit, told,
  hour, keys, kek, postgres, cache, phase, launched, due, loaded, signer, record, said, stamp,
  upsets,
  instant, fills, pull, store, seen, cut, seed,
  check, beat, basis, capable, executor, trouble, database, pc, sinceFull, alarm, today,
  heard, paged, bad, good, faults

ofDeadMan ==
  <<left, real, wait, state, trail, spent, beaten, refill, pulsed, pushed, place, tried, overran>>
ofCall ==
  <<lane, wireFirst, db, clock, nonce, call, crashes, made, wire, used, done, audit, told>>
ofKeys ==
  <<hour, keys, kek, postgres, cache, phase, launched, due, loaded, signer, record, said, stamp,
    upsets>>
ofStore == <<instant, fills, pull, store, seen, cut, seed>>
ofMonitor ==
  <<check, beat, basis, capable, executor, trouble, database, pc, sinceFull, alarm, today,
    heard, paged, bad, good, faults>>
everything == <<part, ofDeadMan, vars, ofCall, ofKeys, ofStore, ofMonitor>>

D == INSTANCE DeadMan WITH Refill <- PulseRefill
S == INSTANCE SignedCall WITH last <- nonce, trail <- audit
K == INSTANCE KeyCustody
       WITH MaxTime <- MaxStart, now <- hour, db <- postgres, told <- said
T == INSTANCE TradeStore
       WITH now <- instant, Positions <- Held, MaxTime <- MaxInstant, Cap <- PageSize
M == INSTANCE Monitor WITH state <- alarm, db <- database, told <- heard

\* A Trader is short once, and long in two sizes.
ShortOrLong == {-1, 0, 1, 2}

\* The execution lane may empty the bucket; the others leave its claim in it.
Floors == [l \in Lanes |-> IF l = "execution" THEN 0 ELSE 3]

ASSUME ExchangeAssumption ==
  /\ D!SwitchAssumption /\ S!CallAssumption /\ K!KeyAssumption /\ K!NoneAssumption
  /\ T!TradeAssumption /\ M!MonitorAssumption

\* Addresses are alike, and a lane has at most one to choose.
Symmetry == Permutations(Agents)

\* The choices of a part that does not run are fixed.
Resting ==
  /\ part # "call" => lane = "executor" /\ clock = 1
  /\ part # "monitor" => check = "watchdog" /\ today = "early"

ExchangeInit ==
  /\ part \in {"deadman", "budget", "call", "keys", "store", "monitor"}
  /\ D!Init
  /\ Init
  /\ S!Init
  /\ K!Init
  /\ T!Init
  /\ M!Init
  /\ Resting

ExchangeNext ==
  \/ /\ part = "deadman" /\ D!Next
     /\ UNCHANGED <<part, vars, ofCall, ofKeys, ofStore, ofMonitor>>
  \/ /\ part = "budget" /\ Next
     /\ UNCHANGED <<part, ofDeadMan, ofCall, ofKeys, ofStore, ofMonitor>>
  \/ /\ part = "call" /\ S!Next
     /\ UNCHANGED <<part, ofDeadMan, vars, ofKeys, ofStore, ofMonitor>>
  \/ /\ part = "keys" /\ K!Next
     /\ UNCHANGED <<part, ofDeadMan, vars, ofCall, ofStore, ofMonitor>>
  \/ /\ part = "store" /\ T!Next
     /\ UNCHANGED <<part, ofDeadMan, vars, ofCall, ofKeys, ofMonitor>>
  \/ /\ part = "monitor" /\ M!Next
     /\ UNCHANGED <<part, ofDeadMan, vars, ofCall, ofKeys, ofStore>>

ExchangeSpec == ExchangeInit /\ [][ExchangeNext]_everything
-----------------------------------------------------------------------------
\* The type invariants of the six modules.
TypesOK ==
  /\ part = "deadman" => D!TypeOK
  /\ part = "budget" => TypeOK
  /\ part = "call" => S!TypeOK
  /\ part = "keys" => K!TypeOK
  /\ part = "store" => T!TypeOK
  /\ part = "monitor" => M!TypeOK

\* safety/deadman.py: the switch believes in no push that may not have landed,
\* and in no state its trail does not show; and (safety/watchdog.py _pulse) no
\* armed schedule lapses unattempted.
SwitchHolds == []D!DeadlineIsConservative /\ D!NoSilentLapse

\* safety/audit.py, gateway/execution_http.py: the caller and the trail hear of
\* a write what became of it, once, in time, and a cancel gets out.
WriteIsHonest ==
  S!AtMostOnce /\ S!CleanMeansNothing /\ S!TrailOwnsUp /\ S!CancelGetsOut /\ S!CallIsBounded

\* safety/coldstart.py: a start, blind or not, ends in time with the watchdog's
\* own key and its trail true.
ColdStartIsSound == K!ColdStartIsSound

\* metrics/fine.py: the track record is what one walk over the history makes.
RecordIsTrue == part = "store" => T!RecordIsTrue

\* monitor/alerting.py: a failure that stands has been told, whatever was lost.
FailureIsTold == M!FailureIsTold

\* monitor/alerting.py: between a page and its reminder, no second page.
PagesArePaced == M!PagesArePaced
=============================================================================
