# Epigone in TLA+

Epigone copies the perpetual-futures trades of selected *Leaders* on Hyperliquid. It watches the
Leaders' positions, writes every change into a Postgres event log, and an executor turns those
events into orders in one sub-account per Leader. A watchdog in a process of its own can halt all of
it and empty the book.

This directory holds the models of the parts of that program where money depends on the order in
which things happen, the TLC configurations that check them on small instances, and proofs, checked
by TLAPS, of what holds for every instance. Paths below are relative to `src/src/epigone/`.

- [1 Inventory](#1-inventory)
- [2 Plan](#2-plan)
- [3 The modules and the code](#3-the-modules-and-the-code)
- [4 What the runs check](#4-what-the-runs-check)
- [5 What is proved](#5-what-is-proved)
- [6 Where the code and its documents disagree](#6-where-the-code-and-its-documents-disagree)
- [7 What is not modelled](#7-what-is-not-modelled)

## 1 Inventory

Processes that meet only in Postgres and at the exchange: the REST poller (`stream/main.py`), the
websocket lane (`ws/main.py`), the copy executor (`execute/main.py`), the watchdog
(`safety/main.py`), the Telegram bot (`bot/main.py`), the health monitor and the ingest jobs. Each
is an asyncio program, so the interleavings that matter are those between processes and those at an
`await` inside one; each may be restarted at any time by its container.

| Component | State | Operations | Talks to | Hard because | Correct when | Module |
| --- | --- | --- | --- | --- | --- | --- |
| Copy executor `execute/executor.py`, `episodes.py` | `copy_episodes`, audit rows; a cycle's working copy of each sub-account | reconcile, provision, brackets, drain the backlog: entry, exit, flip | event log and claims, halt rows, exchange, bot outbox | claim and order cannot be one transaction; the halt, the exchange and other instances move between any two awaits | an event is entered at most once; an exit is never turned into an entry; a halt stops signatures; books follow the exchange | CopyExecutor |
| Event log and claims `position_events.py` | `position_events`, `position_event_claims` | record, outstanding, claim, live consumption | producers write, executor and bot read | commit order, two readers of one backlog | authoritative events are handled once and in id order | CopyExecutor, PositionLanes |
| Lane authority `lane_authority.py` | `lane_authority` row, heartbeats, resync times | evaluate, take ownership, hold while writing | poller, websocket lane | two writers on clocks of their own, freshness windows, probation | one owner writes authoritative events; no change of a Leader is lost at a hand-over | LaneAuthority |
| Position production `position_diff.py`, `position_publish.py`, `stream/poller.py`, `ws/lane.py` | latest snapshot per (Leader, coin) | poll or receive, diff, publish | authority, log | partial and out-of-order snapshots, reconnects | the events replay to the snapshots | PositionLanes |
| Order production `stream/orders.py`, `ws/order_lane.py`, `order_diff.py` | known open orders | diff, publish | authority, alerts | modify is cancel and replace; fills race cancels | no order is announced twice | OrderLane |
| Mappings and provisioning `execute/subs.py`, `policy.py`, `bot/copy.py` | `copy_subs` | /copy, /uncopy, create or adopt, fund, set leverage, wind down | operator, exchange | each leg is an exchange call and then a row | one sub-account per Leader, funded once | Provisioning, LossBudget |
| Brackets and vanished positions `execute/executor.py` | `copy_episode_brackets` | place, re-place, forget, classify an ending | exchange | a trigger rests on the book and fires unseen | a live episode has its brackets or a page says not | Brackets |
| Halt `safety/halt.py` | `execution_halts` | request, resume, mark swept | everyone reads | read-then-sign is never atomic | one active halt; /resume names what it lifts | Watchdog, CopyExecutor |
| Watchdog `safety/watchdog.py` | the open incident, the failure streak | liveness read, cancel pass, sweep, verify, settle | halt rows, heartbeat, exchange | must act with Postgres down, restart with no memory | a standing halt is swept; a dead executor or database leaves an empty book | Watchdog |
| Cold start, key cache `safety/coldstart.py`, `keycache.py` | a sealed key on disk | start backed or cold | Postgres, exchange | the database may be down at launch | a restart protects as before | KeyCustody, Watchdog |
| Dead-man's switch `safety/deadman.py` | the schedule at the exchange | arm, push, revoke | exchange | pushes share time and weight with the sweep | the schedule never lapses while the watchdog lives | DeadMan |
| Audit `safety/audit.py` | `execution_audit` | attempt before the wire, outcome after | every signature | a crash between the two | an order without an attempt row does not exist | SignedCall |
| Rate budget `budget.py`, `safety/budget.py` | a token bucket in Postgres | spend, reserve, settle, penalise | every caller of the exchange | debts, reserves, a database down | exits are never starved | RateBudget |
| Gateways `gateway/*` | nonces, backoff | read, sign, send | exchange | ambiguous replies | a failure says whether anything was sent | SignedCall, TradeStore |
| Bot `bot/*` | outboxes, alert state, settings | commands, deliver | everyone | a crash between accept and stamp | notices arrive at least once, oldest first | Alerts, Provisioning |
| Monitor `monitor/*` | alert state per check | evaluate, alert, remind | heartbeats, tables | flapping, its own failures | each failure is announced and its end too | Monitor |
| Keystore `keystore.py` | sealed agent keys | add, rotate, revoke | watchdog, executor | rotation under load | one live key per lane | KeyCustody |
| Ingest, metrics, screener `ingest/*`, `metrics/*` | Leader universe, fills, statistics | scan, refresh, compute | bot | incremental checkpoints | a refresh loses no fill | TradeStore |

The hazards each of these meets, with the line where it bites and the property that watches it, are
the `hazards` of `PROJECT.json`.

## 2 Plan

In order of what is at stake; everything but what is named as left is done.

1. **CopyExecutor**: claims, gates, legs and books of one sub-account and coin; **CopyPromise**, the
   abstract specification it implements; their proofs.
2. **Watchdog**: halts, the watchdog's cycle, brackets racing the sweep; its safety proofs.
3. **LaneAuthority**: the owner row, freshness, probation and the handback; its safety proofs.
   **PositionLanes**: what both lanes observe and tell of one coin under those transfers.
4. **Provisioning**, **LossBudget**, **Brackets**: the life of a copy mapping, composed by
   **MCMappings**.
5. **OrderLane**, **Alerts**: what a follower is told, composed by **MCNews**.
6. **DeadMan**, **RateBudget**, **KeyCustody**, **SignedCall**, **TradeStore**, **Monitor**: the
   traffic with the exchange and what watches over it, composed by **MCExchange**.

Each of these has its safety properties proved (section 5).

Left, most valuable first: a composition of PositionLanes with CopyExecutor, whose `LeaderMoves` is
the log those lanes write; the REST order poll beside OrderLane; the due queue beside TradeStore.

The numbers of actors stay at two, the clocks at the smallest value at which every comparison can go
either way.

## 3 The modules and the code

### CopyExecutor and CopyPromise

One (sub-account, coin) pair, any number of executor instances. Every decision of `_handle`,
`_entry` and `_exit` reads only the episode, the position and the events of its own pair, so pairs
do not influence one another here (the caps that span them may turn any entry into a skip, which the
model always allows).

| Variable | In the code |
| --- | --- |
| `log`, `stale` | authoritative rows of `position_events`, and how many are older than the staleness guard |
| `owner` | `position_event_claims` |
| `exitTrail` | the audit outcome of the exit leg |
| `episode` | the live row of `copy_episodes`; `by` is `opened_event_id` |
| `halted` | `safety.halt.is_halted` |
| `position` | what the exchange holds |
| `pc`, `view`, `backlog`, `job` | per instance: the await it stands at, `SubState`, the fetched events, the leg in hand |

The atomicity is that of the code: a step runs from one await that others can be observed through to
the next. The claim and the attempt row are one step because they are one transaction; the claim and
the order are not; the episode read when an exit is judged (`job.seen`) is used after the wire to
address the books, as in `_settle_exit`. A cycle is `ReadState`, `Reconcile`, `CycleGate`,
`FetchBacklog`, then `Take` for each event, oldest first, and the legs that follow. `Crash` may come
anywhere and stands as well for an error that ends the cycle. Several outcomes of one call are
several actions: an entry fills in part or whole, is refused, or executes with its reply lost.

Sizes are small numbers of coin units. What the policy and the floors decide is `JudgeEntry`'s free
choice between claim and skip, bounded by the guards that matter here: staleness and occupation.
`CopyPromise` says what all of this amounts to: an event is taken once, and entered at most once and
only after it was taken.

History variables (`opens`, `signed`, `copied`, `upsets`) are read by properties and bounds only.

### Watchdog

The book is a set of sub-accounts with an order resting; `halts` is `execution_halts` in id order,
each row with a history of the accounts an enumeration found empty since it was opened. `executor`
is the executor as far as it touches the book: beat, gate, write-ahead attempt, placement of a
bracket trigger. `wd` is the watchdog's cycle: scope, the walk over the accounts, the cancels, the
second look, the stamp, and for an incident the settling of its books. `incident` and `streak` are
what it remembers and a restart forgets. Thresholds in seconds are numbers of cycles (`BlindAfter`)
or a step of their own (`BeatAges`, which may also come while the executor lives and is only slow).
An account stands for all its venues; a scope that misses a venue is a walk marked not `complete`.

### LaneAuthority

The `lane_authority` row, the poller's tick that re-decides it, the lane's one connection, and the
lane's process starting again, which beats as it starts (`record_start`).

| Variable | In the code |
| --- | --- |
| `owner`, `reason`, `healthyFor` | the row; `healthyFor` is `now - healthy_since` |
| `tracked`, `enabled` | the poll set, `WS_AUTHORITATIVE` |
| `beatAge` | age of the lane's heartbeat row |
| `stamp` | `ws_lane_state` per wallet: no row, `resynced_at` before the row's `since`, or after it |
| `phase`, `subscribed`, `todo`, `reading`, `refreshAge` | the locals of `run_connection` and `_refresh_subscriptions` |

`EvaluateAuthority` is one transaction. A refresh is `BeginRefresh` (forget), `ListWanted`, then
`ReadState` with one of its outcomes per wallet, then `EndRefresh`; a drop, a change of the poll set
or of the owner may come between any two of them. Ages are capped where no comparison tells them
apart. `eraAge` and `worst` are history: how long the owner has stood, and the oldest the beat has
been in the present run of health.

### PositionLanes

One wallet, one coin, one Leader. A position is a signed size, so `Kind` is the whole of
`diff_positions` with its significance threshold; the rows of `position_events` are kept as the age
of the youngest one per direction, which is all that `_websocket_rows` reads. The websocket lane has
its memory (`known`, `wsAnchor`, `held`), the poll pass its own (`anchor`, `pollAge`, `pending`,
`doubtAge`, `joinAge`). `pc` is where the position loop stands: the tick's decision, the REST read,
the judgement of `_apply_poll` and `_reconcile`, and, a step of its own, the transfer of an
escalation, because the websocket may commit until the row is locked `FOR UPDATE`.

What LaneAuthority has in full is two disjuncts of `Tick` here: a heartbeat found stale at some
tick, and a handback once the window has passed and the lane has resynced. The unit of time is the
loop's tick. A read of the lane ends within a tick, a push is read when it is sent, and the
coalescing window is shorter than a tick. `told` is the position the consumers of authoritative
events know of: an event moves it, except a scale on a side of which they hold nothing, which they
skip (`Informed`: the executor's `_no_local_position`, and a bot with no message to edit). `heard`
is what they knew when the read of a pass went out; `unread` and `leaks` are history.

### Provisioning

| Variable | In the code |
| --- | --- |
| `row`, `pending`, `cap` | `copy_subs`, `copy_pending`, the stake caps of `risk_limits` |
| `minted`, `balance`, `holding` | what the exchange knows of sub-accounts |
| `snap`, `left`, `cur`, `got`, `topup` | the locals of `_provision` and its helpers |

The pass works from the rows its cycle began with. Every exchange call (create, list, rename, read
the gap, transfer) and every row it writes afterwards is a step; before each signature comes the
halt gate the code has there. Replies may be lost or refused, a read may fail, the process may die,
and the bot writes `copy_subs` in between. Dollars are small integers.

### LossBudget

One mapping from arming to disable. `row` is the row of `copy_subs`, `snap` the row the cycle judges
(`_judge_budget` updates its own copy as it goes), `seen` the state it read. `okIn` and `lostIn` are
the transfers since arming by whether their answer came back: `deposits_since` sums the first only.
The operator's `/copy` and `/uncopy`, the market, the halt and crashes may come at any await. Before
a disable the recorded triggers are cancelled: the call may raise, or be answered, and an answer
ends the wait whatever it says of each order. `spared` remembers that the last one refused.

### Brackets

One episode of a bracket-mode sub-account. `book` is the exchange's, `mine` is
`copy_bracket_orders`; placements are numbered because each sends fresh orders. `why` is what really
took the position and `reason` what the books say. The slow check of `_maintain_brackets` runs when
`due`; the classification of `_classify_vanished` reads the book and the fills before it writes.

### OrderLane

The websocket lane of one Trader, its supervisor included. `memory` and `baselined` are the tables a
resync and the frames write; `placed` and `ended` count rows of `order_events`. The read of the
resting book and the subscription are two steps with the market in between, and a dropped connection
takes its unread frames along. A frame is a list of updates, each weighed against the memory as it
was before the frame. A modify is a cancel and a new id.

### Alerts

The rows of the queue, the drain of `deliver_once` as a step per await (fetch the batch, take its
oldest row, find the anchor, send or edit, save the message id, stamp), and the chat as Telegram
holds it, so that an edit that was refused, a message that was deleted and a restart between send
and stamp are all visible. A send or an edit may be accepted and its answer lost: to the drain that
is a transient failure like any other (`unheard` counts such sends of an open or a close). `sends`
counts the messages of a row, the one included that a scale sends by itself to a follower who holds
the coin.

### DeadMan

The switch (`left`, `wait`, `state`), the exchange's own copy of the schedule (`real`), and the
watchdog's pulse: the refill of both legs, priority pushes near the horizon, the throttle, the push
on its budget (`spent`), the beat that follows it on another (`beaten`), then a step of the sweep.
What the code bounds is bounded (a push by `Ceiling`, a beat by `BeatCeiling`); a stretch without a
pulse and the loop's own call may take any time, because the wait for the shared budget has no
ceiling. `overran` is a history of that: since the schedule was set, something outlasted a step. The
code states its guarantee under the condition that nothing did (`safety/watchdog.py:440`), and so
does `NoSilentLapse`; a beat is inside the guarantee, since it only comes where a push was just made
or is not due. Durations are in proportion to the constants of the code (300 s of horizon, 30 s of
push, 20 s of beat, 45 s of refill, 65 s of step).

### RateBudget

The one row of `rate_budget` with lanes that ask, are granted, and bill surcharges afterwards. A
transaction reads its clock before it has the row's lock: `asks[l].at` is that instant, which may be
`MaxLag` behind when the row is written. `mark` is an arbitrary instant chosen on the way and
`since` what has been sent from it on, so an invariant about the two speaks of every window.

### KeyCustody

| Variable | In the code |
| --- | --- |
| `keys` | `agent_keys` of one user, tombstones included |
| `kek`, `loaded` | the KEK file, and the KEK the process loaded |
| `cache` | the watchdog's key cache; `agent` is its header, `key` what its blob opens to |
| `phase`, `launched`, `due` | where `open_startup` or the reconnect stands, and its sleep or ceiling |
| `signer`, `record`, `told` | the two reads of the keystore, and the reconnect's audit event |
| `stamp` | `process_heartbeats.started_at` |

The start reads the signer and then the record, the reconnect the other way round; the operator may
rotate the lane between the two, and the cache refuses the pair that does not match. Sealing is what
opens with what, never bytes. A probe takes up to `Probe`, its connection's and its query's timeouts
together. `StartIsDecided` bounds a start by the grace, two intervals and a probe: the last sleep
may begin just inside the grace, its probe takes its time, and the attempt after it has an interval
of its own. The documents' single interval does not hold even where a probe takes no time
(`cold_start_late`, section 6).

### SignedCall

One call at a time of a gateway on any of the three lanes: attempt row, budget, nonce, POST, the
retries of a 429 with the same payload, outcome row, and the word the caller gets. A signed request
stays on `wire` until the exchange processes or drops it, whatever was answered; `used` are the
nonces it has consumed. Postgres goes and comes, and a crash forgets the last nonce. Every answer of
the code has a step of its own: understood, lost, never connected, limited, and a 200 whose body is
not JSON (`Garbled`), which raises outside the gateway's hierarchy and is filed as an error
(section 6).

### TradeStore

One Trader, one coin. `fills` is what happened, an incremental `pull` reads the two endpoints one
after the other up to a horizon, and `_store_fine_refresh` folds the batch in one transaction. A
response is a set of fills and the merge puts two of them in order (`Before`). The walk of
`metrics/fine.py` is a recursive function over the places of the batch. A trip's money is the *set*
of its closing fills, its entry price the set of its opening ones, so two trips are equal exactly
when they were made of the same executions. An endpoint serves a page of `Cap` executions and nobody
asks for the rest; the full history comes newest first, of an overflowing window either end may be
served (`kept`). `seen` and `cut` are histories of what stored pulls held and of what a page kept
from them. `Tied` says of a history that both endpoints have fills of one millisecond, which the
merge orders by a guess.

### Monitor

Both cadences, the ceilings, the alerting state machine, for any one check: the watchdog's in full,
of the others the severities they can have. The unit of time is the fast tick, a hang lasts one
tick, ages stop where nothing compares them. A message Telegram refuses is gone. The daily digest is
a message only; that it is sent with the database down, and lost when its send fails, is noted in
the module and not a property.

### MCMappings, MCNews, MCExchange

These put modules side by side that share no step. One *part* is chosen initially and runs, the
others stand where they began, so one run checks them all and each property is about its own part.
MCMappings lets its parts share the executor's place, the halt and the bounds, and states the
fairness of the part that runs. MCKeyCustody is KeyCustody by itself, for the run that ends in a
counterexample. Interaction in earnest is inside the modules (bot, executor, exchange, halt and
watchdog in Provisioning, Brackets and Watchdog).

## 4 What the runs check

Passing:

| Run | Shows |
| --- | --- |
| `copy_races` | two instances, two events, a crash or a lost reply, halts: `HandledInOrder`, `AtMostOneEntryOrder`, `OneSignatureOutlivesHalt`, `FlipOpensOnlyWhenOut`, and that the executor implements `CopyPromise` |
| `copy_drains` | one instance, two events, two of crash, trade by hand, unreadable read, and halts, fair loop: `DoneExitEndsEpisode`, `NeverDoubles`, `BacklogDrains` |
| `watchdog_cycles` | two sub-accounts, two halts, two faults of any kind, fair loops: `SweptWasSeenEmpty`, `OneStrayAtMost`, `HaltIsSwept`, `OutageEmptiesBook`, `StallEmptiesBook` |
| `lanes_owned` | two wallets where one IP may stream one, two upsets: `FailoverBounded`, `HandbackEarned`, `HealthyLaneRegains` |
| `mappings` | two Leaders and two sub-accounts, two edits (one of a Loss Budget), one fault (two for the brackets): `SubsAreKept`, `BooksAreTrue`, `WindDownHolds`, `MappingsSettle` |
| `news` | a Trader's two orders of two sizes with a fault of the feed; three alerts, two faults and a restart: `NewsIsToldOnce`, `NewsSettles` |
| `exchange` | one switch, two lanes on the bucket, two calls, two addresses of both lanes and a start, three fills, one check, each under its own faults: `SwitchHolds`, `SpendIsBounded`, `ColdStartIsSound`, `WriteIsHonest`, `RecordIsTrue`, `FailureIsTold`, `PagesArePaced` |
| `lanes_tell` | two moves of a Leader among four sizes, one upset, a lane that knows the wallet or is joining: `StrandedIsTold`, `PollOpensOnce`, `SideIsTold`, `DoubtSettles` |

The four other runs end in a counterexample (section 6). Properties of a composition are
conjunctions of those of its modules, each named and explained there: `SubsAreKept` of
`OneLeaderPerSub`, `NoSlotWasted`, `NeverStacked`, `OneSignatureUnderHalt`; `BooksAreTrue` of
`EditWins`, `ToldOnce`, `LiquidationNotByHand`; `WindDownHolds` of `BreachBinds`,
`DisableFollowsCancel`; `MappingsSettle` of `PendingSettles`, `WindsDown`, `StopReturns`;
`NewsIsToldOnce` of `OrderToldOnce`, `TrailIsItsOwn`, `SentOnce`; `NewsSettles` of
`MemoryConverges`, `QueueDrains`; `SwitchHolds` of `DeadlineIsConservative`, `NoSilentLapse`;
`ColdStartIsSound` of `CacheOpens`, `OwnAuthority`, `StartIsDecided`, `StampIsLaunch`,
`TrailKnowsKey`; `WriteIsHonest` of `AtMostOnce`, `CleanMeansNothing`, `TrailOwnsUp`,
`CancelGetsOut`, `CallIsBounded`; `RecordIsTrue` of `TripsAreReal`, `NothingSkipped`, `FoldIsWhole`.

Two faults are left out on purpose: an unreadable read breaks `HandledInOrder`, so `copy_races` has
none, and a lost reply breaks `NeverDoubles`, so `copy_drains` has none; each runs with the other.
And `DoneExitEndsEpisode` and `NeverDoubles` speak of the one executor the deployment runs; with a
second beside it both have counterexamples (section 6).

**Bounds.** Two events are the least that can be out of order, close what the other opened, or
double it. Two instances
are enough for a race on one primary key, and instances share nothing but the rows and the exchange.
Sizes up to 2 distinguish partial from full fills and a scale-out from a close; two exit tries
distinguish the first from the last. One crash can fall at any of the steps, and after it the
instance is in a state a second crash could only repeat. In Watchdog two halts are the least with
one lifted in mid-sweep, two sub-accounts the least where one can be passed while the other is read,
and two faults cover an outage together with a restart, or a failed cancel with a failed verify.
`BlindAfter = 1` gives both outcomes of the threshold. Instances are symmetric in `copy_races` (no
property or action names one), addresses in `exchange`; runs with liveness use no symmetry.

In LaneAuthority `Cap = 1` lets the poll set outgrow the lane with two wallets, a window of two
units can be interrupted in the middle, and `TickGap = 1` lets a beat go stale between two looks. In
PositionLanes the sizes 4 and 5 are a significant growth one way and no event the other way back; -4
makes flips; by the symmetry of sides the wallet starts flat or long. A standby interval of two
ticks is the least at which a hold comes late, `JoinGrace` of two the least that outlasts one look,
and `Horizon` seven is longer than any window that opens: `HorizonAssumption` asks for a joining
grace, a standby interval for the pass, one for each upset, and a tick, and `TypeOK` says that the
windows stay within it (the mutant that breaks it is a doubt held for ever). Two moves are a change
and the one that undoes or overtakes it; one upset is one stale heartbeat, drop, failed read,
restart or unknown wallet. `LeaderMoves` stops once a change is told by nobody, so that each
behaviour speaks of its first loss.

In Provisioning two Leaders and two slots are the least at which one can get the other's; two edits
are a /copy and the one that changes it in mid-pass. In LossBudget an allocation of 5 against
budgets of 4 and 5 gives every order of warning and breach, and the one edit moves the number a
cycle is judging by. In Brackets four placements outlast two faults. In OrderLane two ids let a
modify happen; one fault is a drop, a refusal or a failed read, and the connection's bound must
repair the rest. In Alerts three rows are an open, a scale and a boundary, or two positions and a
scale between them. In DeadMan the horizon of 12 is two windows and a beat on either side, and
durations are nothing, a beat's ceiling, a push's, a step's, and one longer than a step. RateBudget
runs two lanes for four ticks with a bucket of three small calls, so floors, debt and gate all bind.
In KeyCustody two addresses allow one rotation, a grace of one interval has an attempt inside it and
one after the last sleep, a key of two ticks expires during a start, a probe takes a tick or none,
and two upsets are a crash and the outage that the cached key then meets. SignedCall makes two
calls, the second after a crash, on a clock that may step back. TradeStore's three fills are a trip
and a hole in it, or a trip and a flip; four milliseconds give a seed two pulls after it, and a page
of one overflows in the seed and in a window. In Monitor the reminder is longer than a cycle and
both longer than staleness.

**Fairness.** `execute/main.py` and `safety/main.py` loop for ever, catch what a cycle raises, and
are restarted by their containers: `WF` of an instance's steps, of the watchdog's steps (its start
included) and of the executor's. Time passes: `WF` of the ageing steps. In LaneAuthority the
poller's tick, the clock, each step of the lane's task, and a feed that goes on delivering while it
is read (`SF` of `Beat`, since drops may come in between, and of `PushBaselines`: Hyperliquid
re-sends a wallet's state every few seconds). In PositionLanes the steps of the position loop, and
that a resync once out is answered; the feed itself may stay silent for ever, and no read need ever
begin. In MCMappings the executor's cycle, whichever part it is of, and the passing of the bracket
interval; in MCNews the supervisor and the lane with the ageing of a connection, and the drain: all
of them loops that catch what a cycle raises. MCExchange has no liveness: its promises are bounds (a
reminder, a ceiling, a grace). Nothing is assumed of Postgres coming back, of the operator, or of
the dead executor being started; faults are bounded by `MaxUpsets`, so a liveness property speaks of
what happens once they stop. Fairness is on the disjunction of steps, never on a chosen outcome: no
property relies on an order filling.

## 5 What is proved

`CopyExecutorProofs`, for every set of instances, number of events, size,
number of retries and choice of faults:

- `TypeCorrect`: `Spec => []TypeOK`. Inductive with `TInv`, which adds `JobOK`: the leg in hand
  belongs to its event's kind, nothing is filled before the claim, and an exit on its way to the
  wire remembers a live episode.
- `AtMostOneEntryOrderHolds`. "At most one" is not inductive: `EntryInv` adds that the instance at
  work past a claim owns the event, that an event is entered only after it was claimed, and that an
  entry not yet signed has signed nothing, so the second leg of a flip and a crash in front of the
  wire are covered.
- `OneSignatureOutlivesHaltHolds`, by `HaltInv`: an instance that has signed once in the present
  halt is at no place from which it reaches the wire without passing a gate.
- `PromiseKeptHolds`: the refinement of `CopyPromise`; each step takes an event, enters one, or
  stutters.
- `HandledInOrderHolds`, under `"unreadable" \notin Faults` and for any number of instances, by
  `OrderInv`: whatever an instance is about to claim, all that is older is claimed or was before it
  in its backlog.
- `FlipOpensOnlyWhenOutHolds`, by `FlipInv`: the open leg of a flip is judged by the working copy
  its close leg left, so from that leg's claim on the copy is followed through what the order took,
  and where it shows nothing the close is out or found nothing.
- `DoneExitEndsEpisodeHolds`, for `Instance = {i}`, by `SeenStands`: from the judgement of an exit
  to its books the live row is the one it saw, because nobody else writes books.
- `NeverDoublesHolds`, for `Instance = {i}` and `"lost" \notin Faults`, by `FillsInv`. The property
  speaks of the moment of an order, and the working copy was read long before; what has to be
  carried through the cycle is that the copy accounts for every fill of our own still held
  (`Accounted`: less what an exit in hand has taken, plus what an entry in hand has got and not yet
  booked). Trades by hand may come at any step, and only ever lower what is ours.

Beyond these three hypotheses the only assumptions are those the modules name for their constants.

`WatchdogProofs`, for every set of sub-accounts, threshold and number of halts and faults:
`WatchdogTypeCorrect`, `SweptWasSeenEmptyHolds` (by `WalkInv`: whatever of a complete scope is no
longer to be read was found with an order, or empty since the halt the walk works for) and
`OneStrayAtMostHolds` (by `StrayInv`: while a halt stands, an account once seen empty under it rests
an order only if the one bracket that was past its gate landed there, and then none is on its way).

`LaneAuthorityProofs`, for every finite set of wallets and all thresholds with the stale one below
the recovery window: `LaneTypeCorrect`, `FailoverBoundedHolds`, `HandbackEarnedHolds`. The invariant
is `LaneInv`: the types, `WatchedInv` (under the websocket's ownership the beat was fresh at the
last tick, so its age is bounded by the time since) and `RunInv` (a run of health is no older than
the era of the owner, and the worst beat in it is bounded by what a tick still found fresh). Without
`RunInv` the handback's age test says nothing of when the run began.

`MappingsProofs`, for every set of Leaders, finite set of slots, budgets, allocations and bounds, by
`MappingsInv`: the part that runs keeps its own invariant, the others stand at rest.

- `SubsStayKept`, by `PInv`. That no two Leaders share a slot, none is minted twice and no
  allocation is stacked depends on what the pass knows between two awaits: the slot just minted or
  adopted is on the exchange and in no row until recorded (`Unclaimed`; counting slots against rows
  is what `NoSlotWasted` needs), only the pass writes addresses, so those of the snapshot still
  stand for the Leaders it has not visited (`AddressesStand`), and the transfer asked for still fits
  (`TransferFits`) though the bot may have edited the row since.
- `BooksStayTrue` and `WindDownAlwaysHolds`, by `LInv` and `BInv`: a mark of the row is one the
  cycle has read or written itself (`MarksRead`), a notice told has left its mark
  (`MarkedOnceTold`), a cycle on its way to the disable is flat and leaves a trigger only
  where its cancel was refused (`NothingLeft`), a position found gone stays gone (`Vanished`).
- `MappingsTypes`.

`PositionLanesProofs`, for every set of sizes with 0 among them, threshold of significance, window,
cadence, grace and number of upsets, by `LanesInv`. `LanesTypeCorrect` is not a matter of types
alone: that both windows stay within the horizon needs `LooksRecent` and `DoubtsRecent`, which bound
the age of a look by the pass still due and by what the upsets so far can have cost, at each place
of the loop.

- `StrandedIsToldHolds`: rows of the lane count only while a look-back window reaches them, and the
  window is measured from the look of the anchor, or of the doubt, whichever the pass judges by.
  `RowsReached` says that every row written since that look is still within it, and every row
  written since the read is not a tick old.
- `PollOpensOnceHolds`: `ToldAhead` and `ToldSince`. Where the consumers hold what the anchor does
  not show, the lane told them an entry and its row vouches for the open that the pass sees,
  outside the leaks.

`NewsProofs`, for every set of orders and sizes and every number of rows, attempts, faults and
crashes, by `NewsInv`: the part that runs keeps its invariant, the other stands.

- For the order lane `LaneInv`: what the log says against the book and the memory (`ToldTrue`),
  against a view that was read and is not yet applied (`ViewTrue`), and against the frames on their
  way (`WireTrue`: a frame is news, and what ends an order is the last of it).
- For the alerts `QueueInv`: the drain works on a row that still waits (`WorkWaits`), a row was sent
  once for each restart and once more if the drain stands between its send and its stamp
  (`SendsCounted`, where a send that was accepted unheard counts like a restart), and an arrow is of
  its own position (`ArrowsTrue`).
- `NewsTypeCorrect` and `NewsIsToldOnceHolds` follow.

`TradeStoreProofs`, for every set of signed sizes with 0 among them, number of fills, length of a
page and margin longer than the skew:

- `NothingIsSkipped`, by `StoreInv`: a pull's horizon is so far behind the clock that nothing more
  executes within it, so what it read first is still what the endpoint has of that window but for
  what the page cut (`PullTrue`), and the checkpoint is the seed's or as far back
  (`NothingMissed`). The merge of two finite sets by a strict total order is shown to list each fill
  once and in time (`MergedIs`).
- `StoreTypeCorrect`, which says that no stored trip ends before it begins. The recursion that the
  walk is the solution of has one (`WalkExists`), and each step keeps the walk `Straight`.
- `RecordHolds`: `RecordIsTrue`, all three conjuncts of it, of every behaviour. That no trip is made
  up is claimed of histories in which no two sources have traded in one millisecond and no hole is
  invisible; neither antecedent can be dropped (`TiesDemote`, `NeverMadeUp`, section 6).
  `TripsAreReal` and `FoldIsWhole` compare what many refreshes folded together with one walk over
  the whole history, so the invariant `RecordInv` has to say where that walk stood: `Full(k)` is the
  walk after `k` executions, `Told(k)` the trips it has told. Executions chain (`Chained`), so the
  whole walk is never lost (`Anchored`); trips stored are told, and the open episode is the one the
  whole walk stood in after the newest stored execution, unless a hole left no trace
  (`RecordSound`); and if what was seen is the first `q` executions, all that was told of them is
  stored (`RecordWhole`).

  The argument has three parts. One, a walk over a batch `Echoes` the whole walk: it carries the
  segment of an episode begun before it, tells only trips the whole walk tells (`EchoSteps`), and
  tells each of them if the batch has no gap (`TellsSteps`); a gap in it that changes the position
  is noticed by `Demote`, and one that does not is an invisible hole. Two, the fold joins the
  segment to the stored open episode exactly when nothing lies between them (`FoldSound`,
  `FoldComplete`). Three, every batch begins after all that is stored, and its fills come in the
  order they executed (`BatchOrdered`, where ties are excluded). The two inductions over the places
  of a walk are by the least place at which the claim fails (`LeastOf`).

`ExchangeProofs`, for the modules of MCExchange:

- `SwitchAlwaysHolds`, by `SwitchInv`, under `SwitchAssumption` (the window and a beat fit in half a
  horizon, a refill covers one push, a step covers a refill and a beat: 95 + 20 s of 150, 30 of 45,
  45 + 20 of 65 in the code). While no stretch has outlasted a step, an untried schedule is so far
  from its lapse that the attempt still has its whole ceiling (`UntriedIsFar`), at each place of the
  pulse another distance. A spent budget keeps a distance of its own (`SpentFar`), so that the
  refill comes before a step can cross the window.
- `WriteIsAlwaysHonest`, by `CallInv`: all requests of a call carry the nonce of its first
  (`OneNonce`, so a retry cannot execute again), a call not yet sent has nothing on the wire
  (`SentLate`), and whoever holds a word or an outcome still to be written holds the true one
  (`WordIsDue`, `RowIsDue`). A row that says nothing executed is true but for the one answer of
  section 6; the caller of that answer is never told so.
- `FailureIsAlwaysTold` and `PagesAreAlwaysPaced`, by `MonitorInv`: as long as nobody has been told,
  the failure is younger than the way to the next look and the reminder's rest allow
  (`UntoldIsYoung`).
- `KeyTypeCorrect` and `ColdStartIsSoundHolds`, by `KeyInv`, for every set of addresses, grace,
  interval and validities: in each phase the key in hand, the record and the cache are the
  watchdog's own, revoked or not (`KeysAreOwn`: the lane of a row never changes, though an operator
  may rotate between the two reads); what is left of a probe, a sleep or a ceiling fits into the
  bound
  (`DueInTime`); the stamp precedes the rest of the reconnect (`Written`).
- `BudgetTypeCorrect` and `SpendIsBoundedHolds`, for every set of lanes, reserve, weights, burst,
  rate, lag and every pace that divides the weights (which makes the gate's division exact). The
  bound needs two more invariants: `AsksAreRecent` (no attempt is older than the lag) and
  `SentIsRemembered` (the row's last refill and its gate are no older than what was sent from the
  mark on).
- `TypesAlwaysHold`: the types of all six modules, from these invariants and `StoreTypeCorrect`.

`SwitchInv`, `CallInv`, `MonitorInv`, `RecordInv`, `LanesInv`, `NewsInv`, `EntryInv`, `FlipInv`,
`SeenStands` and `FillsInv` also hold in TLC on the configurations of section 4, with the module of
the proof as the root.

Model-checked only:

- all liveness (`BacklogDrains`, `HaltIsSwept`, `OutageEmptiesBook`, `StallEmptiesBook`,
  `HealthyLaneRegains`, `SideIsTold`, `DoubtSettles`, `MappingsSettle`, `NewsSettles`): the prover
  has no ENABLED and no fairness.

## 6 Where the code and its documents disagree

Four runs end in a counterexample, each to a sentence of the repository (quoted in `findings`):

- `copy_halted_exit`: a halt between an exit's claim and its signature spends the close; /resume
  does not bring it back, though the cycle's gate exists so that no event is claimed during a halt.
- `bracket_leg`: a stop cancelled while its take-profit rests is never put back, because the slow
  check leaves an episode alone when any recorded order of it rests; ADR-0007 calls such a cancel a
  temporary state.
- `cold_start_late`: a failure just inside the grace still sleeps a whole interval
  (`safety/coldstart.py:308`), and the attempt after it is given an interval of its own (line 288),
  so a start is decided up to two intervals past the grace; the comment at line 284 calls the floor
  "the single term by which the documented bound can be exceeded", the runbook says one poll
  interval.
- `monitor_escalation`: a watchdog that beats without probing is told as a warning (its agent key
  unverified); then it freezes, and no page follows, because the alerting machine knows failing and
  not failing, and the next message is the reminder.

These have no run of their own. A property named here stands in its module; checked under the
configuration of section 4 for that module (in a composition through a definition that instantiates
it) it gives the counterexample:

| Module | Property | What happens |
| --- | --- | --- |
| CopyExecutor | `HandledInOrder` with `"unreadable"` among the faults | a deferred open is overtaken by younger events of its coin, against ADR-0006's "consumers process in id order"; if the Leader closes meanwhile, the close is handled first, as a skip, and the open after it |
| CopyExecutor | `NeverDoubles` with `"lost"` | an entry that executed with its reply lost is not re-read before the rest of the backlog is drained, so a close and an open behind it are judged as if nothing were held |
| Watchdog | `StrayIsCleaned` | a bracket that passed its gate before the halt and landed after the walk rests under a swept halt, and no step removes it while the halt stands; `OneStrayAtMost` bounds the damage |
| LaneAuthority | `HandbackCovers` | `resynced_at` is stamped before the subscribe is sent and outlives a dropped connection, so production can be handed to a lane not subscribed to a wallet of the poll set |
| PositionLanes | `HeldNeverLost` | the change of a new wallet that the poller holds while the lane is joining is baselined away by the lane's first observation and settled as benign |
| Provisioning | `FundedAsAsked` | `mark_funded` (`execute/subs.py:393`) stamps by the mapping's id alone: a /copy that raised the allocation while the transfer was in flight counts as funded at the old one |
| LossBudget | `LossNotHidden` | a funding whose answer was lost is left out of `deposits_since` (`execute/subs.py:541`); it raises the equity and so hides that much loss, the direction its comment excludes |
| LossBudget | `DisableClearsBook` | `_cancel_stray_brackets` drops the result of each order (`execute/executor.py:1176`), so a cancel the exchange refuses counts as done and the mapping is disabled over the trigger, which nothing looks at from then on; the docstring at line 1071 has a failure anywhere leave the sub enabled |
| Brackets | `LiquidationPages` | the exchange removes the triggers with the position, so `_classify_vanished` finds none resting and files a liquidation as a bracket exit before it reads the fills; nobody is paged, against `src/docs/adr/0007-a4-copy-execution-semantics.md:239` |
| Alerts | `OneArrowPerScale` | the arrow is stored before the edit is tried, so a transient failure, also of an edit Telegram had accepted, leaves one more at each try; `bot/outbox.py` says a pause leaves the row untouched |
| Alerts | `LineIsShown` | the line is stored before the edit is tried; after a transient failure the retry finds it unchanged and stamps the row, and the edit is never made |
| TradeStore | `NeverMadeUp` | a hole that leaves the position where it found it is invisible to the walk (`InvisibleHole`), against the docstring "missed executions never earn a reconstructed trade" |
| TradeStore | `TiesDemote` | the Trader opens by a plain fill, closes by a slice and opens again by a plain fill, all in one millisecond; the merge puts the slice last, the walk demotes the first episode but tracks again from the misplaced second open, and the slice closes a trip that never was, against `_merge_execution_order`'s docstring (`gateway/http.py:320`), by which the guard "demotes the affected episode rather than let it corrupt the round-trip metrics". In the same way a trip opened by a slice and closed by a plain fill of that millisecond is lost, which the docstring allows |
| TradeStore | `NoWindowOverflows` | more executions on one endpoint since the checkpoint than it serves at once: the rest lies below the new checkpoint and is skipped for good. `gateway/__init__.py:508` asks its callers to checkpoint "far enough that a window never overflows", and `ingest/fine.py` does nothing to see to it |
| DeadMan | `LapseIsTried` | an attempt of the loop or the wait for the shared budget lasts longer than a step, and the schedule lapses with no attempt that had its ceiling ahead; `safety/watchdog.py:480` says so of the wait |

Two properties of the copy executor hold for one executor, which is what `docker-compose.yml` runs,
and have counterexamples with a second instance beside it, though the claim keeps every event from
being entered twice. `NeverDoubles`: one judges an open by the working copy it read before the
other's entry filled. `DoneExitEndsEpisode` with three events: between an exit's fill and its books
the other instance reconciles that episode away and books a younger open, so the exit is done and an
episode lives, though not the one it saw.

Without a property: a 200 of `/exchange` whose body is not JSON raises out of `_post`
(`gateway/execution_http.py:332`), none of the clauses below it catches the error, and
`classify_failure` files it as `error`, which by `safety/audit.py:15` means that nothing reached the
exchange; the docstrings at `gateway/execution_http.py:309` and `gateway/execution.py:252` count a
200 that cannot be parsed as ambiguous. `TrailOwnsUp` and `RowIsDue` name that row as the exception
(`Garbled`, `Believable`). The reconnect's audit event says `signer_matches_keystore` also when the
cache could not be refreshed or the lane's key was revoked with no successor
(`safety/coldstart.py:535`), though `safety/keycache.py:38` says it tells loudly of an older key
(`TrailKnowsKey` is about refreshes that went through for that reason); `signer() above proved it`
(`safety/coldstart.py:418`) is not so when the lane is revoked between the two reads, which sends
the start round its loop once more; a start whose two reads straddle a rotation runs with the older
key, its cache as it was, and nothing says so. A second incident inside one failing spell (another
halt, another copy page, disk or agent key going from warning to critical) is not paged for the
reason `monitor_escalation` shows.

PositionLanes reaches four more ways in which a change is told by nobody; its history variable
`leaks` marks them and `SideIsTold` and `PollOpensOnce` speak of the other behaviours:

- `vouch`: the websocket's rows of another change of the same direction vouch for the one the pass
  sees. ADR-0009 documents it.
- `unseen`: the lane told an open and went deaf; production moves to the poller, whose anchor never
  saw that open, and the Leader closes before the poller's next look, so its diff is empty.
- `benign`: the poller told an open in its own era; the lane, which never heard of it, re-anchors
  after the close and gets production back; to the pass the close looks like one the lane judged to
  be no event.

- `skipped`: the Leader closes and opens again across a failover. The lane tells the close and not
  the open, the poller, whose anchor still shows the old position, sees a scale, and consumers who
  hold nothing skip a scale.

One more is a double: a flip told by the websocket is told again by the poller if production moves
while the lane still owes a later entry on the coin, because a flip's vouch asks for both.
`PollOpensOnce` is about opens for that reason.

## 7 What is not modelled

- **Statistics, screener, presets, formatting** (`metrics/*` but for `fine.py`, `bot/criteria.py`,
  most of `bot/handlers.py`): functions of what they are given, or single statements with their
  texts. Nothing interleaves in them.
- **Migrations and connection pools** (`db.py`, `safety/db.py`): the runner is one advisory lock
  around a list of files. That an unbounded migration cannot hang the watchdog's start is in
  KeyCustody (`Abandon`).
- **The REST order poll** (`stream/orders.py`): it shares diff and thresholds with OrderLane, on
  tables of its own. The grouping of legs into one message and the retreat from a refusing server
  are left out too.
- **The ingest's due queue and coarse scan**: `mark_due_now` races the stamp of an attempt;
  TradeStore has the refresh itself.
- **The sizing policy and withdrawals**: prices, leverage caps and rounding appear as the freedom to
  skip.
- **The rate budget's meter and event log**, and the in-memory bucket behind the fallback (that the
  fallback is chosen is in SignedCall).
- **The capability probe** of the watchdog (the health monitor's reading of it is in Monitor).
- **Cryptography, file permissions, Telegram, the exchange's matching**: environments that open or
  refuse, accept or lose, execute or reject.

A Postgres transaction is one step throughout. A lock that makes a later transaction wait is
modelled where the code reads its clock or its state before it (RateBudget, PositionLanes).
