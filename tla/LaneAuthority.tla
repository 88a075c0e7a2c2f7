---------------------------- MODULE LaneAuthority ----------------------------
(***************************************************************************)
(* Who produces position events: the lane_authority row, the poller's tick   *)
(* that re-decides it from the websocket lane's heartbeat, and the life of   *)
(* the lane's connection: refreshes of the subscription set, resyncs over    *)
(* REST and the stamps a handback waits for.                                 *)
(*                                                                         *)
(* Time passes in Elapse; the three ages stop counting where no guard tells  *)
(* them apart.  `since` of the row is kept as what is compared with it: a    *)
(* stamp is older than the last transfer or it is not.                       *)
(***************************************************************************)
EXTENDS Integers, FiniteSets

CONSTANTS
  Wallets,
  Cap,           \* MAX_SUBSCRIBED_TRADERS
  StaleAfter,    \* WS_HEARTBEAT_STALE_SECONDS
  RecoverAfter,  \* WS_RECOVERY_SECONDS
  TickGap,       \* the longest time between two evaluations
  RefreshAfter,  \* TRACKED_REFRESH_SECONDS
  MaxUpsets      \* bound: drops, failed resyncs, drifts, switches, follows

ASSUME WalletsAssumption == IsFiniteSet(Wallets) /\ Cap \in Nat
ASSUME TimesAssumption ==
  /\ StaleAfter \in Nat /\ RecoverAfter \in Nat /\ TickGap \in Nat \ {0} /\ RefreshAfter \in Nat
  /\ StaleAfter < RecoverAfter
ASSUME UpsetsAssumption == MaxUpsets \in Nat

NoWallet == "none"
ASSUME NoWalletAssumption == NoWallet \notin Wallets
NotHealthy == -1

Reason == {"pre-cutover", "stale", "outgrown", "disabled", "drift", "covered"}

\* ws_lane_state.resynced_at: no row, before the last transfer, or since it.
Stamp == {"none", "old", "since"}

\* A connection is down, owes its refresh, forgot the unwatched, works through
\* the wallets to resync, or reads the socket.
Phase == {"down", "starting", "listing", "resyncing", "streaming"}

VARIABLES
  owner, reason, healthyFor,   \* the row; healthyFor is now - healthy_since
  enabled,                     \* WS_AUTHORITATIVE
  tracked,                     \* the poll set
  beatAge,                     \* age of the lane's heartbeat
  tickAge,                     \* time since the last evaluation
  stamp,                       \* ws_lane_state
  phase, subscribed, todo,     \* the connection
  reading,                     \* the wallet a REST read is out for
  refreshAge,                  \* time since the last refresh ended
  eraAge, worst,               \* history: age of the ownership, and the oldest
                               \* the beat has been in this probation
  upsets

row == <<owner, reason, healthyFor>>
lane == <<stamp, phase, subscribed, todo, reading, refreshAge>>
history == <<eraAge, worst>>
vars == <<row, enabled, tracked, beatAge, tickAge, lane, history, upsets>>

MaxOf(a, b) == IF a >= b THEN a ELSE b
Capped(n, cap) == IF n > cap THEN cap ELSE n
Oldest == StaleAfter + TickGap + 1

Upset == upsets < MaxUpsets /\ upsets' = upsets + 1

\* Migration 0037 seeds the row; the lane has never connected or beaten.
Init ==
  /\ owner = "poll" /\ reason = "pre-cutover" /\ healthyFor = NotHealthy
  /\ enabled = TRUE /\ tracked \in SUBSET Wallets
  /\ beatAge = Oldest /\ tickAge = 0
  /\ stamp = [w \in Wallets |-> "none"]
  /\ phase = "down" /\ subscribed = {} /\ todo = {} /\ reading = NoWallet
  /\ refreshAge = 0
  /\ eraAge = 0 /\ worst = 0
  /\ upsets = 0
-----------------------------------------------------------------------------
(* The row. *)

Fresh == beatAge <= StaleAfter
Outgrown == Cardinality(tracked) > Cap
Blocked == Outgrown \/ \E w \in tracked : stamp[w] # "since"

\* Mutant: the columns of the row are written in the wrong order.
TakeOwnershipSwapped(to, why) ==
  /\ owner' = why /\ reason' = to /\ healthyFor' = NotHealthy
  /\ stamp' = [w \in Wallets |-> IF stamp[w] = "none" THEN "none" ELSE "old"]
  /\ eraAge' = 0
  /\ UNCHANGED worst

\* A transfer moves `since` to now, so no stamp is since it any more.
TakeOwnership(to, why) ==
  /\ owner' = to /\ reason' = why /\ healthyFor' = NotHealthy
  /\ stamp' = [w \in Wallets |-> IF stamp[w] = "none" THEN "none" ELSE "old"]
  /\ eraAge' = 0
  /\ UNCHANGED worst

\* Mutant: a stale heartbeat does not end the run of health.
ProbationSurvives(h) ==
  /\ healthyFor' = IF h = NotHealthy THEN healthyFor ELSE h
  /\ worst' = IF healthyFor = NotHealthy THEN beatAge ELSE worst
  /\ UNCHANGED <<owner, reason, stamp, eraAge>>

\* The row keeps its owner; the run of health starts, goes on or ends.
Probation(h) ==
  /\ healthyFor' = h
  /\ worst' = IF healthyFor = NotHealthy THEN beatAge ELSE worst
  /\ UNCHANGED <<owner, reason, stamp, eraAge>>

EvaluateDisabled ==
  /\ ~enabled
  /\ IF owner = "ws" \/ reason # "disabled" THEN TakeOwnership("poll", "disabled")
     ELSE Probation(NotHealthy)

\* Mutant: staleness is only looked for when production is asked back.
EvaluateOwningTrusts ==
  /\ enabled /\ owner = "ws"
  /\ IF Outgrown THEN TakeOwnership("poll", "outgrown")
     ELSE UNCHANGED <<row, stamp, history>>

EvaluateOwning ==
  /\ enabled /\ owner = "ws"
  /\ IF ~Fresh THEN TakeOwnership("poll", "stale")
     ELSE IF Outgrown THEN TakeOwnership("poll", "outgrown")
     ELSE UNCHANGED <<row, stamp, history>>

HealthSoFar == MaxOf(healthyFor, 0)

EvaluateHandback ==
  /\ enabled /\ owner = "poll"
  /\ IF ~Fresh THEN Probation(NotHealthy)
     ELSE IF HealthSoFar < RecoverAfter \/ Blocked THEN Probation(HealthSoFar)
     ELSE TakeOwnership("ws", "covered")

\* The top of every position cycle, one transaction.
EvaluateAuthority ==
  /\ EvaluateDisabled \/ EvaluateOwning \/ EvaluateHandback
  /\ tickAge' = 0
  /\ UNCHANGED <<enabled, tracked, beatAge, phase, subscribed, todo, reading, refreshAge, upsets>>

\* A pass confirms drift and takes production back inside its own transaction.
ReconcileTakes ==
  /\ owner = "ws" /\ Upset
  /\ TakeOwnership("poll", "drift")
  /\ UNCHANGED <<enabled, tracked, beatAge, tickAge, phase, subscribed, todo, reading, refreshAge>>
-----------------------------------------------------------------------------
(* The world. *)

Elapse ==
  /\ tickAge < TickGap
  /\ phase = "streaming" => refreshAge < RefreshAfter
  /\ refreshAge' = IF phase = "streaming" THEN refreshAge + 1 ELSE 0
  /\ tickAge' = tickAge + 1
  /\ beatAge' = Capped(beatAge + 1, Oldest)
  /\ healthyFor' = IF healthyFor = NotHealthy THEN NotHealthy
                   ELSE Capped(healthyFor + 1, RecoverAfter)
  /\ eraAge' = Capped(eraAge + 1, RecoverAfter)
  /\ worst' = IF healthyFor = NotHealthy THEN 0 ELSE MaxOf(worst, beatAge')
  /\ UNCHANGED <<owner, reason, enabled, tracked, stamp, phase, subscribed, todo, reading, upsets>>

\* A follow, an unfollow, a linked wallet.
PollSetChanges ==
  /\ Upset
  /\ \E w \in Wallets : tracked' = IF w \in tracked THEN tracked \ {w} ELSE tracked \cup {w}
  /\ UNCHANGED <<row, enabled, beatAge, tickAge, lane, history>>

\* The operator restarts the stream process with the switch thrown.
Switch ==
  /\ Upset
  /\ enabled' = ~enabled
  /\ UNCHANGED <<row, tracked, beatAge, tickAge, lane, history>>
-----------------------------------------------------------------------------
(* The lane: one task, so it does not read the socket while it resyncs. *)

LaneUnchanged == UNCHANGED <<row, enabled, tracked, tickAge, eraAge, worst>>

\* A lane's process that starts stamps its launch, and the heartbeat with it.
Start ==
  /\ phase = "down" /\ beatAge > 0 /\ beatAge' = 0
  /\ LaneUnchanged /\ UNCHANGED <<lane, upsets>>

Connect ==
  /\ phase = "down" /\ phase' = "starting"
  /\ LaneUnchanged /\ UNCHANGED <<beatAge, stamp, subscribed, todo, reading, refreshAge, upsets>>

\* Closed, silent for too long, or an exception: the next one starts empty.
Drop ==
  /\ phase # "down" /\ Upset
  /\ phase' = "down" /\ subscribed' = {} /\ todo' = {} /\ reading' = NoWallet /\ refreshAge' = 0
  /\ LaneUnchanged /\ UNCHANGED <<beatAge, stamp>>

\* forget_unwatched, in a transaction of its own.
BeginRefresh ==
  /\ phase = "starting" \/ (phase = "streaming" /\ refreshAge = RefreshAfter)
  /\ phase' = "listing" /\ refreshAge' = 0
  /\ stamp' = [w \in Wallets |-> IF w \in tracked THEN stamp[w] ELSE "none"]
  /\ LaneUnchanged /\ UNCHANGED <<beatAge, subscribed, todo, reading, upsets>>

\* Mutant: a lane that lost production trusts what it has subscribed.
NoStaleAnchors == {w \in tracked : owner = "poll" /\ stamp[w] = "old" /\ w \notin subscribed}

StaleAnchors == {w \in tracked : owner = "poll" /\ stamp[w] = "old"}

\* The poll set, cut to what one IP may stream; unsubscribes may be deferred.
ListWanted ==
  /\ phase = "listing" /\ phase' = "resyncing"
  /\ \E wanted \in SUBSET tracked : \E deferred \in SUBSET (subscribed \ wanted) :
       /\ Cardinality(wanted) = Capped(Cardinality(tracked), Cap)
       /\ subscribed' = (subscribed \cap wanted) \cup deferred
       /\ todo' = {w \in wanted : w \notin subscribed \/ w \in StaleAnchors}
  /\ LaneUnchanged /\ UNCHANGED <<beatAge, stamp, reading, refreshAge, upsets>>

ReadState ==
  /\ phase = "resyncing" /\ reading = NoWallet
  /\ \E w \in todo : reading' = w
  /\ LaneUnchanged /\ UNCHANGED <<beatAge, stamp, phase, subscribed, todo, refreshAge, upsets>>

\* The observation is applied and stamped, then the wallet is subscribed.
Resync ==
  /\ reading # NoWallet
  /\ stamp' = [stamp EXCEPT ![reading] = "since"]
  /\ subscribed' = subscribed \cup {reading}
  /\ todo' = todo \ {reading} /\ reading' = NoWallet
  /\ LaneUnchanged /\ UNCHANGED <<beatAge, phase, refreshAge, upsets>>

\* ... or the outbound allowance defers the subscription; the stamp stands.
ResyncUnsubscribed ==
  /\ reading # NoWallet /\ reading \notin subscribed /\ Upset
  /\ stamp' = [stamp EXCEPT ![reading] = "since"]
  /\ todo' = todo \ {reading} /\ reading' = NoWallet
  /\ LaneUnchanged /\ UNCHANGED <<beatAge, phase, subscribed, refreshAge>>

\* Rate limited, or the gateway failed: the wallet waits for the next refresh.
ResyncFails ==
  /\ reading # NoWallet /\ Upset
  /\ todo' = todo \ {reading} /\ reading' = NoWallet
  /\ LaneUnchanged /\ UNCHANGED <<beatAge, stamp, phase, subscribed, refreshAge>>

EndRefresh ==
  /\ phase = "resyncing" /\ todo = {} /\ phase' = "streaming"
  /\ LaneUnchanged /\ UNCHANGED <<beatAge, stamp, subscribed, todo, reading, refreshAge, upsets>>

\* Market data arrived and the last beat is old enough to write the next.
Beat ==
  /\ phase = "streaming" /\ beatAge > 0 /\ beatAge' = 0
  /\ LaneUnchanged /\ UNCHANGED <<lane, upsets>>

\* A push for a subscribed wallet whose row was forgotten baselines it.
PushBaselines(w) ==
  /\ phase = "streaming" /\ w \in subscribed /\ stamp[w] = "none"
  /\ stamp' = [stamp EXCEPT ![w] = "since"]
  /\ LaneUnchanged /\ UNCHANGED <<beatAge, phase, subscribed, todo, reading, refreshAge, upsets>>

Next ==
  \/ EvaluateAuthority \/ ReconcileTakes
  \/ Elapse \/ PollSetChanges \/ Switch
  \/ Start \/ Connect \/ Drop \/ BeginRefresh \/ ListWanted
  \/ ReadState \/ Resync \/ ResyncUnsubscribed \/ ResyncFails \/ EndRefresh \/ Beat
  \/ \E w \in Wallets : PushBaselines(w)

\* Both loops and the clock go on, and a feed that is read keeps delivering:
\* market data at all times, the positions of a wallet every few seconds.
Fairness ==
  /\ WF_vars(Elapse) /\ WF_vars(EvaluateAuthority)
  /\ WF_vars(Connect) /\ WF_vars(BeginRefresh) /\ WF_vars(ListWanted)
  /\ WF_vars(ReadState) /\ WF_vars(Resync) /\ WF_vars(EndRefresh)
  /\ SF_vars(Beat) /\ \A w \in Wallets : SF_vars(PushBaselines(w))

Spec == Init /\ [][Next]_vars
FairSpec == Spec /\ Fairness
-----------------------------------------------------------------------------
TypeOK ==
  /\ owner \in {"poll", "ws"} /\ reason \in Reason
  /\ healthyFor \in NotHealthy .. RecoverAfter
  /\ enabled \in BOOLEAN /\ tracked \subseteq Wallets
  /\ beatAge \in 0 .. Oldest /\ tickAge \in 0 .. TickGap
  /\ stamp \in [Wallets -> Stamp]
  /\ phase \in Phase /\ subscribed \subseteq Wallets /\ todo \subseteq Wallets
  /\ reading \in Wallets \cup {NoWallet} /\ refreshAge \in 0 .. RefreshAfter
  /\ eraAge \in 0 .. RecoverAfter /\ worst \in 0 .. Oldest
  /\ upsets \in 0 .. MaxUpsets

\* A silent lane does not stay authoritative: while the websocket owns
\* production its heartbeat is at most the stale threshold old plus the time
\* since the poller last looked (lane_authority: the bounded failover).
FailoverBounded == owner = "ws" => beatAge <= StaleAfter + tickAge

\* Escalate fast, de-escalate slow: production returns only after a whole
\* recovery window without a transfer, in which no beat was older than the
\* stale threshold by more than the poller's own gap between looks.
HandbackEarned ==
  [][owner = "poll" /\ owner' = "ws" =>
       eraAge >= RecoverAfter /\ worst <= StaleAfter + TickGap]_vars

\* A lane that from some time on is healthy, wanted and able to cover the poll
\* set gets production back and keeps it.
Recoverable == enabled /\ ~Outgrown /\ Fresh
HealthyLaneRegains == <>[]Recoverable => <>[](owner = "ws")

\* _handback_blocker: "The lane must cover the whole poll set", or it would be
\* "authoritative for wallets it cannot see".  A lane that is handed production
\* while it reads its socket is subscribed to every wallet of the poll set.
HandbackCovers ==
  [][owner = "poll" /\ owner' = "ws" /\ phase = "streaming" => tracked \subseteq subscribed]_vars
==============================================================================
