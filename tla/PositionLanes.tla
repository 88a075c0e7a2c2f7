---------------------------- MODULE PositionLanes ----------------------------
(***************************************************************************)
(* Two lanes observe one Leader's coin and keep separate memories of it: the *)
(* websocket lane from pushes and resyncs, the poll pass from REST reads.    *)
(* Both write every event they diff; what the owner of production writes is  *)
(* told to the consumers.  The poll pass reconciles: it vouches a change by  *)
(* the websocket's rows, holds a doubt for a look, and takes production back *)
(* when the doubt is confirmed.                                             *)
(*                                                                         *)
(* The unit of time is the position loop's tick.  A position is a signed     *)
(* size, an event row is its directions and its age, and the decisions that  *)
(* LaneAuthority models in full are a stale heartbeat and a handback here.   *)
(***************************************************************************)
EXTENDS Integers, Sequences

CONSTANTS
  Positions,      \* the sizes the Leader takes, 0 is flat
  Starts,         \* those of them the wallet may be followed in
  Standby,        \* STANDBY_POLL_INTERVAL_SECONDS, in ticks
  Grace,          \* RECONCILE_GRACE_SECONDS
  JoinGrace,      \* WS_BASELINE_GRACE_SECONDS
  RecoverAfter,   \* WS_RECOVERY_SECONDS
  LaneKnows,      \* has the lane baselined the wallet at the start? a set of answers
  Horizon,        \* bound: no window opens longer ago than this
  MaxMoves,       \* bound: changes of the Leader
  MaxUpsets       \* bound: stale heartbeats, drops, failed reads, restarts, and
                  \* a lane that starts without the wallet

ASSUME PositionsAssumption ==
  Positions \subseteq Int /\ 0 \in Positions /\ Starts \subseteq Positions
ASSUME TimesAssumption ==
  {Standby, RecoverAfter} \subseteq Nat \ {0} /\ {Grace, JoinGrace, Horizon} \subseteq Nat
ASSUME BoundsAssumption ==
  LaneKnows \subseteq BOOLEAN /\ MaxMoves \in Nat /\ MaxUpsets \in Nat \ {0}

\* Each upset may cost a standby interval, a joining lane its grace, and the
\* look that confirms a doubt a tick.
ASSUME HorizonAssumption == Horizon >= Standby * (MaxUpsets + 1) + JoinGrace + 1

Gone == Horizon + Grace + 2   \* the age of no row, or of one no window reaches
Direction == {"entry", "exit"}
Rows == [Direction -> 0 .. Gone]
Age == 0 .. Horizon

VARIABLES
  truth,               \* the Leader's position
  owner, eraAge,       \* lane_authority: owner and now - since
  known, resynced,     \* ws_lane_state: a row, stamped since the last transfer
  wsAnchor, held,      \* ws_position_snapshots, and its coalescing window
  subscribed, reading, \* the connection, and the answer of the resync that is out
  produced, observed,  \* the lane's rows: the told ones and all, by direction
  anchor, pollAge,     \* position_snapshots, last_polled_at
  joinAge,             \* position_poll_state.baselined_at
  pending, doubtAge,   \* reconcile_pending, reconcile_since
  pc, fetched,         \* the tick: where it is, and what its pass read
  passAge, seenOwner,  \* StandbyState
  told,                \* the position the consumers know of
  heard,               \* history: what they knew at the read that is out,
  leaks,               \* how a change came to be told by nobody,
  unread,              \* and the moves the lane wrote rows of since the look the
                       \* anchor is from, and since the read that is out
  moves, upsets

authority == <<owner, eraAge>>
stream == <<subscribed, reading>>
wsMemory == <<known, wsAnchor, held>>
pollMemory == <<anchor, pollAge, joinAge, pending, doubtAge>>
rows == <<produced, observed>>
loop == <<pc, fetched, heard, passAge, seenOwner>>
vars == <<truth, authority, known, resynced, wsAnchor, held, stream, rows, pollMemory, loop,
          told, leaks, unread, moves, upsets>>
-----------------------------------------------------------------------------
(* position_diff *)

Side(p) == IF p > 0 THEN 1 ELSE IF p < 0 THEN -1 ELSE 0
Size(p) == IF p < 0 THEN -p ELSE p

\* SCALE_SIGNIFICANCE_THRESHOLD, a quarter of the remembered notional.
Significant(old, new) ==
  LET change == Size(new) - Size(old) IN 4 * Size(change) >= Size(old)

Kind(old, new) ==
  IF Side(old) # Side(new)
  THEN IF old = 0 THEN "open" ELSE IF new = 0 THEN "close" ELSE "flip"
  ELSE IF old = 0 \/ ~Significant(old, new) THEN "none"
  ELSE IF Size(new) > Size(old) THEN "scale_in" ELSE "scale_out"

Moved(kind) ==
  CASE kind \in {"open", "scale_in"} -> {"entry"}
    [] kind \in {"close", "scale_out"} -> {"exit"}
    [] kind = "flip" -> Direction
    [] OTHER -> {}
-----------------------------------------------------------------------------
Upset == upsets < MaxUpsets /\ upsets' = upsets + 1

NoRows == [d \in Direction |-> Gone]

\* The wallet joined the poll set and the poller has baselined it; so has the
\* websocket lane, which owns production, or it has not reached it yet.
Init ==
  /\ truth \in Starts /\ anchor = truth /\ told = truth
  /\ owner = "ws" /\ eraAge = 0
  /\ known \in LaneKnows /\ resynced = known /\ subscribed = known
  /\ wsAnchor = IF known THEN truth ELSE 0
  /\ held = "no" /\ reading = <<>>
  /\ produced = NoRows /\ observed = NoRows
  /\ pollAge = 0 /\ joinAge = 0 /\ pending = FALSE /\ doubtAge = 0
  /\ pc = "slept" /\ fetched = 0 /\ heard = 0 /\ passAge = 0 /\ seenOwner = "ws"
  /\ leaks = {} /\ unread = [anchor |-> {}, fetch |-> {}] /\ moves = 0
  /\ upsets = IF known THEN 0 ELSE 1

\* Nothing is learnt of what follows a change that nobody told.
LeaderMoves ==
  /\ leaks = {} /\ moves < MaxMoves /\ moves' = moves + 1
  /\ truth' \in Positions \ {truth}
  /\ UNCHANGED <<authority, known, resynced, wsAnchor, held, stream, rows, pollMemory, loop,
                 told, leaks, unread, upsets>>

Older(n, cap) == IF n < cap THEN n + 1 ELSE n
Aged(r) == [d \in Direction |-> Older(r[d], Gone)]

\* A tick passes; a window of three seconds does not outlast it, nor does a read.
Elapse ==
  /\ pc = "slept" /\ pc' = "tick" /\ reading = <<>>
  /\ eraAge' = IF owner = "poll" THEN Older(eraAge, RecoverAfter) ELSE eraAge
  /\ joinAge' = IF known THEN 0 ELSE Older(joinAge, JoinGrace)
  /\ pollAge' = Older(pollAge, Horizon + 1) /\ passAge' = Older(passAge, Standby)
  /\ doubtAge' = IF pending THEN Older(doubtAge, Horizon + 1) ELSE doubtAge
  /\ produced' = Aged(produced) /\ observed' = Aged(observed)
  /\ held' = IF held = "no" THEN "no" ELSE "ripe"
  /\ UNCHANGED <<truth, owner, known, resynced, wsAnchor, stream, anchor, pending, fetched,
                 heard, seenOwner, told, leaks, unread, moves, upsets>>

\* take_ownership: stamps are older than the transfer from here on.
TakeOwnership(to) == owner' = to /\ eraAge' = 0 /\ resynced' = FALSE
-----------------------------------------------------------------------------
(* The websocket lane. *)

LaneOnly == UNCHANGED <<truth, authority, pollMemory, loop, moves>>

Drop ==
  /\ subscribed /\ Upset
  /\ subscribed' = FALSE /\ reading' = <<>>
  /\ LaneOnly /\ UNCHANGED <<known, resynced, wsAnchor, held, rows, told, leaks, unread>>

ReadState ==
  /\ reading = <<>>
  /\ ~subscribed \/ (known /\ owner = "poll" /\ ~resynced)
  /\ reading' = <<truth>>
  /\ LaneOnly /\ UNCHANGED <<known, resynced, wsAnchor, held, subscribed, rows, told, leaks, unread,
                             upsets>>

\* The first observation is remembered and says nothing.
Baseline(obs) ==
  /\ ~known /\ known' = TRUE
  /\ wsAnchor' = obs /\ resynced' = TRUE
  /\ UNCHANGED <<held, rows, told, leaks, unread>>

\* Entries may debounce: the burst freezes the anchor where it began.
Coalesce(obs) ==
  /\ known /\ Kind(wsAnchor, obs) = "scale_in" /\ held \in {"no", "fresh"}
  /\ held' = "fresh"
  /\ UNCHANGED <<known, resynced, wsAnchor, rows, told, leaks, unread>>

\* What the consumers know once an event is told: who holds nothing on a side
\* skips a scale of it (`_no_local_position`; the bot finds no message to edit).
Informed(kind, p) ==
  IF kind \in {"scale_in", "scale_out"} /\ Side(told) # Side(p) THEN told ELSE p

Written(r, kind) == [d \in Direction |-> IF d \in Moved(kind) THEN 0 ELSE r[d]]

\* publish: every event is recorded, and told when the lane owns production.
Advance(obs) ==
  LET kind == Kind(wsAnchor, obs) IN
  /\ known /\ wsAnchor' = obs /\ held' = "no"
  /\ observed' = Written(observed, kind)
  /\ unread' = [look \in DOMAIN unread |-> unread[look] \cup Moved(kind)]
  /\ IF owner = "ws" /\ kind # "none"
     THEN produced' = Written(produced, kind) /\ told' = Informed(kind, obs)
     ELSE UNCHANGED <<produced, told>>
  /\ UNCHANGED <<known, leaks>>

\* The feed re-sends a subscribed wallet's state every few seconds; it may also
\* stay silent.  A wallet is subscribed once it is baselined, and while a resync is
\* out the lane reads no push.
Receive ==
  /\ subscribed /\ reading = <<>>
  /\ \/ Coalesce(truth)
     \/ /\ ~(Kind(wsAnchor, truth) = "scale_in" /\ held = "no")
        /\ Advance(truth) /\ UNCHANGED resynced
  /\ LaneOnly /\ UNCHANGED <<stream, upsets>>

\* A resync is absolute state: nothing is held, and the row is stamped.
Resync ==
  /\ reading # <<>> /\ reading' = <<>>
  /\ LET obs == Head(reading) IN
       \/ Baseline(obs)
       \/ Advance(obs) /\ resynced' = TRUE
  /\ subscribed' = TRUE
  /\ LaneOnly /\ UNCHANGED upsets
-----------------------------------------------------------------------------
(* The position loop. *)

LoopOnly == UNCHANGED <<truth, wsMemory, stream, rows, moves>>

Cadence == IF owner' = "poll" THEN 1 ELSE Standby

\* The decision, then whether this tick polls: always after a transfer.
Tick ==
  /\ pc = "tick"
  /\ \/ owner = "ws" /\ Upset /\ TakeOwnership("poll")
     \/ owner = "poll" /\ eraAge = RecoverAfter /\ known /\ resynced
          /\ TakeOwnership("ws") /\ UNCHANGED upsets
     \/ UNCHANGED <<owner, eraAge, resynced, upsets>>
  /\ seenOwner' = owner'
  /\ IF owner' # seenOwner \/ passAge >= Cadence
     THEN pc' = "fetch" /\ passAge' = 0
     ELSE pc' = "slept" /\ UNCHANGED passAge
  /\ LoopOnly /\ UNCHANGED <<pollMemory, fetched, heard, told, leaks, unread>>

Fetch ==
  /\ pc = "fetch" /\ pc' = "judge" /\ fetched' = truth /\ heard' = told
  /\ unread' = [unread EXCEPT !.fetch = {}]
  /\ LoopOnly /\ UNCHANGED <<authority, resynced, pollMemory, passAge, seenOwner, told, leaks,
                             upsets>>

FetchFails ==
  /\ pc = "fetch" /\ pc' = "slept" /\ Upset
  /\ LoopOnly /\ UNCHANGED <<authority, resynced, pollMemory, fetched, heard, passAge, seenOwner,
                             told, leaks, unread>>

\* The process dies where it is; StandbyState is gone, so the next tick polls.
Restart ==
  /\ Upset /\ pc # "slept"
  /\ pc' = "slept" /\ passAge' = Standby /\ fetched' = 0 /\ heard' = 0
  /\ LoopOnly /\ UNCHANGED <<authority, resynced, pollMemory, seenOwner, told, leaks,
                             unread>>

Change == Kind(anchor, fetched)

\* Mutant: a doubt is judged in the ordinary window (before #200).
LookbackWalks == pollAge + Grace

\* The look the change is measured from: that of the doubt, if it is doubted.
Lookback == (IF pending THEN doubtAge ELSE pollAge) + Grace

Covered(r) == {d \in Moved(Change) : r[d] <= Lookback}

\* _lane_memory: what the lane's own anchor says it still owes.
Owed == ~known \/ Kind(wsAnchor, fetched) # "none"

Vouched == Covered(produced) = Moved(Change) /\ ~(Change = "flip" /\ Owed)

Stranded == ~Owed /\ Covered(observed) # {}

\* Mutant: a lane that never arrives is joining for ever.
StillJoiningForever == ~known

StillJoining == ~known /\ joinAge < JoinGrace

\* The anchor advances with the verdict, and no doubt is left.
Settled ==
  /\ anchor' = fetched /\ pollAge' = 0 /\ pending' = FALSE /\ doubtAge' = 0
  /\ unread' = [unread EXCEPT !.anchor = unread.fetch]
  /\ UNCHANGED <<joinAge, passAge>>

\* Mutant: the anchor advances with a doubt as with a verdict.
HeldForgets ==
  /\ pending' = TRUE /\ doubtAge' = IF pending THEN doubtAge ELSE pollAge
  /\ pollAge' = 0 /\ passAge' = Standby
  /\ anchor' = fetched /\ UNCHANGED <<joinAge, unread>>

\* The anchor stays, with the window the doubt was raised in.
Held ==
  /\ pending' = TRUE /\ doubtAge' = IF pending THEN doubtAge ELSE pollAge
  /\ pollAge' = 0 /\ passAge' = Standby
  /\ UNCHANGED <<anchor, joinAge, unread>>

\* What the history says of a change the pass leaves untold, and consumers with
\* it: the lane told a move the anchor shows no trace of, or told another move of
\* the same direction, or agrees with reality having written no row.
Shadow ==
  /\ leaks' = IF Side(fetched) \in {Side(heard), Side(told)} THEN leaks
              ELSE IF Change = "none"
              THEN IF unread.anchor = {} THEN leaks ELSE leaks \cup {"unseen"}
              ELSE IF Covered(produced) = Moved(Change) THEN leaks \cup {"vouch"}
              ELSE IF unread.anchor \cap Moved(Change) = {} THEN leaks \cup {"benign"}
              ELSE leaks
  /\ UNCHANGED told

\* Or of one it tells as a scale to consumers who hold nothing on that side.
Tell ==
  /\ told' = Informed(Change, fetched)
  /\ leaks' = IF Side(told') = Side(fetched) THEN leaks ELSE leaks \cup {"skipped"}

Doubted == Change # "none" /\ ~Vouched /\ owner = "ws" /\ (Owed \/ Stranded)

JudgeSettles ==
  /\ ~Doubted /\ pc' = "slept"
  /\ IF Change # "none" /\ ~Vouched /\ owner = "poll" THEN Tell ELSE Shadow
  /\ Settled

JudgeHolds ==
  /\ Doubted /\ (pending => StillJoining)
  /\ pc' = "slept"
  /\ Held /\ UNCHANGED <<told, leaks>>

JudgeConfirms ==
  /\ Doubted /\ pending /\ ~StillJoining
  /\ pc' = "escalate"
  /\ UNCHANGED <<pollMemory, passAge, told, leaks, unread>>

\* _apply_poll and _reconcile, in one transaction, up to the transfer.
Judge ==
  /\ pc = "judge"
  /\ JudgeSettles \/ JudgeHolds \/ JudgeConfirms
  /\ IF pc' = "slept" THEN fetched' = 0 /\ heard' = 0 ELSE UNCHANGED <<fetched, heard>>
  /\ LoopOnly /\ UNCHANGED <<authority, resynced, seenOwner, upsets>>

\* Mutant: the rows are not read again under the lock.
EscalateBlind ==
  /\ pc = "escalate" /\ pc' = "slept" /\ fetched' = 0 /\ heard' = 0
  /\ TakeOwnership("poll")
  /\ Tell
  /\ Settled
  /\ LoopOnly /\ UNCHANGED <<seenOwner, upsets>>

\* The transfer takes the row FOR UPDATE: what the lane committed since the
\* doubt was confirmed is seen by the second look, and nothing more commits.
Escalate ==
  /\ pc = "escalate" /\ pc' = "slept" /\ fetched' = 0 /\ heard' = 0
  /\ TakeOwnership("poll")
  /\ IF Vouched THEN Shadow ELSE Tell
  /\ Settled
  /\ LoopOnly /\ UNCHANGED <<seenOwner, upsets>>

Next ==
  \/ LeaderMoves \/ Elapse
  \/ Drop \/ ReadState \/ Receive \/ Resync
  \/ Tick \/ Fetch \/ FetchFails \/ Restart \/ Judge \/ Escalate

\* The position loop goes on and a read is answered; the feed may be silent for
\* ever, and the lane may never read again.
Fairness ==
  /\ WF_vars(Elapse) /\ WF_vars(Tick) /\ WF_vars(Fetch) /\ WF_vars(Judge) /\ WF_vars(Escalate)
  /\ WF_vars(Resync)

Spec == Init /\ [][Next]_vars
FairSpec == Spec /\ Fairness
-----------------------------------------------------------------------------
TypeOK ==
  /\ {truth, wsAnchor, anchor, fetched, heard, told} \subseteq Positions
  /\ owner \in {"poll", "ws"} /\ seenOwner \in {"poll", "ws"} /\ eraAge \in 0 .. RecoverAfter
  /\ {known, resynced, subscribed, pending} \subseteq BOOLEAN
  /\ held \in {"no", "fresh", "ripe"}
  /\ reading \in {<<>>} \cup {<<p>> : p \in Positions}
  /\ produced \in Rows /\ observed \in Rows
  /\ pollAge \in Age /\ doubtAge \in Age /\ joinAge \in 0 .. JoinGrace
  /\ pc \in {"slept", "tick", "fetch", "judge", "escalate"} /\ passAge \in 0 .. Standby
  /\ leaks \subseteq {"vouch", "unseen", "benign", "skipped"}
  /\ unread \in [{"anchor", "fetch"} -> SUBSET Direction]
  /\ moves \in 0 .. MaxMoves /\ upsets \in 0 .. MaxUpsets

\* A change the lane saw while nobody consumed its rows is not passed over:
\* whatever a pass settles without a vouch, late, held, raced or cut off by a
\* transfer, is told if the lane ever wrote a row of it.
StrandedIsTold ==
  [][(pc = "judge" /\ anchor' # anchor /\ ~Vouched /\ unread.anchor \cap Moved(Change) # {})
       => told' = Informed(Change, anchor')]_vars

\* What the baseline grace says of the first change of a new wallet: it is
\* held, never lost.  A doubt ends with the consumers knowing the side.
HeldNeverLost == [][(pending /\ ~pending') => Side(told') = Side(anchor')]_vars

\* The poll pass does not tell an open the consumers were already told: what a
\* transfer, a hold or a lost race delays is not told by both lanes.  (A told
\* flip is told again, without a look, when production moves to the poller while
\* the lane owes a later entry on the coin: the flip's vouch asks for both.)
PollOpensOnce ==
  [][(pc # "slept" /\ pc' = "slept" /\ Change = "open" /\ told' # told /\ leaks = {})
       => Side(told') # Side(told)]_vars

\* Once the Leader rests, the consumers come to know on which side, even if the
\* websocket never says another word.
SideIsTold == <>[](leaks = {} => Side(told) = Side(truth))

\* A doubt is settled: patience, not permission.
DoubtSettles == pending ~> ~pending
==============================================================================
