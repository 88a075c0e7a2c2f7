---------------------------- MODULE CopyExecutor ----------------------------
(***************************************************************************)
(* How the copy executor turns the position events of one Leader on one    *)
(* coin into orders: the claim that precedes the wire, the halt gates, the *)
(* entry's single shot, the exit's reduce-only retries, the two legs of a  *)
(* flip, and the books (copy episodes) that are settled afterwards.        *)
(*                                                                         *)
(* One (sub-account, coin) pair is enough: every decision below reads only *)
(* the episode, the position and the events of its own pair.  Several      *)
(* executor instances may run; each await of the code is a place where the *)
(* others, the Leader, the operator and a crash may step in.               *)
(***************************************************************************)
EXTENDS Integers, Sequences

CONSTANTS
  Instance,    \* executor processes
  MaxEvents,   \* bound: events the Leader produces
  Lot,         \* bound: the largest fill of one entry, in coin units
  MaxSize,     \* bound: the largest position the sub-account holds
  ExitTries,   \* EXIT_RETRY_ATTEMPTS
  MaxUpsets,   \* bound: crashes and position moves with no event behind them
  Faults       \* which of the hazards below the environment may exercise

ASSUME InstanceAssumption == Instance # {}
ASSUME BoundsAssumption ==
  MaxEvents \in Nat /\ Lot \in Nat \ {0} /\ MaxSize \in Nat \ {0} /\ ExitTries \in Nat \ {0}
  /\ MaxUpsets \in Nat
ASSUME FaultsAssumption ==
  Faults \subseteq {"crash", "lost", "unreadable", "halt", "manual"}

NoOne == "nobody"
ASSUME NoOneAssumption == NoOne \notin Instance

EventId == 1 .. MaxEvents
Side == {"long", "short"}
Opposite(s) == IF s = "long" THEN "short" ELSE "long"

Flat == [side |-> "flat", size |-> 0]
Position == {Flat} \cup [side : Side, size : Nat \ {0}]

Kind == {"open", "scale_in", "close", "scale_out", "flip"}
\* `side` is the side the Leader holds afterwards.
Event == [kind : {"close"}, side : {"flat"}] \cup [kind : Kind \ {"close"}, side : Side]

\* `by` is opened_event_id, which names the episode as its row id does: an
\* event opens at most one.
NoEpisode == [by |-> 0, side |-> "flat", size |-> 0]
Episode == {NoEpisode} \cup [by : EventId, side : Side, size : Nat]

OpenLeg == {"open", "flip_open"}
EntryLeg == OpenLeg \cup {"scale_in"}
FullExitLeg == {"close", "flip_close"}
ExitLeg == FullExitLeg \cup {"scale_out"}
Leg == EntryLeg \cup ExitLeg

\* The legs an event of each kind is worked through as.
LegsOf(kind) == IF kind = "flip" THEN {"flip_close", "flip_open"} ELSE {kind}

\* Where an instance stands: between cycles, in one, or at work on a leg.
Unclaimed == {"judge", "skip", "claim"}
Sending == {"legGate", "leverage", "reGate", "wire", "retry", "settle"}
Working == Unclaimed \cup Sending
Place == {"idle", "reconcile", "cycleGate", "fetch", "drain"} \cup Working

\* One leg of one event: the episode row it saw, what it asks, what it got.
Job == [event : {0} \cup EventId, leg : Leg, seen : Episode,
        target : Nat, filled : Nat, tries : Nat]
NoJob == [event |-> 0, leg |-> "open", seen |-> NoEpisode,
          target |-> 0, filled |-> 0, tries |-> 0]

VARIABLES
  log,        \* position_events of this pair, authoritative, in id order
  stale,      \* events up to this id are past ENTRY_STALENESS_GUARD
  owner,      \* position_event_claims: who won each event's claim
  exitTrail,  \* audit: how the exit leg of each event ended
  episode,    \* copy_episodes: the live row of this pair, if any
  halted,     \* an active execution halt exists
  position,   \* what the exchange holds in the sub-account
  pc, view, backlog, job, \* per instance: its place in the cycle, the position
              \* it read, the events it fetched, the leg it works on
  opens,      \* history: entry orders signed for each event
  signed,     \* history: signatures each instance made in the present halt
  copied,     \* history: units of our own entry fills still in the position
  upsets      \* history: crashes and position moves so far

shared == <<log, stale, owner, exitTrail, episode, halted, position>>
local == <<pc, view, backlog, job>>
history == <<opens, signed, copied, upsets>>
vars == <<shared, local, history>>

Ids == 1 .. Len(log)
Claimed == {e \in EventId : owner[e] # NoOne}
Outstanding == Ids \ Claimed

\* The side the Leader holds, as last published.
leader == IF log = <<>> THEN "flat" ELSE log[Len(log)].side

Init ==
  /\ log = <<>> /\ stale = 0
  /\ owner = [e \in EventId |-> NoOne]
  /\ exitTrail = [e \in EventId |-> "none"]
  /\ episode = NoEpisode /\ halted = FALSE /\ position = Flat
  /\ pc = [i \in Instance |-> "idle"]
  /\ view = [i \in Instance |-> Flat]
  /\ backlog = [i \in Instance |-> {}]
  /\ job = [i \in Instance |-> NoJob]
  /\ opens = [e \in EventId |-> 0]
  /\ signed = [i \in Instance |-> 0]
  /\ copied = 0 /\ upsets = 0
-----------------------------------------------------------------------------
(* The Leader, the operator and the venue. *)

\* The owning lane publishes what the Leader did; ids follow commit order.
Publish(kind, side) ==
  /\ Len(log) < MaxEvents
  /\ log' = Append(log, [kind |-> kind, side |-> side])
  /\ UNCHANGED <<stale, owner, exitTrail, episode, halted, position, local, history>>

LeaderMoves ==
  \/ leader = "flat" /\ \E s \in Side : Publish("open", s)
  \/ leader # "flat" /\ Publish("close", "flat")
  \/ leader # "flat" /\ \E k \in {"scale_in", "scale_out"} : Publish(k, leader)
  \/ leader # "flat" /\ Publish("flip", Opposite(leader))

\* Five minutes pass over the oldest fresh event.
EventAges ==
  /\ stale < Len(log)
  /\ stale' = stale + 1
  /\ UNCHANGED <<log, owner, exitTrail, episode, halted, position, local, history>>

SetHalted(b) ==
  /\ halted' = b
  /\ signed' = [i \in Instance |-> 0]
  /\ UNCHANGED <<log, stale, owner, exitTrail, episode, position, local, opens, copied, upsets>>

Halt == "halt" \in Faults /\ ~halted /\ SetHalted(TRUE)
Resume == halted /\ SetHalted(FALSE)

Upset == upsets < MaxUpsets /\ upsets' = upsets + 1

\* What is left of our own fills when the position becomes p.
StillCopied(p) ==
  IF p.side # position.side THEN 0 ELSE IF p.size < copied THEN p.size ELSE copied

\* The operator trades the sub by hand, a bracket leg fires, or the venue
\* liquidates: the position moves with no event behind it.
PositionMoves ==
  /\ "manual" \in Faults
  /\ \E p \in ({Flat} \cup [side : Side, size : 1 .. MaxSize]) \ {position} :
       /\ position' = p
       /\ copied' = StillCopied(p)
  /\ Upset
  /\ UNCHANGED <<log, stale, owner, exitTrail, episode, halted, local, opens, signed>>
-----------------------------------------------------------------------------
(* One cycle: reconcile, the halt gate, the backlog. *)

Goto(i, l) == pc' = [pc EXCEPT ![i] = l]

\* On to the next event: nothing of this leg is remembered.
Leave(i) == Goto(i, "drain") /\ job' = [job EXCEPT ![i] = NoJob]

\* The cycle's working copies die with it.
Forget(i) ==
  /\ Goto(i, "idle")
  /\ view' = [view EXCEPT ![i] = Flat]
  /\ backlog' = [backlog EXCEPT ![i] = {}]
  /\ job' = [job EXCEPT ![i] = NoJob]

\* The exchange is read once per cycle; an unreadable sub sits the cycle out,
\* which is a cycle that has not begun.
ReadState(i) ==
  /\ pc[i] = "idle"
  /\ view' = [view EXCEPT ![i] = position]
  /\ Goto(i, "reconcile")
  /\ UNCHANGED <<shared, backlog, job, history>>

\* Adopt what the exchange shows, never trade to restore what it should show:
\* gone ends the episode (or leaves it, when the fills that would classify the
\* ending cannot be read), the other side adopts nothing, another size is taken.
Reconcile(i) ==
  /\ pc[i] = "reconcile"
  /\ \/ episode = NoEpisode /\ episode' = episode
     \/ episode # NoEpisode /\ view[i] = Flat /\ episode' = NoEpisode
     \/ view[i] = Flat /\ "unreadable" \in Faults /\ episode' = episode
     \/ view[i] # Flat /\ view[i].side # episode.side /\ episode' = episode
     \/ /\ view[i] # Flat /\ view[i].side = episode.side
        /\ episode' = [episode EXCEPT !.size = view[i].size]
  /\ Goto(i, "cycleGate")
  /\ UNCHANGED <<log, stale, owner, exitTrail, halted, position, view, backlog, job, history>>

\* A halted cycle claims nothing: its events must be there for /resume.
CycleGate(i) ==
  /\ pc[i] = "cycleGate"
  /\ IF halted THEN Forget(i)
     ELSE Goto(i, "fetch") /\ UNCHANGED <<view, backlog, job>>
  /\ UNCHANGED <<shared, history>>

FetchBacklog(i) ==
  /\ pc[i] = "fetch"
  /\ backlog' = [backlog EXCEPT ![i] = Outstanding]
  /\ Goto(i, "drain")
  /\ UNCHANGED <<shared, view, job, history>>

FirstLeg(kind) == IF kind = "flip" THEN "flip_close" ELSE kind

\* Mutant: the backlog is drained in no particular order.
TakeAny(i) ==
  /\ pc[i] = "drain"
  /\ \E e \in backlog[i] :
       /\ job' = [job EXCEPT ![i] = [NoJob EXCEPT !.event = e, !.leg = FirstLeg(log[e].kind)]]
       /\ backlog' = [backlog EXCEPT ![i] = @ \ {e}]
  /\ Goto(i, "judge")
  /\ UNCHANGED <<shared, view, history>>

\* Oldest first.
Take(i) ==
  /\ pc[i] = "drain"
  /\ \E e \in backlog[i] :
       /\ \A f \in backlog[i] : e <= f
       /\ job' = [job EXCEPT ![i] = [NoJob EXCEPT !.event = e, !.leg = FirstLeg(log[e].kind)]]
       /\ backlog' = [backlog EXCEPT ![i] = @ \ {e}]
  /\ Goto(i, "judge")
  /\ UNCHANGED <<shared, view, history>>

EndCycle(i) ==
  /\ pc[i] = "drain" /\ backlog[i] = {}
  /\ Forget(i)
  /\ UNCHANGED <<shared, history>>

\* The process dies, or an error no handler catches ends the cycle: all the
\* cycle held in memory is gone, all it committed stays.
Crash(i) ==
  /\ "crash" \in Faults
  /\ pc[i] # "idle"
  /\ Forget(i)
  /\ Upset
  /\ UNCHANGED <<shared, opens, signed, copied>>
-----------------------------------------------------------------------------
(* Judging an event, and the claim that precedes the wire. *)

Cur(i) == job[i].event
Entering(i) == job[i].leg \in EntryLeg
Exiting(i) == job[i].leg \in ExitLeg

\* Mutant: only the books are asked, not the exchange.
OccupiedByBooks(i) == episode # NoEpisode

Occupied(i) == episode # NoEpisode \/ view[i] # Flat
Holds(i) == episode # NoEpisode /\ view[i] # Flat

\* Mutant: an entry never goes stale.
EntryAllowedAtAnyAge(i) ==
  IF job[i].leg = "scale_in" THEN Holds(i) ELSE ~Occupied(i)

\* Mutant: after its close leg a flip is taken to be flat.
EntryAllowedFlipTrusted(i) ==
  /\ Cur(i) > stale
  /\ CASE job[i].leg = "scale_in" -> Holds(i)
       [] job[i].leg = "open" -> ~Occupied(i)
       [] job[i].leg = "flip_open" -> TRUE

\* What an entry must clear before any verdict of the caps and floors is asked.
EntryAllowed(i) ==
  /\ Cur(i) > stale
  /\ IF job[i].leg = "scale_in" THEN Holds(i) ELSE ~Occupied(i)

JudgeEntry(i) ==
  /\ pc[i] = "judge" /\ Entering(i)
  /\ \/ EntryAllowed(i) /\ Goto(i, "claim")
     \/ Goto(i, "skip")         \* stale, occupied, below a floor, over a cap
  /\ UNCHANGED <<shared, view, backlog, job, history>>

\* The Leader's equity or the market cannot be read: not a verdict, so the
\* event stays outstanding.  A flip's open leg is already claimed and is
\* skipped instead.
Defer(i) ==
  /\ "unreadable" \in Faults
  /\ pc[i] = "judge" /\ job[i].leg = "open" /\ EntryAllowed(i)
  /\ Leave(i)
  /\ UNCHANGED <<shared, view, backlog, history>>

\* A full exit aims at all we hold, a scale-out at a part of it.
JudgeExit(i) ==
  /\ pc[i] = "judge" /\ Exiting(i)
  /\ \/ Goto(i, "skip") /\ job' = job   \* nothing to close, or no order can express it
     \/ /\ Holds(i)
        /\ \E n \in 1 .. view[i].size :
             /\ job[i].leg \in FullExitLeg => n = view[i].size
             /\ job' = [job EXCEPT ![i].seen = episode, ![i].target = n]
        /\ Goto(i, "claim")
  /\ UNCHANGED <<shared, view, backlog, history>>

\* Where the executor goes once a leg this instance owns is over.
NextLeg(i) ==
  IF job[i].leg = "flip_close"
  THEN /\ job' = [job EXCEPT ![i] = [NoJob EXCEPT !.event = Cur(i), !.leg = "flip_open"]]
       /\ Goto(i, "judge")
  ELSE Leave(i)

\* The insert into position_event_claims; its primary key lets one caller win.
ClaimEvent(i) ==
  /\ owner[Cur(i)] = NoOne
  /\ owner' = [owner EXCEPT ![Cur(i)] = i]

\* Mutant: the loser of a claim carries on with the next leg.
LoseClaimCarryOn(i) == owner[Cur(i)] # NoOne /\ NextLeg(i) /\ owner' = owner

\* The conflict: another instance has the event, and this one lets it be.
LoseClaim(i) == owner[Cur(i)] # NoOne /\ Leave(i) /\ owner' = owner

Report(i, what) ==
  exitTrail' = IF Exiting(i) THEN [exitTrail EXCEPT ![Cur(i)] = what] ELSE exitTrail

\* A skip claims the event with its audit row; the flip's open leg only audits.
SkipEvent(i) ==
  /\ pc[i] = "skip"
  /\ \/ job[i].leg # "flip_open" /\ ClaimEvent(i) /\ Report(i, "skipped") /\ NextLeg(i)
     \/ job[i].leg # "flip_open" /\ LoseClaim(i) /\ exitTrail' = exitTrail
     \/ job[i].leg = "flip_open" /\ Leave(i) /\ UNCHANGED <<owner, exitTrail>>
  /\ UNCHANGED <<log, stale, episode, halted, position, view, backlog, history>>

\* Claim row and attempt row commit together, before the wire.
ClaimAndAttempt(i) ==
  /\ pc[i] = "claim"
  /\ \/ job[i].leg # "flip_open" /\ ClaimEvent(i) /\ Goto(i, "legGate") /\ job' = job
     \/ job[i].leg # "flip_open" /\ LoseClaim(i)
     \/ job[i].leg = "flip_open" /\ Goto(i, "legGate") /\ UNCHANGED <<owner, job>>
  /\ UNCHANGED <<log, stale, exitTrail, episode, halted, position, view, backlog, history>>

\* The halt is read again after the claim: a halted leg is reported, not sent,
\* and a flip halted here never opens.
LegGate(i) ==
  /\ pc[i] = "legGate"
  /\ \/ halted /\ Report(i, "halted") /\ Leave(i)
     \/ /\ ~halted
        /\ Goto(i, IF job[i].leg \in OpenLeg THEN "leverage" ELSE "wire")
        /\ UNCHANGED <<exitTrail, job>>
  /\ UNCHANGED <<log, stale, owner, episode, halted, position, view, backlog, history>>
-----------------------------------------------------------------------------
(* The wire.  Every signature is counted against the halt in force. *)

Sign(i) == signed' = IF halted THEN [signed EXCEPT ![i] = @ + 1] ELSE signed

\* The isolated-margin setting before an open; a refusal ends the entry.
SetLeverage(i) ==
  /\ pc[i] = "leverage"
  /\ Sign(i)
  /\ Leave(i) \/ (Goto(i, "reGate") /\ job' = job)
  /\ UNCHANGED <<shared, view, backlog, opens, copied, upsets>>

\* Mutant: the halt is read before the setting only.
ReGateOpen(i) ==
  /\ pc[i] = "reGate"
  /\ Goto(i, "wire") /\ job' = job
  /\ UNCHANGED <<shared, view, backlog, history>>

\* The setting was a round trip of its own, so the halt is read once more.
ReGate(i) ==
  /\ pc[i] = "reGate"
  /\ IF halted THEN Leave(i) ELSE Goto(i, "wire") /\ job' = job
  /\ UNCHANGED <<shared, view, backlog, history>>

\* The position after n units bought (long) or sold (short).
Net(p, s, n) ==
  IF p = Flat THEN [side |-> s, size |-> n]
  ELSE IF p.side = s THEN [side |-> s, size |-> p.size + n]
  ELSE IF p.size > n THEN [side |-> p.side, size |-> p.size - n]
  ELSE IF p.size = n THEN Flat
  ELSE [side |-> s, size |-> n - p.size]

SignEntry(i) ==
  /\ pc[i] = "wire" /\ Entering(i)
  /\ Sign(i)
  /\ opens' = [opens EXCEPT ![Cur(i)] = @ + 1]

EntryExecutes(i, n) ==
  LET side == log[Cur(i)].side
      after == Net(position, side, n)
      grown == IF after.side = side THEN StillCopied(after) + n ELSE StillCopied(after)
  IN
    /\ after.size <= MaxSize
    /\ position' = after
    /\ copied' = IF grown < after.size THEN grown ELSE after.size

\* The immediate-or-cancel order fills, in part or whole.
EntryFills(i) ==
  /\ SignEntry(i)
  /\ \E n \in 1 .. Lot :
       /\ EntryExecutes(i, n)
       /\ job' = [job EXCEPT ![i].filled = n]
  /\ Goto(i, "settle")
  /\ UNCHANGED <<log, stale, owner, exitTrail, episode, halted, view, backlog, upsets>>

\* A rejected order, or one that never reached the venue: one shot, no retry.
EntryRefused(i) ==
  /\ SignEntry(i)
  /\ Leave(i)
  /\ UNCHANGED <<shared, view, backlog, copied, upsets>>

\* The reply is lost: the order executed, the event is dropped, and the rest
\* of the backlog is drained against the same view.
EntryReplyLost(i) ==
  /\ "lost" \in Faults
  /\ SignEntry(i)
  /\ \E n \in 1 .. Lot : EntryExecutes(i, n)
  /\ Leave(i)
  /\ UNCHANGED <<log, stale, owner, exitTrail, episode, halted, view, backlog, upsets>>

\* Mutant: a position reduced to nothing stays in the working copy.
ApplyFillKeepsZero(side, n) == [side |-> side, size |-> n]

\* The cycle's working copy of the position, in step with what was just done.
ApplyFill(side, n) == IF n <= 0 THEN Flat ELSE [side |-> side, size |-> n]

\* Books after an entry: the live episode grows, or one is opened.
SettleEntry(i) ==
  LET side == log[Cur(i)].side
      got == job[i].filled
  IN
  /\ pc[i] = "settle" /\ Entering(i)
  /\ episode' = IF episode = NoEpisode THEN [by |-> Cur(i), side |-> side, size |-> got]
                ELSE [episode EXCEPT !.size = @ + got]
  /\ view' = [view EXCEPT ![i] = ApplyFill(side, @.size + got)]
  /\ Leave(i)
  /\ UNCHANGED <<log, stale, owner, exitTrail, halted, position, backlog, history>>

\* Reduce-only: at most what is held, and only against the side the episode had.
ReduceExecutes(i, n) ==
  /\ n <= job[i].target - job[i].filled
  /\ n > 0 => position.side = job[i].seen.side /\ n <= position.size
  /\ position' = IF n = 0 THEN position
                 ELSE IF n = position.size THEN Flat ELSE [position EXCEPT !.size = @ - n]
  /\ copied' = IF n < copied THEN copied - n ELSE 0

SignReduce(i) == pc[i] = "wire" /\ Exiting(i) /\ Sign(i)

ReduceAnswered(i) ==
  /\ SignReduce(i)
  /\ \E n \in 0 .. MaxSize :
       /\ ReduceExecutes(i, n)
       /\ job' = [job EXCEPT ![i].filled = @ + n, ![i].tries = @ + 1]
  /\ Goto(i, IF job'[i].filled = job[i].target \/ job'[i].tries = ExitTries
             THEN "settle" ELSE "retry")
  /\ UNCHANGED <<log, stale, owner, exitTrail, episode, halted, view, backlog, opens, upsets>>

\* The order call raises after the claim: the exit is over, whatever executed.
ReduceRaises(i) ==
  /\ SignReduce(i)
  /\ \E n \in 0 .. MaxSize :
       /\ n > 0 => "lost" \in Faults
       /\ ReduceExecutes(i, n)
  /\ Report(i, "failed")
  /\ Leave(i)
  /\ UNCHANGED <<log, stale, owner, episode, halted, view, backlog, opens, upsets>>

\* No mid price: the retries stop where they are.
ReduceUnpriceable(i) ==
  /\ pc[i] = "wire" /\ Exiting(i)
  /\ Goto(i, "settle")
  /\ UNCHANGED <<shared, view, backlog, job, history>>

\* Ten seconds later, and the halt is read before the next attempt.
RetryGate(i) ==
  /\ pc[i] = "retry"
  /\ Goto(i, IF halted THEN "settle" ELSE "wire")
  /\ UNCHANGED <<shared, view, backlog, job, history>>

Unfilled(i) == job[i].leg \in FullExitLeg /\ job[i].filled < job[i].target

\* The size a scale-out leaves on the books, never below nothing.
BookedRest(i) ==
  IF job[i].seen.size > job[i].filled THEN job[i].seen.size - job[i].filled ELSE 0

\* Mutant: a flip's close leg adopts what is left instead of ending the episode.
ExitBooksFlipKept(i) ==
  IF Unfilled(i) THEN [episode EXCEPT !.size = job[i].target - job[i].filled]
  ELSE IF job[i].leg = "close" THEN NoEpisode
  ELSE [episode EXCEPT !.size = BookedRest(i)]

\* A full exit with a rest adopts it and pages, a full exit ends the episode,
\* a scale-out adopts what is left.
ExitBooks(i) ==
  IF Unfilled(i) THEN [episode EXCEPT !.size = job[i].target - job[i].filled]
  ELSE IF job[i].leg \in FullExitLeg THEN NoEpisode
  ELSE [episode EXCEPT !.size = BookedRest(i)]

\* The episode is addressed by the row seen when the exit was judged: if that
\* row is no longer the live one, nothing live moves.
SettleExit(i) ==
  /\ pc[i] = "settle" /\ Exiting(i)
  /\ view' = [view EXCEPT ![i] = ApplyFill(job[i].seen.side, @.size - job[i].filled)]
  /\ episode' = IF episode.by = job[i].seen.by THEN ExitBooks(i) ELSE episode
  /\ Report(i, IF Unfilled(i) THEN "unfilled" ELSE "done")
  /\ NextLeg(i)
  /\ UNCHANGED <<log, stale, owner, halted, position, backlog, history>>
-----------------------------------------------------------------------------
Cycle(i) ==
  \/ ReadState(i) \/ Reconcile(i) \/ CycleGate(i) \/ FetchBacklog(i)
  \/ Take(i) \/ EndCycle(i)

Handle(i) ==
  \/ JudgeEntry(i) \/ Defer(i) \/ JudgeExit(i)
  \/ SkipEvent(i) \/ ClaimAndAttempt(i) \/ LegGate(i)

Wire(i) ==
  \/ SetLeverage(i) \/ ReGate(i)
  \/ EntryFills(i) \/ EntryRefused(i) \/ EntryReplyLost(i) \/ SettleEntry(i)
  \/ ReduceAnswered(i) \/ ReduceRaises(i) \/ ReduceUnpriceable(i)
  \/ RetryGate(i) \/ SettleExit(i)

Step(i) == Cycle(i) \/ Handle(i) \/ Wire(i)

Environment == LeaderMoves \/ EventAges \/ Halt \/ Resume \/ PositionMoves

Next == Environment \/ \E i \in Instance : Step(i) \/ Crash(i)

Spec == Init /\ [][Next]_vars

\* The loop of epigone.execute.main never stops taking cycles, and time passes.
FairSpec == Spec /\ (\A i \in Instance : WF_vars(Step(i))) /\ WF_vars(EventAges)
-----------------------------------------------------------------------------
(* Properties. *)

TypeOK ==
  /\ log \in Seq(Event) /\ Len(log) <= MaxEvents
  /\ stale \in 0 .. Len(log)
  /\ owner \in [EventId -> Instance \cup {NoOne}]
  /\ exitTrail \in [EventId -> {"none", "skipped", "halted", "failed", "unfilled", "done"}]
  /\ episode \in Episode /\ halted \in BOOLEAN /\ position \in Position
  /\ pc \in [Instance -> Place]
  /\ view \in [Instance -> Position]
  /\ backlog \in [Instance -> SUBSET Ids]
  /\ job \in [Instance -> Job]
  /\ opens \in [EventId -> Nat] /\ signed \in [Instance -> Nat] /\ copied \in Nat /\ upsets \in 0 .. MaxUpsets

\* An event is entered at most once, whatever crashes, however many instances
\* race for it, and though a flip sends two orders under one claim.
AtMostOneEntryOrder == \A e \in EventId : opens[e] <= 1

\* Events of one (Leader, coin) are handled in the order of their ids: none is
\* claimed while an older one is still outstanding (ADR-0006, Ordering).
HandledInOrder == \A e, f \in EventId : e < f /\ f \in Claimed => e \in Claimed

\* The gates bound what outlives a halt: from the moment it is requested until
\* it is lifted, an instance signs at most once more, crash or no crash.
OneSignatureOutlivesHalt == \A i \in Instance : signed[i] <= 1

\* An executor by itself that reports a full exit as done leaves no live
\* episode: the row it saw when it judged the exit is the one it settles.
DoneExitEndsEpisode ==
  [][\A e \in Ids :
       log[e].kind \in {"close", "flip"} /\ exitTrail[e] # "done" /\ exitTrail'[e] = "done"
         => episode' = NoEpisode]_vars

\* A flip opens the other side only over an exit that completed, or that found
\* nothing to close: never over one that was halted, failed or left a rest.
FlipOpensOnlyWhenOut ==
  \A e \in Ids :
    log[e].kind = "flip" /\ opens[e] > 0 => exitTrail[e] \in {"done", "skipped"}

\* No open-leg order is signed while an earlier open's fill is still held: a
\* fresh open never doubles a copied position.
NeverDoubles ==
  [][\A i \in Instance :
       pc[i] = "wire" /\ job[i].leg \in OpenLeg /\ opens'[Cur(i)] # opens[Cur(i)]
         => copied = 0]_vars

\* A close whose order a halt withheld is not simply gone: once the halt is
\* lifted, the position it was to close is not still a live copy.
HaltSpendsNoExit ==
  \A e \in Ids :
    log[e].kind = "close" /\ exitTrail[e] = "halted" /\ ~halted /\ episode # NoEpisode
      => episode.by > e

\* The executor, instances and all, keeps the promise of CopyPromise.
Promise == INSTANCE CopyPromise WITH Event <- EventId, taken <- Claimed, entered <- opens
PromiseKept == Promise!Spec

\* The backlog drains: every event is eventually claimed, unless a halt stands.
BacklogDrains ==
  \A e \in EventId : (Len(log) >= e) ~> (e \in Claimed \/ halted)
=============================================================================
