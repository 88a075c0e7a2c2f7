----------------------------- MODULE TradeStore -----------------------------
(***************************************************************************)
(* A Trader's track record, folded batch by batch from the exchange's      *)
(* fills (ingest/fine.py, metrics/fine.py, gateway/http.py get_fills and   *)
(* get_fills_since).  Two endpoints hold the fills, the plain ones and the *)
(* TWAP slices; an incremental pull reads both, one after the other, up to *)
(* one horizon behind the clock, merges them by time and folds the batch   *)
(* onto what is stored.  Either endpoint serves a page at most, and nobody *)
(* asks for the rest.  The fold must never make up a round trip.           *)
(*                                                                         *)
(* One coin: the walk is per coin.  A trip's money is the set of its       *)
(* closing fills, its entry price the set of its opening ones.             *)
(***************************************************************************)
EXTENDS Integers, FiniteSets, SequencesExt

CONSTANTS
  None,        \* no time, no episode, no segment
  Positions,   \* the signed sizes the Trader may hold, 0 among them
  MaxFills,    \* bound: fills executed
  MaxTime,     \* bound: milliseconds
  Margin,      \* COVERAGE_HORIZON_MARGIN
  Skew,        \* how far the exchange's clock is behind ours
  Cap          \* how many fills an endpoint serves in one response

(* An episode the store leaves open, and a segment of one begun earlier. *)
Time == Nat \cup {None}
Episode == [opened : Nat, pnl : SUBSET Nat, entry : SUBSET Nat, net : Int]
SegmentOf ==
  [from : Int, closed : Time, tracked : BOOLEAN, net : Int, pnl : SUBSET Nat, entry : SUBSET Nat]

TradeAssumption ==
  /\ 0 \in Positions /\ Positions \subseteq Int
  /\ {MaxFills, Margin, Skew, Cap} \subseteq Nat /\ MaxTime \in Nat \ {0} /\ Skew < Margin
  /\ None \notin Nat \cup Episode \cup SegmentOf

VARIABLES
  now,         \* our clock
  fills,       \* every execution so far, in the exchange's order
  pull,        \* the refresh in progress
  store,       \* fine_trades, fine_open_episodes, fine_checkpoint_at
  seen,        \* the executions some stored pull held (history)
  cut,         \* the executions the cap kept from a stored pull (history)
  seed         \* the checkpoint the first pull left (history)

vars == <<now, fills, pull, store, seen, cut, seed>>

NoPull == [stage |-> "none"]
Sources == {"regular", "twap"}

-----------------------------------------------------------------------------
(* metrics/fine.py: one batch of fills into episodes.                      *)
Sign(p) == IF p > 0 THEN 1 ELSE IF p < 0 THEN -1 ELSE 0
Closes(f) == f.start # 0 /\ (f.end - f.start) * f.start < 0
Trims(f) == Closes(f) /\ Sign(f.end) = Sign(f.start)
Side(position) == IF position < 0 THEN "SHORT" ELSE "LONG"

WalkStart(f) ==
  [continuing |-> f.start # 0, from |-> f.start, opened |-> None, tracked |-> TRUE,
   pnl |-> {}, entry |-> {}, walked |-> f.start, closedAt |-> None, seq |-> 0,
   trips |-> {}, cont |-> None]

Segment(w, closed, tracked, net) ==
  [from |-> w.from, closed |-> closed, tracked |-> tracked, net |-> net,
   pnl |-> w.pnl, entry |-> w.entry]

(* Mutant: a disagreeing start position is taken as it comes. *)
Trusting(w, f) == w

(* A start position the walk does not stand on: executions were missed, and
   the episode in flight is given up until the next verified flat.         *)
Demote(w, f) ==
  IF w.walked = f.start THEN w
  ELSE [w EXCEPT !.cont = IF w.continuing THEN Segment(w, None, FALSE, 0) ELSE @,
                 !.continuing = FALSE, !.opened = None, !.pnl = {}, !.entry = {},
                 !.tracked = (f.start = 0)]

Opening(w, f) ==
  [w EXCEPT !.opened = IF f.start = 0 /\ @ = None /\ ~w.continuing THEN f.t ELSE @,
            !.entry = @ \cup {f.n}, !.walked = f.end]

Banked(w, f) == [w EXCEPT !.pnl = @ \cup {f.n}, !.walked = f.end]

Ended(w, f) ==
  LET b == Banked(w, f)
      seq == IF w.closedAt = f.t THEN w.seq + 1 ELSE 0
      trip == [opened |-> w.opened, closed |-> f.t, seq |-> seq, pnl |-> b.pnl,
               entry |-> w.entry, side |-> Side(f.start)]
  IN [b EXCEPT !.cont = IF w.continuing THEN Segment(b, f.t, TRUE, 0) ELSE @,
               !.trips = IF ~w.continuing /\ w.tracked /\ w.opened # None
                         THEN @ \cup {trip} ELSE @,
               !.continuing = FALSE, !.tracked = TRUE,
               !.closedAt = f.t, !.seq = seq, !.pnl = {},
               !.opened = IF f.end # 0 THEN f.t ELSE None,
               !.entry = IF f.end # 0 THEN {f.n} ELSE {}]

Step(w, f) ==
  LET d == Demote(w, f)
  IN IF ~Closes(f) THEN Opening(d, f) ELSE IF Trims(f) THEN Banked(d, f) ELSE Ended(d, f)

(* The walk as it stands after each fill of a batch. *)
Walk(batch) ==
  LET walk[k \in DOMAIN batch] ==
        Step(IF k = 1 THEN WalkStart(batch[1]) ELSE walk[k - 1], batch[k])
  IN walk

(* extract_state: the batch's trips, the episode it leaves open, the segment
   of an episode that was open before it, and where it first touched the coin. *)
Extract(batch) ==
  IF batch = <<>> THEN [trips |-> {}, open |-> None, cont |-> None, lead |-> None]
  ELSE LET w == Walk(batch)[Len(batch)]
       IN [trips |-> w.trips,
           open |-> IF ~w.continuing /\ w.tracked /\ w.opened # None
                    THEN [opened |-> w.opened, pnl |-> w.pnl, entry |-> w.entry, net |-> w.walked]
                    ELSE None,
           cont |-> IF w.continuing THEN Segment(w, None, TRUE, w.walked) ELSE w.cont,
           lead |-> batch[1].t]

Key(trip) == <<trip.closed, trip.seq>>

(* A stored open episode whose coin the batch first touches flat is
   contradicted, and so is what the batch made in that first millisecond.  *)
Contradicted(open, delta) == open # None /\ delta.lead # None /\ delta.cont = None

Continues(open, delta) ==
  /\ open # None /\ delta.cont # None
  /\ delta.cont.tracked /\ open.net = delta.cont.from

Resolved(open, delta) ==
  IF Continues(open, delta) /\ delta.cont.closed # None
  THEN {[opened |-> open.opened, closed |-> delta.cont.closed, seq |-> 0,
         pnl |-> open.pnl \cup delta.cont.pnl, entry |-> open.entry \cup delta.cont.entry,
         side |-> Side(open.net)]}
  ELSE {}

Kept(open, delta) ==
  {trip \in delta.trips : Contradicted(open, delta) => trip.closed # delta.lead}

OpenAfter(open, delta) ==
  LET chimera == Contradicted(open, delta)
                 /\ \E trip \in delta.trips : trip.closed = delta.lead
  IN IF delta.open # None /\ ~(chimera /\ delta.open.opened = delta.lead) THEN delta.open
     ELSE IF Continues(open, delta) /\ delta.cont.closed = None
          THEN [open EXCEPT !.pnl = @ \cup delta.cont.pnl, !.entry = @ \cup delta.cont.entry,
                            !.net = delta.cont.net]
     ELSE IF delta.lead = None THEN open
     ELSE None

(* _store_fine_refresh: the trips new since the prior state, the open
   episode, the checkpoint, all in one transaction.                        *)
Later(a, b) == IF a = None THEN b ELSE IF b = None \/ a > b THEN a ELSE b

Folded(prior, batch, newest) ==
  LET delta == Extract(batch)
      trips == Resolved(prior.open, delta) \cup Kept(prior.open, delta)
      keys == {Key(trip) : trip \in prior.trips}
  IN [trips |-> prior.trips \cup {trip \in trips : Key(trip) \notin keys},
      open |-> OpenAfter(prior.open, delta),
      checkpoint |-> Later(prior.checkpoint, newest)]

-----------------------------------------------------------------------------
(* The Trader trades and the clock runs.                                   *)
Stamp == now - Skew
Position == IF fills = <<>> THEN 0 ELSE fills[Len(fills)].end

Trade(source, end) ==
  /\ Len(fills) < MaxFills /\ end # Position /\ Stamp > 0
  /\ fills' = Append(fills, [n |-> Len(fills) + 1, t |-> Stamp, source |-> source,
                             start |-> Position, end |-> end])
  /\ UNCHANGED <<now, pull, store, seen, cut, seed>>

Tick ==
  /\ now < MaxTime
  /\ now' = now + 1
  /\ UNCHANGED <<fills, pull, store, seen, cut, seed>>

(* What an endpoint is asked for: all it has, or a window of time.         *)
Of(source, from, to) == {f \in ToSet(fills) : f.source = source /\ f.t >= from /\ f.t =< to}

Window(source) ==
  IF pull.full THEN Of(source, 0, now) ELSE Of(source, store.checkpoint + 1, pull.horizon)

(* What it serves of that: a page, from one end.                           *)
Newest(all) == {f \in all : Cardinality({g \in all : f.n < g.n}) < Cap}
Oldest(all) == {f \in all : Cardinality({g \in all : g.n < f.n}) < Cap}

Served(source) ==
  IF pull.kept = "newest" THEN Newest(Window(source)) ELSE Oldest(Window(source))

CutOff(source) == {f.n : f \in Window(source) \ Served(source)}

(* The two responses by time, a tie to the plain fills. *)
Before(f, g) ==
  \/ f.t < g.t
  \/ f.t = g.t /\ f.source = g.source /\ f.n < g.n
  \/ f.t = g.t /\ f.source = "regular" /\ g.source = "twap"

Merged(regular, twap) ==
  LET both == regular \cup twap
      Place(f) == Cardinality({g \in both : Before(g, f)}) + 1
  IN [k \in 1..Cardinality(both) |-> CHOOSE f \in both : Place(f) = k]

(* Mutant: pulls reach up to the present. *)
UpToNow == now

PullHorizon == now - Margin

(* run_fine_pass on this Trader: no checkpoint, a seed from the full
   history; else what came after the checkpoint, up to the horizon.  A full
   history is served newest first; which end of an overflowing window is kept
   the code does not know.                                                 *)
BeginPull ==
  /\ pull = NoPull
  /\ store.checkpoint # None => PullHorizon > store.checkpoint
  /\ \E kept \in {"newest", "oldest"} :
       /\ store.checkpoint = None => kept = "newest"
       /\ pull' = [stage |-> "regular", full |-> store.checkpoint = None, kept |-> kept,
                   horizon |-> PullHorizon, regular |-> {}, cut |-> {}]
  /\ UNCHANGED <<now, fills, store, seen, cut, seed>>

ReadRegular ==
  /\ pull.stage = "regular"
  /\ pull' = [pull EXCEPT !.stage = "twap", !.regular = Served("regular"),
                          !.cut = CutOff("regular")]
  /\ UNCHANGED <<now, fills, store, seen, cut, seed>>

(* The second response lands; the rest is computation and one transaction. *)
Refresh ==
  /\ pull.stage = "twap"
  /\ LET batch == Merged(pull.regular, Served("twap"))
         newest == IF batch = <<>> THEN None ELSE batch[Len(batch)].t
     IN /\ store' = Folded(store, batch, newest)
        /\ seen' = seen \cup {batch[i].n : i \in DOMAIN batch}
        /\ cut' = cut \cup pull.cut \cup CutOff("twap")
        /\ seed' = IF pull.full THEN newest ELSE seed
  /\ pull' = NoPull
  /\ UNCHANGED <<now, fills>>

(* Either read fails, or the process dies: nothing is stored.              *)
Abandon ==
  /\ pull # NoPull /\ pull' = NoPull
  /\ UNCHANGED <<now, fills, store, seen, cut, seed>>

Init ==
  /\ now = 1 /\ fills = <<>> /\ pull = NoPull /\ seen = {} /\ cut = {} /\ seed = None
  /\ store = [trips |-> {}, open |-> None, checkpoint |-> None]

Next ==
  \/ \E source \in Sources, end \in Positions : Trade(source, end)
  \/ Tick \/ BeginPull \/ ReadRegular \/ Refresh \/ Abandon

Spec == Init /\ [][Next]_vars

-----------------------------------------------------------------------------
Content(trip) == [trip EXCEPT !.seq = 0]
Truth == {Content(trip) : trip \in Extract(fills).trips}
Record == {Content(trip) : trip \in store.trips}

(* A stretch of executions no pull held that leaves the position where it
   found it: the start of the next one agrees with the walk.               *)
InvisibleHole ==
  \E i, j \in DOMAIN fills :
    /\ i =< j /\ fills[i].start = fills[j].end
    /\ \A k \in i..j : k \notin seen
    /\ i = 1 \/ i - 1 \in seen
    /\ j + 1 \in seen

(* Every variable keeps its type.                                          *)
TypeOK ==
  /\ now \in 1..MaxTime /\ Len(fills) =< MaxFills
  /\ pull.stage \in {"none", "regular", "twap"}
  /\ seen \cup cut \subseteq DOMAIN fills
  /\ \A trip \in store.trips : trip.opened =< trip.closed

(* The two sources traded in one millisecond: nothing orders them but a guess. *)
Tied ==
  \E i, j \in DOMAIN fills : fills[i].t = fills[j].t /\ fills[i].source # fills[j].source

(* What the merge's docstring says of such a millisecond (gateway/http.py: the
   guard "demotes the affected episode rather than let it corrupt the
   round-trip metrics").                                                    *)
TiesDemote == ~InvisibleHole => Record \subseteq Truth

(* No round trip is made up: whatever a seed missed between its reads, or any
   pull past an endpoint's cap, the guard notices, unless it left no trace or
   the merge had to guess.                                                  *)
TripsAreReal == ~Tied => TiesDemote

(* The executions after the seed that the checkpoint has passed.            *)
Passed == {i \in DOMAIN fills : seed < fills[i].t /\ fills[i].t =< store.checkpoint}

(* After the seed an endpoint's cap is the only way past a pull: whatever
   executes while one runs, the horizon keeps for the next.                 *)
NothingSkipped == seed # None => Passed \subseteq seen \cup cut

(* What the gateway's docstring asks of its callers, and no caller sees to
   (gateway/__init__.py: "so callers checkpoint forward far enough that a
   window never overflows").                                                *)
NoWindowOverflows == seed # None => Passed \subseteq seen

(* A record that has seen everything up to its checkpoint is, trip for trip,
   what one walk over the whole history makes of it, unless the merge had to
   guess.                                                                   *)
FoldIsWhole ==
  store.checkpoint # None /\ ~Tied
  /\ (\A i \in DOMAIN fills : fills[i].t =< store.checkpoint => i \in seen) =>
    Record = {trip \in Truth : trip.closed =< store.checkpoint}

(* The track record is true: the conjunction of the three above.            *)
RecordIsTrue == TripsAreReal /\ NothingSkipped /\ FoldIsWhole

(* What the engine's docstring says of every hole (metrics/fine.py: "missed
   executions never earn a reconstructed trade").                          *)
NeverMadeUp == Record \subseteq Truth

=============================================================================
