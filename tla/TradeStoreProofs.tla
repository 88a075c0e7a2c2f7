-------------------------- MODULE TradeStoreProofs --------------------------
(***************************************************************************)
(* The store's part of MCExchange (TradeStore), for every number of fills, *)
(* page and skew below the margin: whatever executes while a pull runs, no *)
(* execution after the seed is passed over but by an endpoint's cap, no    *)
(* round trip ends before it begins, and, while no two sources have traded *)
(* in one millisecond, the record is true.  The last compares three walks: *)
(* the whole history's (Full), a batch's, which echoes the whole one from  *)
(* where it first touches flat, and the fold of the batch onto the stored  *)
(* record.                                                                 *)
(***************************************************************************)
EXTENDS MCExchange, Sequences, FiniteSetTheorems, WellFoundedInduction, TLAPS

-----------------------------------------------------------------------------
(* A finite set in a strict total order has a rank for each of its members. *)

LEMMA Cards == \A X : T!Cardinality(X) = Cardinality(X)
BY DEF T!Cardinality, Cardinality

StrictOrder(X, Lt) ==
  /\ \A x \in X : <<x, x>> \notin Lt
  /\ \A x, y, z \in X : <<x, y>> \in Lt /\ <<y, z>> \in Lt => <<x, z>> \in Lt
  /\ \A x, y \in X : x = y \/ <<x, y>> \in Lt \/ <<y, x>> \in Lt

Below(X, Lt, x) == {y \in X : <<y, x>> \in Lt}

\* More members lie below the later of two.
LEMMA BelowGrows ==
  ASSUME NEW X, IsFiniteSet(X), NEW Lt, StrictOrder(X, Lt),
         NEW x \in X, NEW y \in X, <<x, y>> \in Lt
  PROVE  Cardinality(Below(X, Lt, x)) < Cardinality(Below(X, Lt, y))
  <1>1. Below(X, Lt, x) \subseteq Below(X, Lt, y) /\ Below(X, Lt, y) \subseteq X
    BY DEF Below, StrictOrder
  <1>2. x \in Below(X, Lt, y) /\ x \notin Below(X, Lt, x)
    BY DEF Below, StrictOrder
  <1>3. IsFiniteSet(Below(X, Lt, y)) /\ IsFiniteSet(Below(X, Lt, x))
    BY <1>1, FS_Subset
  <1>4. Cardinality(Below(X, Lt, x)) \in Nat /\ Cardinality(Below(X, Lt, y)) \in Nat
    BY <1>3, FS_CardinalityType
  <1>5. /\ Cardinality(Below(X, Lt, x)) <= Cardinality(Below(X, Lt, y))
        /\ Cardinality(Below(X, Lt, x)) # Cardinality(Below(X, Lt, y))
    BY <1>1, <1>2, <1>3, FS_Subset
  <1> QED  BY <1>4, <1>5

\* The rank of a member is no larger than the set.
LEMMA BelowFits ==
  ASSUME NEW X, IsFiniteSet(X), NEW Lt, StrictOrder(X, Lt), NEW x \in X
  PROVE  Cardinality(Below(X, Lt, x)) + 1 \in 1 .. Cardinality(X)
  <1>1. Below(X, Lt, x) \subseteq X /\ x \notin Below(X, Lt, x)
    BY DEF Below, StrictOrder
  <1>2. IsFiniteSet(Below(X, Lt, x)) /\ Cardinality(Below(X, Lt, x)) <= Cardinality(X)
        /\ Cardinality(Below(X, Lt, x)) # Cardinality(X)
    BY <1>1, FS_Subset
  <1>3. Cardinality(Below(X, Lt, x)) \in Nat /\ Cardinality(X) \in Nat
    BY <1>2, FS_CardinalityType
  <1> QED  BY <1>2, <1>3

\* Every rank is taken: the places of the members are as many as they are.
LEMMA PlacesTaken ==
  ASSUME NEW X, IsFiniteSet(X), NEW Lt, StrictOrder(X, Lt), NEW k \in 1 .. Cardinality(X)
  PROVE  \E x \in X : Cardinality(Below(X, Lt, x)) + 1 = k
  <1> DEFINE p == [x \in X |-> Cardinality(Below(X, Lt, x)) + 1]
             N == 1 .. Cardinality(X)
  <1>1. p \in [X -> N]
    BY BelowFits
  <1>2. \A x \in X : Cardinality(Below(X, Lt, x)) \in Nat
    <2> TAKE x \in X
    <2>1. IsFiniteSet(Below(X, Lt, x))
      BY FS_Subset DEF Below
    <2> QED  BY <2>1, FS_CardinalityType
  <1>3. ASSUME NEW x \in X, NEW y \in X, p[x] = p[y] PROVE x = y
    <2>1. ~(Cardinality(Below(X, Lt, x)) < Cardinality(Below(X, Lt, y)))
      BY <1>2, <1>3
    <2>2. ~(Cardinality(Below(X, Lt, y)) < Cardinality(Below(X, Lt, x)))
      BY <1>2, <1>3
    <2> QED  BY <2>1, <2>2, BelowGrows DEF StrictOrder
  <1>4. p \in Injection(X, N)
    BY <1>1, <1>3 DEF Injection, IsInjective
  <1>5. Cardinality(X) \in Nat
    BY FS_CardinalityType
  <1>6. IsFiniteSet(N) /\ Cardinality(N) = Cardinality(X)
    BY <1>5, FS_Interval
  <1>7. p \in Surjection(X, N)
    BY <1>4, <1>6, FS_Injection
  <1> QED  BY <1>7 DEF Surjection

-----------------------------------------------------------------------------
(* What the invariant speaks of. *)

Fill == [n : Nat, t : Nat, source : {"regular", "twap"}, start : Held, end : Held]
Trip == [opened : Nat, closed : Nat, seq : Nat, pnl : SUBSET Nat, entry : SUBSET Nat,
         side : {"LONG", "SHORT"}]

\* The fills are numbered as they executed, each stamped by a clock Skew behind.
HistoryTrue ==
  /\ instant \in 1 .. MaxInstant
  /\ fills \in Seq(Fill) /\ Len(fills) <= MaxFills
  /\ \A i \in 1 .. Len(fills) : fills[i].n = i /\ fills[i].t + Skew <= instant

Executed == {fills[i] : i \in 1 .. Len(fills)}

\* What an incremental pull asks for: all that executed after the checkpoint, up to
\* its horizon.
Due(source) ==
  {f \in Executed : f.source = source /\ store.checkpoint < f.t /\ f.t <= pull.horizon}

\* A pull is full exactly before the first checkpoint; its horizon is so far back
\* that nothing more executes within it, so what it read and what the cap kept from
\* it are still all there is.
PullTrue ==
  pull # T!NoPull =>
    /\ pull \in [stage : {"regular", "twap"}, full : BOOLEAN, kept : {"newest", "oldest"},
                 horizon : Int, regular : SUBSET Executed, cut : SUBSET (1 .. Len(fills))]
    /\ pull.full <=> store.checkpoint = None
    /\ pull.horizon + Margin <= instant
    /\ pull.stage = "twap" /\ ~pull.full =>
         /\ pull.regular \subseteq Due("regular")
         /\ \A f \in Due("regular") : f \in pull.regular \/ f.n \in pull.cut

\* The stored trips end after they begin, and the episode left open began before
\* the checkpoint.
StoreTrue ==
  /\ store.checkpoint \in T!Time /\ seed \in T!Time
  /\ DOMAIN store = {"trips", "open", "checkpoint"}
  /\ store.trips \subseteq Trip /\ \A trip \in store.trips : trip.opened <= trip.closed
  /\ store.open # None => /\ store.open \in T!Episode /\ store.checkpoint # None
                          /\ store.open.opened <= store.checkpoint

\* The checkpoint is the seed's, or so far back that no later execution falls
\* behind it; and between the two everything was seen but what the cap kept back.
NothingMissed ==
  /\ seed = None <=> store.checkpoint = None
  /\ seed # None => seed = store.checkpoint \/ store.checkpoint + Skew < instant
  /\ seen \subseteq 1 .. Len(fills) /\ cut \subseteq 1 .. Len(fills)
  /\ seed # None => \A i \in 1 .. Len(fills) :
                      seed < fills[i].t /\ fills[i].t <= store.checkpoint => i \in seen \cup cut

StoreInv == HistoryTrue /\ PullTrue /\ StoreTrue /\ NothingMissed

\* What the assumptions say of the constants the store uses.
LEMMA StoreConstants ==
  /\ Held \subseteq Int /\ 0 \in Held /\ MaxFills \in Nat /\ MaxInstant \in Nat \ {0}
  /\ Margin \in Nat /\ Skew \in Nat /\ Skew < Margin /\ PageSize \in Nat /\ None \notin Nat
  /\ None \notin T!Episode /\ None \notin T!SegmentOf
BY ExchangeAssumption DEF T!TradeAssumption

\* A sequence's members, by their places.
LEMMA ToSetIs == T!ToSet(fills) = {fills[i] : i \in DOMAIN fills}
BY DEF T!ToSet

\* The executions are a finite set, one for each place.
LEMMA ExecutedIs ==
  ASSUME HistoryTrue
  PROVE  /\ DOMAIN fills = 1 .. Len(fills) /\ Len(fills) \in Nat
         /\ T!ToSet(fills) = Executed /\ Executed \subseteq Fill /\ IsFiniteSet(Executed)
         /\ \A f, g \in Executed : f.n = g.n => f = g
         /\ \A f \in Executed : f.n \in 1 .. Len(fills) /\ fills[f.n] = f
  <1>1. DOMAIN fills = 1 .. Len(fills) /\ Len(fills) \in Nat
    BY DEF HistoryTrue
  <1>2. T!ToSet(fills) = Executed
    BY <1>1 DEF T!ToSet, Executed
  <1>3. Executed \subseteq Fill
    BY <1>1 DEF Executed, HistoryTrue
  <1>4. fills \in Surjection(1 .. Len(fills), Executed)
    <2>1. \A i \in 1 .. Len(fills) : fills[i] \in Executed
      BY DEF Executed
    <2>2. fills \in [1 .. Len(fills) -> Executed]
      BY <1>1, <2>1 DEF HistoryTrue
    <2>3. \A f \in Executed : \E i \in 1 .. Len(fills) : fills[i] = f
      BY DEF Executed
    <2> QED  BY <2>2, <2>3 DEF Surjection
  <1>5. IsFiniteSet(Executed)
    <2>1. IsFiniteSet(1 .. Len(fills))
      BY <1>1, FS_Interval
    <2> QED  BY <1>4, <2>1, FS_Surjection
  <1>6. \A f \in Executed : f.n \in 1 .. Len(fills) /\ fills[f.n] = f
    BY DEF Executed, HistoryTrue
  <1> QED  BY <1>1, <1>2, <1>3, <1>5, <1>6

-----------------------------------------------------------------------------
(* The two responses, merged. *)

LEMMA BeforeOrders ==
  ASSUME HistoryTrue, NEW B \in SUBSET Executed
  PROVE  StrictOrder(B, {fg \in B \X B : T!Before(fg[1], fg[2])})
  <1> DEFINE Lt == {fg \in B \X B : T!Before(fg[1], fg[2])}
  <1>1. \A f \in B : f.n \in Nat /\ f.t \in Nat /\ f.source \in {"regular", "twap"}
    BY ExecutedIs DEF Fill
  <1>2. \A f, g \in B : <<f, g>> \in Lt <=> T!Before(f, g)
    OBVIOUS
  <1>3. \A f \in B : ~T!Before(f, f)
    BY <1>1 DEF T!Before
  <1>4. \A f, g, h \in B : T!Before(f, g) /\ T!Before(g, h) => T!Before(f, h)
    BY <1>1 DEF T!Before
  <1>5. \A f, g \in B : f.n # g.n => T!Before(f, g) \/ T!Before(g, f)
    BY <1>1 DEF T!Before
  <1>6. \A f, g \in B : f.n = g.n => f = g
    BY ExecutedIs
  <1> HIDE DEF Lt
  <1> QED  BY <1>2, <1>3, <1>4, <1>5, <1>6 DEF StrictOrder

\* A batch is what was served, each once, by time.
LEMMA MergedIs ==
  ASSUME HistoryTrue, NEW R \in SUBSET Executed, NEW W \in SUBSET Executed
  PROVE  LET b == T!Merged(R, W)
         IN  /\ b \in Seq(R \cup W) /\ DOMAIN b = 1 .. Len(b)
             /\ \A f \in R \cup W : \E k \in 1 .. Len(b) : b[k] = f
             /\ \A k, l \in 1 .. Len(b) : k <= l => b[k].t <= b[l].t
             /\ \A k, l \in 1 .. Len(b) : k < l => T!Before(b[k], b[l])
  <1> DEFINE B == R \cup W
             Lt == {fg \in B \X B : T!Before(fg[1], fg[2])}
             N == T!Cardinality(B)
             rank(f) == T!Cardinality({g \in B : T!Before(g, f)}) + 1
             b == T!Merged(R, W)
  <1>1. B \in SUBSET Executed /\ IsFiniteSet(B) /\ N \in Nat /\ N = Cardinality(B)
    BY ExecutedIs, Cards, FS_Subset, FS_CardinalityType
  <1>2. StrictOrder(B, Lt)
    BY <1>1, BeforeOrders
  <1>3. \A f \in B : {g \in B : T!Before(g, f)} = Below(B, Lt, f)
    BY DEF Below
  <1>4. b = [k \in 1 .. N |-> CHOOSE f \in B : rank(f) = k]
    BY DEF T!Merged
  <1>5. \A f \in B : rank(f) = Cardinality(Below(B, Lt, f)) + 1
    BY <1>3, Cards
  <1> HIDE DEF rank, N, B
  <1>6. \A k \in 1 .. N : \E f \in B : rank(f) = k
    BY <1>1, <1>2, <1>5, PlacesTaken
  <1>7. \A f \in B : rank(f) \in 1 .. N
    BY <1>1, <1>2, <1>5, BelowFits
  <1>9. \A f, g \in B : rank(f) <= rank(g) => f = g \/ T!Before(f, g)
    <2> TAKE f, g \in B
    <2>1. rank(f) \in Int /\ rank(g) \in Int
      BY <1>7
    <2>2. <<f, g>> \in Lt => T!Before(f, g)
      OBVIOUS
    <2> HIDE DEF Lt
    <2>3. <<g, f>> \in Lt => Cardinality(Below(B, Lt, g)) < Cardinality(Below(B, Lt, f))
      BY <1>1, <1>2, BelowGrows
    <2>4. /\ Cardinality(Below(B, Lt, f)) \in Nat
          /\ Cardinality(Below(B, Lt, g)) \in Nat
      BY <1>1, FS_Subset, FS_CardinalityType DEF Below
    <2>5. rank(f) <= rank(g) => ~(<<g, f>> \in Lt)
      BY <1>5, <2>3, <2>4
    <2>6. f = g \/ <<f, g>> \in Lt \/ <<g, f>> \in Lt
      BY <1>2 DEF StrictOrder
    <2> QED  BY <2>2, <2>5, <2>6
  <1>8. \A f, g \in B : rank(f) = rank(g) => f = g
    <2> TAKE f, g \in B
    <2> HAVE rank(f) = rank(g)
    <2>1. rank(f) \in Int /\ (f = g \/ (T!Before(f, g) /\ T!Before(g, f)))
      BY <1>7, <1>9
    <2>2. f.n \in Nat /\ f.t \in Nat /\ g.n \in Nat /\ g.t \in Nat
      BY <1>1, ExecutedIs DEF Fill
    <2> QED  BY <2>1, <2>2 DEF T!Before
  <1> HIDE DEF Lt
  <1>10. \A k \in 1 .. N : b[k] \in B /\ rank(b[k]) = k
    BY <1>4, <1>6
  <1>11. b \in Seq(B) /\ Len(b) = N
    BY <1>1, <1>4, <1>10
  <1>12. \A f \in B : \E k \in 1 .. N : b[k] = f
    BY <1>7, <1>8, <1>10
  <1>13. \A f, g \in B : T!Before(f, g) => f.t <= g.t
    <2>1. \A f \in B : f.t \in Nat
      BY <1>1, ExecutedIs DEF Fill
    <2> QED  BY <2>1 DEF T!Before
  <1>14. \A k, l \in 1 .. N : k <= l => b[k].t <= b[l].t
    <2> TAKE k, l \in 1 .. N
    <2> HAVE k <= l
    <2>1. b[k] = b[l] \/ T!Before(b[k], b[l])
      BY <1>9, <1>10
    <2>2. b[k].t \in Nat
      BY <1>1, <1>10, ExecutedIs DEF Fill
    <2> QED  BY <1>10, <1>13, <2>1, <2>2
  <1> HIDE DEF b
  <1>15. \A k, l \in 1 .. N : k < l => T!Before(b[k], b[l])
    <2> TAKE k, l \in 1 .. N
    <2> HAVE k < l
    <2>1. k <= l /\ k # l
      BY <1>1
    <2> QED  BY <1>9, <1>10, <2>1
  <1>16. /\ b \in Seq(B) /\ DOMAIN b = 1 .. Len(b)
         /\ \A f \in B : \E k \in 1 .. Len(b) : b[k] = f
         /\ \A k, l \in 1 .. Len(b) : k <= l => b[k].t <= b[l].t
         /\ \A k, l \in 1 .. Len(b) : k < l => T!Before(b[k], b[l])
    BY <1>11, <1>12, <1>14, <1>15
  <1> QED  BY <1>16 DEF B, b

-----------------------------------------------------------------------------
(* The steps of the store, but for the fold. *)

LEMMA StoreBegins == T!Init => StoreInv
  <1> SUFFICES ASSUME T!Init PROVE StoreInv
    OBVIOUS
  <1>1. /\ instant = 1 /\ fills = <<>> /\ pull = T!NoPull /\ seen = {} /\ cut = {} /\ seed = None
        /\ store = [trips |-> {}, open |-> None, checkpoint |-> None]
    BY DEF T!Init
  <1>2. HistoryTrue
    BY <1>1, StoreConstants DEF HistoryTrue
  <1>3. PullTrue
    BY <1>1 DEF PullTrue
  <1>4. StoreTrue
    BY <1>1 DEF StoreTrue, T!Time
  <1>5. NothingMissed
    BY <1>1 DEF NothingMissed
  <1> QED  BY <1>2, <1>3, <1>4, <1>5 DEF StoreInv

\* A pull in progress has read one of the two endpoints or none, up to its horizon.
LEMMA PullIs ==
  ASSUME PullTrue, pull # T!NoPull
  PROVE  pull.stage \in {"regular", "twap"} /\ pull.horizon \in Int
BY DEF PullTrue

\* Another execution: it comes after every checkpoint but the seed's, and beyond
\* every horizon.
LEMMA TradeKeeps ==
  ASSUME StoreInv, NEW source \in T!Sources, NEW end \in Held, T!Trade(source, end)
  PROVE  StoreInv'
  <1> DEFINE e == [n |-> Len(fills) + 1, t |-> instant - Skew, source |-> source,
                   start |-> T!Position, end |-> end]
             N == Len(fills)
  <1> USE DEF StoreInv
  <1>1. /\ fills' = Append(fills, e) /\ N < MaxFills /\ instant - Skew > 0
        /\ UNCHANGED <<instant, pull, store, seen, cut, seed>>
    BY DEF T!Trade, T!Stamp
  <1>2. instant \in 1 .. MaxInstant /\ Skew \in Nat /\ Margin \in Nat /\ Skew < Margin
        /\ instant \in Nat /\ MaxFills \in Nat
    BY StoreConstants DEF HistoryTrue
  <1>3. fills \in Seq(Fill) /\ N \in Nat
    BY ExecutedIs DEF HistoryTrue
  <1>4. T!Position \in Held
    <2>1. CASE fills = <<>>
      BY <2>1, StoreConstants DEF T!Position
    <2>2. CASE fills # <<>>
      <3>1. fills[N] \in Fill
        BY <1>3, <2>2
      <3> QED  BY <2>2, <3>1 DEF T!Position, Fill
    <2> QED  BY <2>1, <2>2
  <1>5. e \in Fill /\ e.n = N + 1 /\ e.t \in Nat /\ e.t = instant - Skew
    <2>1. N + 1 \in Nat /\ instant - Skew \in Nat
      BY <1>1, <1>2, <1>3
    <2> QED  BY <1>4, <2>1 DEF Fill, T!Sources
  <1> HIDE DEF e
  <1>6. /\ Len(fills') = N + 1 /\ fills' \in Seq(Fill) /\ fills'[N + 1] = e
        /\ \A i \in 1 .. N : fills'[i] = fills[i]
        /\ 1 .. N + 1 = 1 .. N \cup {N + 1}
    BY <1>1, <1>3, <1>5
  <1> HIDE DEF N
  <1>7. HistoryTrue'
    <2>1. \A i \in 1 .. N + 1 : fills'[i].n = i /\ fills'[i].t + Skew <= instant
      <3>1. \A i \in 1 .. N : fills'[i].n = i /\ fills'[i].t + Skew <= instant
        BY <1>6 DEF HistoryTrue, N
      <3>2. fills'[N + 1].n = N + 1 /\ fills'[N + 1].t + Skew <= instant
        BY <1>2, <1>5, <1>6
      <3> QED  BY <1>6, <3>1, <3>2
    <2>2. N + 1 <= MaxFills
      BY <1>1, <1>2, <1>3
    <2>3. instant' \in 1 .. MaxInstant /\ Len(fills') = N + 1 /\ fills' \in Seq(Fill)
      BY <1>1, <1>2, <1>6
    <2> QED  BY <1>1, <2>1, <2>2, <2>3 DEF HistoryTrue
  <1>8. Executed' = Executed \cup {e}
    BY <1>6 DEF Executed, N
  <1>9. PullTrue'
    <2>1. pull.horizon + Margin <= instant /\ pull.horizon \in Int => ~(e.t <= pull.horizon)
      BY <1>2, <1>5
    <2>2. pull # T!NoPull => Due("regular")' = Due("regular")
      BY <1>1, <1>8, <2>1 DEF Due, PullTrue
    <2>3. 1 .. Len(fills) \subseteq 1 .. Len(fills')
      BY <1>6 DEF N
    <2>4. Due("regular") \subseteq Executed
      BY DEF Due
    <2> QED  BY <1>1, <1>8, <2>2, <2>3, <2>4 DEF PullTrue, T!NoPull
  <1>10. StoreTrue'
    BY <1>1 DEF StoreTrue
  <1>11. NothingMissed'
    <2>1. seen \subseteq 1 .. N + 1 /\ cut \subseteq 1 .. N + 1
      BY <1>6 DEF NothingMissed, N
    <2>2. ASSUME seed # None PROVE ~(seed < e.t /\ e.t <= store.checkpoint)
      <3>1. seed \in Nat /\ store.checkpoint \in Nat
        BY <2>2 DEF NothingMissed, StoreTrue, T!Time
      <3>2. seed = store.checkpoint \/ store.checkpoint + Skew < instant
        BY <2>2 DEF NothingMissed
      <3> QED  BY <1>2, <1>5, <3>1, <3>2
    <2>3. seed # None => \A i \in 1 .. N + 1 :
             seed < fills'[i].t /\ fills'[i].t <= store.checkpoint => i \in seen \cup cut
      BY <1>6, <2>2 DEF NothingMissed, N
    <2> QED  BY <1>1, <1>6, <2>1, <2>3 DEF NothingMissed
  <1> QED  BY <1>7, <1>9, <1>10, <1>11

\* The clock runs: what lay behind it lies further behind.
LEMMA ClockKeeps == ASSUME StoreInv, T!Tick PROVE StoreInv'
  <1> USE DEF StoreInv
  <1>1. instant < MaxInstant /\ instant' = instant + 1 /\ UNCHANGED <<fills, pull, store, seen, cut, seed>>
    BY DEF T!Tick
  <1>2. instant \in Nat /\ instant' \in 1 .. MaxInstant /\ Skew \in Nat /\ Margin \in Nat
    BY <1>1, StoreConstants DEF HistoryTrue
  <1>3. HistoryTrue'
    <2>1. \A i \in 1 .. Len(fills) : fills[i].t \in Nat
      BY ExecutedIs DEF Executed, Fill
    <2>2. \A i \in 1 .. Len(fills) : fills[i].n = i /\ fills[i].t + Skew <= instant + 1
      BY <1>2, <2>1 DEF HistoryTrue
    <2> QED  BY <1>1, <1>2, <2>2 DEF HistoryTrue
  <1>4. PullTrue'
    <2>1. Due("regular")' = Due("regular") /\ Executed' = Executed
      BY <1>1 DEF Due, Executed
    <2>2. pull # T!NoPull => pull.horizon + Margin <= instant + 1
      BY <1>2, PullIs DEF PullTrue
    <2> QED  BY <1>1, <2>1, <2>2 DEF PullTrue, T!NoPull
  <1>5. StoreTrue'
    BY <1>1 DEF StoreTrue
  <1>6. NothingMissed'
    <2>1. seed # None => store.checkpoint \in Nat
      BY DEF NothingMissed, StoreTrue, T!Time
    <2>2. seed # None => seed = store.checkpoint \/ store.checkpoint + Skew < instant + 1
      BY <1>2, <2>1 DEF NothingMissed
    <2> QED  BY <1>1, <2>2 DEF NothingMissed
  <1> QED  BY <1>3, <1>4, <1>5, <1>6

\* What an endpoint serves a pull, and what its cap keeps back.
LEMMA ServedIs ==
  ASSUME HistoryTrue, PullTrue, StoreTrue, pull # T!NoPull, NEW source \in T!Sources
  PROVE  /\ T!Served(source) \subseteq Executed /\ T!CutOff(source) \subseteq 1 .. Len(fills)
         /\ ~pull.full => /\ T!Served(source) \subseteq Due(source)
                          /\ \A f \in Due(source) : \/ f \in T!Served(source)
                                                   \/ f.n \in T!CutOff(source)
  <1>1. T!ToSet(fills) = Executed /\ \A f \in Executed : f.t \in Nat /\ f.n \in 1 .. Len(fills)
    BY ExecutedIs DEF Fill
  <1>2. T!Served(source) \subseteq T!Window(source)
    BY DEF T!Served, T!Newest, T!Oldest
  <1>3. T!Window(source) \subseteq Executed
    BY <1>1 DEF T!Window, T!Of
  <1>4. T!CutOff(source) = {f.n : f \in T!Window(source) \ T!Served(source)}
    BY DEF T!CutOff
  <1>5. ASSUME ~pull.full PROVE T!Window(source) = Due(source)
    <2>1. store.checkpoint \in Nat /\ pull.full \in BOOLEAN
      BY <1>5 DEF PullTrue, StoreTrue, T!Time
    <2>2. \A t \in Nat : t >= store.checkpoint + 1 <=> store.checkpoint < t
      BY <2>1
    <2>3. T!Window(source) = T!Of(source, store.checkpoint + 1, pull.horizon)
      BY <1>5 DEF T!Window
    <2>4. T!Of(source, store.checkpoint + 1, pull.horizon) = Due(source)
      BY <1>1, <2>2 DEF T!Of, Due
    <2> QED  BY <2>3, <2>4
  <1> QED  BY <1>1, <1>2, <1>3, <1>4, <1>5

\* A pull begins, reads the plain fills, or is given up.
LEMMA PullKeeps ==
  ASSUME StoreInv, T!BeginPull \/ T!ReadRegular \/ T!Abandon
  PROVE  StoreInv'
  <1> USE DEF StoreInv
  <1>1. UNCHANGED <<instant, fills, store, seen, cut, seed>>
    BY DEF T!BeginPull, T!ReadRegular, T!Abandon
  <1>2. HistoryTrue' /\ StoreTrue' /\ NothingMissed'
    BY <1>1 DEF HistoryTrue, StoreTrue, NothingMissed
  <1>3. Executed' = Executed
    BY <1>1 DEF Executed
  <1>4. PullTrue'
    <2>1. CASE T!BeginPull
      <3>1. instant \in Nat /\ Margin \in Nat
        BY StoreConstants DEF HistoryTrue
      <3>2. instant - Margin \in Int /\ (instant - Margin) + Margin <= instant
        BY <3>1
      <3>3. PICK kept \in {"newest", "oldest"} :
              pull' = [stage |-> "regular", full |-> store.checkpoint = None, kept |-> kept,
                       horizon |-> instant - Margin, regular |-> {}, cut |-> {}]
        BY <2>1 DEF T!BeginPull, T!PullHorizon
      <3> QED  BY <1>1, <1>3, <3>2, <3>3 DEF PullTrue
    <2>2. CASE T!ReadRegular
      <3>1. /\ pull.stage = "regular"
            /\ pull' = [pull EXCEPT !.stage = "twap", !.regular = T!Served("regular"),
                                    !.cut = T!CutOff("regular")]
        BY <2>2 DEF T!ReadRegular
      <3>2. pull # T!NoPull
        BY <3>1 DEF T!NoPull
      <3> DEFINE R == T!Served("regular")
                 C == T!CutOff("regular")
      <3>3. /\ R \subseteq Executed /\ C \subseteq 1 .. Len(fills)
            /\ ~pull.full => /\ R \subseteq Due("regular")
                             /\ \A f \in Due("regular") : f \in R \/ f.n \in C
        BY <3>2, ServedIs DEF T!Sources
      <3> HIDE DEF R, C
      <3>4. /\ pull'.stage = "twap" /\ pull'.full = pull.full /\ pull'.horizon = pull.horizon
            /\ pull'.regular = R /\ pull'.cut = C
            /\ pull' \in [stage : {"regular", "twap"}, full : BOOLEAN,
                          kept : {"newest", "oldest"}, horizon : Int,
                          regular : SUBSET Executed, cut : SUBSET (1 .. Len(fills))]
        BY <3>1, <3>2, <3>3 DEF PullTrue, R, C
      <3>5. Due("regular")' = Due("regular")
        BY <1>1, <1>3, <3>4 DEF Due
      <3> QED  BY <1>1, <1>3, <3>2, <3>3, <3>4, <3>5 DEF PullTrue
    <2>3. CASE T!Abandon
      BY <2>3 DEF T!Abandon, PullTrue, T!NoPull
    <2> QED  BY <2>1, <2>2, <2>3
  <1> QED  BY <1>2, <1>4

-----------------------------------------------------------------------------
(* The walk: one step for each fill, from the first on. *)

Walker == [continuing : BOOLEAN, from : Int, opened : T!Time, tracked : BOOLEAN, pnl : SUBSET Nat,
           entry : SUBSET Nat, walked : Int, closedAt : T!Time, seq : Nat, trips : SUBSET Trip,
           cont : T!SegmentOf \cup {None}]

\* A walk from first that stands at t: no trip ends before it begins, the episode
\* in flight began by t, and the one it started in ended within it.
Straight(w, first, t) ==
  /\ w \in Walker /\ first <= t
  /\ w.opened # None => w.opened <= t
  /\ \A trip \in w.trips : trip.opened <= trip.closed
  /\ w.cont # None /\ w.cont.closed # None => first <= w.cont.closed

\* Before its first fill a walk is straight.
LEMMA WalkBegins ==
  ASSUME NEW f \in Fill
  PROVE  Straight(T!WalkStart(f), f.t, f.t)
  <1>1. f.t \in Nat /\ f.start \in Int
    BY StoreConstants DEF Fill
  <1>2. T!WalkStart(f) \in Walker
    BY <1>1 DEF T!WalkStart, Walker, T!Time
  <1> QED  BY <1>1, <1>2 DEF Straight, T!WalkStart

\* Giving up an episode leaves the walk straight.
LEMMA DemoteStraight ==
  ASSUME NEW f \in Fill, NEW w, NEW first \in Nat, Straight(w, first, f.t)
  PROVE  Straight(T!Demote(w, f), first, f.t)
  <1> DEFINE d == T!Demote(w, f)
  <1>1. w \in Walker /\ first <= f.t
    BY DEF Straight
  <1>2. CASE w.walked = f.start
    BY <1>2 DEF T!Demote
  <1>3. CASE w.walked # f.start
    <2>1. T!Segment(w, None, FALSE, 0) \in T!SegmentOf /\ T!Segment(w, None, FALSE, 0).closed = None
      BY <1>1 DEF T!Segment, T!SegmentOf, Walker, T!Time
    <2>2. d = [w EXCEPT !.cont = IF w.continuing THEN T!Segment(w, None, FALSE, 0) ELSE @,
                        !.continuing = FALSE, !.opened = None, !.pnl = {}, !.entry = {},
                        !.tracked = (f.start = 0)]
      BY <1>3 DEF T!Demote
    <2>3. d \in Walker /\ d.opened = None /\ d.trips = w.trips
          /\ d.cont \in {w.cont, T!Segment(w, None, FALSE, 0)}
      BY <1>1, <2>1, <2>2 DEF Walker, T!Time
    <2> HIDE DEF d
    <2>4. \A trip \in d.trips : trip.opened <= trip.closed
      BY <2>3 DEF Straight
    <2>5. d.cont # None /\ d.cont.closed # None => first <= d.cont.closed
      BY <2>1, <2>3 DEF Straight
    <2>6. Straight(d, first, f.t)
      BY <1>1, <2>3, <2>4, <2>5 DEF Straight
    <2> QED  BY <2>6 DEF d
  <1> QED  BY <1>2, <1>3

\* Banking a closing fill leaves the walk straight.
LEMMA BankStraight ==
  ASSUME NEW f \in Fill, NEW w, NEW first \in Nat, Straight(w, first, f.t)
  PROVE  /\ Straight(T!Banked(w, f), first, f.t)
         /\ Straight(T!Opening(w, f), first, f.t)
  <1>1. w \in Walker /\ first <= f.t
    BY DEF Straight
  <1>2. f.t \in Nat /\ f.n \in Nat /\ f.end \in Int
    BY StoreConstants DEF Fill
  <1>3. /\ T!Banked(w, f) \in Walker /\ T!Banked(w, f).opened = w.opened
        /\ T!Banked(w, f).trips = w.trips /\ T!Banked(w, f).cont = w.cont
    BY <1>1, <1>2 DEF T!Banked, Walker
  <1>4. Straight(T!Banked(w, f), first, f.t)
    BY <1>1, <1>3 DEF Straight
  <1>5. /\ T!Opening(w, f) \in Walker /\ T!Opening(w, f).opened \in {w.opened, f.t}
        /\ T!Opening(w, f).trips = w.trips /\ T!Opening(w, f).cont = w.cont
    BY <1>1, <1>2 DEF T!Opening, Walker, T!Time
  <1>6. Straight(T!Opening(w, f), first, f.t)
    BY <1>1, <1>2, <1>5 DEF Straight
  <1> QED  BY <1>4, <1>6

\* The end of an episode leaves the walk straight: its trip began before it.
LEMMA EndStraight ==
  ASSUME NEW f \in Fill, NEW w, NEW first \in Nat, Straight(w, first, f.t)
  PROVE  Straight(T!Ended(w, f), first, f.t)
  <1> DEFINE b == T!Banked(w, f)
             q == IF w.closedAt = f.t THEN w.seq + 1 ELSE 0
             trip == [opened |-> w.opened, closed |-> f.t, seq |-> q, pnl |-> b.pnl,
                      entry |-> w.entry, side |-> T!Side(f.start)]
             s == T!Segment(b, f.t, TRUE, 0)
             e == T!Ended(w, f)
  <1>1. w \in Walker /\ first <= f.t /\ b \in Walker
    BY BankStraight DEF Straight
  <1>2. f.t \in Nat /\ f.n \in Nat /\ q \in Nat /\ T!Side(f.start) \in {"LONG", "SHORT"}
    BY <1>1 DEF Fill, Walker, T!Side
  <1>3. s \in T!SegmentOf /\ s.closed = f.t
    BY <1>1, <1>2 DEF T!Segment, T!SegmentOf, Walker, T!Time
  <1>4. /\ b.opened = w.opened /\ b.trips = w.trips /\ b.cont = w.cont
        /\ b.continuing = w.continuing /\ b.tracked = w.tracked
    BY <1>1 DEF T!Banked, Walker
  <1>5. w.opened # None => trip \in Trip /\ trip.opened <= trip.closed
    BY <1>1, <1>2 DEF Straight, Trip, Walker, T!Time
  <1>6. e = [b EXCEPT !.cont = IF w.continuing THEN s ELSE @,
               !.trips = IF ~w.continuing /\ w.tracked /\ w.opened # None
                         THEN @ \cup {trip} ELSE @,
               !.continuing = FALSE, !.tracked = TRUE,
               !.closedAt = f.t, !.seq = q, !.pnl = {},
               !.opened = IF f.end # 0 THEN f.t ELSE None,
               !.entry = IF f.end # 0 THEN {f.n} ELSE {}]
    BY DEF T!Ended
  <1> HIDE DEF b, q, trip, s, e
  <1>7. /\ e.cont \in {w.cont, s} /\ e.opened \in {f.t, None}
        /\ e.trips = w.trips \/ (w.opened # None /\ e.trips = w.trips \cup {trip})
    BY <1>1, <1>4, <1>6 DEF Walker
  <1>8. e \in Walker
    <2> DEFINE c == IF w.continuing THEN s ELSE b.cont
               ts == IF ~w.continuing /\ w.tracked /\ w.opened # None
                     THEN b.trips \cup {trip} ELSE b.trips
               o == IF f.end # 0 THEN f.t ELSE None
               n == IF f.end # 0 THEN {f.n} ELSE {}
    <2>1. c \in T!SegmentOf \cup {None} /\ ts \in SUBSET Trip /\ o \in T!Time /\ n \in SUBSET Nat
      BY <1>1, <1>2, <1>3, <1>5 DEF Walker, T!Time
    <2>2. f.t \in T!Time
      BY <1>2 DEF T!Time
    <2>3. e = [b EXCEPT !.cont = c, !.trips = ts, !.continuing = FALSE, !.tracked = TRUE,
                        !.closedAt = f.t, !.seq = q, !.pnl = {}, !.opened = o, !.entry = n]
      BY <1>6
    <2> HIDE DEF c, ts, o, n
    <2> QED  BY <1>1, <1>2, <2>1, <2>2, <2>3 DEF Walker
  <1>9. \A x \in e.trips : x.opened <= x.closed
    BY <1>5, <1>7 DEF Straight
  <1>10. e.cont # None /\ e.cont.closed # None => first <= e.cont.closed
    BY <1>1, <1>3, <1>7 DEF Straight
  <1>11. e.opened # None => e.opened <= f.t
    BY <1>2, <1>7
  <1>12. Straight(e, first, f.t)
    BY <1>1, <1>8, <1>9, <1>10, <1>11 DEF Straight
  <1> QED  BY <1>12 DEF e

\* So does every fill.
LEMMA StepStraight ==
  ASSUME NEW f \in Fill, NEW w, NEW first \in Nat, Straight(w, first, f.t)
  PROVE  Straight(T!Step(w, f), first, f.t)
  <1>1. Straight(T!Demote(w, f), first, f.t)
    BY DemoteStraight
  <1>2. T!Step(w, f) \in {T!Opening(T!Demote(w, f), f), T!Banked(T!Demote(w, f), f),
                          T!Ended(T!Demote(w, f), f)}
    BY DEF T!Step
  <1>3. /\ Straight(T!Banked(T!Demote(w, f), f), first, f.t)
        /\ Straight(T!Opening(T!Demote(w, f), f), first, f.t)
        /\ Straight(T!Ended(T!Demote(w, f), f), first, f.t)
    BY <1>1, BankStraight, EndStraight
  <1> QED  BY <1>2, <1>3

\* Numbers that are some have a least one.
LEMMA LeastOf ==
  ASSUME NEW B \in SUBSET Nat, B # {}
  PROVE  \E x \in B : \A y \in B : x <= y
  <1> DEFINE R == OpToRel(<, Nat)
  <1>1. R = {ss \in Nat \X Nat : ss[1] < ss[2]}
    BY DEF OpToRel
  <1>2. \A x, y \in Nat : y < x => <<y, x>> \in R
    <2> HIDE DEF R
    <2> QED  BY <1>1
  <1> HIDE DEF R
  <1>3. PICK x \in B : \A y \in B : ~(<<y, x>> \in R)
    BY NatLessThanWellFounded, WFMin DEF R
  <1>4. ASSUME NEW y \in B PROVE x <= y
    <2>1. x \in Nat /\ y \in Nat /\ ~ (y < x)
      BY <1>2, <1>3
    <2> QED  BY <2>1
  <1> QED  BY <1>4

\* The recursion that Walk chooses a solution of has one.
LEMMA WalkExists ==
  ASSUME NEW N \in Nat, NEW b
  PROVE  \A n \in 0 .. N : \E w :
           w = [k \in 1 .. n |-> T!Step(IF k = 1 THEN T!WalkStart(b[1]) ELSE w[k - 1], b[k])]
  <1> DEFINE Next1(k, p) == T!Step(IF k = 1 THEN T!WalkStart(b[1]) ELSE p, b[k])
             Solved(n) == \E w : w = [k \in 1 .. n |-> Next1(k, w[k - 1])]
             B == {n \in 0 .. N : ~ Solved(n)}
  <1> HIDE DEF Next1
  <1>1. ASSUME B # {} PROVE FALSE
    <2>0. B \in SUBSET Nat
      OBVIOUS
    <2>1. PICK n \in B : \A m \in B : n <= m
      <3> HIDE DEF B
      <3> QED  BY <1>1, <2>0, LeastOf
    <2>2. n \in Nat /\ n \in 0 .. N /\ ~ Solved(n)
      BY <2>1
    <2>3. n # 0
      <3>1. Solved(0)
        <4> DEFINE w0 == [k \in 1 .. 0 |-> 0]
        <4>1. w0 = [k \in 1 .. 0 |-> Next1(k, w0[k - 1])]
          OBVIOUS
        <4> QED  BY <4>1
      <3> QED  BY <2>2, <3>1
    <2>4. Solved(n - 1)
      <3>1. n - 1 \in 0 .. N /\ n - 1 \in Nat /\ ~ (n <= n - 1)
        BY <2>2, <2>3
      <3>2. n - 1 \notin B
        BY <2>1, <3>1
      <3> QED  BY <3>1, <3>2
    <2> HIDE DEF B
    <2>5. PICK v : v = [k \in 1 .. n - 1 |-> Next1(k, v[k - 1])]
      BY <2>4
    <2> DEFINE w == [k \in 1 .. n |-> IF k < n THEN v[k] ELSE Next1(n, v[n - 1])]
    <2>6. \A k \in 1 .. n : w[k] = Next1(k, w[k - 1])
      <3> TAKE k \in 1 .. n
      <3>1. CASE k < n /\ k # 1
        <4>1. k \in 1 .. n - 1 /\ k - 1 \in 1 .. n /\ k - 1 < n
          BY <2>2, <3>1
        <4>2. w[k] = v[k] /\ w[k - 1] = v[k - 1]
          BY <3>1, <4>1
        <4> QED  BY <2>5, <4>1, <4>2
      <3>2. CASE k < n /\ k = 1
        <4>1. k \in 1 .. n - 1 /\ w[k] = v[k]
          BY <2>2, <3>2
        <4>2. v[k] = Next1(k, v[k - 1])
          BY <2>5, <4>1
        <4> QED  BY <3>2, <4>1, <4>2 DEF Next1
      <3>3. CASE k = n /\ k # 1
        <4>1. k - 1 \in 1 .. n /\ k - 1 < n /\ ~ (k < n)
          BY <2>2, <3>3
        <4>2. w[k] = Next1(n, v[n - 1]) /\ w[k - 1] = v[k - 1]
          BY <4>1
        <4> QED  BY <3>3, <4>2
      <3>4. CASE k = n /\ k = 1
        <4>1. w[k] = Next1(n, v[n - 1])
          BY <2>2, <3>4
        <4> QED  BY <3>4, <4>1 DEF Next1
      <3> QED  BY <2>2, <3>1, <3>2, <3>3, <3>4
    <2>7. w = [k \in 1 .. n |-> Next1(k, w[k - 1])]
      BY <2>6
    <2> HIDE DEF w
    <2>8. Solved(n)
      BY <2>7
    <2> QED  BY <2>2, <2>8
  <1>2. \A n \in 0 .. N : Solved(n)
    BY <1>1
  <1> QED  BY <1>2 DEF Next1

\* The walk takes one step for each fill of the batch.
LEMMA WalkIs ==
  ASSUME NEW b \in Seq(Fill)
  PROVE  \A k \in 1 .. Len(b) : T!Walk(b)[k] =
           T!Step(IF k = 1 THEN T!WalkStart(b[1]) ELSE T!Walk(b)[k - 1], b[k])
  <1> DEFINE N == Len(b)
  <1>1. N \in Nat /\ DOMAIN b = 1 .. N
    OBVIOUS
  <1>2. \E w : w = [k \in 1 .. N |-> T!Step(IF k = 1 THEN T!WalkStart(b[1]) ELSE w[k - 1], b[k])]
    <2>1. N \in 0 .. N
      BY <1>1
    <2>2. \A n \in 0 .. N : \E w :
            w = [k \in 1 .. n |-> T!Step(IF k = 1 THEN T!WalkStart(b[1]) ELSE w[k - 1], b[k])]
      BY <1>1, WalkExists
    <2> HIDE DEF N
    <2> QED  BY <2>1, <2>2
  <1>3. T!Walk(b) = CHOOSE w :
          w = [k \in DOMAIN b |-> T!Step(IF k = 1 THEN T!WalkStart(b[1]) ELSE w[k - 1], b[k])]
    BY DEF T!Walk
  <1>4. T!Walk(b) =
          [k \in 1 .. N |-> T!Step(IF k = 1 THEN T!WalkStart(b[1]) ELSE T!Walk(b)[k - 1], b[k])]
    BY <1>1, <1>2, <1>3
  <1> QED  BY <1>1, <1>4

ByTime(b) == \A k, l \in 1 .. Len(b) : k <= l => b[k].t <= b[l].t

\* A walk over fills in time is straight at each of them.
LEMMA WalkStraight ==
  ASSUME NEW b \in Seq(Fill), ByTime(b), b # <<>>
  PROVE  \A k \in 1 .. Len(b) : Straight(T!Walk(b)[k], b[1].t, b[k].t)
  <1> DEFINE N == Len(b)
             w == T!Walk(b)
             B == {k \in 1 .. N : ~ Straight(w[k], b[1].t, b[k].t)}
  <1>1. N \in Nat /\ 1 \in 1 .. N /\ \A k \in 1 .. N : b[k] \in Fill /\ b[k].t \in Nat
    <2>1. N \in Nat /\ N # 0 /\ \A k \in 1 .. N : b[k] \in Fill
      OBVIOUS
    <2>2. \A f \in Fill : f.t \in Nat
      BY DEF Fill
    <2> HIDE DEF N
    <2> QED  BY <2>1, <2>2
  <1>2. \A k \in 1 .. N : w[k] = T!Step(IF k = 1 THEN T!WalkStart(b[1]) ELSE w[k - 1], b[k])
    BY WalkIs
  <1> HIDE DEF w
  <1>3. ASSUME B # {} PROVE FALSE
    <2>0. B \in SUBSET Nat
      BY <1>1
    <2>1. PICK k \in B : \A m \in B : k <= m
      <3> HIDE DEF B
      <3> QED  BY <1>3, <2>0, LeastOf
    <2>2. k \in 1 .. N /\ b[k] \in Fill /\ b[1] \in Fill /\ b[1].t \in Nat /\ b[k].t \in Nat
      BY <1>1
    <2>3. Straight(w[k], b[1].t, b[k].t)
      <3>1. CASE k = 1
        BY <1>2, <2>2, <3>1, WalkBegins, StepStraight
      <3>2. CASE k # 1
        <4>1. k - 1 \in 1 .. N /\ ~ (k <= k - 1) /\ k - 1 <= k
          BY <1>1, <2>2, <3>2
        <4>2. Straight(w[k - 1], b[1].t, b[k - 1].t)
          BY <2>1, <4>1
        <4>3. b[k - 1].t <= b[k].t /\ b[k - 1].t \in Nat
          BY <1>1, <2>2, <4>1 DEF ByTime
        <4>4. w[k - 1].opened # None => w[k - 1].opened \in Nat
          BY <4>2 DEF Straight, Walker, T!Time
        <4>5. Straight(w[k - 1], b[1].t, b[k].t)
          BY <2>2, <4>2, <4>3, <4>4 DEF Straight
        <4>6. w[k] = T!Step(w[k - 1], b[k])
          BY <1>2, <2>2, <3>2
        <4> QED  BY <2>2, <4>5, <4>6, StepStraight
      <3> QED  BY <3>1, <3>2
    <2> QED  BY <2>1, <2>3
  <1>4. \A k \in 1 .. N : Straight(w[k], b[1].t, b[k].t)
    BY <1>3
  <1> QED  BY <1>4 DEF w

-----------------------------------------------------------------------------
(* The fold: what a batch makes, and what it makes of the store. *)

LEMMA ExtractIs ==
  ASSUME NEW b \in Seq(Fill), ByTime(b)
  PROVE  LET d == T!Extract(b)
         IN  /\ d.trips \subseteq Trip /\ \A trip \in d.trips : trip.opened <= trip.closed
             /\ d.open # None => d.open \in T!Episode /\ b # <<>> /\ d.open.opened <= b[Len(b)].t
             /\ d.cont # None =>
                  /\ d.cont \in T!SegmentOf /\ b # <<>>
                  /\ d.cont.closed # None => b[1].t <= d.cont.closed
             /\ d.lead = None <=> b = <<>>
  <1> DEFINE d == T!Extract(b)
  <1>1. CASE b = <<>>
    BY <1>1 DEF T!Extract
  <1>2. CASE b # <<>>
    <2> DEFINE w == T!Walk(b)[Len(b)]
               o == [opened |-> w.opened, pnl |-> w.pnl, entry |-> w.entry, net |-> w.walked]
               s == T!Segment(w, None, TRUE, w.walked)
    <2>1. Len(b) \in 1 .. Len(b) /\ b[1] \in Fill /\ b[1].t \in Nat
      <3>1. Len(b) \in Nat /\ Len(b) # 0 /\ 1 \in 1 .. Len(b)
        BY <1>2
      <3>2. \A f \in Fill : f.t \in Nat
        BY DEF Fill
      <3> QED  BY <3>1, <3>2
    <2>2. Straight(w, b[1].t, b[Len(b)].t)
      BY <1>2, <2>1, WalkStraight
    <2>3. d = [trips |-> w.trips,
               open |-> IF ~w.continuing /\ w.tracked /\ w.opened # None THEN o ELSE None,
               cont |-> IF w.continuing THEN s ELSE w.cont,
               lead |-> b[1].t]
      BY <1>2 DEF T!Extract
    <2> HIDE DEF w, d
    <2>4. w \in Walker
      BY <2>2 DEF Straight
    <2>5. w.opened # None => o \in T!Episode /\ o.opened <= b[Len(b)].t
      BY <2>2, <2>4 DEF Straight, Walker, T!Time, T!Episode
    <2>6. s \in T!SegmentOf /\ s.closed = None
      BY <2>4 DEF T!Segment, T!SegmentOf, Walker, T!Time
    <2> HIDE DEF o, s
    <2>7. d.trips \subseteq Trip /\ \A trip \in d.trips : trip.opened <= trip.closed
      BY <2>2, <2>3, <2>4 DEF Straight, Walker
    <2>8. d.open # None => d.open \in T!Episode /\ d.open.opened <= b[Len(b)].t
      BY <2>3, <2>5
    <2>9. d.cont # None => d.cont \in T!SegmentOf /\ (d.cont.closed # None => b[1].t <= d.cont.closed)
      <3>1. CASE w.continuing
        BY <2>3, <2>6, <3>1
      <3>2. CASE ~ w.continuing
        <4>1. d.cont = w.cont /\ w.cont \in T!SegmentOf \cup {None}
          BY <2>3, <2>4, <3>2 DEF Walker
        <4> QED  BY <2>2, <4>1 DEF Straight
      <3> QED  BY <3>1, <3>2
    <2>10. d.lead # None
      BY <2>1, <2>3, StoreConstants
    <2> QED  BY <1>2, <2>7, <2>8, <2>9, <2>10 DEF d
  <1> QED  BY <1>1, <1>2

Last(b) == IF b = <<>> THEN None ELSE b[Len(b)].t

\* A batch that begins no earlier than the checkpoint keeps the stored record
\* straight, and its checkpoint the latest of what was folded.
LEMMA FoldStraight ==
  ASSUME StoreTrue, NEW b \in Seq(Fill), ByTime(b),
         b # <<>> /\ store.checkpoint # None => store.checkpoint <= b[1].t
  PROVE  LET s == T!Folded(store, b, Last(b))
         IN  /\ DOMAIN s = {"trips", "open", "checkpoint"}
             /\ s.checkpoint = T!Later(store.checkpoint, Last(b)) /\ s.checkpoint \in T!Time
             /\ s.trips \subseteq Trip /\ \A trip \in s.trips : trip.opened <= trip.closed
             /\ s.open # None => /\ s.open \in T!Episode /\ s.checkpoint # None
                                 /\ s.open.opened <= s.checkpoint
  <1> DEFINE s == T!Folded(store, b, Last(b))
             d == T!Extract(b)
             cp == T!Later(store.checkpoint, Last(b))
             o == store.open
  <1>1. b # <<>> => /\ b[1].t \in Nat /\ b[Len(b)].t \in Nat /\ b[1].t <= b[Len(b)].t
    <2> SUFFICES ASSUME b # <<>> PROVE b[1].t \in Nat /\ b[Len(b)].t \in Nat /\ b[1].t <= b[Len(b)].t
      OBVIOUS
    <2>1. Len(b) \in Nat /\ 1 \in 1 .. Len(b) /\ Len(b) \in 1 .. Len(b) /\ 1 <= Len(b)
          /\ b[1] \in Fill /\ b[Len(b)] \in Fill
      OBVIOUS
    <2> QED  BY <2>1 DEF ByTime, Fill
  <1>2. /\ store.checkpoint \in T!Time /\ store.trips \subseteq Trip
        /\ \A trip \in store.trips : trip.opened <= trip.closed
        /\ o # None => o \in T!Episode /\ store.checkpoint # None /\ o.opened <= store.checkpoint
    BY DEF StoreTrue
  <1>3. /\ cp \in T!Time
        /\ store.checkpoint # None => cp # None /\ store.checkpoint <= cp
        /\ b # <<>> => cp # None /\ b[Len(b)].t <= cp
        /\ b = <<>> => cp = store.checkpoint
    <2>1. CASE b = <<>>
      BY <1>2, <2>1 DEF T!Later, Last, T!Time
    <2>2. CASE b # <<>>
      BY <1>1, <1>2, <2>2, StoreConstants DEF T!Later, Last, T!Time
    <2> QED  BY <2>1, <2>2
  <1>4. /\ d.trips \subseteq Trip /\ \A trip \in d.trips : trip.opened <= trip.closed
        /\ d.open # None => d.open \in T!Episode /\ b # <<>> /\ d.open.opened <= b[Len(b)].t
        /\ d.cont # None => /\ d.cont \in T!SegmentOf /\ b # <<>>
                            /\ d.cont.closed # None => b[1].t <= d.cont.closed
        /\ d.lead = None <=> b = <<>>
    BY ExtractIs
  <1>5. /\ DOMAIN s = {"trips", "open", "checkpoint"} /\ s.checkpoint = cp
        /\ s.open = T!OpenAfter(o, d)
        /\ s.trips \subseteq store.trips \cup T!Resolved(o, d) \cup T!Kept(o, d)
    BY DEF T!Folded
  <1> HIDE DEF s, d, cp
  <1>6. T!Kept(o, d) \subseteq d.trips
    BY DEF T!Kept
  <1>7. \A trip \in T!Resolved(o, d) : trip \in Trip /\ trip.opened <= trip.closed
    <2> SUFFICES ASSUME NEW trip \in T!Resolved(o, d) PROVE trip \in Trip /\ trip.opened <= trip.closed
      OBVIOUS
    <2>1. /\ o # None /\ d.cont # None /\ d.cont.closed # None
          /\ trip = [opened |-> o.opened, closed |-> d.cont.closed, seq |-> 0,
                     pnl |-> o.pnl \cup d.cont.pnl, entry |-> o.entry \cup d.cont.entry,
                     side |-> T!Side(o.net)]
      BY DEF T!Resolved, T!Continues
    <2>2. /\ o \in T!Episode /\ d.cont \in T!SegmentOf /\ d.cont.closed \in Nat
          /\ o.opened <= store.checkpoint /\ store.checkpoint \in Nat
          /\ store.checkpoint <= b[1].t /\ b[1].t <= d.cont.closed /\ b[1].t \in Nat
      BY <1>1, <1>2, <1>4, <2>1 DEF T!SegmentOf, T!Time
    <2>3. o.opened \in Nat /\ o.opened <= d.cont.closed
      BY <2>2 DEF T!Episode
    <2>4. T!Side(o.net) \in {"LONG", "SHORT"}
      BY DEF T!Side
    <2> QED  BY <2>1, <2>2, <2>3, <2>4 DEF Trip, T!Episode, T!SegmentOf
  <1>8. s.trips \subseteq Trip /\ \A trip \in s.trips : trip.opened <= trip.closed
    BY <1>2, <1>4, <1>5, <1>6, <1>7
  <1>9. s.open # None => s.open \in T!Episode /\ cp # None /\ s.open.opened <= cp
    <2> DEFINE c == [o EXCEPT !.pnl = @ \cup d.cont.pnl, !.entry = @ \cup d.cont.entry,
                              !.net = d.cont.net]
    <2>1. \/ s.open = d.open
          \/ T!Continues(o, d) /\ s.open = c
          \/ d.lead = None /\ s.open = o
          \/ s.open = None
      BY <1>5 DEF T!OpenAfter
    <2>2. CASE s.open = d.open
      <3>1. d.open # None => /\ d.open \in T!Episode /\ d.open.opened \in Nat
                             /\ b[Len(b)].t \in Nat /\ cp \in Nat
                             /\ d.open.opened <= b[Len(b)].t /\ b[Len(b)].t <= cp /\ cp # None
        BY <1>1, <1>3, <1>4 DEF T!Episode, T!Time
      <3> QED  BY <2>2, <3>1
    <2>3. CASE T!Continues(o, d) /\ s.open = c
      <3>1. o # None /\ d.cont # None
        BY <2>3 DEF T!Continues
      <3>2. /\ o \in T!Episode /\ d.cont \in T!SegmentOf /\ store.checkpoint \in Nat /\ cp \in Nat
            /\ o.opened <= store.checkpoint /\ store.checkpoint <= cp /\ cp # None
        BY <1>2, <1>3, <1>4, <3>1 DEF T!Time
      <3>3. c \in T!Episode /\ c.opened = o.opened /\ o.opened \in Nat
        BY <3>2 DEF T!Episode, T!SegmentOf
      <3> HIDE DEF c
      <3> QED  BY <2>3, <3>2, <3>3
    <2>4. CASE d.lead = None /\ s.open = o
      BY <1>2, <1>3, <1>4, <2>4
    <2> QED  BY <2>1, <2>2, <2>3, <2>4
  <1> QED  BY <1>3, <1>5, <1>8, <1>9 DEF s, cp

\* The batch of a refresh: what was read of the plain fills, and what is served
\* of the slices now.
Batch == T!Merged(pull.regular, T!Served("twap"))

\* What a refresh folds: executions in order, each once, and all that was due but
\* for what the cap kept back.
LEMMA BatchIs ==
  ASSUME StoreInv, T!Refresh
  PROVE  /\ Batch \in Seq(Fill) /\ DOMAIN Batch = 1 .. Len(Batch) /\ ByTime(Batch)
         /\ \A k, l \in 1 .. Len(Batch) : k < l => T!Before(Batch[k], Batch[l])
         /\ \A k \in 1 .. Len(Batch) : Batch[k] \in Executed
         /\ ~pull.full => /\ \A k \in 1 .. Len(Batch) : /\ store.checkpoint < Batch[k].t
                                                        /\ Batch[k].t <= pull.horizon
                          /\ \A f \in Executed :
                               store.checkpoint < f.t /\ f.t <= pull.horizon =>
                                 \/ \E k \in 1 .. Len(Batch) : Batch[k] = f
                                 \/ f.n \in pull.cut \cup T!CutOff("twap")
         /\ pull.cut \cup T!CutOff("twap") \subseteq 1 .. Len(fills)
  <1> USE DEF StoreInv
  <1> DEFINE R == pull.regular
             W == T!Served("twap")
             C == pull.cut \cup T!CutOff("twap")
             b == Batch
  <1>1. pull.stage = "twap" /\ pull # T!NoPull
    BY DEF T!Refresh, T!NoPull
  <1>2. /\ R \subseteq Executed /\ W \subseteq Executed
        /\ C \subseteq 1 .. Len(fills)
        /\ ~pull.full => /\ R \subseteq Due("regular") /\ W \subseteq Due("twap")
                         /\ \A f \in Due("regular") : f \in R \/ f.n \in C
                         /\ \A f \in Due("twap") : f \in W \/ f.n \in C
    BY <1>1, ServedIs DEF PullTrue, T!Sources
  <1>3. /\ b \in Seq(R \cup W) /\ DOMAIN b = 1 .. Len(b)
        /\ \A f \in R \cup W : \E k \in 1 .. Len(b) : b[k] = f
        /\ \A k, l \in 1 .. Len(b) : k <= l => b[k].t <= b[l].t
        /\ \A k, l \in 1 .. Len(b) : k < l => T!Before(b[k], b[l])
    BY <1>2, MergedIs DEF Batch
  <1> HIDE DEF R, W, C, b
  <1>4. Len(b) \in Nat /\ \A k \in 1 .. Len(b) : b[k] \in R \cup W
    BY <1>3
  <1>5. \A k \in 1 .. Len(b) : b[k] \in Executed
    BY <1>2, <1>4
  <1>6. b \in Seq(Fill)
    <2>1. \A k \in 1 .. Len(b) : b[k] \in Fill
      BY <1>5, ExecutedIs
    <2> QED  BY <1>3, <1>4, <2>1
  <1>7. ByTime(b)
    BY <1>3 DEF ByTime
  <1>8. ASSUME ~pull.full
        PROVE  /\ \A k \in 1 .. Len(b) : store.checkpoint < b[k].t /\ b[k].t <= pull.horizon
               /\ \A f \in Executed : store.checkpoint < f.t /\ f.t <= pull.horizon =>
                                        (\E k \in 1 .. Len(b) : b[k] = f) \/ f.n \in C
    <2>1. \A f \in R \cup W : store.checkpoint < f.t /\ f.t <= pull.horizon
      BY <1>2, <1>8 DEF Due
    <2>2. \A f \in Executed : f.source \in {"regular", "twap"}
      BY ExecutedIs DEF Fill
    <2>3. \A f \in Executed : store.checkpoint < f.t /\ f.t <= pull.horizon => f \in R \cup W \/ f.n \in C
      BY <1>2, <1>8, <2>2 DEF Due
    <2> QED  BY <1>3, <1>4, <2>1, <2>3
  <1> QED  BY <1>2, <1>3, <1>5, <1>6, <1>7, <1>8 DEF b, C

\* A refresh folds its batch onto the store and moves the checkpoint.
LEMMA RefreshKeeps == ASSUME StoreInv, T!Refresh PROVE StoreInv'
  <1> USE DEF StoreInv
  <1> DEFINE b == Batch
             new == Last(b)
             C == pull.cut \cup T!CutOff("twap")
  <1>1. /\ b \in Seq(Fill) /\ DOMAIN b = 1 .. Len(b) /\ ByTime(b)
        /\ \A k \in 1 .. Len(b) : b[k] \in Executed
        /\ ~pull.full => /\ \A k \in 1 .. Len(b) : /\ store.checkpoint < b[k].t
                                                   /\ b[k].t <= pull.horizon
                         /\ \A f \in Executed : store.checkpoint < f.t /\ f.t <= pull.horizon =>
                                                  (\E k \in 1 .. Len(b) : b[k] = f) \/ f.n \in C
        /\ C \subseteq 1 .. Len(fills)
    BY BatchIs
  <1>2. /\ store' = T!Folded(store, b, new)
        /\ seen' = seen \cup {b[i].n : i \in DOMAIN b}
        /\ cut' = cut \cup C
        /\ seed' = (IF pull.full THEN new ELSE seed)
        /\ pull' = T!NoPull /\ UNCHANGED <<instant, fills>>
    BY DEF T!Refresh, Batch, Last
  <1>3. pull # T!NoPull
    BY DEF T!Refresh, T!NoPull
  <1> HIDE DEF b, C
  <1>4. b # <<>> => Len(b) \in 1 .. Len(b) /\ 1 \in 1 .. Len(b)
    BY <1>1
  <1>5. /\ instant \in Nat /\ Skew \in Nat /\ Margin \in Nat /\ Skew < Margin
        /\ pull.horizon \in Int /\ pull.horizon + Margin <= instant
        /\ store.checkpoint \in T!Time /\ pull.full \in BOOLEAN
        /\ pull.full <=> store.checkpoint = None
    BY <1>3, StoreConstants DEF HistoryTrue, PullTrue, StoreTrue
  <1>6. new = None <=> b = <<>>
    BY <1>1, <1>4, ExecutedIs, StoreConstants DEF Last, Fill
  <1>7. b # <<>> => new = b[Len(b)].t /\ new \in Nat /\ b[1].t \in Nat
    BY <1>1, <1>4, ExecutedIs DEF Last, Fill
  <1>8. b # <<>> /\ store.checkpoint # None => store.checkpoint <= b[1].t
    <2> SUFFICES ASSUME b # <<>>, store.checkpoint # None PROVE store.checkpoint <= b[1].t
      OBVIOUS
    <2>1. store.checkpoint < b[1].t /\ b[1].t \in Nat /\ store.checkpoint \in Nat
      BY <1>1, <1>4, <1>5, <1>7 DEF T!Time
    <2> QED  BY <2>1
  <1> HIDE DEF new
  <1>9. /\ DOMAIN store' = {"trips", "open", "checkpoint"}
        /\ store'.checkpoint = T!Later(store.checkpoint, new) /\ store'.checkpoint \in T!Time
        /\ store'.trips \subseteq Trip /\ \A trip \in store'.trips : trip.opened <= trip.closed
        /\ store'.open # None => /\ store'.open \in T!Episode /\ store'.checkpoint # None
                                 /\ store'.open.opened <= store'.checkpoint
    BY <1>1, <1>2, <1>8, FoldStraight DEF new
  <1>10. HistoryTrue' /\ PullTrue'
    BY <1>2 DEF HistoryTrue, PullTrue, T!NoPull
  <1>11. new \in T!Time
    BY <1>6, <1>7 DEF T!Time, Last, new
  <1>12. seed' \in T!Time
    BY <1>2, <1>11 DEF StoreTrue
  <1>13. StoreTrue'
    BY <1>9, <1>12 DEF StoreTrue
  <1>14. seen' \subseteq 1 .. Len(fills) /\ cut' \subseteq 1 .. Len(fills)
    <2>1. \A k \in 1 .. Len(b) : b[k].n \in 1 .. Len(fills)
      BY <1>1, ExecutedIs
    <2>2. seen \subseteq 1 .. Len(fills) /\ cut \subseteq 1 .. Len(fills)
      BY DEF NothingMissed
    <2> QED  BY <1>1, <1>2, <2>1, <2>2
  <1>15. NothingMissed'
    <2>1. CASE pull.full
      <3>1. store'.checkpoint = new /\ seed' = new
        BY <1>2, <1>5, <1>9, <2>1 DEF T!Later
      <3>2. \A i \in 1 .. Len(fills) : ~ (new < fills[i].t /\ fills[i].t <= new) \/ new = None
        <4>1. \A i \in 1 .. Len(fills) : fills[i].t \in Nat
          BY ExecutedIs DEF Executed, Fill
        <4> QED  BY <1>11, <4>1 DEF T!Time
      <3> QED  BY <1>2, <1>14, <3>1, <3>2 DEF NothingMissed
    <2>2. CASE ~ pull.full
      <3>1. seed' = seed /\ seed # None /\ seed \in Nat /\ store.checkpoint \in Nat
        BY <1>2, <1>5, <2>2 DEF NothingMissed, StoreTrue, T!Time
      <3>2. \/ store'.checkpoint = store.checkpoint
            \/ b # <<>> /\ store'.checkpoint = new
        <4>1. T!Later(store.checkpoint, new) \in {store.checkpoint, new}
          BY DEF T!Later
        <4>2. new = None => T!Later(store.checkpoint, new) = store.checkpoint
          BY DEF T!Later
        <4>3. store'.checkpoint = T!Later(store.checkpoint, new)
          BY <1>9
        <4>4. b = <<>> => new = None
          BY <1>6
        <4> QED  BY <4>1, <4>2, <4>3, <4>4
      <3>3. b # <<>> => new <= pull.horizon
        BY <1>1, <1>4, <1>7, <2>2
      <3>4. b # <<>> => new + Skew < instant
        BY <1>5, <1>7, <3>3
      <3>5. /\ store'.checkpoint \in Nat /\ store'.checkpoint # None
            /\ seed = store'.checkpoint \/ store'.checkpoint + Skew < instant
        BY <1>7, <3>1, <3>2, <3>4, StoreConstants DEF NothingMissed
      <3>6. ASSUME NEW i \in 1 .. Len(fills), seed < fills[i].t, fills[i].t <= store'.checkpoint
            PROVE  i \in seen' \cup cut'
        <4>1. fills[i] \in Executed /\ fills[i].n = i /\ fills[i].t \in Nat
          BY ExecutedIs DEF Executed, Fill, HistoryTrue
        <4>2. CASE fills[i].t <= store.checkpoint
          BY <1>2, <3>1, <3>6, <4>2 DEF NothingMissed
        <4>3. CASE ~ (fills[i].t <= store.checkpoint)
          <5>1. store.checkpoint < fills[i].t
            BY <3>1, <4>1, <4>3
          <5>2. fills[i].t <= pull.horizon
            BY <1>5, <1>7, <3>2, <3>3, <3>6, <4>1, <4>3
          <5>3. (\E k \in 1 .. Len(b) : b[k] = fills[i]) \/ i \in C
            BY <1>1, <2>2, <4>1, <5>1, <5>2
          <5>4. ASSUME NEW k \in 1 .. Len(b), b[k] = fills[i] PROVE i \in seen'
            BY <1>1, <1>2, <4>1, <5>4
          <5> QED  BY <1>2, <5>3, <5>4
        <4> QED  BY <4>2, <4>3
      <3> QED  BY <1>2, <1>14, <3>1, <3>5, <3>6 DEF NothingMissed
    <2> QED  BY <2>1, <2>2
  <1> QED  BY <1>10, <1>13, <1>15

-----------------------------------------------------------------------------
(* The invariant, and what follows from it. *)

LEMMA StoreStep == ASSUME StoreInv, T!Next \/ UNCHANGED ofStore PROVE StoreInv'
  <1>1. CASE UNCHANGED ofStore
    BY <1>1 DEF ofStore, StoreInv, HistoryTrue, PullTrue, StoreTrue, NothingMissed, Executed, Due,
                T!NoPull
  <1>2. CASE T!Next
    <2>1. ASSUME NEW source \in T!Sources, NEW end \in Held, T!Trade(source, end) PROVE StoreInv'
      BY <2>1, TradeKeeps
    <2> QED  BY <1>2, <2>1, ClockKeeps, PullKeeps, RefreshKeeps DEF T!Next
  <1> QED  BY <1>1, <1>2

\* The inductive invariant of the store: pulls and checkpoints stand apart from
\* the clock, what was read is all there was to read but what the cap kept back,
\* and the record is straight.
THEOREM StoreInvariant == ExchangeSpec => []StoreInv
  <1>1. ExchangeInit => StoreInv
    BY StoreBegins DEF ExchangeInit
  <1>2. StoreInv /\ [ExchangeNext]_everything => StoreInv'
    BY StoreStep DEF ExchangeNext, everything
  <1> QED  BY <1>1, <1>2, PTL DEF ExchangeSpec

\* The stored trips end after they begin, and the pull, the clock and the record of
\* what was seen keep their types, through every pull, trade and abandoned refresh.
THEOREM StoreTypeCorrect == ExchangeSpec => []T!TypeOK
  <1>1. StoreInv => T!TypeOK
    <2> SUFFICES ASSUME StoreInv PROVE T!TypeOK
      OBVIOUS
    <2>1. pull.stage \in {"none", "regular", "twap"}
      BY PullIs DEF StoreInv, T!NoPull
    <2>2. seen \cup cut \subseteq DOMAIN fills
      BY ExecutedIs DEF StoreInv, NothingMissed
    <2> QED  BY <2>1, <2>2 DEF T!TypeOK, StoreInv, HistoryTrue, StoreTrue
  <1> QED  BY <1>1, StoreInvariant, PTL

\* The part of RecordIsTrue that no walk is needed for: after the seed, an
\* execution up to the checkpoint is passed over only where a response was full,
\* whatever the two endpoints executed while a pull ran (gateway/http.py,
\* COVERAGE_HORIZON_MARGIN; gateway/__init__.py, the cap of a call).
THEOREM NothingIsSkipped == ExchangeSpec => []T!NothingSkipped
  <1>1. StoreInv => T!NothingSkipped
    BY ExecutedIs DEF StoreInv, NothingMissed, T!NothingSkipped, T!Passed
  <1> QED  BY <1>1, StoreInvariant, PTL

-----------------------------------------------------------------------------
(* One fill, field by field. *)

\* A fill that does not close goes further out on its side, and one that trims
\* stays on it.
LEMMA Moves ==
  ASSUME NEW f \in Fill, f.start # f.end
  PROVE  /\ ~T!Closes(f) => f.end # 0 /\ (f.start # 0 => T!Sign(f.end) = T!Sign(f.start))
         /\ T!Closes(f) => f.start # 0
         /\ T!Trims(f) => T!Closes(f) /\ f.end # 0 /\ T!Sign(f.end) = T!Sign(f.start)
  <1> DEFINE s == f.start
             e == f.end
  <1>1. s \in Int /\ e \in Int /\ s # e
    BY StoreConstants DEF Fill
  <1> HIDE DEF s, e
  <1>2. ~(s # 0 /\ (e - s) * s < 0) => e # 0 /\ (s # 0 => T!Sign(e) = T!Sign(s))
    <2>1. CASE s = 0
      BY <1>1, <2>1
    <2>2. CASE s > 0
      <3>1. e < s => (e - s) * s < 0
        BY <1>1, <2>2
      <3> QED  BY <1>1, <2>2, <3>1 DEF T!Sign
    <2>3. CASE s < 0
      <3>1. e > s => (e - s) * s < 0
        BY <1>1, <2>3
      <3> QED  BY <1>1, <2>3, <3>1 DEF T!Sign
    <2> QED  BY <1>1, <2>1, <2>2, <2>3
  <1>3. s # 0 /\ T!Sign(e) = T!Sign(s) => e # 0
    BY <1>1 DEF T!Sign
  <1> QED  BY <1>2, <1>3 DEF T!Closes, T!Trims, s, e

Closing(opened, closed, pnl, entry, side) ==
  [opened |-> opened, closed |-> closed, seq |-> 0, pnl |-> pnl, entry |-> entry, side |-> side]

Contents(trips) == {T!Content(trip) : trip \in trips}

\* What the three ways to take a fill leave.
Opens(r, d, f) ==
  /\ r.continuing = d.continuing /\ r.from = d.from /\ r.tracked = d.tracked
  /\ r.pnl = d.pnl /\ r.trips = d.trips /\ r.cont = d.cont
  /\ r.opened = IF f.start = 0 /\ d.opened = None /\ ~d.continuing THEN f.t ELSE d.opened
  /\ r.entry = d.entry \cup {f.n}

Banks(r, d, f) ==
  /\ r.continuing = d.continuing /\ r.from = d.from /\ r.tracked = d.tracked
  /\ r.pnl = d.pnl \cup {f.n} /\ r.trips = d.trips /\ r.cont = d.cont
  /\ r.opened = d.opened /\ r.entry = d.entry

Ends(r, d, f) ==
  /\ r.continuing = FALSE /\ r.from = d.from /\ r.tracked = TRUE /\ r.pnl = {}
  /\ r.opened = IF f.end # 0 THEN f.t ELSE None
  /\ r.entry = IF f.end # 0 THEN {f.n} ELSE {}
  /\ d.continuing => r.cont = T!Segment(T!Banked(d, f), f.t, TRUE, 0)
  /\ ~d.continuing => r.cont = d.cont
  /\ IF ~d.continuing /\ d.tracked /\ d.opened # None
     THEN \E trip \in Trip :
            /\ r.trips = d.trips \cup {trip} /\ trip.closed = f.t
            /\ T!Content(trip) =
                 Closing(d.opened, f.t, d.pnl \cup {f.n}, d.entry, T!Side(f.start))
     ELSE r.trips = d.trips

\* A trip without its ordinal, field by field.
LEMMA ContentIs ==
  ASSUME NEW trip \in Trip
  PROVE  T!Content(trip) = Closing(trip.opened, trip.closed, trip.pnl, trip.entry, trip.side)
BY DEF T!Content, Closing, Trip

\* A walk that stands where the fill starts goes on; another loses its episode.
LEMMA DemoteIs ==
  ASSUME NEW w \in Walker, NEW f \in Fill
  PROVE  LET d == T!Demote(w, f)
         IN  /\ d \in Walker
             /\ w.walked = f.start => d = w
             /\ w.walked # f.start =>
                  /\ d.continuing = FALSE /\ d.from = w.from /\ d.tracked = (f.start = 0)
                  /\ d.opened = None /\ d.pnl = {} /\ d.entry = {} /\ d.trips = w.trips
                  /\ d.cont = IF w.continuing THEN T!Segment(w, None, FALSE, 0) ELSE w.cont
  <1> DEFINE d == T!Demote(w, f)
  <1>1. CASE w.walked = f.start
    BY <1>1 DEF T!Demote
  <1>2. CASE w.walked # f.start
    <2>1. T!Segment(w, None, FALSE, 0) \in T!SegmentOf
      BY DEF T!Segment, T!SegmentOf, Walker, T!Time
    <2>2. d = [w EXCEPT !.cont = IF w.continuing THEN T!Segment(w, None, FALSE, 0) ELSE @,
                        !.continuing = FALSE, !.opened = None, !.pnl = {}, !.entry = {},
                        !.tracked = (f.start = 0)]
      BY <1>2 DEF T!Demote
    <2>3. d \in Walker
      BY <2>1, <2>2 DEF Walker, T!Time
    <2>4. /\ d.continuing = FALSE /\ d.from = w.from /\ d.tracked = (f.start = 0)
          /\ d.opened = None /\ d.pnl = {} /\ d.entry = {} /\ d.trips = w.trips
          /\ d.cont = IF w.continuing THEN T!Segment(w, None, FALSE, 0) ELSE w.cont
      BY <2>2 DEF Walker
    <2> HIDE DEF d
    <2> QED  BY <1>2, <2>3, <2>4 DEF d
  <1> QED  BY <1>1, <1>2

\* A fill taken as one that opens, and one taken as a trim, field by field.
LEMMA TakenIs ==
  ASSUME NEW d \in Walker, NEW f \in Fill
  PROVE  /\ Opens(T!Opening(d, f), d, f) /\ T!Opening(d, f) \in Walker
         /\ T!Opening(d, f).walked = f.end
         /\ Banks(T!Banked(d, f), d, f) /\ T!Banked(d, f) \in Walker
         /\ T!Banked(d, f).walked = f.end
  <1>1. f.t \in Nat /\ f.n \in Nat /\ f.end \in Int
    BY StoreConstants DEF Fill
  <1>2. T!Opening(d, f) \in Walker /\ T!Banked(d, f) \in Walker
    BY <1>1 DEF T!Opening, T!Banked, Walker, T!Time
  <1>3. T!Opening(d, f).walked = f.end /\ T!Banked(d, f).walked = f.end
    BY DEF T!Opening, T!Banked, Walker
  <1>4. Opens(T!Opening(d, f), d, f)
    BY DEF T!Opening, Opens, Walker
  <1>5. Banks(T!Banked(d, f), d, f)
    BY DEF T!Banked, Banks, Walker
  <1> QED  BY <1>2, <1>3, <1>4, <1>5

\* A fill that ends an episode, field by field.
LEMMA EndedIs ==
  ASSUME NEW d \in Walker, NEW f \in Fill
  PROVE  /\ Ends(T!Ended(d, f), d, f) /\ T!Ended(d, f) \in Walker
         /\ T!Ended(d, f).walked = f.end
  <1> DEFINE b == T!Banked(d, f)
             q == IF d.closedAt = f.t THEN d.seq + 1 ELSE 0
             trip == [opened |-> d.opened, closed |-> f.t, seq |-> q, pnl |-> b.pnl,
                      entry |-> d.entry, side |-> T!Side(f.start)]
             s == T!Segment(b, f.t, TRUE, 0)
             e == T!Ended(d, f)
             c == IF d.continuing THEN s ELSE b.cont
             ts == IF ~d.continuing /\ d.tracked /\ d.opened # None
                   THEN b.trips \cup {trip} ELSE b.trips
             o == IF f.end # 0 THEN f.t ELSE None
             n == IF f.end # 0 THEN {f.n} ELSE {}
  <1>1. /\ b \in Walker /\ b.trips = d.trips /\ b.cont = d.cont /\ b.from = d.from
        /\ b.pnl = d.pnl \cup {f.n} /\ b.walked = f.end
    BY TakenIs DEF Banks
  <1>2. f.t \in Nat /\ f.n \in Nat /\ q \in Nat /\ T!Side(f.start) \in {"LONG", "SHORT"}
    BY DEF Fill, Walker, T!Side
  <1>3. s \in T!SegmentOf
    BY <1>1, <1>2 DEF T!Segment, T!SegmentOf, Walker, T!Time
  <1>4. d.opened # None =>
          /\ trip \in Trip /\ trip.closed = f.t
          /\ T!Content(trip) = Closing(d.opened, f.t, d.pnl \cup {f.n}, d.entry, T!Side(f.start))
    <2> SUFFICES ASSUME d.opened # None
                 PROVE  /\ trip \in Trip /\ trip.closed = f.t
                        /\ T!Content(trip) = Closing(d.opened, f.t, d.pnl \cup {f.n}, d.entry,
                                                     T!Side(f.start))
      OBVIOUS
    <2>1. trip \in Trip
      BY <1>1, <1>2 DEF Trip, Walker, T!Time
    <2>2. /\ trip.opened = d.opened /\ trip.closed = f.t /\ trip.pnl = d.pnl \cup {f.n}
          /\ trip.entry = d.entry /\ trip.side = T!Side(f.start)
      BY <1>1
    <2> HIDE DEF trip
    <2> QED  BY <2>1, <2>2, ContentIs
  <1>5. /\ c \in T!SegmentOf \cup {None} /\ ts \in SUBSET Trip /\ o \in T!Time /\ n \in SUBSET Nat
        /\ f.t \in T!Time
    BY <1>1, <1>2, <1>3, <1>4 DEF Walker, T!Time
  <1>6. e = [b EXCEPT !.cont = c, !.trips = ts, !.continuing = FALSE, !.tracked = TRUE,
                      !.closedAt = f.t, !.seq = q, !.pnl = {}, !.opened = o, !.entry = n]
    BY DEF T!Ended
  <1>7. /\ d.continuing => c = s
        /\ ~d.continuing => c = d.cont
        /\ IF ~d.continuing /\ d.tracked /\ d.opened # None
           THEN ts = d.trips \cup {trip} ELSE ts = d.trips
    BY <1>1
  <1> HIDE DEF b, q, trip, s, e, c, ts
  <1>8. /\ e.continuing = FALSE /\ e.tracked = TRUE /\ e.from = d.from /\ e.pnl = {}
        /\ e.opened = o /\ e.entry = n /\ e.cont = c /\ e.trips = ts /\ e.walked = f.end
    BY <1>1, <1>6 DEF Walker
  <1>9. e \in Walker
    <2> HIDE DEF o, n
    <2> QED  BY <1>1, <1>2, <1>5, <1>6 DEF Walker
  <1>10. Ends(e, d, f)
    BY <1>4, <1>7, <1>8 DEF Ends, s, b
  <1> QED  BY <1>8, <1>9, <1>10 DEF e

\* So a fill opens, banks or ends, after the guard has looked at its start.
LEMMA StepIs ==
  ASSUME NEW w \in Walker, NEW f \in Fill
  PROVE  LET d == T!Demote(w, f)
             r == T!Step(w, f)
         IN  /\ r \in Walker /\ r.walked = f.end
             /\ \/ ~T!Closes(f) /\ Opens(r, d, f)
                \/ T!Trims(f) /\ Banks(r, d, f)
                \/ T!Closes(f) /\ ~T!Trims(f) /\ Ends(r, d, f)
  <1> DEFINE d == T!Demote(w, f)
             r == T!Step(w, f)
  <1>1. d \in Walker
    BY DemoteIs
  <1>2. /\ ~T!Closes(f) => r = T!Opening(d, f)
        /\ T!Closes(f) /\ T!Trims(f) => r = T!Banked(d, f)
        /\ T!Closes(f) /\ ~T!Trims(f) => r = T!Ended(d, f)
    BY DEF T!Step
  <1> HIDE DEF d, r
  <1>3. /\ Opens(T!Opening(d, f), d, f) /\ T!Opening(d, f) \in Walker
        /\ T!Opening(d, f).walked = f.end
        /\ Banks(T!Banked(d, f), d, f) /\ T!Banked(d, f) \in Walker
        /\ T!Banked(d, f).walked = f.end
        /\ Ends(T!Ended(d, f), d, f) /\ T!Ended(d, f) \in Walker
        /\ T!Ended(d, f).walked = f.end
    BY <1>1, TakenIs, EndedIs
  <1>4. CASE ~T!Closes(f)
    BY <1>2, <1>3, <1>4 DEF d, r
  <1>5. CASE T!Closes(f) /\ T!Trims(f)
    BY <1>2, <1>3, <1>5 DEF d, r
  <1>6. CASE T!Closes(f) /\ ~T!Trims(f)
    BY <1>2, <1>3, <1>6 DEF d, r
  <1> QED  BY <1>4, <1>5, <1>6

-----------------------------------------------------------------------------
(* One walk over the whole history. *)

\* The position after k executions, where the walk over them stands, and the round
\* trips it has told.
After(k) == IF k = 0 THEN 0 ELSE fills[k].end
Full(k) == IF k = 0 THEN T!WalkStart([start |-> 0]) ELSE T!Walk(fills)[k]
Told(k) == Contents(Full(k).trips)

\* Each execution starts where the last one ended and moves the position; they are
\* stamped in order.
Chained ==
  /\ \A i \in 1 .. Len(fills) : fills[i].start = After(i - 1) /\ fills[i].end # fills[i].start
  /\ \A i, j \in 1 .. Len(fills) : i <= j => fills[i].t <= fills[j].t

\* The walk over everything is never lost: it knows the episode it stands in.
Anchored(k) ==
  /\ Full(k) \in Walker /\ ~Full(k).continuing /\ Full(k).tracked /\ Full(k).cont = None
  /\ Full(k).walked = After(k)
  /\ After(k) = 0 => Full(k).opened = None /\ Full(k).pnl = {} /\ Full(k).entry = {}
  /\ After(k) # 0 => Full(k).opened # None

\* One more fill of the whole history.
Goes(k) ==
  \/ ~T!Closes(fills[k]) /\ Opens(Full(k), Full(k - 1), fills[k])
  \/ T!Trims(fills[k]) /\ Banks(Full(k), Full(k - 1), fills[k])
  \/ T!Closes(fills[k]) /\ ~T!Trims(fills[k]) /\ Ends(Full(k), Full(k - 1), fills[k])

\* An execution is a fill, and starts where the position stood.
LEMMA FillIs ==
  ASSUME HistoryTrue, Chained, NEW k \in 1 .. Len(fills)
  PROVE  /\ fills[k] \in Fill /\ fills[k].start = After(k - 1) /\ fills[k].end = After(k)
         /\ fills[k].start # fills[k].end /\ fills[k].n = k /\ fills[k].t \in Nat
         /\ k - 1 \in 0 .. Len(fills) /\ k \in Nat
  <1>1. fills[k] \in Fill /\ Len(fills) \in Nat
    BY DEF HistoryTrue
  <1>2. fills[k].n = k
    BY DEF HistoryTrue
  <1>3. fills[k].start = After(k - 1) /\ fills[k].end # fills[k].start
    BY DEF Chained
  <1>4. k \in Nat /\ k # 0 /\ k - 1 \in 0 .. Len(fills)
    BY <1>1
  <1> QED  BY <1>1, <1>2, <1>3, <1>4 DEF After, Fill

\* The whole walk at one fill is a step from the fill before.
LEMMA FullAt ==
  ASSUME HistoryTrue, Chained, NEW k \in 1 .. Len(fills)
  PROVE  Full(k) = T!Step(Full(k - 1), fills[k])
  <1>1. fills \in Seq(Fill) /\ k \in Nat /\ k # 0
    BY FillIs DEF HistoryTrue
  <1>2. T!Walk(fills)[k] =
          T!Step(IF k = 1 THEN T!WalkStart(fills[1]) ELSE T!Walk(fills)[k - 1], fills[k])
    BY <1>1, WalkIs
  <1>3. k = 1 => T!WalkStart(fills[1]) = Full(0)
    <2> SUFFICES ASSUME k = 1 PROVE T!WalkStart(fills[1]) = Full(0)
      OBVIOUS
    <2>1. fills[1].start = 0
      BY FillIs DEF After
    <2> QED  BY <2>1 DEF Full, T!WalkStart
  <1> QED  BY <1>1, <1>2, <1>3 DEF Full

\* Before any execution the whole walk stands at flat and has told nothing.
LEMMA FullBegins == Anchored(0) /\ Full(0).trips = {}
  <1> DEFINE w == T!WalkStart([start |-> 0])
  <1>1. /\ w.continuing = FALSE /\ w.from = 0 /\ w.opened = None /\ w.tracked = TRUE
        /\ w.pnl = {} /\ w.entry = {} /\ w.walked = 0 /\ w.trips = {} /\ w.cont = None
    BY DEF T!WalkStart
  <1>2. w \in Walker
    BY DEF T!WalkStart, Walker, T!Time
  <1> HIDE DEF w
  <1>3. Full(0) = w /\ After(0) = 0
    BY DEF Full, After, w
  <1> QED  BY <1>1, <1>2, <1>3 DEF Anchored

\* From an anchored place the whole walk goes on without giving anything up.
LEMMA FullGoes ==
  ASSUME HistoryTrue, Chained, NEW k \in 1 .. Len(fills), Anchored(k - 1)
  PROVE  Anchored(k) /\ Goes(k)
  <1> DEFINE f == fills[k]
             W == Full(k - 1)
             R == Full(k)
  <1>1. /\ f \in Fill /\ f.start = After(k - 1) /\ f.end = After(k) /\ f.start # f.end
        /\ f.n = k /\ f.t \in Nat
    BY FillIs
  <1>2. /\ ~T!Closes(f) => f.end # 0
        /\ T!Closes(f) => f.start # 0
        /\ T!Trims(f) => f.end # 0
    BY <1>1, Moves
  <1>3. W \in Walker /\ W.walked = f.start
    BY <1>1 DEF Anchored
  <1>4. T!Demote(W, f) = W
    BY <1>3 DEF T!Demote
  <1>5. /\ R \in Walker /\ R.walked = f.end
        /\ \/ ~T!Closes(f) /\ Opens(R, W, f)
           \/ T!Trims(f) /\ Banks(R, W, f)
           \/ T!Closes(f) /\ ~T!Trims(f) /\ Ends(R, W, f)
    BY <1>1, <1>3, <1>4, FullAt, StepIs
  <1>6. Goes(k)
    BY <1>5 DEF Goes
  <1>7. /\ ~W.continuing /\ W.tracked /\ W.cont = None /\ W.walked = f.start
        /\ f.start = 0 => W.opened = None
        /\ f.start # 0 => W.opened # None
    BY <1>1 DEF Anchored
  <1>8. f.t # None
    BY <1>1, StoreConstants
  <1> HIDE DEF f, W, R
  <1>0. R.continuing \in BOOLEAN /\ W.continuing \in BOOLEAN /\ R.tracked \in BOOLEAN
        /\ W.tracked \in BOOLEAN
    BY <1>3, <1>5 DEF Walker
  <1>9. CASE ~T!Closes(f) /\ Opens(R, W, f)
    <2>1. ~R.continuing /\ R.tracked /\ R.cont = None /\ R.opened # None
      BY <1>0, <1>7, <1>8, <1>9 DEF Opens
    <2> QED  BY <1>1, <1>2, <1>5, <1>6, <1>9, <2>1 DEF Anchored, R
  <1>10. CASE T!Trims(f) /\ Banks(R, W, f)
    <2>1. ~R.continuing /\ R.tracked /\ R.cont = None /\ R.opened # None
      BY <1>0, <1>1, <1>2, <1>7, <1>10, Moves DEF Banks
    <2> QED  BY <1>1, <1>2, <1>5, <1>6, <1>10, <2>1 DEF Anchored, R
  <1>11. CASE T!Closes(f) /\ ~T!Trims(f) /\ Ends(R, W, f)
    <2>1. /\ ~R.continuing /\ R.tracked /\ R.cont = None /\ R.pnl = {}
          /\ f.end # 0 => R.opened # None
          /\ f.end = 0 => R.opened = None /\ R.entry = {}
      BY <1>0, <1>7, <1>8, <1>11 DEF Ends
    <2> QED  BY <1>1, <1>5, <1>6, <2>1 DEF Anchored, R
  <1> QED  BY <1>5, <1>6, <1>9, <1>10, <1>11

\* So it is anchored everywhere.
LEMMA FullAnchored ==
  ASSUME HistoryTrue, Chained
  PROVE  \A k \in 0 .. Len(fills) : Anchored(k)
  <1> DEFINE N == Len(fills)
             B == {k \in 0 .. N : ~Anchored(k)}
  <1>1. N \in Nat /\ B \in SUBSET Nat
    BY ExecutedIs
  <1>2. ASSUME B # {} PROVE FALSE
    <2>1. PICK k \in B : \A m \in B : k <= m
      <3> HIDE DEF B
      <3> QED  BY <1>1, <1>2, LeastOf
    <2>2. k \in 0 .. N /\ ~Anchored(k)
      BY <2>1
    <2>3. k # 0
      BY <2>2, FullBegins
    <2>4. k \in 1 .. N /\ k - 1 \in 0 .. N /\ ~(k <= k - 1)
      BY <1>1, <2>2, <2>3
    <2>5. Anchored(k - 1)
      BY <2>1, <2>4
    <2> QED  BY <2>2, <2>4, <2>5, FullGoes
  <1> QED  BY <1>2

\* What is known of the whole walk at a place.
LEMMA FullIs ==
  ASSUME HistoryTrue, Chained
  PROVE  /\ \A k \in 0 .. Len(fills) : Anchored(k)
         /\ \A k \in 1 .. Len(fills) : Goes(k)
  <1>1. \A k \in 1 .. Len(fills) : k - 1 \in 0 .. Len(fills)
    BY FillIs
  <1> QED  BY <1>1, FullAnchored, FullGoes

\* More trips have more contents.
LEMMA ContentsGrow ==
  /\ \A A, x : Contents(A \cup {x}) = Contents(A) \cup {T!Content(x)}
  /\ \A A, B : A \subseteq B => Contents(A) \subseteq Contents(B)
  /\ \A A, B : Contents(A \cup B) = Contents(A) \cup Contents(B)
  /\ Contents({}) = {}
BY DEF Contents

\* A fill of the whole history tells the trip that ends with it, if one does.
LEMMA FullTells ==
  ASSUME HistoryTrue, Chained, NEW k \in 1 .. Len(fills)
  PROVE  LET f == fills[k]
             W == Full(k - 1)
             trip == Closing(W.opened, f.t, W.pnl \cup {f.n}, W.entry, T!Side(f.start))
         IN  /\ trip.closed = f.t
             /\ Told(k) = IF T!Closes(f) /\ ~T!Trims(f)
                          THEN Told(k - 1) \cup {trip} ELSE Told(k - 1)
  <1> DEFINE f == fills[k]
             W == Full(k - 1)
             R == Full(k)
             trip == Closing(W.opened, f.t, W.pnl \cup {f.n}, W.entry, T!Side(f.start))
  <1>1. /\ f \in Fill /\ f.start = After(k - 1) /\ f.start # f.end /\ k - 1 \in 0 .. Len(fills)
    BY FillIs
  <1>2. Anchored(k - 1) /\ Goes(k)
    BY <1>1, FullIs
  <1>3. /\ ~W.continuing /\ W.tracked /\ (f.start # 0 => W.opened # None)
        /\ T!Trims(f) => T!Closes(f)
        /\ T!Closes(f) => f.start # 0
    BY <1>1, <1>2, Moves DEF Anchored
  <1>4. \/ ~T!Closes(f) /\ Opens(R, W, f)
        \/ T!Trims(f) /\ Banks(R, W, f)
        \/ T!Closes(f) /\ ~T!Trims(f) /\ Ends(R, W, f)
    BY <1>2 DEF Goes
  <1>5. trip.closed = f.t
    BY DEF Closing
  <1> HIDE DEF f, W, R, trip
  <1>6. CASE ~T!Closes(f) /\ Opens(R, W, f)
    <2>1. R.trips = W.trips
      BY <1>6 DEF Opens
    <2> QED  BY <1>5, <1>6, <2>1 DEF Told, f, W, R, trip
  <1>7. CASE T!Trims(f) /\ Banks(R, W, f)
    <2>1. R.trips = W.trips
      BY <1>7 DEF Banks
    <2> QED  BY <1>5, <1>7, <2>1 DEF Told, f, W, R, trip
  <1>8. CASE T!Closes(f) /\ ~T!Trims(f) /\ Ends(R, W, f)
    <2>1. PICK x \in Trip : R.trips = W.trips \cup {x} /\ T!Content(x) = trip
      BY <1>3, <1>8 DEF Ends, trip
    <2>2. Contents(R.trips) = Contents(W.trips) \cup {trip}
      BY <2>1, ContentsGrow
    <2> QED  BY <1>5, <1>8, <2>2 DEF Told, f, W, R, trip
  <1> QED  BY <1>4, <1>6, <1>7, <1>8

\* What is told stays told, and what is told later ended later.
LEMMA ToldGrows ==
  ASSUME HistoryTrue, Chained, NEW j \in 0 .. Len(fills)
  PROVE  \A k \in j .. Len(fills) :
           /\ Told(j) \subseteq Told(k)
           /\ \A x \in Told(k) : x \in Told(j) \/ \E i \in j + 1 .. k : x.closed = fills[i].t
  <1> DEFINE N == Len(fills)
             G(k) == /\ Told(j) \subseteq Told(k)
                     /\ \A x \in Told(k) :
                          x \in Told(j) \/ \E i \in j + 1 .. k : x.closed = fills[i].t
             B == {k \in j .. N : ~G(k)}
  <1>1. N \in Nat /\ B \in SUBSET Nat
    BY ExecutedIs
  <1>2. ASSUME B # {} PROVE FALSE
    <2>1. PICK k \in B : \A m \in B : k <= m
      <3> HIDE DEF B
      <3> QED  BY <1>1, <1>2, LeastOf
    <2>2. k \in j .. N /\ ~G(k)
      BY <2>1
    <2>3. k # j
      BY <2>2
    <2>4. k \in 1 .. N /\ k - 1 \in j .. N /\ ~(k <= k - 1)
      BY <1>1, <2>2, <2>3
    <2>5. G(k - 1)
      BY <2>1, <2>4
    <2>6. /\ Told(k - 1) \subseteq Told(k)
          /\ \A x \in Told(k) : x \in Told(k - 1) \/ x.closed = fills[k].t
      BY <2>4, FullTells
    <2>7. k \in j + 1 .. k /\ \A i \in j + 1 .. k - 1 : i \in j + 1 .. k
      BY <2>2, <2>3, <2>4
    <2> QED  BY <2>2, <2>5, <2>6, <2>7
  <1> HIDE DEF G
  <1>3. \A k \in j .. N : G(k)
    BY <1>2
  <1> QED  BY <1>3 DEF G

-----------------------------------------------------------------------------
(* The walk over a batch echoes the walk over everything. *)

\* The trip a segment closes, on top of the episode the whole walk stood in at p0.
Carried(c, p0) ==
  Closing(Full(p0).opened, c.closed, Full(p0).pnl \cup c.pnl, Full(p0).entry \cup c.entry,
          T!Side(c.from))

\* A walk begun after p0 that has come to p: what it trusts of the episode in flight
\* is what the whole walk has of it.
Agrees(w, p) ==
  ~w.continuing /\ w.tracked =>
    w.opened = Full(p).opened /\ w.pnl = Full(p).pnl /\ w.entry = Full(p).entry

\* Still in the episode it began in, it holds the money that came on top.
Resumes(w, p0, p) ==
  w.continuing =>
    /\ w.tracked /\ w.opened = None /\ w.trips = {} /\ w.cont = None
    /\ After(p0) # 0 /\ After(p) # 0 /\ T!Sign(After(p)) = T!Sign(After(p0))
    /\ Full(p).opened = Full(p0).opened
    /\ Full(p).pnl = Full(p0).pnl \cup w.pnl /\ Full(p).entry = Full(p0).entry \cup w.entry

\* Out of it, it hands on a segment; one it trusts ends a trip of the whole walk.
Hands(w, p0, p) ==
  w.cont # None =>
    /\ ~w.continuing /\ w.cont.from = After(p0) /\ After(p0) # 0
    /\ w.cont.tracked => w.cont.closed # None /\ Carried(w.cont, p0) \in Told(p)

Echoes(w, p0, p) ==
  /\ w \in Walker /\ w.from = After(p0)
  /\ After(p0) # 0 => w.continuing \/ w.cont # None
  /\ Contents(w.trips) \subseteq Told(p)
  /\ Agrees(w, p) /\ Resumes(w, p0, p) /\ Hands(w, p0, p)

\* A batch's walk echoes the whole one from the place its first fill starts at.
LEMMA EchoBegins ==
  ASSUME HistoryTrue, Chained, NEW q \in 1 .. Len(fills)
  PROVE  /\ Echoes(T!WalkStart(fills[q]), q - 1, q - 1)
         /\ T!WalkStart(fills[q]).walked = After(q - 1)
  <1> DEFINE w == T!WalkStart(fills[q])
             p == q - 1
  <1>0. fills[q] \in Fill /\ fills[q].start = After(p) /\ p \in 0 .. Len(fills)
    BY FillIs
  <1>1. After(p) \in Int
    BY <1>0, StoreConstants DEF Fill
  <1>2. /\ w.continuing = (After(p) # 0) /\ w.from = After(p) /\ w.opened = None
        /\ w.tracked = TRUE /\ w.pnl = {} /\ w.entry = {} /\ w.walked = After(p)
        /\ w.trips = {} /\ w.cont = None
    BY <1>0 DEF T!WalkStart
  <1>3. w \in Walker
    BY <1>0, <1>1 DEF T!WalkStart, Walker, T!Time
  <1>4. Anchored(p)
    BY <1>0, FullIs
  <1> HIDE DEF w, p
  <1>5. Contents(w.trips) = {}
    BY <1>2, ContentsGrow
  <1>6. Agrees(w, p)
    BY <1>2, <1>4 DEF Agrees, Anchored
  <1>7. Resumes(w, p, p)
    BY <1>2 DEF Resumes
  <1>8. Hands(w, p, p)
    BY <1>2 DEF Hands
  <1>9. Echoes(w, p, p)
    BY <1>2, <1>3, <1>5, <1>6, <1>7, <1>8 DEF Echoes
  <1> QED  BY <1>2, <1>9 DEF w, p

\* A fill that starts where the walk stands follows at once; from any other the walk
\* gives up what it was in.
LEMMA EchoDemotes ==
  ASSUME HistoryTrue, Chained, NEW q \in 1 .. Len(fills), NEW p \in 0 .. Len(fills), p < q,
         NEW p0 \in 0 .. Len(fills), NEW w, Echoes(w, p0, p),
         w.walked = fills[q].start => p = q - 1
  PROVE  Echoes(T!Demote(w, fills[q]), p0, q - 1)
  <1> DEFINE f == fills[q]
             d == T!Demote(w, f)
             r == q - 1
             s == T!Segment(w, None, FALSE, 0)
  <1>1. /\ f \in Fill /\ f.start = After(r) /\ r \in 0 .. Len(fills) /\ w \in Walker
        /\ p \in 0 .. Len(fills) /\ r \in p .. Len(fills)
    BY FillIs DEF Echoes
  <1>2. CASE w.walked = f.start
    BY <1>1, <1>2, DemoteIs
  <1>3. CASE w.walked # f.start
    <2>1. /\ d \in Walker
          /\ d.continuing = FALSE /\ d.from = w.from /\ d.tracked = (After(r) = 0)
          /\ d.opened = None /\ d.pnl = {} /\ d.entry = {} /\ d.trips = w.trips
          /\ d.cont = IF w.continuing THEN s ELSE w.cont
      BY <1>1, <1>3, DemoteIs
    <2>2. s.from = w.from /\ s.tracked = FALSE /\ s \in T!SegmentOf
      BY <1>1 DEF T!Segment, T!SegmentOf, Walker, T!Time
    <2>3. s # None
      BY <2>2, StoreConstants
    <2>4. Told(p) \subseteq Told(r)
      BY <1>1, ToldGrows
    <2>5. Anchored(r)
      BY <1>1, FullIs
    <2> HIDE DEF d, s, r
    <2>6. Agrees(d, r)
      BY <2>1, <2>5 DEF Agrees, Anchored
    <2>7. Resumes(d, p0, r)
      BY <2>1 DEF Resumes
    <2>8. Hands(d, p0, r)
      <3>1. CASE w.continuing
        BY <2>1, <2>2, <3>1 DEF Hands, Echoes, Resumes
      <3>2. CASE ~w.continuing
        BY <2>1, <2>4, <3>2 DEF Hands, Echoes
      <3> QED  BY <3>1, <3>2
    <2>9. After(p0) # 0 => d.cont # None
      BY <2>1, <2>3 DEF Echoes
    <2> QED  BY <2>1, <2>4, <2>6, <2>7, <2>8, <2>9 DEF Echoes, d, r
  <1> QED  BY <1>2, <1>3

\* Positions of one sign are on one side.
LEMMA SideOfSign ==
  ASSUME NEW a \in Int, NEW b \in Int, T!Sign(a) = T!Sign(b)
  PROVE  T!Side(a) = T!Side(b)
BY DEF T!Sign, T!Side

\* The three ways to take a fill keep the echo.
LEMMA EchoOpens ==
  ASSUME NEW f, NEW r, NEW d, NEW p0, NEW p, NEW q,
         Echoes(d, p0, p), r \in Walker, Opens(r, d, f), Opens(Full(q), Full(p), f),
         Anchored(p), f.start = After(p), f.end = After(q),
         f.end # 0, f.start # 0 => T!Sign(f.end) = T!Sign(f.start)
  PROVE  Echoes(r, p0, q)
  <1> DEFINE W == Full(p)
             R == Full(q)
  <1>1. /\ d \in Walker /\ Opens(R, W, f) /\ ~W.continuing /\ W.tracked
        /\ Told(q) = Told(p)
    BY DEF Anchored, Echoes, Opens, Told
  <1>2. d.continuing \in BOOLEAN /\ d.tracked \in BOOLEAN /\ r.continuing \in BOOLEAN
        /\ r.tracked \in BOOLEAN
    BY <1>1 DEF Walker
  <1> HIDE DEF W, R
  <1>3. Agrees(r, q)
    <2>1. ASSUME ~r.continuing, r.tracked
          PROVE  r.opened = R.opened /\ r.pnl = R.pnl /\ r.entry = R.entry
      <3>1. ~d.continuing /\ d.tracked
        BY <1>2, <2>1 DEF Opens
      <3>2. d.opened = W.opened /\ d.pnl = W.pnl /\ d.entry = W.entry
        BY <3>1 DEF Echoes, Agrees, W
      <3> QED  BY <1>1, <3>1, <3>2 DEF Opens
    <2> QED  BY <2>1 DEF Agrees, R
  <1>4. Resumes(r, p0, q)
    <2>1. ASSUME r.continuing
          PROVE  /\ r.tracked /\ r.opened = None /\ r.trips = {} /\ r.cont = None
                 /\ After(p0) # 0 /\ f.end # 0 /\ T!Sign(f.end) = T!Sign(After(p0))
                 /\ R.opened = Full(p0).opened
                 /\ R.pnl = Full(p0).pnl \cup r.pnl /\ R.entry = Full(p0).entry \cup r.entry
      <3>1. d.continuing
        BY <1>2, <2>1 DEF Opens
      <3>2. /\ d.tracked /\ d.opened = None /\ d.trips = {} /\ d.cont = None
            /\ After(p0) # 0 /\ f.start # 0 /\ T!Sign(f.start) = T!Sign(After(p0))
            /\ W.opened = Full(p0).opened
            /\ W.pnl = Full(p0).pnl \cup d.pnl /\ W.entry = Full(p0).entry \cup d.entry
        BY <3>1 DEF Echoes, Resumes, W
      <3>3. /\ r.tracked /\ r.opened = None /\ r.trips = {} /\ r.cont = None
            /\ r.pnl = d.pnl /\ r.entry = d.entry \cup {f.n}
            /\ R.opened = W.opened /\ R.pnl = W.pnl /\ R.entry = W.entry \cup {f.n}
        BY <1>1, <1>2, <3>1, <3>2 DEF Opens
      <3> QED  BY <3>2, <3>3
    <2> QED  BY <2>1 DEF Resumes, R
  <1>5. Hands(r, p0, q)
    <2>1. r.cont = d.cont /\ r.continuing = d.continuing
      BY DEF Opens
    <2> QED  BY <1>1, <2>1 DEF Hands, Echoes
  <1>6. /\ r.from = After(p0) /\ (After(p0) # 0 => r.continuing \/ r.cont # None)
        /\ Contents(r.trips) \subseteq Told(q)
    BY <1>1 DEF Echoes, Opens
  <1> QED  BY <1>3, <1>4, <1>5, <1>6 DEF Echoes

\* It echoes it through a fill that trims.
LEMMA EchoBanks ==
  ASSUME NEW f, NEW r, NEW d, NEW p0, NEW p, NEW q,
         Echoes(d, p0, p), r \in Walker, Banks(r, d, f), Banks(Full(q), Full(p), f),
         Anchored(p), f.start = After(p), f.end = After(q),
         f.end # 0, T!Sign(f.end) = T!Sign(f.start)
  PROVE  Echoes(r, p0, q)
  <1> DEFINE W == Full(p)
             R == Full(q)
  <1>1. d \in Walker /\ Banks(R, W, f) /\ Told(q) = Told(p)
    BY DEF Echoes, Banks, Told
  <1>2. d.continuing \in BOOLEAN /\ d.tracked \in BOOLEAN /\ r.continuing \in BOOLEAN
        /\ r.tracked \in BOOLEAN
    BY <1>1 DEF Walker
  <1> HIDE DEF W, R
  <1>3. Agrees(r, q)
    <2>1. ASSUME ~r.continuing, r.tracked
          PROVE  r.opened = R.opened /\ r.pnl = R.pnl /\ r.entry = R.entry
      <3>1. ~d.continuing /\ d.tracked
        BY <1>2, <2>1 DEF Banks
      <3>2. d.opened = W.opened /\ d.pnl = W.pnl /\ d.entry = W.entry
        BY <3>1 DEF Echoes, Agrees, W
      <3> QED  BY <1>1, <3>2 DEF Banks
    <2> QED  BY <2>1 DEF Agrees, R
  <1>4. Resumes(r, p0, q)
    <2>1. ASSUME r.continuing
          PROVE  /\ r.tracked /\ r.opened = None /\ r.trips = {} /\ r.cont = None
                 /\ After(p0) # 0 /\ f.end # 0 /\ T!Sign(f.end) = T!Sign(After(p0))
                 /\ R.opened = Full(p0).opened
                 /\ R.pnl = Full(p0).pnl \cup r.pnl /\ R.entry = Full(p0).entry \cup r.entry
      <3>1. d.continuing
        BY <1>2, <2>1 DEF Banks
      <3>2. /\ d.tracked /\ d.opened = None /\ d.trips = {} /\ d.cont = None
            /\ After(p0) # 0 /\ T!Sign(f.start) = T!Sign(After(p0))
            /\ W.opened = Full(p0).opened
            /\ W.pnl = Full(p0).pnl \cup d.pnl /\ W.entry = Full(p0).entry \cup d.entry
        BY <3>1 DEF Echoes, Resumes, W
      <3>3. /\ r.tracked /\ r.opened = None /\ r.trips = {} /\ r.cont = None
            /\ r.pnl = d.pnl \cup {f.n} /\ r.entry = d.entry
            /\ R.opened = W.opened /\ R.pnl = W.pnl \cup {f.n} /\ R.entry = W.entry
        BY <1>1, <1>2, <3>1, <3>2 DEF Banks
      <3> QED  BY <3>2, <3>3
    <2> QED  BY <2>1 DEF Resumes, R
  <1>5. Hands(r, p0, q)
    <2>1. r.cont = d.cont /\ r.continuing = d.continuing
      BY DEF Banks
    <2> QED  BY <1>1, <2>1 DEF Hands, Echoes
  <1>6. /\ r.from = After(p0) /\ (After(p0) # 0 => r.continuing \/ r.cont # None)
        /\ Contents(r.trips) \subseteq Told(q)
    BY <1>1 DEF Echoes, Banks
  <1> QED  BY <1>3, <1>4, <1>5, <1>6 DEF Echoes

\* The segment a fill closes, on top of what it found, is the trip the whole walk ends.
LEMMA CarriedIs ==
  ASSUME NEW f \in Fill, NEW d, NEW p0, NEW p, Echoes(d, p0, p), d.continuing,
         f.start = After(p), After(p0) \in Int
  PROVE  LET s == T!Segment(T!Banked(d, f), f.t, TRUE, 0)
         IN  /\ s # None /\ s.from = After(p0) /\ s.tracked /\ s.closed = f.t
             /\ s.closed # None /\ After(p0) # 0
             /\ Carried(s, p0) = Closing(Full(p).opened, f.t, Full(p).pnl \cup {f.n},
                                         Full(p).entry, T!Side(f.start))
  <1> DEFINE b == T!Banked(d, f)
             s == T!Segment(b, f.t, TRUE, 0)
  <1>1. f.t \in Nat /\ f.start \in Int /\ d \in Walker
    BY StoreConstants DEF Fill, Echoes
  <1>2. b \in Walker /\ b.from = d.from /\ b.pnl = d.pnl \cup {f.n} /\ b.entry = d.entry
    BY <1>1, TakenIs DEF Banks
  <1> HIDE DEF b
  <1>3. /\ s.from = d.from /\ s.tracked = TRUE /\ s.closed = f.t /\ s.pnl = b.pnl
        /\ s.entry = b.entry
    BY <1>2 DEF T!Segment
  <1>4. s \in T!SegmentOf
    BY <1>1, <1>2 DEF T!Segment, T!SegmentOf, Walker, T!Time
  <1> HIDE DEF s
  <1>5. s # None /\ f.t # None
    BY <1>1, <1>4, StoreConstants
  <1>6. /\ After(p0) # 0 /\ T!Sign(f.start) = T!Sign(After(p0)) /\ d.from = After(p0)
        /\ Full(p).opened = Full(p0).opened
        /\ Full(p).pnl = Full(p0).pnl \cup d.pnl /\ Full(p).entry = Full(p0).entry \cup d.entry
    BY DEF Echoes, Resumes
  <1>7. T!Side(s.from) = T!Side(f.start)
    BY <1>1, <1>3, <1>6, SideOfSign
  <1>8. /\ Full(p0).pnl \cup s.pnl = Full(p).pnl \cup {f.n}
        /\ Full(p0).entry \cup s.entry = Full(p).entry
    BY <1>2, <1>3, <1>6
  <1>9. Carried(s, p0) = Closing(Full(p).opened, f.t, Full(p).pnl \cup {f.n},
                                 Full(p).entry, T!Side(f.start))
    BY <1>3, <1>6, <1>7, <1>8 DEF Carried
  <1> QED  BY <1>3, <1>5, <1>6, <1>9 DEF s, b

\* It echoes it through a fill that ends an episode.
LEMMA EchoEnds ==
  ASSUME NEW f \in Fill, NEW r, NEW d, NEW p0, NEW p, NEW q, After(p0) \in Int,
         Echoes(d, p0, p), r \in Walker, Ends(r, d, f), Ends(Full(q), Full(p), f),
         Anchored(p), f.start = After(p), f.start # 0,
         Told(p) \subseteq Told(q),
         Closing(Full(p).opened, f.t, Full(p).pnl \cup {f.n}, Full(p).entry, T!Side(f.start))
           \in Told(q)
  PROVE  Echoes(r, p0, q)
  <1> DEFINE W == Full(p)
             R == Full(q)
             trip == Closing(W.opened, f.t, W.pnl \cup {f.n}, W.entry, T!Side(f.start))
  <1>1. /\ d \in Walker /\ Ends(R, W, f) /\ trip \in Told(q) /\ Told(p) \subseteq Told(q)
        /\ W.opened # None
    BY DEF Echoes, Anchored
  <1>2. d.continuing \in BOOLEAN /\ d.tracked \in BOOLEAN
    BY <1>1 DEF Walker
  <1> HIDE DEF W, R, trip
  <1>3. Agrees(r, q)
    <2>1. r.opened = R.opened /\ r.pnl = R.pnl /\ r.entry = R.entry
      BY <1>1 DEF Ends
    <2> QED  BY <2>1 DEF Agrees, R
  <1>4. ~r.continuing /\ Resumes(r, p0, q)
    BY DEF Ends, Resumes
  <1>5. Hands(r, p0, q)
    <2>1. CASE d.continuing
      <3>1. r.cont = T!Segment(T!Banked(d, f), f.t, TRUE, 0)
        BY <2>1 DEF Ends
      <3>2. /\ r.cont.from = After(p0) /\ r.cont.closed # None /\ After(p0) # 0
            /\ Carried(r.cont, p0) = trip
        BY <2>1, <3>1, CarriedIs DEF trip, W
      <3> QED  BY <1>1, <1>4, <3>2 DEF Hands
    <2>2. CASE ~d.continuing
      <3>1. r.cont = d.cont
        BY <2>2 DEF Ends
      <3> QED  BY <1>1, <1>4, <3>1 DEF Hands, Echoes
    <2> QED  BY <2>1, <2>2
  <1>6. After(p0) # 0 => r.cont # None
    <2>1. CASE d.continuing
      BY <2>1, CarriedIs DEF Ends
    <2>2. CASE ~d.continuing
      BY <2>2 DEF Ends, Echoes
    <2> QED  BY <2>1, <2>2
  <1>7. Contents(r.trips) \subseteq Told(q)
    <2>1. CASE ~d.continuing /\ d.tracked /\ d.opened # None
      <3>1. PICK x \in Trip :
              /\ r.trips = d.trips \cup {x}
              /\ T!Content(x) =
                   Closing(d.opened, f.t, d.pnl \cup {f.n}, d.entry, T!Side(f.start))
        BY <2>1 DEF Ends
      <3>2. d.opened = W.opened /\ d.pnl = W.pnl /\ d.entry = W.entry
        BY <2>1 DEF Echoes, Agrees, W
      <3>3. T!Content(x) = trip
        BY <3>1, <3>2 DEF trip
      <3>4. Contents(r.trips) = Contents(d.trips) \cup {trip}
        BY <3>1, <3>3, ContentsGrow
      <3> QED  BY <1>1, <3>4 DEF Echoes
    <2>2. CASE ~(~d.continuing /\ d.tracked /\ d.opened # None)
      <3>1. r.trips = d.trips
        BY <1>2, <2>2 DEF Ends
      <3> QED  BY <1>1, <3>1 DEF Echoes
    <2> QED  BY <2>1, <2>2
  <1>8. r.from = After(p0)
    BY DEF Ends, Echoes
  <1> QED  BY <1>3, <1>4, <1>5, <1>6, <1>7, <1>8 DEF Echoes

\* So it echoes it through every fill that starts where the batch's walk stands.
LEMMA EchoSteps ==
  ASSUME HistoryTrue, Chained, NEW q \in 1 .. Len(fills), NEW p \in 0 .. Len(fills), p < q,
         NEW p0 \in 0 .. Len(fills), NEW w, Echoes(w, p0, p),
         w.walked = fills[q].start => p = q - 1
  PROVE  /\ Echoes(T!Step(w, fills[q]), p0, q)
         /\ T!Step(w, fills[q]).walked = After(q)
  <1> DEFINE f == fills[q]
             d == T!Demote(w, f)
             r == T!Step(w, f)
             v == q - 1
  <1>1. /\ f \in Fill /\ f.start = After(v) /\ f.end = After(q) /\ f.start # f.end
        /\ v \in 0 .. Len(fills)
    BY FillIs
  <1>2. Echoes(d, p0, v)
    BY EchoDemotes
  <1>3. /\ r \in Walker /\ r.walked = f.end
        /\ \/ ~T!Closes(f) /\ Opens(r, d, f)
           \/ T!Trims(f) /\ Banks(r, d, f)
           \/ T!Closes(f) /\ ~T!Trims(f) /\ Ends(r, d, f)
    BY <1>1, StepIs DEF Echoes
  <1>4. /\ Anchored(v)
        /\ \/ ~T!Closes(f) /\ Opens(Full(q), Full(v), f)
           \/ T!Trims(f) /\ Banks(Full(q), Full(v), f)
           \/ T!Closes(f) /\ ~T!Trims(f) /\ Ends(Full(q), Full(v), f)
    BY <1>1, FullIs DEF Goes
  <1>5. /\ ~T!Closes(f) => f.end # 0 /\ (f.start # 0 => T!Sign(f.end) = T!Sign(f.start))
        /\ T!Closes(f) => f.start # 0
        /\ T!Trims(f) => T!Closes(f) /\ f.end # 0 /\ T!Sign(f.end) = T!Sign(f.start)
    BY <1>1, Moves
  <1>6. T!Closes(f) /\ ~T!Trims(f) =>
          /\ Told(v) \subseteq Told(q)
          /\ Closing(Full(v).opened, f.t, Full(v).pnl \cup {f.n}, Full(v).entry,
                     T!Side(f.start)) \in Told(q)
    BY FullTells
  <1>7. After(p0) \in Int
    <2>1. CASE p0 = 0
      BY <2>1 DEF After
    <2>2. CASE p0 # 0
      <3>1. p0 \in 1 .. Len(fills)
        BY <2>2
      <3> QED  BY <2>2, <3>1, FillIs, StoreConstants DEF After, Fill
    <2> QED  BY <2>1, <2>2
  <1> HIDE DEF f, d, r, v
  <1>8. CASE ~T!Closes(f)
    <2>1. Opens(r, d, f) /\ Opens(Full(q), Full(v), f)
      BY <1>3, <1>4, <1>5, <1>8
    <2>2. Echoes(r, p0, q)
      BY <1>1, <1>2, <1>3, <1>4, <1>5, <1>8, <2>1, EchoOpens
    <2> QED  BY <1>1, <1>3, <2>2 DEF r, f
  <1>9. CASE T!Trims(f)
    <2>1. Banks(r, d, f) /\ Banks(Full(q), Full(v), f)
      BY <1>3, <1>4, <1>5, <1>9
    <2>2. Echoes(r, p0, q)
      BY <1>1, <1>2, <1>3, <1>4, <1>5, <1>9, <2>1, EchoBanks
    <2> QED  BY <1>1, <1>3, <2>2 DEF r, f
  <1>10. CASE T!Closes(f) /\ ~T!Trims(f)
    <2>1. Ends(r, d, f) /\ Ends(Full(q), Full(v), f)
      BY <1>3, <1>4, <1>10
    <2>2. Echoes(r, p0, q)
      BY <1>1, <1>2, <1>3, <1>4, <1>5, <1>6, <1>7, <1>10, <2>1, EchoEnds
    <2> QED  BY <1>1, <1>3, <2>2 DEF r, f
  <1> QED  BY <1>8, <1>9, <1>10

-----------------------------------------------------------------------------
(* When a batch's trips ended, and what a batch with no gap tells. *)

Dated(w, first, t) ==
  /\ \A trip \in w.trips : first <= trip.closed /\ trip.closed <= t
  /\ w.cont # None /\ w.cont.closed # None => first <= w.cont.closed /\ w.cont.closed <= t

\* A step keeps the dates of a walk.
LEMMA DatedSteps ==
  ASSUME NEW w \in Walker, NEW f \in Fill, NEW first \in Nat, NEW t \in Nat,
         Dated(w, first, t), first <= f.t, t <= f.t
  PROVE  Dated(T!Step(w, f), first, f.t)
  <1> DEFINE d == T!Demote(w, f)
             r == T!Step(w, f)
             s == T!Segment(T!Banked(d, f), f.t, TRUE, 0)
             g == T!Segment(w, None, FALSE, 0)
  <1>1. f.t \in Nat
    BY DEF Fill
  <1>2. d \in Walker /\ d.trips = w.trips /\ d.cont \in {w.cont, g}
    BY DemoteIs
  <1>3. \/ Opens(r, d, f)
        \/ Banks(r, d, f)
        \/ Ends(r, d, f)
    BY StepIs
  <1>4. s.closed = f.t /\ g.closed = None
    BY DEF T!Segment
  <1>5. /\ \A trip \in w.trips : trip.closed \in Nat
        /\ w.cont # None /\ w.cont.closed # None => w.cont.closed \in Nat
    BY DEF Walker, Trip, T!SegmentOf, T!Time
  <1> HIDE DEF d, r, s, g
  <1>6. Dated(d, first, f.t)
    <2>1. \A trip \in d.trips : first <= trip.closed /\ trip.closed <= f.t
      BY <1>1, <1>2, <1>5 DEF Dated
    <2>2. d.cont # None /\ d.cont.closed # None => d.cont = w.cont
      BY <1>2, <1>4
    <2> QED  BY <1>1, <1>5, <2>1, <2>2 DEF Dated
  <1>7. CASE Opens(r, d, f)
    BY <1>6, <1>7 DEF Opens, Dated, r
  <1>8. CASE Banks(r, d, f)
    BY <1>6, <1>8 DEF Banks, Dated, r
  <1>9. CASE Ends(r, d, f)
    <2>1. d.continuing \in BOOLEAN
      BY <1>2 DEF Walker
    <2>2. r.cont = s \/ r.cont = d.cont
      BY <1>9, <2>1 DEF Ends, s
    <2>3. \A trip \in r.trips : trip \in d.trips \/ trip.closed = f.t
      BY <1>9 DEF Ends
    <2> QED  BY <1>1, <1>4, <1>6, <2>2, <2>3 DEF Dated, r
  <1> QED  BY <1>3, <1>7, <1>8, <1>9

\* What a batch makes is dated within the batch.
LEMMA BatchDated ==
  ASSUME NEW b \in Seq(Fill), ByTime(b), b # <<>>
  PROVE  LET d == T!Extract(b)
         IN  /\ \A trip \in d.trips : b[1].t <= trip.closed /\ trip.closed <= b[Len(b)].t
             /\ d.cont # None /\ d.cont.closed # None =>
                  b[1].t <= d.cont.closed /\ d.cont.closed <= b[Len(b)].t
  <1> DEFINE N == Len(b)
             w == T!Walk(b)
             first == b[1].t
             start == T!WalkStart(b[1])
             B == {k \in 1 .. N : ~Dated(w[k], first, b[k].t)}
             d == T!Extract(b)
             s == T!Segment(w[N], None, TRUE, w[N].walked)
  <1>1. /\ N \in Nat /\ N \in 1 .. N /\ 1 \in 1 .. N
        /\ \A k \in 1 .. N : b[k] \in Fill /\ b[k].t \in Nat
    <2>1. N \in Nat /\ N # 0 /\ \A k \in 1 .. N : b[k] \in Fill
      OBVIOUS
    <2>2. \A f \in Fill : f.t \in Nat
      BY DEF Fill
    <2> HIDE DEF N
    <2> QED  BY <2>1, <2>2
  <1>2. \A k \in 1 .. N : w[k] \in Walker /\ first <= b[k].t
    BY WalkStraight DEF Straight
  <1>3. \A k \in 1 .. N : w[k] = T!Step(IF k = 1 THEN start ELSE w[k - 1], b[k])
    BY WalkIs
  <1>4. start \in Walker /\ start.trips = {} /\ start.cont = None
    <2>1. start \in Walker
      BY <1>1, WalkBegins DEF Straight
    <2> QED  BY <2>1 DEF T!WalkStart
  <1>5. d.trips = w[N].trips /\ d.cont = IF w[N].continuing THEN s ELSE w[N].cont
    BY DEF T!Extract
  <1>6. s.closed = None
    BY DEF T!Segment
  <1> HIDE DEF w, d, s, start
  <1>7. ASSUME B # {} PROVE FALSE
    <2>1. B \in SUBSET Nat
      BY <1>1
    <2>2. PICK k \in B : \A m \in B : k <= m
      <3> HIDE DEF B
      <3> QED  BY <1>7, <2>1, LeastOf
    <2>3. k \in 1 .. N /\ b[k] \in Fill /\ b[k].t \in Nat /\ first \in Nat /\ first <= b[k].t
      BY <1>1, <1>2
    <2>4. CASE k = 1
      <3>1. Dated(start, first, first)
        BY <1>4 DEF Dated
      <3>2. Dated(w[k], first, b[k].t)
        BY <1>3, <1>4, <2>3, <2>4, <3>1, DatedSteps
      <3> QED  BY <2>2, <3>2
    <2>5. CASE k # 1
      <3>1. k - 1 \in 1 .. N /\ ~(k <= k - 1) /\ k - 1 <= k
        BY <1>1, <2>3, <2>5
      <3>2. Dated(w[k - 1], first, b[k - 1].t) /\ w[k - 1] \in Walker
        BY <1>2, <2>2, <3>1
      <3>3. b[k - 1].t \in Nat /\ b[k - 1].t <= b[k].t
        BY <1>1, <2>3, <3>1 DEF ByTime
      <3>4. w[k] = T!Step(w[k - 1], b[k])
        BY <1>3, <2>3, <2>5
      <3>5. Dated(w[k], first, b[k].t)
        BY <2>3, <3>2, <3>3, <3>4, DatedSteps
      <3> QED  BY <2>2, <3>5
    <2> QED  BY <2>4, <2>5
  <1>8. Dated(w[N], first, b[N].t)
    BY <1>1, <1>7
  <1>9. w[N].continuing \in BOOLEAN
    BY <1>1, <1>2 DEF Walker
  <1>10. d.cont # None /\ d.cont.closed # None => d.cont = w[N].cont
    BY <1>5, <1>6, <1>9
  <1> QED  BY <1>5, <1>8, <1>10 DEF Dated, d

\* The walk has every trip of the whole walk since p0.
Tells(w, p0, p) ==
  /\ w.tracked
  /\ w.cont # None => w.cont.tracked
  /\ \A x \in Told(p) :
       x \in Told(p0) \/ x \in Contents(w.trips) \/ (w.cont # None /\ x = Carried(w.cont, p0))

\* With no gap the end of an episode is told by both walks.
LEMMA TellsEnds ==
  ASSUME NEW f \in Fill, NEW r, NEW w, NEW p0, NEW p, NEW q, After(p0) \in Int,
         Echoes(w, p0, p), Tells(w, p0, p), Ends(r, w, f), Anchored(p),
         f.start = After(p), f.start # 0,
         Told(q) = Told(p) \cup {Closing(Full(p).opened, f.t, Full(p).pnl \cup {f.n},
                                         Full(p).entry, T!Side(f.start))}
  PROVE  Tells(r, p0, q)
  <1> DEFINE W == Full(p)
             trip == Closing(W.opened, f.t, W.pnl \cup {f.n}, W.entry, T!Side(f.start))
  <1>1. Told(q) = Told(p) \cup {trip} /\ r.tracked = TRUE
    BY DEF Ends
  <1>2. w.continuing \in BOOLEAN
    BY DEF Walker, Echoes
  <1> HIDE DEF W, trip
  <1>3. CASE w.continuing
    <2>1. r.cont = T!Segment(T!Banked(w, f), f.t, TRUE, 0) /\ r.trips = w.trips
      BY <1>3 DEF Ends
    <2>2. r.cont # None /\ r.cont.tracked /\ Carried(r.cont, p0) = trip
      BY <1>3, <2>1, CarriedIs DEF trip, W
    <2>3. w.cont = None
      BY <1>3 DEF Echoes, Resumes
    <2> QED  BY <1>1, <2>1, <2>2, <2>3 DEF Tells
  <1>4. CASE ~w.continuing
    <2>1. /\ w.tracked /\ w.opened = W.opened /\ w.pnl = W.pnl /\ w.entry = W.entry
          /\ W.opened # None
      BY <1>4 DEF Tells, Echoes, Agrees, Anchored, W
    <2>2. PICK x \in Trip :
            /\ r.trips = w.trips \cup {x}
            /\ T!Content(x) =
                 Closing(w.opened, f.t, w.pnl \cup {f.n}, w.entry, T!Side(f.start))
      BY <1>4, <2>1 DEF Ends
    <2>3. Contents(r.trips) = Contents(w.trips) \cup {trip}
      BY <2>1, <2>2, ContentsGrow DEF trip
    <2>4. r.cont = w.cont
      BY <1>4 DEF Ends
    <2> QED  BY <1>1, <2>3, <2>4 DEF Tells
  <1> QED  BY <1>2, <1>3, <1>4

\* With no gap every fill leaves both walks telling the same.
LEMMA TellsSteps ==
  ASSUME HistoryTrue, Chained, NEW q \in 1 .. Len(fills), NEW p0, NEW w, After(p0) \in Int,
         Echoes(w, p0, q - 1), Tells(w, p0, q - 1), w.walked = fills[q].start
  PROVE  Tells(T!Step(w, fills[q]), p0, q)
  <1> DEFINE f == fills[q]
             r == T!Step(w, f)
             v == q - 1
             W == Full(v)
             trip == Closing(W.opened, f.t, W.pnl \cup {f.n}, W.entry, T!Side(f.start))
  <1>1. f \in Fill /\ f.start = After(v) /\ f.start # f.end /\ v \in 0 .. Len(fills)
    BY FillIs
  <1>2. w \in Walker /\ T!Demote(w, f) = w
    BY DEF Echoes, T!Demote
  <1>3. \/ ~T!Closes(f) /\ Opens(r, w, f)
        \/ T!Trims(f) /\ Banks(r, w, f)
        \/ T!Closes(f) /\ ~T!Trims(f) /\ Ends(r, w, f)
    BY <1>1, <1>2, StepIs
  <1>4. /\ Anchored(v) /\ (T!Closes(f) => f.start # 0) /\ (T!Trims(f) => T!Closes(f))
    BY <1>1, FullIs, Moves
  <1>5. Told(q) = IF T!Closes(f) /\ ~T!Trims(f) THEN Told(v) \cup {trip} ELSE Told(v)
    BY FullTells
  <1> HIDE DEF f, r, v, W, trip
  <1>7. Tells(w, p0, v) /\ Echoes(w, p0, v)
    BY DEF v
  <1>8. CASE ~T!Closes(f) /\ Opens(r, w, f)
    <2>1. r.tracked = w.tracked /\ r.cont = w.cont /\ r.trips = w.trips /\ Told(q) = Told(v)
      BY <1>5, <1>8 DEF Opens
    <2>2. Tells(r, p0, q)
      BY <1>7, <2>1 DEF Tells
    <2> QED  BY <2>2 DEF r, f
  <1>9. CASE T!Trims(f) /\ Banks(r, w, f)
    <2>1. r.tracked = w.tracked /\ r.cont = w.cont /\ r.trips = w.trips /\ Told(q) = Told(v)
      BY <1>5, <1>9 DEF Banks
    <2>2. Tells(r, p0, q)
      BY <1>7, <2>1 DEF Tells
    <2> QED  BY <2>2 DEF r, f
  <1>10. CASE T!Closes(f) /\ ~T!Trims(f) /\ Ends(r, w, f)
    <2>1. Told(q) = Told(v) \cup {trip}
      BY <1>5, <1>10
    <2>2. Tells(r, p0, q)
      BY <1>1, <1>4, <1>7, <1>10, <2>1, TellsEnds DEF trip, W
    <2> QED  BY <2>2 DEF r, f
  <1> QED  BY <1>3, <1>8, <1>9, <1>10

-----------------------------------------------------------------------------
(* The walk over a batch, from its first fill to its last. *)

\* Fills of the history, in the order they executed.
Ordered(b) ==
  /\ b \in Seq(Fill) /\ ByTime(b)
  /\ \A k \in 1 .. Len(b) : b[k] \in Executed
  /\ \A k, l \in 1 .. Len(b) : k < l => b[k].n < b[l].n

\* What is missing between two of them shows in the position.
Faithful(b) ==
  \A k \in 1 .. Len(b) : k > 1 /\ b[k - 1].end = b[k].start => b[k - 1].n = b[k].n - 1

Unbroken(b) == \A k \in 1 .. Len(b) : k > 1 => b[k - 1].n = b[k].n - 1

\* A fill of an ordered batch is an execution, between the positions before and after it.
LEMMA OrderedIs ==
  ASSUME HistoryTrue, Chained, NEW b, Ordered(b), NEW k \in 1 .. Len(b)
  PROVE  /\ b[k] \in Fill /\ b[k].n \in 1 .. Len(fills) /\ b[k] = fills[b[k].n]
         /\ b[k].end = After(b[k].n) /\ b[k].t \in Nat /\ b[k].n \in Nat
         /\ b[k].n - 1 \in 0 .. Len(fills) /\ b[k].start = After(b[k].n - 1)
         /\ After(b[k].n - 1) \in Int
  <1>1. b[k] \in Executed
    BY DEF Ordered
  <1>2. b[k].n \in 1 .. Len(fills) /\ fills[b[k].n] = b[k]
    BY <1>1, ExecutedIs
  <1> DEFINE n == b[k].n
  <1>3. n \in 1 .. Len(fills) /\ fills[n] = b[k]
    BY <1>2
  <1> HIDE DEF n
  <1>4. /\ fills[n] \in Fill /\ fills[n].end = After(n) /\ fills[n].t \in Nat
        /\ fills[n].start = After(n - 1) /\ n - 1 \in 0 .. Len(fills) /\ n \in Nat
    BY <1>3, FillIs
  <1>5. After(n - 1) \in Int
    BY <1>4, StoreConstants DEF Fill
  <1> QED  BY <1>3, <1>4, <1>5 DEF n

\* How the walk stands after k fills of a batch.
Stands(b, k) ==
  LET w == T!Walk(b)[k]
      p0 == b[1].n - 1
  IN  /\ Echoes(w, p0, b[k].n) /\ w.walked = After(b[k].n)
      /\ Unbroken(b) => Tells(w, p0, b[k].n)

\* The batch's walk stands after the batch's first fill.
LEMMA StandsFirst ==
  ASSUME HistoryTrue, Chained, NEW b, Ordered(b), b # <<>>
  PROVE  Stands(b, 1)
  <1> DEFINE f == b[1]
             q == f.n
             p0 == q - 1
             w == T!WalkStart(f)
  <1>1. b \in Seq(Fill) /\ 1 \in 1 .. Len(b)
    BY DEF Ordered
  <1>2. /\ f \in Fill /\ q \in 1 .. Len(fills) /\ f = fills[q] /\ f.t \in Nat /\ q \in Nat
        /\ p0 \in 0 .. Len(fills) /\ After(p0) \in Int /\ f.start = After(p0)
    BY <1>1, OrderedIs
  <1>3. T!Walk(b)[1] = T!Step(w, f)
    BY <1>1, WalkIs
  <1> HIDE DEF q, f
  <1>4. Echoes(w, p0, p0) /\ w.walked = After(p0)
    BY <1>2, EchoBegins
  <1>5. w.trips = {} /\ w.cont = None /\ w.tracked = TRUE
    BY DEF T!WalkStart
  <1> HIDE DEF w
  <1>7. Tells(w, p0, p0)
    BY <1>5 DEF Tells
  <1>8. p0 < q /\ (w.walked = fills[q].start => p0 = q - 1)
    BY <1>2
  <1>9. Echoes(T!Step(w, f), p0, q) /\ T!Step(w, f).walked = After(q)
    BY <1>2, <1>4, <1>8, EchoSteps
  <1>11. Tells(T!Step(w, f), p0, q)
    BY <1>2, <1>4, <1>7, TellsSteps
  <1> QED  BY <1>3, <1>9, <1>11 DEF Stands, f, q

\* And after each next one: a gap is noticed, or is none.
LEMMA StandsNext ==
  ASSUME HistoryTrue, Chained, NEW b, Ordered(b), Faithful(b), NEW k \in 1 .. Len(b), k > 1,
         Stands(b, k - 1)
  PROVE  Stands(b, k)
  <1> DEFINE f == b[k]
             q == f.n
             p == b[k - 1].n
             p0 == b[1].n - 1
             w == T!Walk(b)[k - 1]
  <1>1. b \in Seq(Fill) /\ k - 1 \in 1 .. Len(b) /\ 1 \in 1 .. Len(b)
    BY DEF Ordered
  <1>2. /\ f \in Fill /\ q \in 1 .. Len(fills) /\ f = fills[q] /\ f.t \in Nat /\ q \in Nat
        /\ f.start = After(q - 1)
    BY OrderedIs
  <1>3. /\ p \in 1 .. Len(fills) /\ p \in Nat
        /\ p0 \in 0 .. Len(fills) /\ After(p0) \in Int /\ b[k - 1].end = After(p)
    BY <1>1, OrderedIs
  <1>4. p < q
    <2>1. k - 1 < k
      BY <1>1
    <2> QED  BY <1>1, <2>1 DEF Ordered
  <1>5. b[k - 1].end = b[k].start => p = q - 1
    BY DEF Faithful
  <1>6. T!Walk(b)[k] = T!Step(w, f)
    BY <1>1, WalkIs
  <1>7. /\ Echoes(w, p0, p) /\ w.walked = After(p)
        /\ Unbroken(b) => Tells(w, p0, p)
    BY DEF Stands
  <1>8. Unbroken(b) => p = q - 1
    BY DEF Unbroken
  <1>9. w.walked = f.start => p = q - 1
    BY <1>3, <1>5, <1>7
  <1> HIDE DEF f, q, p, p0, w
  <1>10. p \in 0 .. Len(fills)
    BY <1>3
  <1>11. Echoes(T!Step(w, f), p0, q) /\ T!Step(w, f).walked = After(q)
    BY <1>2, <1>3, <1>4, <1>7, <1>9, <1>10, EchoSteps
  <1>13. ASSUME Unbroken(b) PROVE Tells(T!Step(w, f), p0, q)
    <2>1. Echoes(w, p0, q - 1) /\ Tells(w, p0, q - 1) /\ w.walked = fills[q].start
      BY <1>2, <1>7, <1>8, <1>13
    <2> QED  BY <1>2, <1>3, <2>1, TellsSteps
  <1> QED  BY <1>6, <1>11, <1>13 DEF Stands, f, q, p0

\* So it stands after the batch's last fill.
LEMMA BatchStands ==
  ASSUME HistoryTrue, Chained, NEW b, Ordered(b), Faithful(b), b # <<>>
  PROVE  Len(b) \in 1 .. Len(b) /\ Stands(b, Len(b))
  <1> DEFINE N == Len(b)
             B == {k \in 1 .. N : ~Stands(b, k)}
  <1>1. N \in Nat /\ N \in 1 .. N /\ B \in SUBSET Nat
    BY DEF Ordered
  <1>2. ASSUME B # {} PROVE FALSE
    <2>1. PICK k \in B : \A m \in B : k <= m
      <3> HIDE DEF B
      <3> QED  BY <1>1, <1>2, LeastOf
    <2>2. k \in 1 .. N /\ ~Stands(b, k)
      BY <2>1
    <2>3. k # 1
      BY <2>2, StandsFirst
    <2>4. k > 1 /\ k - 1 \in 1 .. N /\ ~(k <= k - 1)
      BY <1>1, <2>2, <2>3
    <2>5. Stands(b, k - 1)
      BY <2>1, <2>4
    <2> QED  BY <2>2, <2>4, <2>5, StandsNext
  <1> QED  BY <1>1, <1>2

\* An episode as the whole walk has it after k executions.
Matches(o, k) ==
  /\ o.opened = Full(k).opened /\ o.pnl = Full(k).pnl /\ o.entry = Full(k).entry
  /\ o.net = After(k) /\ After(k) # 0

\* What a batch makes, against the whole walk from p0 to p.
Made(d, p) ==
  /\ Contents(d.trips) \subseteq Told(p)
  /\ d.open # None => Matches(d.open, p)
  /\ d.lead # None

Handed(d, p0, p) ==
  /\ After(p0) # 0 <=> d.cont # None
  /\ d.cont # None => d.cont.from = After(p0)
  /\ d.cont # None /\ d.cont.tracked /\ d.cont.closed # None =>
       Carried(d.cont, p0) \in Told(p)
  /\ d.cont # None /\ d.cont.tracked /\ d.cont.closed = None =>
       /\ d.open = None /\ d.cont.net = After(p) /\ After(p) # 0
       /\ Full(p).opened = Full(p0).opened
       /\ Full(p).pnl = Full(p0).pnl \cup d.cont.pnl
       /\ Full(p).entry = Full(p0).entry \cup d.cont.entry

Complete(d, p0, p) ==
  /\ d.cont # None => d.cont.tracked
  /\ \A x \in Told(p) :
       \/ x \in Told(p0) \/ x \in Contents(d.trips)
       \/ d.cont # None /\ d.cont.closed # None /\ x = Carried(d.cont, p0)
  /\ After(p) # 0 => d.open # None \/ (d.cont # None /\ d.cont.closed = None)

\* What is extracted of a batch is a part of what the whole walk tells.
LEMMA ExtractEchoes ==
  ASSUME HistoryTrue, Chained, NEW b, Ordered(b), Faithful(b), b # <<>>
  PROVE  LET d == T!Extract(b)
             p0 == b[1].n - 1
             p == b[Len(b)].n
         IN  /\ Made(d, p) /\ Handed(d, p0, p)
             /\ Unbroken(b) => Complete(d, p0, p)
  <1> DEFINE N == Len(b)
             d == T!Extract(b)
             p0 == b[1].n - 1
             p == b[N].n
             w == T!Walk(b)[N]
             first == b[1].t
             o == [opened |-> w.opened, pnl |-> w.pnl, entry |-> w.entry, net |-> w.walked]
             s == T!Segment(w, None, TRUE, w.walked)
  <1>1. N \in 1 .. N /\ 1 \in 1 .. N
    BY BatchStands DEF Ordered
  <1>2. p \in 1 .. Len(fills) /\ first \in Nat
    BY <1>1, OrderedIs
  <1>3. Anchored(p)
    <2>1. p \in 0 .. Len(fills)
      BY <1>2
    <2> HIDE DEF p
    <2> QED  BY <2>1, FullIs
  <1>4. /\ Echoes(w, p0, p) /\ w.walked = After(p)
        /\ Unbroken(b) => Tells(w, p0, p)
    BY BatchStands DEF Stands
  <1>5. d = [trips |-> w.trips,
             open |-> IF ~w.continuing /\ w.tracked /\ w.opened # None THEN o ELSE None,
             cont |-> IF w.continuing THEN s ELSE w.cont,
             lead |-> first]
    BY DEF T!Extract
  <1> HIDE DEF w, d, p, p0, first, N
  <1>6. w \in Walker /\ w.continuing \in BOOLEAN /\ w.tracked \in BOOLEAN
    BY <1>4 DEF Echoes, Walker
  <1>7. s \in T!SegmentOf /\ s.from = w.from /\ s.closed = None /\ s.tracked = TRUE
        /\ s.net = w.walked /\ s.pnl = w.pnl /\ s.entry = w.entry
    BY <1>6 DEF T!Segment, T!SegmentOf, Walker, T!Time
  <1>8. w.opened # None => o \in T!Episode
    BY <1>6 DEF Walker, T!Time, T!Episode
  <1>9. o.opened = w.opened /\ o.pnl = w.pnl /\ o.entry = w.entry /\ o.net = w.walked
    OBVIOUS
  <1> HIDE DEF o, s
  <1>10. s # None /\ (w.opened # None => o # None)
    BY <1>7, <1>8, StoreConstants
  <1>11. /\ d.trips = w.trips /\ d.lead = first
         /\ d.open = IF ~w.continuing /\ w.tracked /\ w.opened # None THEN o ELSE None
         /\ d.cont = IF w.continuing THEN s ELSE w.cont
    BY <1>5
  <1>12. Made(d, p)
    <2>1. d.open # None => Matches(d.open, p)
      <3>1. ASSUME ~w.continuing, w.tracked, w.opened # None PROVE Matches(o, p)
        BY <1>3, <1>4, <1>9, <3>1 DEF Matches, Echoes, Agrees, Anchored
      <3> QED  BY <1>11, <3>1
    <2>2. first # None
      BY <1>2, StoreConstants
    <2> QED  BY <1>4, <1>11, <2>1, <2>2 DEF Made, Echoes
  <1>13. Handed(d, p0, p)
    <2>1. CASE w.continuing
      <3>1. d.cont = s /\ d.open = None
        BY <1>11, <2>1
      <3>2. /\ After(p0) # 0 /\ After(p) # 0 /\ Full(p).opened = Full(p0).opened
            /\ Full(p).pnl = Full(p0).pnl \cup w.pnl
            /\ Full(p).entry = Full(p0).entry \cup w.entry
            /\ w.from = After(p0)
        BY <1>4, <2>1 DEF Echoes, Resumes
      <3> QED  BY <1>4, <1>7, <1>10, <3>1, <3>2 DEF Handed
    <2>2. CASE ~w.continuing
      <3>1. d.cont = w.cont
        BY <1>11, <2>2
      <3> QED  BY <1>4, <2>2, <3>1 DEF Handed, Echoes, Hands
    <2> QED  BY <1>6, <2>1, <2>2
  <1>14. ASSUME Unbroken(b) PROVE Complete(d, p0, p)
    <2>1. Tells(w, p0, p)
      BY <1>4, <1>14
    <2>2. CASE w.continuing
      <3>1. d.cont = s /\ w.cont = None
        BY <1>4, <1>11, <2>2 DEF Echoes, Resumes
      <3> QED  BY <1>7, <1>10, <1>11, <2>1, <3>1 DEF Complete, Tells
    <2>3. CASE ~w.continuing
      <3>1. d.cont = w.cont /\ (d.cont # None => d.cont.closed # None)
        BY <1>4, <1>11, <2>1, <2>3 DEF Echoes, Hands, Tells
      <3>2. After(p) # 0 => d.open # None
        BY <1>3, <1>4, <1>10, <1>11, <2>1, <2>3 DEF Tells, Echoes, Agrees, Anchored
      <3> QED  BY <1>11, <2>1, <3>1, <3>2 DEF Complete, Tells
    <2> QED  BY <1>6, <2>2, <2>3
  <1> QED  BY <1>12, <1>13, <1>14 DEF d, p0, p, N

-----------------------------------------------------------------------------
(* What the fold makes of a stored record that is true. *)

\* A stored episode that a batch from p0 seems to go on with is the one the whole walk
\* stood in there.
Meets(o, d, p0) ==
  /\ o # None => o \in T!Episode
  /\ d.cont # None => d.cont \in T!SegmentOf
  /\ o # None /\ d.cont # None /\ o.net = d.cont.from => Matches(o, p0)

\* The trip a fold completes is one the whole walk tells.
LEMMA ResolvedIs ==
  ASSUME NEW o, NEW d, NEW p0, NEW p,
         Handed(d, p0, p), Meets(o, d, p0), NEW trip \in T!Resolved(o, d)
  PROVE  /\ T!Content(trip) = Carried(d.cont, p0) /\ Carried(d.cont, p0) \in Told(p)
  <1> DEFINE c == d.cont
  <1>1. /\ o # None /\ c # None /\ c.tracked /\ c.closed # None /\ o.net = c.from
        /\ trip = [opened |-> o.opened, closed |-> c.closed, seq |-> 0,
                   pnl |-> o.pnl \cup c.pnl, entry |-> o.entry \cup c.entry,
                   side |-> T!Side(o.net)]
    BY DEF T!Resolved, T!Continues
  <1> HIDE DEF c
  <1>2. o \in T!Episode /\ c \in T!SegmentOf /\ Matches(o, p0)
    BY <1>1 DEF Meets, c
  <1>3. trip \in Trip
    <2>1. T!Side(o.net) \in {"LONG", "SHORT"} /\ c.closed \in Nat
      BY <1>1, <1>2 DEF T!Side, T!SegmentOf, T!Time
    <2> QED  BY <1>1, <1>2, <2>1 DEF Trip, T!Episode, T!SegmentOf
  <1>4. /\ trip.opened = o.opened /\ trip.closed = c.closed /\ trip.pnl = o.pnl \cup c.pnl
        /\ trip.entry = o.entry \cup c.entry /\ trip.side = T!Side(o.net)
    BY <1>1
  <1>5. T!Content(trip) = Carried(c, p0)
    BY <1>1, <1>2, <1>3, <1>4, ContentIs DEF Carried, Matches
  <1>6. Carried(c, p0) \in Told(p)
    BY <1>1 DEF Handed, c
  <1> QED  BY <1>5, <1>6 DEF c

\* The episode left open is the one the whole walk stands in.
LEMMA OpenAfterIs ==
  ASSUME NEW o, NEW d, NEW p0, NEW p,
         Made(d, p), Handed(d, p0, p), Meets(o, d, p0),
         T!OpenAfter(o, d) # None
  PROVE  Matches(T!OpenAfter(o, d), p)
  <1> DEFINE c == d.cont
             e == [o EXCEPT !.pnl = @ \cup c.pnl, !.entry = @ \cup c.entry, !.net = c.net]
             a == T!OpenAfter(o, d)
  <1>1. \/ a = d.open /\ d.open # None
        \/ T!Continues(o, d) /\ c.closed = None /\ a = e
        \/ d.lead = None
        \/ a = None
    BY DEF T!OpenAfter
  <1>2. a # None /\ d.lead # None
    BY DEF Made
  <1> HIDE DEF a
  <1>3. CASE a = d.open /\ d.open # None
    BY <1>3 DEF Made, a
  <1>4. CASE T!Continues(o, d) /\ c.closed = None /\ a = e
    <2>1. o # None /\ c # None /\ c.tracked /\ o.net = c.from
      BY <1>4 DEF T!Continues
    <2>2. o \in T!Episode /\ Matches(o, p0)
      BY <2>1 DEF Meets
    <2>3. /\ e.opened = o.opened /\ e.pnl = o.pnl \cup c.pnl /\ e.entry = o.entry \cup c.entry
          /\ e.net = c.net
      BY <2>2 DEF T!Episode
    <2>4. /\ c.net = After(p) /\ After(p) # 0 /\ Full(p).opened = Full(p0).opened
          /\ Full(p).pnl = Full(p0).pnl \cup c.pnl /\ Full(p).entry = Full(p0).entry \cup c.entry
      BY <1>4, <2>1 DEF Handed
    <2> HIDE DEF c, e
    <2>5. Matches(e, p)
      BY <2>2, <2>3, <2>4 DEF Matches
    <2> QED  BY <1>4, <2>5 DEF a
  <1> QED  BY <1>1, <1>2, <1>3, <1>4

\* A batch that meets the record adds to it nothing that the whole walk does not tell.
LEMMA FoldSound ==
  ASSUME NEW b, NEW p0, NEW p, NEW new,
         Made(T!Extract(b), p), Handed(T!Extract(b), p0, p),
         Meets(store.open, T!Extract(b), p0)
  PROVE  LET s == T!Folded(store, b, new)
         IN  /\ Contents(s.trips) \subseteq Contents(store.trips) \cup Told(p)
             /\ s.open # None => Matches(s.open, p)
  <1> DEFINE d == T!Extract(b)
             o == store.open
             s == T!Folded(store, b, new)
  <1>1. s.trips \subseteq store.trips \cup T!Resolved(o, d) \cup d.trips
    BY DEF T!Folded, T!Kept
  <1>2. s.open = T!OpenAfter(o, d)
    BY DEF T!Folded
  <1> HIDE DEF d, s
  <1>3. /\ Made(d, p) /\ Handed(d, p0, p) /\ Meets(o, d, p0)
    BY DEF d
  <1>4. \A trip \in T!Resolved(o, d) : T!Content(trip) \in Told(p)
    BY <1>3, ResolvedIs
  <1>5. \A trip \in d.trips : T!Content(trip) \in Told(p)
    BY <1>3 DEF Made, Contents
  <1>6. s.open # None => Matches(s.open, p)
    BY <1>2, <1>3, OpenAfterIs
  <1>7. Contents(s.trips) \subseteq Contents(store.trips) \cup Told(p)
    BY <1>1, <1>4, <1>5 DEF Contents
  <1> QED  BY <1>6, <1>7 DEF s

\* A batch with no gap, on a record that has everything up to it, leaves one that has
\* everything up to its end.
LEMMA FoldComplete ==
  ASSUME NEW b, NEW p0, NEW p, NEW new, NEW first \in Nat,
         Made(T!Extract(b), p), Handed(T!Extract(b), p0, p),
         Meets(store.open, T!Extract(b), p0), Complete(T!Extract(b), p0, p),
         T!Extract(b).trips \subseteq Trip, store.trips \subseteq Trip,
         \A trip \in store.trips : trip.closed < first,
         \A trip \in T!Resolved(store.open, T!Extract(b)) \cup T!Extract(b).trips :
           trip.closed \in Nat /\ first <= trip.closed,
         Told(p0) \subseteq Contents(store.trips),
         After(p0) # 0 => store.open # None,
         store.open # None => Matches(store.open, p0)
  PROVE  LET s == T!Folded(store, b, new)
         IN  /\ Told(p) \subseteq Contents(s.trips)
             /\ After(p) # 0 => s.open # None
  <1> DEFINE d == T!Extract(b)
             o == store.open
             s == T!Folded(store, b, new)
             stored == {T!Key(trip) : trip \in store.trips}
             built == T!Resolved(o, d) \cup T!Kept(o, d)
  <1>1. /\ s.trips = store.trips \cup {trip \in built : T!Key(trip) \notin stored}
        /\ s.open = T!OpenAfter(o, d)
    BY DEF T!Folded
  <1>2. /\ Made(d, p) /\ Handed(d, p0, p) /\ Meets(o, d, p0)
        /\ Complete(d, p0, p) /\ d.trips \subseteq Trip
    OBVIOUS
  <1> HIDE DEF d, s
  <1>3. ~T!Contradicted(o, d)
    BY <1>2 DEF T!Contradicted, Matches, Handed
  <1>4. T!Kept(o, d) = d.trips
    BY <1>3 DEF T!Kept
  <1>5. d.cont # None => T!Continues(o, d)
    BY <1>2 DEF T!Continues, Handed, Complete, Matches
  <1>6. \A trip \in built : trip.closed \in Int /\ first <= trip.closed
    BY <1>4 DEF d
  <1>7. \A trip \in built : T!Key(trip) \notin stored
    <2>1. \A x, y : T!Key(x) = T!Key(y) => x.closed = y.closed
      BY DEF T!Key
    <2>2. \A x \in store.trips : x.closed \in Nat /\ x.closed < first
      BY DEF Trip
    <2> QED  BY <1>6, <2>1, <2>2
  <1>8. s.trips = store.trips \cup built
    BY <1>1, <1>7
  <1>9. \A x \in Told(p) : x \in Contents(s.trips)
    <2> TAKE x \in Told(p)
    <2>1. CASE x \in Told(p0)
      BY <1>8, <2>1, ContentsGrow
    <2>2. CASE x \in Contents(d.trips)
      BY <1>4, <1>8, <2>2, ContentsGrow
    <2>3. CASE d.cont # None /\ d.cont.closed # None /\ x = Carried(d.cont, p0)
      <3>1. PICK trip \in T!Resolved(o, d) : TRUE
        BY <1>5, <2>3 DEF T!Resolved
      <3>2. T!Content(trip) = x
        BY <1>2, <2>3, <3>1, ResolvedIs
      <3>3. trip \in s.trips
        BY <1>8
      <3> QED  BY <3>2, <3>3 DEF Contents
    <2> QED  BY <1>2, <2>1, <2>2, <2>3 DEF Complete
  <1>10. ASSUME After(p) # 0 PROVE s.open # None
    <2>1. CASE d.open # None
      BY <1>1, <1>3, <2>1 DEF T!OpenAfter
    <2>2. CASE d.open = None
      <3>1. d.cont # None /\ d.cont.closed = None
        BY <1>2, <1>10, <2>2 DEF Complete
      <3>2. T!Continues(o, d)
        BY <1>5, <3>1
      <3>3. o \in T!Episode /\ d.cont \in T!SegmentOf
        BY <1>2, <3>1, <3>2 DEF Meets, T!Continues
      <3>4. s.open = [o EXCEPT !.pnl = @ \cup d.cont.pnl, !.entry = @ \cup d.cont.entry,
                               !.net = d.cont.net]
        BY <1>1, <2>2, <3>1, <3>2 DEF T!OpenAfter
      <3>5. s.open \in T!Episode
        BY <3>3, <3>4 DEF T!Episode, T!SegmentOf
      <3> QED  BY <3>5, StoreConstants
    <2> QED  BY <2>1, <2>2
  <1> QED  BY <1>9, <1>10 DEF s

-----------------------------------------------------------------------------
(* The inductive invariant of the record. *)

\* Nothing is stored before the first checkpoint, and nothing is later than the last.
RecordDated ==
  /\ seen = {} <=> store.checkpoint = None
  /\ store.checkpoint = None => store.trips = {}
  /\ \A i \in seen : fills[i].t <= store.checkpoint
  /\ \A trip \in store.trips : trip.closed <= store.checkpoint

\* With no invisible hole, what is stored is what the whole walk tells, and the episode
\* left open is the one it stood in when the newest stored execution had happened.
RecordSound ==
  ~T!InvisibleHole =>
    /\ Contents(store.trips) \subseteq Told(Len(fills))
    /\ store.open # None =>
         \E q \in seen : (\A i \in seen : i <= q) /\ Matches(store.open, q)

\* With no hole at all, everything the whole walk tells is stored.
RecordWhole ==
  \A q \in 0 .. Len(fills) : seen = 1 .. q =>
    /\ Told(q) \subseteq Contents(store.trips)
    /\ After(q) # 0 => store.open # None

RecordInv == Chained /\ RecordDated /\ RecordSound /\ RecordWhole

-----------------------------------------------------------------------------
(* The steps. *)

LEMMA BatchOrdered ==
  ASSUME StoreInv, Chained, RecordDated, ~T!Tied, T!Refresh
  PROVE  /\ Ordered(Batch)
         /\ \A k \in 1 .. Len(Batch) :
              /\ \A i \in seen : i < Batch[k].n
              /\ store.checkpoint # None => store.checkpoint < Batch[k].t
  <1> DEFINE b == Batch
  <1> USE DEF StoreInv
  <1>1. /\ b \in Seq(Fill) /\ ByTime(b)
        /\ \A k, l \in 1 .. Len(b) : k < l => T!Before(b[k], b[l])
        /\ \A k \in 1 .. Len(b) : b[k] \in Executed
        /\ ~pull.full => \A k \in 1 .. Len(b) : store.checkpoint < b[k].t
    BY BatchIs
  <1>2. pull.full \in BOOLEAN /\ (pull.full <=> store.checkpoint = None)
    <2>1. pull # T!NoPull
      BY DEF T!Refresh, T!NoPull
    <2> QED  BY <2>1 DEF PullTrue
  <1> HIDE DEF b
  <1>3. \A f \in Executed : /\ f.n \in 1 .. Len(fills) /\ fills[f.n] = f /\ f.t \in Nat
                            /\ f.source \in {"regular", "twap"}
    BY ExecutedIs DEF Fill
  <1>4. \A f, g \in Executed : f.t < g.t => f.n < g.n
    <2>1. \A i, j \in 1 .. Len(fills) : i <= j => fills[i].t <= fills[j].t
      BY DEF Chained
    <2> QED  BY <1>3, <2>1
  <1>5. \A f, g \in Executed : f.t = g.t => f.source = g.source
    BY <1>3, ExecutedIs DEF T!Tied
  <1>6. \A f, g \in Executed : T!Before(f, g) => f.n < g.n
    BY <1>3, <1>4, <1>5 DEF T!Before
  <1>7. Ordered(b)
    BY <1>1, <1>6 DEF Ordered
  <1>8. ASSUME NEW k \in 1 .. Len(b)
        PROVE  /\ \A i \in seen : i < b[k].n
               /\ store.checkpoint # None => store.checkpoint < b[k].t
    <2>1. CASE store.checkpoint = None
      BY <2>1 DEF RecordDated
    <2>2. CASE store.checkpoint # None
      <3>1. store.checkpoint < b[k].t /\ store.checkpoint \in Nat
        BY <1>1, <1>2, <1>8, <2>2 DEF StoreTrue, T!Time
      <3>2. ASSUME NEW i \in seen PROVE i < b[k].n
        <4>1. i \in 1 .. Len(fills) /\ fills[i] \in Executed /\ fills[i].n = i
          BY DEF NothingMissed, Executed, HistoryTrue
        <4>2. fills[i].t <= store.checkpoint
          BY DEF RecordDated
        <4>3. fills[i].t < b[k].t
          BY <1>1, <1>3, <1>8, <3>1, <4>1, <4>2
        <4> QED  BY <1>1, <1>4, <1>8, <4>1, <4>3
      <3> QED  BY <3>1, <3>2
    <2> QED  BY <2>1, <2>2
  <1> QED  BY <1>7, <1>8 DEF b

\* An unseen stretch before a seen execution, at whose end the position is where it was
\* at its start, is an invisible hole.
HoleIn(known) ==
  \E i, j \in DOMAIN fills :
    /\ i =< j /\ fills[i].start = fills[j].end
    /\ \A k \in i..j : k \notin known
    /\ i = 1 \/ i - 1 \in known
    /\ j + 1 \in known

\* Two known places at one position, and unknown ones between, are a hole.
LEMMA HoleShows ==
  ASSUME HistoryTrue, Chained, NEW known, NEW p \in 0 .. Len(fills), NEW q \in 1 .. Len(fills),
         q \in known, p = 0 \/ p \in known, p < q, p # q - 1, After(p) = After(q - 1),
         \A k \in p + 1 .. q - 1 : k \notin known
  PROVE  HoleIn(known)
  <1> DEFINE i == p + 1
             j == q - 1
  <1>1. Len(fills) \in Nat /\ DOMAIN fills = 1 .. Len(fills)
    BY ExecutedIs
  <1>2. /\ i \in 1 .. Len(fills) /\ j \in 1 .. Len(fills) /\ i <= j /\ i - 1 = p /\ j + 1 = q
        /\ j # 0
    BY <1>1
  <1>3. fills[i].start = After(p)
    BY <1>2, FillIs
  <1>4. fills[j].end = After(j)
    BY <1>2 DEF After
  <1>5. i = 1 \/ i - 1 \in known
    BY <1>2
  <1> HIDE DEF i
  <1> QED  BY <1>1, <1>2, <1>3, <1>4, <1>5 DEF HoleIn, i

\* What a batch brings, when the result has no invisible hole: the record had none, the
\* batch has none, and none lies between them.
LEMMA NoHoleMeans ==
  ASSUME HistoryTrue, Chained, NEW b, Ordered(b), b # <<>>, seen \subseteq 1 .. Len(fills),
         \A k \in 1 .. Len(b) : \A i \in seen : i < b[k].n,
         ~HoleIn(seen \cup {b[k].n : k \in 1 .. Len(b)})
  PROVE  /\ ~HoleIn(seen) /\ Faithful(b)
         /\ \A q \in 0 .. Len(fills) :
              /\ q = 0 \/ q \in seen
              /\ \A i \in seen : i <= q
              /\ After(q) = After(b[1].n - 1)
              => q = b[1].n - 1
  <1> DEFINE new == {b[k].n : k \in 1 .. Len(b)}
             known == seen \cup new
             N == Len(fills)
  <1>1. N \in Nat /\ DOMAIN fills = 1 .. N /\ 1 \in 1 .. Len(b) /\ Len(b) \in Nat
    BY ExecutedIs, BatchStands DEF Ordered
  <1>2. /\ \A k \in 1 .. Len(b) : b[k].n \in 1 .. N /\ b[k].n \in new
        /\ new \subseteq 1 .. N
    BY OrderedIs
  <1>3. \A k, l \in 1 .. Len(b) : k < l => b[k].n < b[l].n
    BY DEF Ordered
  <1>4. \A i \in seen, j \in new : i < j
    OBVIOUS
  <1>5. ~HoleIn(seen)
    <2> SUFFICES ASSUME HoleIn(seen) PROVE FALSE
      OBVIOUS
    <2> HIDE DEF new
    <2>1. PICK i \in 1 .. N, j \in 1 .. N :
            /\ i =< j /\ fills[i].start = fills[j].end
            /\ \A k \in i..j : k \notin seen
            /\ i = 1 \/ i - 1 \in seen
            /\ j + 1 \in seen
      BY <1>1 DEF HoleIn
    <2>2. \A k \in i..j : k \notin known
      <3>1. \A k \in i..j : k < j + 1
        BY <2>1
      <3>2. \A m \in new : j + 1 < m /\ m \in Nat
        BY <1>2, <1>4, <2>1
      <3> QED  BY <2>1, <3>1, <3>2
    <2>3. HoleIn(known)
      BY <1>1, <2>1, <2>2 DEF HoleIn
    <2> QED  BY <2>3 DEF known, new
  <1>6. Faithful(b)
    <2> SUFFICES ASSUME NEW k \in 1 .. Len(b), k > 1, b[k - 1].end = b[k].start,
                        b[k - 1].n # b[k].n - 1
                 PROVE  FALSE
      BY DEF Faithful
    <2> DEFINE p == b[k - 1].n
               q == b[k].n
    <2>1. k - 1 \in 1 .. Len(b) /\ k - 1 < k
      BY <1>1
    <2>2. p \in 1 .. N /\ q \in 1 .. N /\ p < q /\ p \in known /\ q \in known
      BY <1>2, <1>3, <2>1
    <2>3. After(p) = After(q - 1)
      BY <2>1, OrderedIs
    <2>4. p # q - 1
      OBVIOUS
    <2>5. ASSUME NEW m \in p + 1 .. q - 1, m \in known PROVE FALSE
      <3>1. p < m /\ m < q /\ m \in Int
        BY <2>2
      <3>2. CASE m \in seen
        BY <2>1, <2>2, <3>1, <3>2
      <3>3. CASE m \in new
        <4>1. PICK l \in 1 .. Len(b) : b[l].n = m
          BY <3>3
        <4>2. l < k - 1 \/ l = k - 1 \/ l = k \/ k < l
          BY <1>1, <4>1
        <4>3. m < p \/ m = p \/ m = q \/ q < m
          BY <1>3, <2>1, <4>1, <4>2
        <4> QED  BY <2>2, <3>1, <4>3
      <3> QED  BY <2>5, <3>2, <3>3
    <2> HIDE DEF p, q, known
    <2>6. p \in 0 .. N
      BY <2>2
    <2>7. HoleIn(known)
      BY <2>2, <2>3, <2>4, <2>5, <2>6, HoleShows
    <2> QED  BY <2>7 DEF known
  <1>7. ASSUME NEW q \in 0 .. N, q = 0 \/ q \in seen, \A i \in seen : i <= q,
               After(q) = After(b[1].n - 1), q # b[1].n - 1
        PROVE  FALSE
    <2> DEFINE u == b[1].n
    <2>1. u \in 1 .. N /\ u \in known
      BY <1>1, <1>2
    <2>2. q < u
      BY <1>1, <1>7, <2>1
    <2>3. ASSUME NEW m \in q + 1 .. u - 1, m \in known PROVE FALSE
      <3>1. q < m /\ m < u /\ m \in Int /\ q \in Int /\ u \in Int
        BY <1>7, <2>1
      <3>2. CASE m \in seen
        BY <1>7, <3>1, <3>2
      <3>3. CASE m \in new
        <4>1. PICK l \in 1 .. Len(b) : b[l].n = m
          BY <3>3
        <4>2. l = 1 \/ 1 < l
          BY <1>1, <4>1
        <4>3. m = u \/ u < m
          BY <1>1, <1>3, <4>1, <4>2
        <4> QED  BY <3>1, <4>3
      <3> QED  BY <2>3, <3>2, <3>3
    <2>4. q = 0 \/ q \in known
      BY <1>7
    <2>5. After(q) = After(u - 1) /\ q # u - 1
      BY <1>7
    <2> HIDE DEF u, known
    <2>6. HoleIn(known)
      BY <1>7, <2>1, <2>2, <2>3, <2>4, <2>5, HoleShows
    <2> QED  BY <2>6 DEF known
  <1> QED  BY <1>5, <1>6, <1>7

\* What a fold adds is dated within its batch, and what was stored stays.
LEMMA FoldDated ==
  ASSUME NEW b \in Seq(Fill), ByTime(b), b # <<>>, NEW new
  PROVE  LET d == T!Extract(b)
             s == T!Folded(store, b, new)
         IN  /\ d.trips \subseteq Trip /\ (d.cont # None => d.cont \in T!SegmentOf)
             /\ \A trip \in T!Resolved(store.open, d) \cup d.trips :
                  /\ trip.closed \in Nat
                  /\ b[1].t <= trip.closed /\ trip.closed <= b[Len(b)].t
             /\ s.trips \subseteq store.trips \cup T!Resolved(store.open, d) \cup d.trips
             /\ store.trips \subseteq s.trips
  <1> DEFINE d == T!Extract(b)
             s == T!Folded(store, b, new)
             R == T!Resolved(store.open, d)
  <1>1. /\ s.trips \subseteq store.trips \cup R \cup d.trips /\ store.trips \subseteq s.trips
    BY DEF T!Folded, T!Kept
  <1>2. d.trips \subseteq Trip /\ (d.cont # None => d.cont \in T!SegmentOf)
    BY ExtractIs
  <1>3. /\ \A trip \in d.trips : b[1].t <= trip.closed /\ trip.closed <= b[Len(b)].t
        /\ d.cont # None /\ d.cont.closed # None =>
             b[1].t <= d.cont.closed /\ d.cont.closed <= b[Len(b)].t
    BY BatchDated
  <1> HIDE DEF d, s
  <1>4. \A trip \in R : d.cont # None /\ d.cont.closed # None /\ trip.closed = d.cont.closed
    BY DEF T!Resolved, T!Continues
  <1> HIDE DEF R
  <1>5. \A trip \in R \cup d.trips : /\ trip.closed \in Nat
                                     /\ b[1].t <= trip.closed /\ trip.closed <= b[Len(b)].t
    BY <1>2, <1>3, <1>4 DEF Trip, T!SegmentOf, T!Time
  <1> QED  BY <1>1, <1>2, <1>5 DEF d, s, R

\* What the history tells moves only with the history.
LEMMA HistoryStays ==
  ASSUME UNCHANGED fills
  PROVE  /\ \A k : Full(k)' = Full(k) /\ After(k)' = After(k) /\ Told(k)' = Told(k)
         /\ Chained' <=> Chained
         /\ T!InvisibleHole' <=> HoleIn(seen')
BY DEF Full, After, Told, Chained, T!InvisibleHole, HoleIn

\* The hole that deceives the walk, by what is known.
LEMMA HoleIs == T!InvisibleHole <=> HoleIn(seen)
BY DEF T!InvisibleHole, HoleIn

\* A step that leaves the history and the record alone keeps the invariant.
LEMMA RecordStays ==
  ASSUME RecordInv, UNCHANGED <<fills, seen>>, store'.trips = store.trips,
         store'.open = store.open, store'.checkpoint = store.checkpoint
  PROVE  RecordInv'
  <1>1. Chained'
    BY HistoryStays DEF RecordInv
  <1>2. RecordDated'
    BY DEF RecordInv, RecordDated
  <1>3. RecordSound'
    <2>1. T!InvisibleHole' <=> T!InvisibleHole
      BY HistoryStays, HoleIs
    <2>2. \A q : Matches(store.open, q)' <=> Matches(store.open, q)
      BY HistoryStays DEF Matches
    <2>3. Told(Len(fills))' = Told(Len(fills)) /\ Contents(store.trips)' = Contents(store.trips)
      BY HistoryStays DEF Contents
    <2> QED  BY <2>1, <2>2, <2>3 DEF RecordInv, RecordSound
  <1>4. RecordWhole'
    <2>1. \A q : Told(q)' = Told(q) /\ After(q)' = After(q)
      BY HistoryStays
    <2>2. Contents(store.trips)' = Contents(store.trips)
      BY DEF Contents
    <2> QED  BY <2>1, <2>2 DEF RecordInv, RecordWhole
  <1> QED  BY <1>1, <1>2, <1>3, <1>4 DEF RecordInv

\* A refresh that brings something.
LEMMA RefreshAt ==
  ASSUME StoreInv, RecordInv, ~T!Tied, T!Refresh, Batch # <<>>
  PROVE  LET b == Batch
             z == Len(Batch)
         IN  /\ Ordered(b) /\ z \in 1 .. z /\ 1 \in 1 .. z
             /\ \A i \in seen : i < b[1].n
             /\ \A k \in 1 .. z : \A i \in seen : i < b[k].n
             /\ \A k \in 1 .. z : b[1].n <= b[k].n /\ b[k].n <= b[z].n
             /\ \A k \in 1 .. z : b[k].t <= b[z].t /\ b[1].t <= b[k].t
             /\ store.checkpoint # None =>
                  store.checkpoint < b[1].t /\ store.checkpoint \in Nat
             /\ store' = T!Folded(store, b, b[z].t) /\ fills' = fills
             /\ seen' = seen \cup {b[k].n : k \in 1 .. z}
             /\ store'.checkpoint = b[z].t
  <1> DEFINE b == Batch
             z == Len(b)
  <1>1. /\ Ordered(b)
        /\ \A k \in 1 .. z : /\ \A i \in seen : i < b[k].n
                             /\ store.checkpoint # None => store.checkpoint < b[k].t
    BY BatchOrdered DEF RecordInv
  <1>2. store' = T!Folded(store, b, Last(b)) /\ fills' = fills
        /\ seen' = seen \cup {b[i].n : i \in DOMAIN b}
    BY DEF T!Refresh, Batch, Last
  <1>3. Last(b) = b[z].t
    BY DEF Last
  <1> HIDE DEF b
  <1>4. b # <<>>
    BY DEF b
  <1>5. DOMAIN b = 1 .. z /\ z \in 1 .. z /\ 1 \in 1 .. z /\ z \in Nat
    BY <1>1, <1>4 DEF Ordered
  <1>6. \A k \in 1 .. z : b[k].n \in Nat /\ b[k].t \in Nat
    BY <1>1, OrderedIs DEF StoreInv, RecordInv
  <1>7. \A k \in 1 .. z : b[1].n <= b[k].n /\ b[k].n <= b[z].n
    <2>1. \A k, l \in 1 .. z : k < l => b[k].n < b[l].n
      BY <1>1 DEF Ordered
    <2> HIDE DEF z
    <2>2. \A k \in 1 .. z : (k = 1 \/ 1 < k) /\ (k = z \/ k < z)
      BY <1>5
    <2>3. ASSUME NEW k \in 1 .. z PROVE b[1].n <= b[k].n /\ b[k].n <= b[z].n
      <3>1. b[1].n \in Nat /\ b[k].n \in Nat /\ b[z].n \in Nat
        BY <1>5, <1>6
      <3>2. (k = 1 \/ b[1].n < b[k].n) /\ (k = z \/ b[k].n < b[z].n)
        BY <1>5, <2>1, <2>2
      <3> QED  BY <3>1, <3>2
    <2> QED  BY <2>3
  <1>8. \A k \in 1 .. z : b[k].t <= b[z].t /\ b[1].t <= b[k].t
    <2>1. \A k, l \in 1 .. z : k <= l => b[k].t <= b[l].t
      BY <1>1 DEF Ordered, ByTime
    <2> QED  BY <1>5, <2>1
  <1>9. store.checkpoint # None => store.checkpoint < b[1].t /\ store.checkpoint \in Nat
    BY <1>1, <1>5 DEF StoreInv, StoreTrue, T!Time
  <1>10. store'.checkpoint = b[z].t
    <2>1. store'.checkpoint = T!Later(store.checkpoint, b[z].t)
      BY <1>2, <1>3 DEF T!Folded
    <2>2. b[1].t <= b[z].t /\ b[z].t \in Nat /\ b[1].t \in Nat
      BY <1>5, <1>6, <1>8
    <2>3. store.checkpoint # None => b[z].t # None /\ ~(store.checkpoint > b[z].t)
      BY <1>9, <2>2, StoreConstants
    <2> QED  BY <2>1, <2>3 DEF T!Later
  <1>11. seen' = seen \cup {b[k].n : k \in 1 .. z}
    BY <1>2, <1>5
  <1>12. \A i \in seen : i < b[1].n
    BY <1>1, <1>5
  <1>13. store' = T!Folded(store, b, b[z].t) /\ fills' = fills
    BY <1>2, <1>3
  <1> QED  BY <1>1, <1>5, <1>7, <1>8, <1>9, <1>10, <1>11, <1>12, <1>13 DEF b

\* A refresh keeps the dates: nothing stored is younger than the checkpoint.
LEMMA RefreshDated ==
  ASSUME StoreInv, RecordInv, ~T!Tied, T!Refresh, Batch # <<>>
  PROVE  RecordDated'
  <1> DEFINE b == Batch
             z == Len(b)
             first == b[1].t
             final == b[z].t
  <1>1. /\ Ordered(b) /\ z \in 1 .. z /\ 1 \in 1 .. z
        /\ \A k \in 1 .. z : b[k].t <= final /\ first <= b[k].t
        /\ store.checkpoint # None => store.checkpoint < first /\ store.checkpoint \in Nat
        /\ store' = T!Folded(store, b, final) /\ fills' = fills
        /\ seen' = seen \cup {b[k].n : k \in 1 .. z}
        /\ store'.checkpoint = final
    BY RefreshAt
  <1>2. b # <<>>
    OBVIOUS
  <1> HIDE DEF b
  <1>3. first \in Nat /\ final \in Nat /\ first <= final
    BY <1>1, OrderedIs DEF StoreInv, RecordInv
  <1> HIDE DEF z, first, final
  <1>4. seen' # {} /\ final # None
    BY <1>1, <1>3, StoreConstants
  <1>5. ASSUME NEW i \in seen' PROVE fills[i].t <= final
    <2>1. CASE i \in seen
      <3>1. fills[i].t <= store.checkpoint /\ store.checkpoint # None
        BY <2>1 DEF RecordInv, RecordDated
      <3>2. fills[i].t \in Nat
        <4>1. i \in 1 .. Len(fills)
          BY <2>1 DEF StoreInv, NothingMissed
        <4> QED  BY <4>1, FillIs DEF StoreInv, RecordInv
      <3> QED  BY <1>1, <1>3, <3>1, <3>2
    <2>2. CASE i \notin seen
      <3>1. PICK k \in 1 .. z : b[k].n = i
        BY <1>1, <2>2
      <3>2. fills[b[k].n] = b[k]
        BY <1>1, OrderedIs DEF StoreInv, RecordInv, z
      <3> QED  BY <1>1, <3>1, <3>2
    <2> QED  BY <2>1, <2>2
  <1>6. ASSUME NEW trip \in store'.trips PROVE trip.closed <= final
    <2>1. CASE trip \in store.trips
      <3>1. trip.closed <= store.checkpoint /\ store.checkpoint # None /\ trip.closed \in Nat
        BY <2>1 DEF RecordInv, RecordDated, StoreInv, StoreTrue, Trip
      <3> QED  BY <1>1, <1>3, <3>1
    <2>2. CASE trip \notin store.trips
      <3>1. b \in Seq(Fill) /\ ByTime(b)
        BY <1>1 DEF Ordered
      <3> QED  BY <1>1, <1>2, <2>2, <3>1, FoldDated DEF final, z
    <2> QED  BY <2>1, <2>2
  <1> QED  BY <1>1, <1>4, <1>5, <1>6 DEF RecordDated

\* With no invisible hole, the batch and the record go together.
LEMMA RefreshMeets ==
  ASSUME StoreInv, RecordInv, ~T!Tied, T!Refresh, Batch # <<>>, ~HoleIn(seen')
  PROVE  LET b == Batch
             d == T!Extract(b)
             p0 == b[1].n - 1
             p == b[Len(b)].n
         IN  /\ ~HoleIn(seen) /\ Made(d, p) /\ Handed(d, p0, p) /\ Meets(store.open, d, p0)
             /\ Unbroken(b) => Complete(d, p0, p)
             /\ store.open # None =>
                  \E q \in seen : (\A i \in seen : i <= q) /\ Matches(store.open, q)
             /\ Contents(store.trips) \subseteq Told(Len(fills))
  <1> DEFINE b == Batch
             d == T!Extract(b)
             p0 == b[1].n - 1
             p == b[Len(b)].n
             o == store.open
  <1>1. /\ Ordered(b) /\ b # <<>> /\ 1 \in 1 .. Len(b)
        /\ \A k \in 1 .. Len(b) : \A i \in seen : i < b[k].n
        /\ seen' = seen \cup {b[k].n : k \in 1 .. Len(b)}
    BY RefreshAt
  <1>2. HistoryTrue /\ Chained /\ seen \subseteq 1 .. Len(fills) /\ RecordSound
    BY DEF StoreInv, NothingMissed, RecordInv
  <1> HIDE DEF b
  <1>3. /\ ~HoleIn(seen) /\ Faithful(b)
        /\ \A q \in 0 .. Len(fills) :
             /\ q = 0 \/ q \in seen
             /\ \A i \in seen : i <= q
             /\ After(q) = After(p0)
             => q = p0
    BY <1>1, <1>2, NoHoleMeans
  <1>4. Made(d, p) /\ Handed(d, p0, p) /\ (Unbroken(b) => Complete(d, p0, p))
    BY <1>1, <1>2, <1>3, ExtractEchoes
  <1>5. d.cont # None => d.cont \in T!SegmentOf
    BY <1>1, FoldDated DEF Ordered
  <1> HIDE DEF d, p0, p
  <1>6. /\ Contents(store.trips) \subseteq Told(Len(fills))
        /\ o # None => \E q \in seen : (\A i \in seen : i <= q) /\ Matches(o, q)
    BY <1>2, <1>3, HoleIs DEF RecordSound
  <1>7. o # None => o \in T!Episode
    BY DEF StoreInv, StoreTrue
  <1>8. ASSUME o # None, d.cont # None, o.net = d.cont.from PROVE Matches(o, p0)
    <2>1. PICK q \in seen : (\A i \in seen : i <= q) /\ Matches(o, q)
      BY <1>6, <1>8
    <2>2. After(q) = After(p0)
      BY <1>4, <1>8, <2>1 DEF Handed, Matches
    <2>3. q \in 0 .. Len(fills)
      BY <1>2, <2>1
    <2>4. q = p0
      BY <1>3, <2>1, <2>2, <2>3
    <2> QED  BY <2>1, <2>4
  <1>9. Meets(o, d, p0)
    BY <1>5, <1>7, <1>8 DEF Meets
  <1> QED  BY <1>3, <1>4, <1>6, <1>9 DEF b, d, p0, p

\* A refresh stores only what the whole walk tells, and leaves open what it does.
LEMMA RefreshSound ==
  ASSUME StoreInv, RecordInv, ~T!Tied, T!Refresh, Batch # <<>>
  PROVE  RecordSound'
  <1> DEFINE b == Batch
             d == T!Extract(b)
             p0 == b[1].n - 1
             p == b[Len(b)].n
             s == T!Folded(store, b, b[Len(b)].t)
             N == Len(fills)
  <1> SUFFICES ASSUME ~T!InvisibleHole'
               PROVE  /\ Contents(store'.trips) \subseteq Told(Len(fills))'
                      /\ store'.open # None =>
                           \E q \in seen' : (\A i \in seen' : i <= q) /\ Matches(store.open, q)'
    <2>1. Contents(store.trips)' = Contents(store'.trips)
      BY DEF Contents
    <2> QED  BY <2>1 DEF RecordSound
  <1>1. /\ Ordered(b) /\ 1 \in 1 .. Len(b) /\ Len(b) \in 1 .. Len(b)
        /\ \A k \in 1 .. Len(b) : b[k].n <= p
        /\ \A i \in seen : i < b[1].n
        /\ store' = s /\ fills' = fills
        /\ seen' = seen \cup {b[k].n : k \in 1 .. Len(b)}
    BY RefreshAt
  <1>2. HistoryTrue /\ Chained /\ seen \subseteq 1 .. N
    BY DEF StoreInv, NothingMissed, RecordInv
  <1>3. /\ \A k : Told(k)' = Told(k) /\ After(k)' = After(k) /\ Full(k)' = Full(k)
        /\ ~HoleIn(seen')
    BY <1>1, HistoryStays
  <1>4. /\ Made(d, p) /\ Handed(d, p0, p) /\ Meets(store.open, d, p0)
        /\ Contents(store.trips) \subseteq Told(N)
    BY <1>3, RefreshMeets
  <1>5. /\ Contents(s.trips) \subseteq Contents(store.trips) \cup Told(p)
        /\ s.open # None => Matches(s.open, p)
    BY <1>4, FoldSound
  <1>6. p \in 1 .. N /\ p \in seen'
    BY <1>1, <1>2, OrderedIs
  <1> HIDE DEF b, d, p0, p, s
  <1>7. Told(p) \subseteq Told(N)
    <2>1. N \in Nat /\ p \in 0 .. N /\ N \in p .. N
      BY <1>2, <1>6, ExecutedIs
    <2> QED  BY <1>2, <2>1, ToldGrows
  <1>8. \A i \in seen' : i <= p
    <2>1. b[1].n <= p /\ b[1].n \in Nat
      BY <1>1, <1>2, OrderedIs
    <2>2. \A i \in seen : i \in Nat /\ i < b[1].n
      BY <1>1, <1>2
    <2>3. \A i \in seen : i <= p
      BY <1>6, <2>1, <2>2
    <2> QED  BY <1>1, <2>3
  <1>9. PICK q \in 1 .. N : q = p
    BY <1>6
  <1>10. Matches(store'.open, q) => Matches(store.open, q)'
    BY <1>3 DEF Matches
  <1>11. store'.open # None =>
           q \in seen' /\ (\A i \in seen' : i <= q) /\ Matches(store.open, q)'
    BY <1>1, <1>5, <1>6, <1>8, <1>9, <1>10
  <1>12. Told(N)' = Told(N)
    BY <1>1, <1>3
  <1>13. Contents(store'.trips) \subseteq Told(N)
    BY <1>1, <1>4, <1>5, <1>7
  <1> QED  BY <1>11, <1>12, <1>13

\* With no hole a refresh stores all that the whole walk tells.
LEMMA RefreshWhole ==
  ASSUME StoreInv, RecordInv, ~T!Tied, T!Refresh, Batch # <<>>
  PROVE  RecordWhole'
  <1> DEFINE b == Batch
             d == T!Extract(b)
             p0 == b[1].n - 1
             p == b[Len(b)].n
             s == T!Folded(store, b, b[Len(b)].t)
             N == Len(fills)
             new == {b[k].n : k \in 1 .. Len(b)}
  <1>1. /\ Ordered(b) /\ 1 \in 1 .. Len(b) /\ Len(b) \in 1 .. Len(b)
        /\ \A k \in 1 .. Len(b) : b[1].n <= b[k].n /\ b[k].n <= p
        /\ \A i \in seen : i < b[1].n
        /\ store' = s /\ fills' = fills /\ seen' = seen \cup new
        /\ store.checkpoint # None => store.checkpoint < b[1].t /\ store.checkpoint \in Nat
    BY RefreshAt
  <1>2. HistoryTrue /\ Chained /\ seen \subseteq 1 .. N /\ RecordWhole /\ RecordDated
    BY DEF StoreInv, NothingMissed, RecordInv
  <1>3. /\ \A k : Told(k)' = Told(k) /\ After(k)' = After(k) /\ Full(k)' = Full(k)
        /\ T!InvisibleHole' <=> HoleIn(seen')
    BY <1>1, HistoryStays
  <1>4. /\ b[1].n \in 1 .. N /\ b[1].t \in Nat /\ p \in 1 .. N /\ p \in Nat /\ p0 \in 0 .. N
        /\ b[1].n \in Nat
        /\ \A k \in 1 .. Len(b) : b[k].n \in 1 .. N
    BY <1>1, <1>2, OrderedIs
  <1>5. b # <<>>
    OBVIOUS
  <1> SUFFICES ASSUME NEW q \in 0 .. N, seen' = 1 .. q
               PROVE  /\ Told(q) \subseteq Contents(store'.trips)
                       /\ (After(q) # 0 => store'.open # None)
    <2>1. Contents(store.trips)' = Contents(store'.trips) /\ Len(fills)' = N
      BY <1>1 DEF Contents
    <2> QED  BY <1>3, <2>1 DEF RecordWhole
  <1> HIDE DEF b, d, p0, p, s, new
  <1>6. p \in new /\ \A m \in new : b[1].n <= m /\ m <= p
    BY <1>1 DEF new, p
  <1>7. q = p
    <2>1. p \in 1 .. q
      BY <1>1, <1>6
    <2>2. q \in 1 .. q
      BY <2>1
    <2>3. \A i \in seen' : i <= p
      <3>1. \A i \in seen : i \in Nat /\ i < b[1].n
        BY <1>1, <1>2
      <3> QED  BY <1>1, <1>4, <1>6, <3>1
    <2> QED  BY <2>1, <2>2, <2>3
  <1>8. seen = 1 .. p0
    <2>1. p0 = b[1].n - 1
      BY DEF p0
    <2>2. ASSUME NEW i \in 1 .. p0 PROVE i \in seen
      <3>1. i \in 1 .. q /\ i < b[1].n
        BY <1>1, <1>4, <1>7, <2>1
      <3> QED  BY <1>1, <1>4, <1>6, <3>1
    <2>3. ASSUME NEW i \in seen PROVE i \in 1 .. p0
      BY <1>1, <1>2, <1>4, <2>1
    <2> QED  BY <2>2, <2>3
  <1>9. Unbroken(b)
    <2> SUFFICES ASSUME NEW k \in 1 .. Len(b), k > 1, b[k - 1].n # b[k].n - 1 PROVE FALSE
      BY DEF Unbroken
    <2> DEFINE m == b[k - 1].n + 1
    <2>1. k - 1 \in 1 .. Len(b) /\ k - 1 < k /\ Len(b) \in Nat
      BY <1>1 DEF Ordered
    <2>2. /\ b[k - 1].n \in 1 .. N /\ b[k].n \in 1 .. N /\ b[k - 1].n < b[k].n
          /\ b[1].n <= b[k - 1].n /\ b[k].n <= p
      BY <1>1, <1>4, <2>1 DEF Ordered
    <2>3. m \in 1 .. q /\ b[1].n < m /\ b[k - 1].n < m /\ m < b[k].n /\ m \in Nat
      <3> DEFINE x == b[k - 1].n
                 y == b[k].n
                 z == b[1].n
      <3>1. x \in Nat /\ y \in Nat /\ z \in Nat /\ x < y /\ z <= x /\ y <= q /\ q \in Nat
            /\ x # y - 1
        BY <1>4, <1>7, <2>2
      <3> HIDE DEF x, y, z
      <3>2. x + 1 \in 1 .. q /\ z < x + 1 /\ x < x + 1 /\ x + 1 < y /\ x + 1 \in Nat
        BY <3>1
      <3> QED  BY <3>2 DEF x, y, z
    <2> HIDE DEF m
    <2>4. m \notin seen
      BY <1>4, <1>8, <2>3 DEF p0
    <2>5. m \in new
      BY <1>1, <2>3, <2>4
    <2>6. PICK l \in 1 .. Len(b) : b[l].n = m
      BY <2>5 DEF new
    <2>7. l < k - 1 \/ l = k - 1 \/ l = k \/ k < l
      BY <2>1, <2>6
    <2>8. b[l].n < b[k - 1].n \/ b[l].n = b[k - 1].n \/ b[l].n = b[k].n \/ b[k].n < b[l].n
      BY <1>1, <2>1, <2>6, <2>7 DEF Ordered
    <2> QED  BY <2>2, <2>3, <2>6, <2>8
  <1>10. ~HoleIn(seen')
    BY ExecutedIs, <1>2 DEF HoleIn
  <1>11. /\ Made(d, p) /\ Handed(d, p0, p) /\ Meets(store.open, d, p0) /\ Complete(d, p0, p)
         /\ store.open # None =>
              \E u \in seen : (\A i \in seen : i <= u) /\ Matches(store.open, u)
    BY <1>9, <1>10, RefreshMeets DEF b, d, p, p0
  <1>12. store.open # None => Matches(store.open, p0)
    <2> SUFFICES ASSUME store.open # None PROVE Matches(store.open, p0)
      OBVIOUS
    <2>1. PICK u \in seen : (\A i \in seen : i <= u) /\ Matches(store.open, u)
      BY <1>11
    <2>2. p0 \in seen
      BY <1>4, <1>8, <2>1
    <2>3. u = p0
      BY <1>4, <1>8, <2>1, <2>2
    <2> QED  BY <2>1, <2>3
  <1>13. Told(p0) \subseteq Contents(store.trips) /\ (After(p0) # 0 => store.open # None)
    BY <1>2, <1>4, <1>8 DEF RecordWhole
  <1>14. /\ d.trips \subseteq Trip /\ store.trips \subseteq Trip
         /\ \A trip \in T!Resolved(store.open, d) \cup d.trips :
              trip.closed \in Nat /\ b[1].t <= trip.closed
    BY <1>1, <1>5, FoldDated DEF Ordered, d, StoreInv, StoreTrue
  <1>15. \A trip \in store.trips : trip.closed < b[1].t
    <2> TAKE trip \in store.trips
    <2>1. trip.closed <= store.checkpoint /\ store.checkpoint # None /\ trip.closed \in Nat
      BY <1>2, <1>14 DEF RecordDated, Trip
    <2> QED  BY <1>1, <1>4, <2>1
  <1>16. Told(p) \subseteq Contents(s.trips) /\ (After(p) # 0 => s.open # None)
    BY <1>4, <1>11, <1>12, <1>13, <1>14, <1>15, FoldComplete DEF d, s
  <1> QED  BY <1>1, <1>7, <1>16

\* A refresh keeps the record true.
LEMMA RefreshKeepsRecord ==
  ASSUME StoreInv, RecordInv, ~T!Tied, T!Refresh
  PROVE  RecordInv'
  <1>1. CASE Batch = <<>>
    <2>1. /\ store' = T!Folded(store, <<>>, None) /\ fills' = fills
          /\ seen' = seen \cup {Batch[i].n : i \in DOMAIN Batch}
      BY <1>1 DEF T!Refresh, Batch
    <2>2. seen' = seen
      BY <1>1, <2>1
    <2> DEFINE d == T!Extract(<<>>)
    <2>3. d.trips = {} /\ d.open = None /\ d.cont = None /\ d.lead = None
      BY DEF T!Extract
    <2> HIDE DEF d
    <2>4. /\ T!Resolved(store.open, d) = {} /\ T!Kept(store.open, d) = {}
          /\ T!OpenAfter(store.open, d) = store.open
      BY <2>3 DEF T!Resolved, T!Kept, T!OpenAfter, T!Continues, T!Contradicted
    <2>5. /\ store'.trips = store.trips /\ store'.open = store.open
          /\ store'.checkpoint = store.checkpoint
      BY <2>1, <2>4 DEF T!Folded, T!Later, d
    <2> QED  BY <2>1, <2>2, <2>5, RecordStays
  <1>2. CASE Batch # <<>>
    <2>1. Chained'
      BY <1>2, RefreshAt, HistoryStays DEF RecordInv
    <2> QED  BY <1>2, <2>1, RefreshDated, RefreshSound, RefreshWhole DEF RecordInv
  <1> QED  BY <1>1, <1>2

\* The walk over a longer history begins as the walk over the shorter one.
LEMMA WalkPrefix ==
  ASSUME NEW b \in Seq(Fill), NEW c \in Seq(Fill), Len(b) <= Len(c),
         \A k \in 1 .. Len(b) : c[k] = b[k]
  PROVE  \A k \in 1 .. Len(b) : T!Walk(c)[k] = T!Walk(b)[k]
  <1> DEFINE N == Len(b)
             w == T!Walk(b)
             v == T!Walk(c)
             B == {k \in 1 .. N : v[k] # w[k]}
  <1>1. N \in Nat /\ Len(c) \in Nat /\ N <= Len(c) /\ B \in SUBSET Nat
    OBVIOUS
  <1>2. \A k \in 1 .. N : w[k] = T!Step(IF k = 1 THEN T!WalkStart(b[1]) ELSE w[k - 1], b[k])
    BY WalkIs
  <1>3. \A k \in 1 .. Len(c) :
          v[k] = T!Step(IF k = 1 THEN T!WalkStart(c[1]) ELSE v[k - 1], c[k])
    BY WalkIs
  <1> HIDE DEF w, v
  <1>4. ASSUME B # {} PROVE FALSE
    <2>1. PICK k \in B : \A m \in B : k <= m
      <3> HIDE DEF B
      <3> QED  BY <1>1, <1>4, LeastOf
    <2>2. k \in 1 .. N /\ v[k] # w[k] /\ k \in 1 .. Len(c) /\ c[k] = b[k]
      BY <1>1, <2>1
    <2>3. CASE k = 1
      BY <1>2, <1>3, <2>2, <2>3
    <2>4. CASE k # 1
      <3>1. k - 1 \in 1 .. N /\ ~(k <= k - 1)
        BY <1>1, <2>2, <2>4
      <3>2. v[k - 1] = w[k - 1]
        BY <2>1, <3>1
      <3> QED  BY <1>2, <1>3, <2>2, <2>4, <3>2
    <2> QED  BY <2>3, <2>4
  <1>5. \A k \in 1 .. N : v[k] = w[k]
    BY <1>4
  <1> QED  BY <1>5 DEF w, v

\* A step forgets no trip.
LEMMA StepGrows ==
  ASSUME NEW w \in Walker, NEW f \in Fill
  PROVE  Contents(w.trips) \subseteq Contents(T!Step(w, f).trips)
  <1> DEFINE d == T!Demote(w, f)
             r == T!Step(w, f)
  <1>1. d.trips = w.trips
    BY DemoteIs
  <1>2. Opens(r, d, f) \/ Banks(r, d, f) \/ Ends(r, d, f)
    BY StepIs
  <1> HIDE DEF d, r
  <1>3. d.trips \subseteq r.trips
    BY <1>2 DEF Opens, Banks, Ends
  <1> QED  BY <1>1, <1>3, ContentsGrow DEF r

\* Another execution: what was told of the earlier ones stays as it was.
LEMMA TradeTells ==
  ASSUME StoreInv, Chained, NEW source \in T!Sources, NEW end \in Held, T!Trade(source, end)
  PROVE  /\ \A k \in 0 .. Len(fills) : /\ Full(k)' = Full(k) /\ After(k)' = After(k)
                                       /\ Told(k)' = Told(k)
         /\ \A k \in 1 .. Len(fills) : fills'[k] = fills[k]
         /\ Len(fills') = Len(fills) + 1 /\ Len(fills) \in Nat
         /\ Told(Len(fills)) \subseteq Told(Len(fills))'
         /\ Chained' /\ UNCHANGED <<store, seen>>
  <1> DEFINE e == [n |-> Len(fills) + 1, t |-> instant - Skew, source |-> source,
                   start |-> T!Position, end |-> end]
  <1>0. Len(fills) \in Nat /\ fills \in Seq(Fill)
    BY ExecutedIs DEF StoreInv, HistoryTrue
  <1> PICK N \in Nat : N = Len(fills)
    BY <1>0
  <1>1. /\ fills' = Append(fills, e) /\ end # T!Position /\ UNCHANGED <<store, seen>>
    BY DEF T!Trade, T!Stamp
  <1>2. fills \in Seq(Fill) /\ N \in Nat /\ N = Len(fills) /\ DOMAIN fills = 1 .. N
    BY <1>0
  <1>3. fills' \in Seq(Fill)
    BY TradeKeeps DEF StoreInv, HistoryTrue
  <1>4. /\ Len(fills') = N + 1 /\ fills'[N + 1] = e /\ \A k \in 1 .. N : fills'[k] = fills[k]
        /\ 1 .. N + 1 = 1 .. N \cup {N + 1}
    BY <1>1, <1>2
  <1>5. e.start = T!Position /\ e.end = end /\ e.t = instant - Skew /\ e.source = source
    OBVIOUS
  <1>6. e \in Fill
    <2>1. N + 1 \in 1 .. Len(fills')
      BY <1>2, <1>4
    <2> HIDE DEF e
    <2> QED  BY <1>3, <1>4, <2>1
  <1> HIDE DEF e
  <1>7. T!Position = After(N)
    BY <1>2 DEF T!Position, After
  <1>8. \A k \in 1 .. N : T!Walk(fills')[k] = T!Walk(fills)[k]
    BY <1>2, <1>3, <1>4, WalkPrefix
  <1>9. \A k \in 0 .. N : Full(k)' = Full(k) /\ After(k)' = After(k)
    BY <1>2, <1>4, <1>8 DEF Full, After
  <1>10. \A k \in 0 .. N : Told(k)' = Told(k)
    BY <1>9 DEF Told, Contents
  <1>11. Chained'
    <2>1. \A i \in 1 .. N + 1 : fills'[i].start = After(i - 1)' /\ fills'[i].end # fills'[i].start
      <3>1. ASSUME NEW i \in 1 .. N
            PROVE  fills'[i].start = After(i - 1)' /\ fills'[i].end # fills'[i].start
        <4>1. i - 1 \in 0 .. N
          BY <1>2
        <4>2. fills[i].start = After(i - 1) /\ fills[i].end # fills[i].start
          BY DEF Chained
        <4> QED  BY <1>4, <1>9, <4>1, <4>2
      <3>2. fills'[N + 1].start = After(N)' /\ fills'[N + 1].end # fills'[N + 1].start
        BY <1>1, <1>2, <1>4, <1>5, <1>7, <1>9
      <3>3. (N + 1) - 1 = N
        BY <1>2
      <3> QED  BY <1>4, <3>1, <3>2, <3>3
    <2>2. \A i \in 1 .. N : fills[i].t <= e.t /\ fills[i].t \in Nat /\ e.t \in Nat
      <3>1. instant \in Int /\ Skew \in Int
        BY StoreConstants DEF StoreInv, HistoryTrue
      <3>2. \A i \in 1 .. N : fills[i].t + Skew <= instant
        BY DEF StoreInv, HistoryTrue
      <3>3. \A i \in 1 .. N : fills[i].t \in Nat
        <4>1. \A i \in 1 .. N : fills[i] \in Fill
          BY <1>2
        <4> QED  BY <4>1 DEF Fill
      <3>4. e.t \in Nat
        BY <1>6 DEF Fill
      <3> QED  BY <1>5, <3>1, <3>2, <3>3, <3>4
    <2>3. \A i, j \in 1 .. N + 1 : i <= j => fills'[i].t <= fills'[j].t
      <3> TAKE i, j \in 1 .. N + 1
      <3> HAVE i <= j
      <3>1. CASE j \in 1 .. N
        <4>1. i \in 1 .. N
          BY <1>2, <3>1
        <4> QED  BY <1>4, <3>1, <4>1 DEF Chained
      <3>2. CASE j = N + 1 /\ i \in 1 .. N
        BY <1>4, <2>2, <3>2
      <3>3. CASE j = N + 1 /\ i = N + 1
        <4>1. e.t \in Nat
          BY <1>6 DEF Fill
        <4> QED  BY <1>4, <3>3, <4>1
      <3> QED  BY <1>2, <3>1, <3>2, <3>3
    <2> QED  BY <1>4, <2>1, <2>3 DEF Chained
  <1>12. Told(N) \subseteq Told(N + 1)'
    <2>1. Full(N + 1)' = T!Step(Full(N), e)
      <3>1. T!Walk(fills')[N + 1] =
              T!Step(IF N + 1 = 1 THEN T!WalkStart(fills'[1]) ELSE T!Walk(fills')[N], e)
        <4>1. N + 1 \in 1 .. Len(fills') /\ (N + 1) - 1 = N
          BY <1>2, <1>4
        <4> QED  BY <1>3, <1>4, <4>1, WalkIs
      <3>2. CASE N = 0
        <4>1. fills'[1].start = 0
          BY <1>2, <1>4, <1>5, <1>7, <3>2 DEF After
        <4>2. T!WalkStart(fills'[1]) = Full(0)
          BY <4>1 DEF Full, T!WalkStart
        <4> QED  BY <3>1, <3>2, <4>2 DEF Full
      <3>3. CASE N # 0
        <4>1. N + 1 # 1 /\ N + 1 # 0 /\ N \in 1 .. N
          BY <1>2, <3>3
        <4>2. T!Walk(fills')[N] = Full(N)
          BY <1>8, <3>3, <4>1 DEF Full
        <4> QED  BY <3>1, <4>1, <4>2 DEF Full
      <3> QED  BY <3>2, <3>3
    <2>2. Full(N) \in Walker
      <3>1. N \in 0 .. N
        BY <1>2
      <3> QED  BY <3>1, FullIs DEF Anchored, StoreInv
    <2> QED  BY <1>6, <2>1, <2>2, StepGrows DEF Told, Contents
  <1>13. Told(Len(fills))' = Told(N + 1)'
    BY <1>4
  <1> QED  BY <1>1, <1>2, <1>4, <1>9, <1>10, <1>11, <1>12, <1>13

\* Another execution is not known yet: it changes nothing of what was promised.
LEMMA TradeKeepsRecord ==
  ASSUME StoreInv, RecordInv, NEW source \in T!Sources, NEW end \in Held, T!Trade(source, end)
  PROVE  RecordInv'
  <1>1. /\ \A k \in 0 .. Len(fills) : After(k)' = After(k) /\ Told(k)' = Told(k)
        /\ \A k \in 0 .. Len(fills) : Full(k)' = Full(k)
        /\ \A k \in 1 .. Len(fills) : fills'[k] = fills[k]
        /\ Len(fills') = Len(fills) + 1 /\ Len(fills) \in Nat
        /\ Told(Len(fills)) \subseteq Told(Len(fills))'
        /\ Chained' /\ store' = store /\ seen' = seen
    BY TradeTells DEF RecordInv
  <1>2. seen \subseteq 1 .. Len(fills)
    BY DEF StoreInv, NothingMissed
  <1>3. Contents(store.trips)' = Contents(store.trips)
    BY <1>1 DEF Contents
  <1>4. RecordDated'
    <2>1. \A i \in seen : fills'[i] = fills[i]
      BY <1>1, <1>2
    <2> QED  BY <1>1, <2>1 DEF RecordInv, RecordDated
  <1>5. RecordSound'
    <2> SUFFICES ASSUME ~T!InvisibleHole'
                 PROVE  /\ Contents(store.trips)' \subseteq Told(Len(fills))'
                        /\ store'.open # None =>
                             \E q \in seen' : (\A i \in seen' : i <= q) /\ Matches(store.open, q)'
      BY DEF RecordSound
    <2>1. ~T!InvisibleHole
      <3> SUFFICES ASSUME HoleIn(seen) PROVE T!InvisibleHole'
        BY HoleIs
      <3>1. DOMAIN fills = 1 .. Len(fills)
        BY ExecutedIs DEF StoreInv
      <3>2. DOMAIN fills' = 1 .. Len(fills')
        <4>1. fills' = Append(fills, [n |-> Len(fills) + 1, t |-> instant - Skew,
                                      source |-> source, start |-> T!Position, end |-> end])
          BY DEF T!Trade, T!Stamp
        <4>2. fills \in Seq(Fill)
          BY DEF StoreInv, HistoryTrue
        <4> QED  BY <4>1, <4>2
      <3>3. PICK i, j \in 1 .. Len(fills) :
              /\ i =< j /\ fills[i].start = fills[j].end
              /\ \A k \in i..j : k \notin seen
              /\ i = 1 \/ i - 1 \in seen
              /\ j + 1 \in seen
        BY <3>1 DEF HoleIn
      <3>4. /\ i \in DOMAIN fills' /\ j \in DOMAIN fills'
            /\ fills'[i] = fills[i] /\ fills'[j] = fills[j]
        BY <1>1, <3>2
      <3> QED  BY <1>1, <3>3, <3>4 DEF T!InvisibleHole
    <2>2. Contents(store.trips)' \subseteq Told(Len(fills))'
      BY <1>1, <1>3, <2>1 DEF RecordInv, RecordSound
    <2>3. ASSUME store'.open # None
          PROVE  \E q \in seen' : (\A i \in seen' : i <= q) /\ Matches(store.open, q)'
      <3>1. PICK q \in seen : (\A i \in seen : i <= q) /\ Matches(store.open, q)
        BY <1>1, <2>1, <2>3 DEF RecordInv, RecordSound
      <3>2. Full(q)' = Full(q) /\ After(q)' = After(q)
        BY <1>1, <1>2
      <3>3. Matches(store.open, q)'
        BY <1>1, <3>1, <3>2 DEF Matches
      <3> QED  BY <1>1, <3>1, <3>3
    <2> QED  BY <2>2, <2>3
  <1>6. RecordWhole'
    <2> SUFFICES ASSUME NEW q \in 0 .. Len(fills'), seen' = 1 .. q
                 PROVE  /\ Told(q)' \subseteq Contents(store.trips)'
                        /\ After(q)' # 0 => store'.open # None
      BY DEF RecordWhole
    <2>1. q \in 0 .. Len(fills)
      <3>1. q # 0 => q \in seen
        BY <1>1
      <3> QED  BY <1>1, <1>2, <3>1
    <2>2. Told(q) \subseteq Contents(store.trips) /\ (After(q) # 0 => store.open # None)
      BY <1>1, <2>1 DEF RecordInv, RecordWhole
    <2>3. Told(q)' = Told(q) /\ After(q)' = After(q)
      BY <1>1, <2>1
    <2> QED  BY <1>1, <1>3, <2>2, <2>3
  <1> QED  BY <1>1, <1>4, <1>5, <1>6 DEF RecordInv

\* An empty record of an empty history is true.
LEMMA RecordBegins == T!Init => RecordInv
  <1> SUFFICES ASSUME T!Init PROVE RecordInv
    OBVIOUS
  <1>1. fills = <<>> /\ seen = {} /\ store = [trips |-> {}, open |-> None, checkpoint |-> None]
    BY DEF T!Init
  <1>2. Len(fills) = 0 /\ 1 .. Len(fills) = {} /\ 0 .. Len(fills) = {0}
    BY <1>1
  <1>3. store.trips = {} /\ store.open = None /\ store.checkpoint = None
    BY <1>1
  <1>4. Full(0).trips = {} /\ After(0) = 0
    BY DEF Full, After, T!WalkStart
  <1>5. Told(0) = {} /\ Contents(store.trips) = {}
    BY <1>3, <1>4 DEF Told, Contents
  <1>6. Chained
    BY <1>2 DEF Chained
  <1>7. RecordDated
    BY <1>1, <1>3 DEF RecordDated
  <1>8. RecordSound
    BY <1>3, <1>5 DEF RecordSound
  <1>9. RecordWhole
    BY <1>2, <1>4, <1>5 DEF RecordWhole
  <1> QED  BY <1>6, <1>7, <1>8, <1>9 DEF RecordInv

\* Every step of the composition keeps the record true.
LEMMA RecordStep ==
  ASSUME StoreInv, RecordInv, ~T!Tied, T!Next \/ UNCHANGED ofStore
  PROVE  RecordInv'
  <1>1. ASSUME UNCHANGED <<fills, store, seen>> PROVE RecordInv'
    BY <1>1, RecordStays
  <1>2. CASE T!Next
    <2>1. ASSUME NEW source \in T!Sources, NEW end \in Held, T!Trade(source, end) PROVE RecordInv'
      BY <2>1, TradeKeepsRecord
    <2>2. ASSUME T!Tick \/ T!BeginPull \/ T!ReadRegular \/ T!Abandon PROVE RecordInv'
      BY <1>1, <2>2 DEF T!Tick, T!BeginPull, T!ReadRegular, T!Abandon
    <2> QED  BY <1>2, <2>1, <2>2, RefreshKeepsRecord DEF T!Next
  <1>3. CASE UNCHANGED ofStore
    BY <1>1, <1>3 DEF ofStore
  <1> QED  BY <1>2, <1>3

\* A tie is never undone.
LEMMA TieStays ==
  ASSUME StoreInv, T!Tied, T!Next \/ UNCHANGED ofStore
  PROVE  T!Tied'
  <1>1. CASE UNCHANGED fills
    BY <1>1 DEF T!Tied
  <1>2. ASSUME NEW source \in T!Sources, NEW end \in Held, T!Trade(source, end) PROVE T!Tied'
    <2> DEFINE e == [n |-> Len(fills) + 1, t |-> instant - Skew, source |-> source,
                     start |-> T!Position, end |-> end]
    <2>1. fills' = Append(fills, e) /\ fills \in Seq(Fill) /\ Len(fills) \in Nat
      BY <1>2, ExecutedIs DEF T!Trade, T!Stamp, StoreInv, HistoryTrue
    <2> HIDE DEF e
    <2>2. \A i \in DOMAIN fills : i \in DOMAIN fills' /\ fills'[i] = fills[i]
      BY <2>1
    <2> QED  BY <2>2 DEF T!Tied
  <1>3. ASSUME ~(\E source \in T!Sources, end \in Held : T!Trade(source, end))
        PROVE  UNCHANGED fills
    BY <1>3 DEF T!Next, T!Tick, T!BeginPull, T!ReadRegular, T!Refresh, T!Abandon, ofStore
  <1> QED  BY <1>1, <1>2, <1>3

\* As long as no two sources have traded in one millisecond, what is stored stays what
\* one walk over the whole history tells, through every trade, pull, refresh and lost pull.
THEOREM RecordInvariant == ExchangeSpec => [](~T!Tied => RecordInv)
  <1> DEFINE I == ~T!Tied => RecordInv
  <1>1. ExchangeInit => I
    BY RecordBegins DEF ExchangeInit
  <1>2. StoreInv /\ I /\ [ExchangeNext]_everything => I'
    <2> SUFFICES ASSUME StoreInv, I, [ExchangeNext]_everything, ~T!Tied' PROVE RecordInv'
      OBVIOUS
    <2>1. T!Next \/ UNCHANGED ofStore
      BY DEF ExchangeNext, everything
    <2> QED  BY <2>1, TieStays, RecordStep
  <1> QED  BY <1>1, <1>2, StoreInvariant, PTL DEF ExchangeSpec

-----------------------------------------------------------------------------
(* What the record promises. *)

LEMMA TruthIs == ASSUME HistoryTrue PROVE T!Truth = Told(Len(fills))
  <1>1. fills \in Seq(Fill) /\ Len(fills) \in Nat
    BY ExecutedIs DEF HistoryTrue
  <1>2. CASE fills = <<>>
    <2>1. T!Extract(fills).trips = {} /\ Len(fills) = 0
      BY <1>2 DEF T!Extract
    <2>2. Full(0).trips = {}
      BY DEF Full, T!WalkStart
    <2> QED  BY <2>1, <2>2 DEF T!Truth, Told, Contents
  <1>3. CASE fills # <<>>
    <2>1. Len(fills) # 0
      BY <1>1, <1>3
    <2>2. T!Extract(fills).trips = T!Walk(fills)[Len(fills)].trips
      BY <1>3 DEF T!Extract
    <2> QED  BY <2>1, <2>2 DEF T!Truth, Told, Contents, Full
  <1> QED  BY <1>2, <1>3

\* What was seen, when nothing up to the checkpoint was passed over, is a first stretch
\* of the history.
LEMMA SeenIs ==
  ASSUME StoreInv, RecordInv, store.checkpoint # None,
         \A i \in DOMAIN fills : fills[i].t =< store.checkpoint => i \in seen
  PROVE  \E q \in 0 .. Len(fills) : seen = 1 .. q
  <1> DEFINE B == {k \in Nat : k \notin seen /\ k # 0}
  <1>1. /\ Len(fills) \in Nat /\ DOMAIN fills = 1 .. Len(fills) /\ seen \subseteq 1 .. Len(fills)
        /\ B \in SUBSET Nat
    BY ExecutedIs DEF StoreInv, NothingMissed
  <1>2. Len(fills) + 1 \in B
    BY <1>1
  <1>3. PICK r \in B : \A m \in B : r <= m
    <2> HIDE DEF B
    <2> QED  BY <1>1, <1>2, LeastOf
  <1>4. r \in 1 .. Len(fills) + 1 /\ r \notin seen /\ r - 1 \in 0 .. Len(fills)
    BY <1>1, <1>2, <1>3
  <1>5. \A i \in 1 .. r - 1 : i \in seen
    <2> SUFFICES ASSUME NEW i \in 1 .. r - 1, i \notin seen PROVE FALSE
      OBVIOUS
    <2>1. i \in B /\ i < r
      BY <1>1, <1>4
    <2> QED  BY <1>3, <1>4, <2>1
  <1>6. ASSUME NEW i \in seen PROVE i <= r - 1
    <2> SUFFICES ASSUME r < i PROVE FALSE
      BY <1>1, <1>4
    <2>1. r \in 1 .. Len(fills) /\ i \in 1 .. Len(fills) /\ r <= i
      BY <1>1, <1>4
    <2>2. fills[r].t <= fills[i].t /\ fills[i].t <= store.checkpoint
      BY <2>1 DEF RecordInv, Chained, RecordDated
    <2>3. fills[r].t \in Nat /\ fills[i].t \in Nat /\ store.checkpoint \in Nat
      <3>1. fills[r] \in Fill /\ fills[i] \in Fill
        BY <2>1 DEF StoreInv, HistoryTrue
      <3> QED  BY <3>1 DEF Fill, StoreInv, StoreTrue, T!Time
    <2>4. fills[r].t <= store.checkpoint
      BY <2>2, <2>3
    <2> QED  BY <1>1, <1>4, <2>1, <2>4
  <1>7. seen = 1 .. r - 1
    <2>1. \A i \in seen : i \in 1 .. r - 1
      <3> TAKE i \in seen
      <3>1. i \in 1 .. Len(fills) /\ i <= r - 1
        BY <1>1, <1>6
      <3> QED  BY <1>1, <1>4, <3>1
    <2> QED  BY <1>5, <2>1
  <1> QED  BY <1>4, <1>7

\* No round trip is made up, unless a hole left no trace.
LEMMA TripsReal == ASSUME StoreInv, ~T!Tied => RecordInv PROVE T!TripsAreReal
  <1>1. T!Truth = Told(Len(fills)) /\ T!Record = Contents(store.trips)
    BY TruthIs DEF StoreInv, T!Record, Contents
  <1> QED  BY <1>1 DEF T!TripsAreReal, T!TiesDemote, RecordInv, RecordSound

\* A record with no hole is the walk over the whole history.
LEMMA FoldWhole == ASSUME StoreInv, ~T!Tied => RecordInv PROVE T!FoldIsWhole
  <1> SUFFICES ASSUME store.checkpoint # None, RecordInv,
                      \A i \in DOMAIN fills : fills[i].t =< store.checkpoint => i \in seen
               PROVE  T!Record = {trip \in T!Truth : trip.closed =< store.checkpoint}
    BY DEF T!FoldIsWhole
  <1>1. T!Truth = Told(Len(fills)) /\ T!Record = Contents(store.trips)
    BY TruthIs DEF StoreInv, T!Record, Contents
  <1>2. PICK q \in 0 .. Len(fills) : seen = 1 .. q
    BY SeenIs
  <1>3. Len(fills) \in Nat /\ DOMAIN fills = 1 .. Len(fills)
    BY ExecutedIs DEF StoreInv
  <1>4. ~T!InvisibleHole
    <2> SUFFICES ASSUME NEW i \in 1 .. Len(fills), NEW j \in 1 .. Len(fills), i <= j,
                        i \notin seen, j + 1 \in seen
                 PROVE  FALSE
      BY <1>3 DEF T!InvisibleHole
    <2> QED  BY <1>2, <1>3
  <1>5. ASSUME NEW x \in Contents(store.trips)
        PROVE  x \in Told(Len(fills)) /\ x.closed <= store.checkpoint
    <2>1. PICK trip \in store.trips : x = T!Content(trip)
      BY DEF Contents
    <2>2. trip \in Trip
      BY DEF StoreInv, StoreTrue
    <2>3. x.closed = trip.closed
      BY <2>1, <2>2, ContentIs DEF Closing
    <2>4. trip.closed <= store.checkpoint
      BY DEF RecordInv, RecordDated
    <2> QED  BY <1>4, <2>3, <2>4 DEF RecordInv, RecordSound
  <1>6. ASSUME NEW x \in Told(Len(fills)), x.closed <= store.checkpoint
        PROVE  x \in Contents(store.trips)
    <2>1. Told(q) \subseteq Contents(store.trips)
      BY <1>2 DEF RecordInv, RecordWhole
    <2>2. x \in Told(q) \/ \E i \in q + 1 .. Len(fills) : x.closed = fills[i].t
      <3>1. Len(fills) \in q .. Len(fills)
        BY <1>3
      <3> QED  BY <3>1, ToldGrows DEF StoreInv, RecordInv
    <2>3. ASSUME NEW i \in q + 1 .. Len(fills), x.closed = fills[i].t PROVE FALSE
      <3>1. i \in DOMAIN fills /\ i \notin 1 .. q
        BY <1>3
      <3> QED  BY <1>2, <1>6, <2>3, <3>1
    <2> QED  BY <2>1, <2>2, <2>3
  <1> QED  BY <1>1, <1>5, <1>6

\* The track record is true (ingest/fine.py, metrics/fine.py): as long as no two sources
\* have traded in one millisecond and no invisible hole deceives the walk, every stored
\* round trip is one the whole history tells, with its times, side and fills; after the
\* seed no execution up to the checkpoint is passed over but by an endpoint's cap; and
\* with no tie a record that has seen everything up to its checkpoint is trip for trip
\* what one walk over that history makes of it.
THEOREM RecordHolds == ExchangeSpec => []RecordIsTrue
  <1>1. StoreInv /\ (~T!Tied => RecordInv) => RecordIsTrue
    <2>1. StoreInv => T!NothingSkipped
      BY ExecutedIs DEF StoreInv, NothingMissed, T!NothingSkipped, T!Passed
    <2> QED  BY <2>1, TripsReal, FoldWhole DEF RecordIsTrue, T!RecordIsTrue
  <1> QED  BY <1>1, StoreInvariant, RecordInvariant, PTL

=============================================================================
