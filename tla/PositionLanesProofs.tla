-------------------------- MODULE PositionLanesProofs -------------------------
(***************************************************************************)
(* What the poll pass remembers and what the lane tells, at every instant:   *)
(* how old a window can grow, what the lane's rows say of the look a change  *)
(* is measured from, and what the consumers can know beyond the anchor.      *)
(***************************************************************************)
EXTENDS PositionLanes, TLAPS

\* Every upset so far may have cost a pass.
Spent == Standby * upsets

\* The window a change is measured in, as the pass would judge it.
Window == IF pending THEN doubtAge ELSE pollAge

Reading == pc \in {"judge", "escalate"}

\* TypeOK without the bound on the two windows, which needs an argument.
LaneTypes ==
  /\ truth \in Positions /\ wsAnchor \in Positions /\ anchor \in Positions
  /\ fetched \in Positions /\ heard \in Positions /\ told \in Positions
  /\ owner \in {"poll", "ws"} /\ seenOwner \in {"poll", "ws"} /\ eraAge \in 0 .. RecoverAfter
  /\ known \in BOOLEAN /\ resynced \in BOOLEAN /\ subscribed \in BOOLEAN /\ pending \in BOOLEAN
  /\ held \in {"no", "fresh", "ripe"}
  /\ reading \in {<<>>} \cup {<<p>> : p \in Positions}
  /\ produced \in Rows /\ observed \in Rows
  /\ pollAge \in Nat /\ joinAge \in 0 .. JoinGrace
  /\ doubtAge \in Nat /\ (~pending => doubtAge = 0)
  /\ pc \in {"slept", "tick", "fetch", "judge", "escalate"} /\ passAge \in 0 .. Standby
  /\ leaks \subseteq {"vouch", "unseen", "benign", "skipped"}
  /\ unread \in [{"anchor", "fetch"} -> SUBSET Direction]
  /\ moves \in 0 .. MaxMoves /\ upsets \in 0 .. MaxUpsets

\* How long the pass has been due: a held doubt and a restart are looked at on
\* the next tick.
Due ==
  IF pc \in {"slept", "tick"} THEN passAge ELSE Standby

\* A look is a standby interval old at most, and one more for each upset.
LooksRecent ==
  pollAge <= Spent + IF pc = "slept" /\ passAge = Standby THEN 0 ELSE Due

\* A doubt is looked at again on the next tick: only a lane that is still joining,
\* or an upset, delays its end.
DoubtsRecent ==
  pending =>
    /\ doubtAge <= Spent + JoinGrace +
                     IF pc = "slept" /\ passAge = Standby THEN Standby ELSE Due + 1
    /\ ~known /\ joinAge < JoinGrace => doubtAge <= Spent + Standby + joinAge

\* What the lane wrote since the look the anchor is from, the window reaches; what
\* it wrote since the read that is out is not a tick old.
RowsReached ==
  /\ \A d \in unread["anchor"] : observed[d] <= Window
  /\ Reading => \A d \in unread["fetch"] : observed[d] = 0

\* Consumers who hold a position the anchor does not show were told an entry
\* that the window reaches, and so were those who knew of one at the read.
ToldAhead ==
  leaks = {} /\ anchor = 0 =>
    /\ told # 0 => produced["entry"] <= Window /\ "entry" \in unread["anchor"]
    /\ Reading /\ heard # 0 => "entry" \in unread["anchor"]

\* What they came to hold since the read is an entry of the lane's, just told.
ToldSince ==
  Reading /\ heard = 0 /\ told # 0 => produced["entry"] = 0 /\ "entry" \in unread["fetch"]

LanesInv == LaneTypes /\ LooksRecent /\ DoubtsRecent /\ RowsReached /\ ToldAhead /\ ToldSince

-----------------------------------------------------------------------------
(* Facts of the diff and of the constants. *)

LEMMA SideRange ==
  ASSUME NEW p \in Int
  PROVE  Side(p) \in {-1, 0, 1} /\ (Side(p) = 0 <=> p = 0)
BY DEF Side

\* Every event but "none" moves in a direction, and a side is opened by an entry.
LEMMA KindOf ==
  ASSUME NEW old \in Int, NEW new \in Int
  PROVE  /\ Kind(old, new) \in {"none", "open", "close", "flip", "scale_in", "scale_out"}
         /\ Kind(old, new) = "open" => old = 0 /\ new # 0
         /\ new = 0 => Kind(old, new) \in {"close", "none"}
         /\ new = 0 /\ Kind(old, new) = "none" => old = 0
         /\ Kind(old, new) \in {"scale_in", "scale_out", "none"} => Side(old) = Side(new)
         /\ Kind(old, new) = "close" => new = 0
BY DEF Kind, Side

LEMMA MovedOf ==
  ASSUME NEW k \in {"none", "open", "close", "flip", "scale_in", "scale_out"}
  PROVE  /\ Moved(k) \subseteq Direction
         /\ Moved(k) = {} <=> k = "none"
         /\ k = "open" => Moved(k) = {"entry"}
         /\ k = "flip" => "entry" \in Moved(k)
         /\ k = "close" => Moved(k) = {"exit"}
BY DEF Moved, Direction

\* Consumers come to hold a position only from an event that is an entry.
LEMMA InformedOf ==
  ASSUME NEW old \in Int, NEW p \in Int, told \in Int
  PROVE  /\ Informed(Kind(old, p), p) \in {told, p}
         /\ p = 0 => Informed(Kind(old, p), p) = 0
         /\ told = 0 /\ Informed(Kind(old, p), p) # 0 /\ Kind(old, p) # "none"
              => "entry" \in Moved(Kind(old, p))
         /\ Kind(old, p) = "open" => Informed(Kind(old, p), p) = p
  <1>1. Informed(Kind(old, p), p) \in {told, p}
    BY DEF Informed
  <1>2. p = 0 => Informed(Kind(old, p), p) = 0
    BY KindOf DEF Informed
  <1>3. Kind(old, p) = "open" => Informed(Kind(old, p), p) = p
    BY DEF Informed
  <1>4. ASSUME told = 0, Informed(Kind(old, p), p) # 0, Kind(old, p) # "none"
        PROVE  "entry" \in Moved(Kind(old, p))
    <2>1. Kind(old, p) \notin {"scale_in", "scale_out"}
      BY <1>4, SideRange DEF Informed
    <2>2. Kind(old, p) \in {"open", "flip"}
      BY <1>4, <1>2, <2>1, KindOf
    <2> QED  BY <2>2, MovedOf
  <1> QED  BY <1>1, <1>2, <1>3, <1>4

LEMMA SpentOf ==
  ASSUME NEW n \in Nat
  PROVE  Standby * n \in Nat /\ Standby * (n + 1) = Standby * n + Standby
BY TimesAssumption

LEMMA SpentBounded ==
  ASSUME NEW n \in 0 .. MaxUpsets
  PROVE  Standby * n + Standby + JoinGrace + 1 <= Horizon
  <1>1. Standby \in Nat /\ MaxUpsets \in Nat /\ JoinGrace \in Nat /\ Horizon \in Nat
    BY TimesAssumption, BoundsAssumption
  <1>2. Standby * (MaxUpsets - n) \in Nat
    BY <1>1
  <1>3. Standby * (MaxUpsets + 1) = Standby * n + Standby * (MaxUpsets - n) + Standby
    BY <1>1
  <1>4. Standby * n \in Nat
    BY <1>1
  <1> QED  BY <1>1, <1>2, <1>3, <1>4, HorizonAssumption

-----------------------------------------------------------------------------
(* Types. *)

LEMMA PositionsAreSizes == \A p \in Positions : p \in Int
BY PositionsAssumption

LEMMA GoneIsLate == Horizon \in Nat /\ Grace \in Nat /\ Gone \in Nat
BY TimesAssumption DEF Gone

LEMMA TypesInitially == Init => LaneTypes
  <1> SUFFICES ASSUME Init PROVE LaneTypes
    OBVIOUS
  <1>1. NoRows \in Rows
    BY GoneIsLate DEF NoRows, Rows
  <1>2. truth \in Positions /\ 0 \in Positions /\ known \in BOOLEAN
    BY PositionsAssumption, BoundsAssumption DEF Init
  <1>3. wsAnchor \in Positions
    BY <1>2 DEF Init
  <1>4. /\ 0 \in 0 .. RecoverAfter /\ 0 \in 0 .. JoinGrace /\ 0 \in 0 .. Standby
        /\ 0 \in 0 .. MaxMoves /\ {0, 1} \subseteq 0 .. MaxUpsets
    BY TimesAssumption, BoundsAssumption
  <1>5. unread \in [{"anchor", "fetch"} -> SUBSET Direction] /\ leaks = {}
    BY DEF Init
  <1>6. upsets \in 0 .. MaxUpsets /\ reading = <<>>
    BY <1>4 DEF Init
  <1> QED  BY <1>1, <1>2, <1>3, <1>4, <1>5, <1>6 DEF Init, LaneTypes

LEMMA OlderIn ==
  ASSUME NEW cap \in Nat, NEW n \in 0 .. cap
  PROVE  Older(n, cap) \in 0 .. cap
BY DEF Older

LEMMA AgedIn ==
  ASSUME NEW r \in Rows
  PROVE  /\ Aged(r) \in Rows
         /\ \A d \in Direction : r[d] \in Nat /\ Aged(r)[d] \in Nat /\ Aged(r)[d] <= r[d] + 1
  <1>1. \A d \in Direction : r[d] \in 0 .. Gone
    BY DEF Rows
  <1>2. \A d \in Direction : Older(r[d], Gone) \in 0 .. Gone /\ Older(r[d], Gone) <= r[d] + 1
    BY <1>1, GoneIsLate DEF Older
  <1> QED  BY <1>1, <1>2, GoneIsLate DEF Aged, Rows

LEMMA WrittenIn ==
  ASSUME NEW r \in Rows, NEW k
  PROVE  /\ Written(r, k) \in Rows
         /\ \A d \in Direction : Written(r, k)[d] = IF d \in Moved(k) THEN 0 ELSE r[d]
  <1>1. 0 \in 0 .. Gone
    BY GoneIsLate
  <1> QED  BY <1>1 DEF Written, Rows

LEMMA UpsetTypes ==
  ASSUME LaneTypes, Upset
  PROVE  upsets' \in 0 .. MaxUpsets /\ upsets' = upsets + 1
BY BoundsAssumption DEF LaneTypes, Upset

LEMMA TellTypes ==
  ASSUME LaneTypes, NEW old \in Positions, NEW p \in Positions
  PROVE  Informed(Kind(old, p), p) \in Positions
BY DEF LaneTypes, Informed

LEMMA AdvanceTypes ==
  ASSUME LaneTypes, NEW obs \in Positions, Advance(obs)
  PROVE  /\ wsAnchor' \in Positions /\ told' \in Positions
         /\ held' \in {"no", "fresh", "ripe"} /\ known' \in BOOLEAN
         /\ produced' \in Rows /\ observed' \in Rows
         /\ leaks' \subseteq {"vouch", "unseen", "benign", "skipped"}
         /\ unread' \in [{"anchor", "fetch"} -> SUBSET Direction]
  <1> DEFINE k == Kind(wsAnchor, obs)
  <1>1. Moved(k) \subseteq Direction
    BY PositionsAreSizes, KindOf, MovedOf DEF LaneTypes
  <1>2. unread' \in [{"anchor", "fetch"} -> SUBSET Direction]
    BY <1>1 DEF Advance, LaneTypes
  <1>3. Written(observed, k) \in Rows /\ Written(produced, k) \in Rows
    BY WrittenIn DEF LaneTypes
  <1>4. told' \in Positions /\ produced' \in Rows
    BY <1>3, TellTypes DEF Advance, LaneTypes
  <1> QED  BY <1>2, <1>3, <1>4 DEF Advance, LaneTypes

LEMMA LeaderMovesTypes == ASSUME LaneTypes, LeaderMoves PROVE LaneTypes'
  <1>1. moves' \in 0 .. MaxMoves
    BY BoundsAssumption DEF LaneTypes, LeaderMoves
  <1> QED  BY <1>1 DEF LaneTypes, LeaderMoves, authority, wsMemory, stream, rows, pollMemory, loop

LEMMA ElapseTypes == ASSUME LaneTypes, Elapse PROVE LaneTypes'
  <1>1. eraAge' \in 0 .. RecoverAfter /\ joinAge' \in 0 .. JoinGrace /\ passAge' \in 0 .. Standby
    <2>1. /\ Older(eraAge, RecoverAfter) \in 0 .. RecoverAfter
          /\ Older(joinAge, JoinGrace) \in 0 .. JoinGrace
          /\ Older(passAge, Standby) \in 0 .. Standby
      BY OlderIn, TimesAssumption DEF LaneTypes
    <2>2. 0 \in 0 .. JoinGrace
      BY TimesAssumption
    <2> QED  BY <2>1, <2>2 DEF LaneTypes, Elapse
  <1>2. pollAge' \in Nat /\ doubtAge' \in Nat
    BY GoneIsLate DEF LaneTypes, Elapse, Older
  <1>3. produced' \in Rows /\ observed' \in Rows
    BY AgedIn DEF LaneTypes, Elapse
  <1> QED  BY <1>1, <1>2, <1>3 DEF LaneTypes, Elapse, stream

LEMMA DropTypes == ASSUME LaneTypes, Drop PROVE LaneTypes'
BY UpsetTypes DEF LaneTypes, Drop, LaneOnly, authority, rows, pollMemory, loop

LEMMA ReadStateTypes == ASSUME LaneTypes, ReadState PROVE LaneTypes'
BY DEF LaneTypes, ReadState, LaneOnly, authority, rows, pollMemory, loop

LEMMA ReceiveTypes == ASSUME LaneTypes, Receive PROVE LaneTypes'
  <1>1. CASE Coalesce(truth)
    BY <1>1 DEF LaneTypes, Receive, Coalesce, LaneOnly, authority, rows, pollMemory, loop, stream
  <1>2. CASE Advance(truth) /\ UNCHANGED resynced
    <2>1. truth \in Positions
      BY DEF LaneTypes
    <2> QED  BY <1>2, <2>1, AdvanceTypes
             DEF LaneTypes, Receive, LaneOnly, authority, pollMemory, loop, stream
  <1> QED  BY <1>1, <1>2 DEF Receive

LEMMA ResyncTypes == ASSUME LaneTypes, Resync PROVE LaneTypes'
  <1>1. Head(reading) \in Positions
    BY DEF LaneTypes, Resync
  <1>2. CASE Baseline(Head(reading))
    BY <1>1, <1>2 DEF LaneTypes, Resync, Baseline, LaneOnly, authority, rows, pollMemory, loop
  <1>3. CASE Advance(Head(reading)) /\ resynced' = TRUE
    BY <1>1, <1>3, AdvanceTypes
       DEF LaneTypes, Resync, LaneOnly, authority, pollMemory, loop
  <1> QED  BY <1>2, <1>3 DEF Resync

LEMMA TickTypes == ASSUME LaneTypes, Tick PROVE LaneTypes'
  <1>1. /\ owner' \in {"poll", "ws"} /\ eraAge' \in 0 .. RecoverAfter /\ resynced' \in BOOLEAN
        /\ upsets' \in 0 .. MaxUpsets
    <2>1. 0 \in 0 .. RecoverAfter
      BY TimesAssumption
    <2>2. CASE owner = "ws" /\ Upset /\ TakeOwnership("poll")
      BY <2>1, <2>2, UpsetTypes DEF TakeOwnership
    <2>3. CASE TakeOwnership("ws") /\ UNCHANGED upsets
      BY <2>1, <2>3 DEF TakeOwnership, LaneTypes
    <2>4. CASE UNCHANGED <<owner, eraAge, resynced, upsets>>
      BY <2>4 DEF LaneTypes
    <2> QED  BY <2>2, <2>3, <2>4 DEF Tick
  <1>2. /\ pc' \in {"slept", "fetch"} /\ passAge' \in 0 .. Standby
        /\ seenOwner' \in {"poll", "ws"}
    BY <1>1, TimesAssumption DEF LaneTypes, Tick
  <1> QED  BY <1>1, <1>2 DEF LaneTypes, Tick, LoopOnly, wsMemory, stream, rows, pollMemory

LEMMA FetchTypes == ASSUME LaneTypes, Fetch PROVE LaneTypes'
  <1>1. unread' \in [{"anchor", "fetch"} -> SUBSET Direction]
    BY DEF LaneTypes, Fetch
  <1> QED  BY <1>1 DEF LaneTypes, Fetch, LoopOnly, authority, wsMemory, stream, rows, pollMemory

LEMMA FetchFailsTypes == ASSUME LaneTypes, FetchFails PROVE LaneTypes'
BY UpsetTypes DEF LaneTypes, FetchFails, LoopOnly, authority, wsMemory, stream, rows, pollMemory

LEMMA RestartTypes == ASSUME LaneTypes, Restart PROVE LaneTypes'
BY UpsetTypes, TimesAssumption, PositionsAssumption
   DEF LaneTypes, Restart, LoopOnly, authority, wsMemory, stream, rows, pollMemory

LEMMA SettledTypes ==
  ASSUME LaneTypes, Settled
  PROVE  /\ anchor' \in Positions /\ pollAge' \in Nat /\ doubtAge' \in Nat
         /\ pending' \in BOOLEAN /\ (~pending' => doubtAge' = 0)
         /\ joinAge' \in 0 .. JoinGrace /\ passAge' \in 0 .. Standby
         /\ unread' \in [{"anchor", "fetch"} -> SUBSET Direction]
  <1>1. unread["fetch"] \in SUBSET Direction
    BY DEF LaneTypes
  <1> QED  BY <1>1 DEF LaneTypes, Settled

LEMMA VerdictTypes ==
  ASSUME LaneTypes, Tell \/ Shadow
  PROVE  told' \in Positions /\ leaks' \subseteq {"vouch", "unseen", "benign", "skipped"}
BY TellTypes DEF LaneTypes, Tell, Shadow, Change

LEMMA JudgeTypes == ASSUME LaneTypes, Judge PROVE LaneTypes'
  <1>1. /\ anchor' \in Positions /\ pollAge' \in Nat /\ doubtAge' \in Nat
        /\ pending' \in BOOLEAN /\ (~pending' => doubtAge' = 0)
        /\ joinAge' \in 0 .. JoinGrace /\ passAge' \in 0 .. Standby
        /\ unread' \in [{"anchor", "fetch"} -> SUBSET Direction]
        /\ told' \in Positions /\ leaks' \subseteq {"vouch", "unseen", "benign", "skipped"}
        /\ pc' \in {"slept", "escalate"}
    <2>1. CASE JudgeSettles
      BY <2>1, SettledTypes, VerdictTypes DEF JudgeSettles
    <2>2. CASE JudgeHolds
      BY <2>2, TimesAssumption DEF JudgeHolds, Held, LaneTypes
    <2>3. CASE JudgeConfirms
      BY <2>3 DEF JudgeConfirms, pollMemory, LaneTypes
    <2> QED  BY <2>1, <2>2, <2>3 DEF Judge
  <1>2. fetched' \in Positions /\ heard' \in Positions
    BY PositionsAssumption DEF Judge, LaneTypes
  <1> QED  BY <1>1, <1>2 DEF LaneTypes, Judge, LoopOnly, authority, wsMemory, stream, rows

LEMMA EscalateTypes == ASSUME LaneTypes, Escalate PROVE LaneTypes'
  <1>1. told' \in Positions /\ leaks' \subseteq {"vouch", "unseen", "benign", "skipped"}
    BY VerdictTypes DEF Escalate
  <1>2. 0 \in Positions /\ 0 \in 0 .. RecoverAfter
    BY PositionsAssumption, TimesAssumption
  <1> QED  BY <1>1, <1>2, SettledTypes
           DEF LaneTypes, Escalate, TakeOwnership, LoopOnly, wsMemory, stream, rows

LEMMA TypesKept == ASSUME LaneTypes, [Next]_vars PROVE LaneTypes'
  <1>1. CASE UNCHANGED vars
    BY <1>1 DEF vars, LaneTypes, authority, stream, rows, pollMemory, loop
  <1> QED  BY <1>1, LeaderMovesTypes, ElapseTypes, DropTypes, ReadStateTypes, ReceiveTypes,
              ResyncTypes, TickTypes, FetchTypes, FetchFailsTypes, RestartTypes, JudgeTypes,
              EscalateTypes DEF Next

-----------------------------------------------------------------------------
(* How old a window can grow. *)

LEMMA Later ==
  ASSUME NEW p \in Nat, NEW s \in Nat, NEW t \in Nat, NEW n \in Nat, s <= t, p <= s + n
  PROVE  p <= t + n
OBVIOUS

LEMMA LaterBy ==
  ASSUME NEW p \in Nat, NEW s \in Nat, NEW t \in Nat, NEW g \in Nat, NEW n \in Nat,
         s <= t, p <= s + g + n
  PROVE  p <= t + g + n
OBVIOUS

RecentInv == LooksRecent /\ DoubtsRecent

LEMMA SpentStep ==
  ASSUME LaneTypes, LaneTypes'
  PROVE  /\ Spent \in Nat /\ Spent' \in Nat
         /\ upsets' = upsets => Spent' = Spent
         /\ upsets' = upsets + 1 => Spent' = Spent + Standby
         /\ Spent + Standby + JoinGrace + 1 <= Horizon
         /\ Spent' + Standby + JoinGrace + 1 <= Horizon
  <1>1. upsets \in 0 .. MaxUpsets /\ upsets' \in 0 .. MaxUpsets
    BY DEF LaneTypes
  <1>2. upsets \in Nat /\ upsets' \in Nat
    BY <1>1
  <1> QED  BY <1>1, <1>2, SpentOf, SpentBounded DEF Spent

\* Under these bounds the two windows stay within the horizon.
LEMMA WindowsBounded ==
  ASSUME LaneTypes, RecentInv
  PROVE  pollAge \in Age /\ (pending => doubtAge \in Age)
  <1>1. upsets \in 0 .. MaxUpsets /\ upsets \in Nat
    BY DEF LaneTypes
  <1>2. Spent \in Nat /\ Spent + Standby + JoinGrace + 1 <= Horizon
    BY <1>1, SpentOf, SpentBounded DEF Spent
  <1>3. Due \in Nat /\ Due <= Standby /\ Standby \in Nat \ {0} /\ JoinGrace \in Nat
    BY TimesAssumption DEF LaneTypes, Due
  <1>4. pollAge <= Spent + Standby
    BY <1>2, <1>3 DEF LaneTypes, RecentInv, LooksRecent
  <1>5. pending => doubtAge <= Spent + JoinGrace + Standby + 1
    BY <1>2, <1>3 DEF LaneTypes, RecentInv, DoubtsRecent
  <1> QED  BY <1>2, <1>3, <1>4, <1>5, GoneIsLate DEF LaneTypes, Age

\* The lane and the Leader touch no window.
LEMMA RecentAside ==
  ASSUME LaneTypes, LaneTypes', RecentInv, UNCHANGED <<pollMemory, loop>>,
         upsets' \in {upsets, upsets + 1}, known => known'
  PROVE  RecentInv'
  <1>1. Spent \in Nat /\ Spent' \in Nat /\ Spent <= Spent'
    BY SpentStep, TimesAssumption
  <1>2. /\ pc' = pc /\ passAge' = passAge /\ pollAge' = pollAge /\ doubtAge' = doubtAge
        /\ pending' = pending /\ joinAge' = joinAge
    BY DEF pollMemory, loop
  <1>3. Due' = Due /\ Due \in Nat /\ Standby \in Nat /\ JoinGrace \in Nat
    BY <1>2, TimesAssumption DEF Due, LaneTypes
  <1>4. LooksRecent'
    <2>1. PICK n \in Nat : n = IF pc = "slept" /\ passAge = Standby THEN 0 ELSE Due
      BY <1>3
    <2>2. pollAge <= Spent + n /\ pollAge \in Nat
      BY <2>1 DEF RecentInv, LooksRecent, LaneTypes
    <2>3. pollAge' <= Spent' + n
      BY <1>1, <1>2, <2>1, <2>2, Later, LaterBy
    <2> QED  BY <1>2, <1>3, <2>1, <2>3 DEF LooksRecent
  <1>5. DoubtsRecent'
    <2> SUFFICES ASSUME pending PROVE DoubtsRecent'
      BY <1>2 DEF DoubtsRecent
    <2>1. PICK n \in Nat : n = IF pc = "slept" /\ passAge = Standby THEN Standby ELSE Due + 1
      BY <1>3
    <2>2. doubtAge <= Spent + JoinGrace + n /\ doubtAge \in Nat
      BY <2>1 DEF RecentInv, DoubtsRecent, LaneTypes
    <2>3. doubtAge' <= Spent' + JoinGrace + n
      BY <1>1, <1>2, <1>3, <2>1, <2>2, Later, LaterBy
    <2>4. ~known /\ joinAge < JoinGrace => doubtAge <= Spent + Standby + joinAge
      BY DEF RecentInv, DoubtsRecent
    <2>5. joinAge \in Nat
      BY <1>3 DEF LaneTypes
    <2>6. ~known' /\ joinAge' < JoinGrace => doubtAge' <= Spent' + Standby + joinAge'
      BY <1>1, <1>2, <1>3, <2>2, <2>4, <2>5, Later, LaterBy
    <2> QED  BY <1>2, <1>3, <2>1, <2>3, <2>6 DEF DoubtsRecent
  <1> QED  BY <1>4, <1>5 DEF RecentInv

LEMMA RecentElapse ==
  ASSUME LaneTypes, LaneTypes', RecentInv, Elapse
  PROVE  RecentInv'
  <1>1. Spent \in Nat /\ Spent' = Spent /\ Standby \in Nat \ {0} /\ JoinGrace \in Nat
    BY SpentStep, TimesAssumption DEF Elapse
  <1>2. /\ passAge \in 0 .. Standby /\ pc = "slept" /\ pc' = "tick"
        /\ passAge' = IF passAge < Standby THEN passAge + 1 ELSE passAge
        /\ pending' = pending /\ known' = known
    BY DEF Elapse, LaneTypes, Older
  <1>3. Due = passAge /\ Due' = passAge'
    BY <1>2 DEF Due
  <1>4. pollAge \in Nat /\ pollAge' \in Nat /\ pollAge' <= pollAge + 1
    BY GoneIsLate DEF Elapse, LaneTypes, Older
  <1>5. doubtAge \in Nat /\ doubtAge' \in Nat /\ doubtAge' <= doubtAge + 1
    BY GoneIsLate DEF Elapse, LaneTypes, Older
  <1>6. LooksRecent'
    <2>1. passAge = Standby => pollAge <= Spent
      BY <1>1, <1>2 DEF RecentInv, LooksRecent
    <2>2. passAge # Standby => pollAge <= Spent + passAge
      BY <1>2, <1>3 DEF RecentInv, LooksRecent
    <2>3. pollAge' <= Spent + passAge'
      BY <1>1, <1>2, <1>4, <2>1, <2>2
    <2> QED  BY <1>1, <1>2, <1>3, <2>3 DEF LooksRecent
  <1>7. DoubtsRecent'
    <2> SUFFICES ASSUME pending
                 PROVE  /\ doubtAge' <= Spent' + JoinGrace + (Due' + 1)
                        /\ ~known' /\ joinAge' < JoinGrace
                             => doubtAge' <= Spent' + Standby + joinAge'
      BY <1>2 DEF DoubtsRecent
    <2>1. passAge = Standby => doubtAge <= Spent + JoinGrace + Standby
      BY <1>2 DEF RecentInv, DoubtsRecent
    <2>2. passAge # Standby => doubtAge <= Spent + JoinGrace + passAge + 1
      BY <1>1, <1>2, <1>3 DEF RecentInv, DoubtsRecent
    <2>3. doubtAge' <= Spent' + JoinGrace + (Due' + 1)
      BY <1>1, <1>2, <1>3, <1>5, <2>1, <2>2
    <2>4. ASSUME ~known', joinAge' < JoinGrace
          PROVE  doubtAge' <= Spent' + Standby + joinAge'
      <3>1. joinAge \in 0 .. JoinGrace /\ joinAge < JoinGrace /\ joinAge' = joinAge + 1 /\ ~known
        BY <2>4, <1>1 DEF Elapse, LaneTypes, Older
      <3>2. doubtAge <= Spent + Standby + joinAge
        BY <3>1 DEF RecentInv, DoubtsRecent
      <3> QED  BY <1>1, <1>5, <3>1, <3>2
    <2> QED  BY <2>3, <2>4
  <1> QED  BY <1>6, <1>7 DEF RecentInv

\* The tick polls once the pass is a standby interval old, and a failover costs
\* an upset.
LEMMA RecentTick ==
  ASSUME LaneTypes, LaneTypes', RecentInv, Tick
  PROVE  RecentInv'
  <1>1. Spent \in Nat /\ Spent' \in Nat /\ Spent <= Spent'
    BY SpentStep, TimesAssumption DEF Tick, Upset
  <1>2. /\ Standby \in Nat \ {0} /\ JoinGrace \in Nat /\ passAge \in 0 .. Standby
        /\ pollAge \in Nat /\ doubtAge \in Nat
    BY TimesAssumption DEF LaneTypes
  <1>3. /\ pollAge' = pollAge /\ doubtAge' = doubtAge /\ pending' = pending /\ joinAge' = joinAge
        /\ known' = known
    BY DEF Tick, LoopOnly, pollMemory, wsMemory
  <1>4. pc = "tick" /\ Due = passAge
    BY DEF Tick, Due
  <1>5. \/ pc' = "fetch" /\ Due' = Standby
        \/ pc' = "slept" /\ passAge' = passAge /\ passAge < Standby /\ Due' = passAge
    <2>1. Cadence \in {1, Standby} /\ Cadence <= Standby
      BY <1>2 DEF Cadence
    <2> QED  BY <2>1, <1>2 DEF Tick, Due
  <1>6. LooksRecent'
    <2>1. pollAge <= Spent + passAge
      BY <1>4 DEF RecentInv, LooksRecent
    <2>2. pollAge <= Spent' + passAge /\ pollAge <= Spent' + Standby
      <3>1. pollAge <= Spent + Standby
        BY <1>1, <1>2, <2>1
      <3>2. passAge \in Nat /\ Standby \in Nat
        BY <1>2
      <3> QED  BY <1>1, <1>2, <2>1, <3>1, <3>2, Later
    <2>3. CASE pc' = "fetch"
      BY <1>3, <1>5, <2>2, <2>3 DEF LooksRecent
    <2>4. CASE pc' = "slept"
      BY <1>3, <1>5, <1>2, <2>2, <2>4 DEF LooksRecent
    <2> QED  BY <1>5, <2>3, <2>4
  <1>7. DoubtsRecent'
    <2> SUFFICES ASSUME pending PROVE DoubtsRecent'
      BY <1>3 DEF DoubtsRecent
    <2>1. doubtAge <= Spent + JoinGrace + (passAge + 1)
      BY <1>4 DEF RecentInv, DoubtsRecent
    <2>2. /\ doubtAge <= Spent' + JoinGrace + (passAge + 1)
          /\ doubtAge <= Spent' + JoinGrace + (Standby + 1)
      <3>1. passAge + 1 \in Nat /\ Standby + 1 \in Nat
        BY <1>2
      <3>2. doubtAge <= Spent + JoinGrace + (Standby + 1)
        BY <1>1, <1>2, <2>1
      <3> QED  BY <1>1, <1>2, <2>1, <3>1, <3>2, LaterBy
    <2>3. ~known /\ joinAge < JoinGrace => doubtAge <= Spent + Standby + joinAge
      BY DEF RecentInv, DoubtsRecent
    <2>4. joinAge \in Nat
      BY <1>2 DEF LaneTypes
    <2>5. ~known' /\ joinAge' < JoinGrace => doubtAge' <= Spent' + Standby + joinAge'
      BY <1>1, <1>2, <1>3, <2>3, <2>4, Later, LaterBy
    <2>6. CASE pc' = "fetch"
      BY <1>3, <1>5, <2>2, <2>5, <2>6 DEF DoubtsRecent
    <2>7. CASE pc' = "slept"
      BY <1>3, <1>5, <1>2, <2>2, <2>5, <2>7 DEF DoubtsRecent
    <2> QED  BY <1>5, <2>6, <2>7
  <1> QED  BY <1>6, <1>7 DEF RecentInv

LEMMA RecentFetch ==
  ASSUME LaneTypes, LaneTypes', RecentInv, Fetch
  PROVE  RecentInv'
  <1>1. Spent' = Spent
    BY SpentStep DEF Fetch
  <1>2. /\ pollAge' = pollAge /\ doubtAge' = doubtAge /\ pending' = pending /\ joinAge' = joinAge
        /\ known' = known /\ pc = "fetch" /\ pc' = "judge"
    BY DEF Fetch, LoopOnly, pollMemory, wsMemory
  <1>3. Due' = Standby /\ Due = Standby
    BY <1>2 DEF Due
  <1> QED  BY <1>1, <1>2, <1>3 DEF RecentInv, LooksRecent, DoubtsRecent

\* A failed read and a restart cost an upset each.
LEMMA RecentLost ==
  ASSUME LaneTypes, LaneTypes', RecentInv, FetchFails \/ Restart
  PROVE  RecentInv'
  <1>1. Spent \in Nat /\ Spent' \in Nat /\ Spent' = Spent + Standby
    BY SpentStep DEF FetchFails, Restart, Upset
  <1>2. /\ pollAge' = pollAge /\ doubtAge' = doubtAge /\ pending' = pending /\ joinAge' = joinAge
        /\ known' = known /\ pc # "slept" /\ pc' = "slept"
    BY DEF FetchFails, Restart, LoopOnly, pollMemory, wsMemory
  <1>3. /\ Standby \in Nat \ {0} /\ JoinGrace \in Nat /\ Due \in 0 .. Standby
        /\ pollAge \in Nat /\ doubtAge \in Nat /\ joinAge \in 0 .. JoinGrace
        /\ passAge' \in 0 .. Standby /\ Due' = passAge'
    BY <1>2, TimesAssumption DEF LaneTypes, Due
  <1>4. pollAge <= Spent + Due
    BY <1>2 DEF RecentInv, LooksRecent
  <1>5. LooksRecent'
    <2>1. pollAge <= Spent + Standby
      BY <1>1, <1>3, <1>4
    <2>2. PICK t \in Nat : t = Spent' /\ t = Spent + Standby
      BY <1>1
    <2>3. PICK n \in Nat : n = IF passAge' = Standby THEN 0 ELSE Due'
      BY <1>3
    <2>4. pollAge <= t + n
      BY <1>3, <2>1, <2>2, <2>3
    <2> QED  BY <1>2, <2>2, <2>3, <2>4 DEF LooksRecent
  <1>6. DoubtsRecent'
    <2> SUFFICES ASSUME pending PROVE DoubtsRecent'
      BY <1>2 DEF DoubtsRecent
    <2>1. doubtAge <= Spent + JoinGrace + (Due + 1)
      BY <1>2 DEF RecentInv, DoubtsRecent
    <2>2. ~known /\ joinAge < JoinGrace => doubtAge <= Spent + Standby + joinAge
      BY DEF RecentInv, DoubtsRecent
    <2>3. PICK t \in Nat : t = Spent' /\ t = Spent + Standby
      BY <1>1
    <2>4. PICK n \in Nat : n = (IF passAge' = Standby THEN Standby ELSE passAge' + 1) /\ n >= 1
      <3>1. Standby \in Nat /\ Standby >= 1
        BY <1>3
      <3>2. passAge' # Standby => passAge' + 1 \in Nat /\ passAge' + 1 >= 1
        <4>1. passAge' \in 0 .. Standby
          BY <1>3
        <4>2. \A x \in 0 .. Standby : x + 1 \in Nat /\ x + 1 >= 1
          BY <3>1
        <4> QED  BY <4>1, <4>2
      <3> QED  BY <3>1, <3>2
    <2>5. n >= 1
      BY <2>4
    <2>6. doubtAge <= t + JoinGrace + n
      <3>1. doubtAge <= Spent + JoinGrace + (Standby + 1)
        BY <1>1, <1>3, <2>1
      <3>2. t \in Nat /\ n \in Nat /\ t = Spent + Standby
        BY <2>3, <2>4
      <3> QED  BY <1>1, <1>3, <2>5, <3>1, <3>2
    <2>7. ~known /\ joinAge < JoinGrace => doubtAge <= Spent' + Standby + joinAge
      <3>1. Spent <= Spent'
        BY <1>1, <1>3
      <3> QED  BY <1>1, <1>3, <2>2, <3>1, Later, LaterBy
    <2> QED  BY <1>2, <1>3, <2>3, <2>4, <2>6, <2>7 DEF DoubtsRecent
  <1> QED  BY <1>5, <1>6 DEF RecentInv

LEMMA RecentSettled ==
  ASSUME LaneTypes, LaneTypes', Settled
  PROVE  RecentInv'
  <1>1. Spent' \in Nat /\ Due' \in Nat
    <2>1. Standby \in Nat /\ (passAge \in 0 .. Standby)'
      BY TimesAssumption DEF LaneTypes
    <2> QED  BY <2>1, SpentStep DEF Due
  <1> QED  BY <1>1 DEF Settled, RecentInv, LooksRecent, DoubtsRecent

LEMMA RecentJudge ==
  ASSUME LaneTypes, LaneTypes', RecentInv, Judge
  PROVE  RecentInv'
  <1>1. Spent \in Nat /\ Spent' = Spent /\ known' = known
    BY SpentStep DEF Judge, LoopOnly, wsMemory
  <1>2. CASE JudgeSettles
    BY <1>2, RecentSettled DEF JudgeSettles
  <1>3. CASE JudgeHolds
    <2>1. /\ Standby \in Nat \ {0} /\ JoinGrace \in Nat /\ joinAge \in 0 .. JoinGrace
          /\ pollAge \in Nat /\ doubtAge \in Nat
      BY TimesAssumption DEF LaneTypes
    <2>2. /\ pc' = "slept" /\ passAge' = Standby /\ pollAge' = 0 /\ pending' /\ joinAge' = joinAge
          /\ doubtAge' = IF pending THEN doubtAge ELSE pollAge
      BY <1>3 DEF JudgeHolds, Held
    <2>3. LooksRecent'
      BY <1>1, <2>2 DEF LooksRecent
    <2>4. ~pending => pollAge <= Spent + Standby
      BY DEF Judge, RecentInv, LooksRecent, Due
    <2>5. pending => ~known /\ joinAge < JoinGrace /\ doubtAge <= Spent + Standby + joinAge
      BY <1>3 DEF JudgeHolds, StillJoining, RecentInv, DoubtsRecent
    <2>6. DoubtsRecent'
      <3>1. doubtAge' <= Spent + JoinGrace + Standby
        BY <1>1, <2>1, <2>2, <2>4, <2>5
      <3>2. doubtAge' <= Spent + Standby + joinAge
        BY <1>1, <2>1, <2>2, <2>4, <2>5
      <3> QED  BY <1>1, <2>2, <3>1, <3>2 DEF DoubtsRecent
    <2> QED  BY <2>3, <2>6 DEF RecentInv
  <1>4. CASE JudgeConfirms
    <2>1. /\ pollAge' = pollAge /\ doubtAge' = doubtAge /\ pending' = pending /\ joinAge' = joinAge
          /\ pc = "judge" /\ pc' = "escalate"
      BY <1>4 DEF Judge, JudgeConfirms, pollMemory
    <2>2. Due' = Standby /\ Due = Standby
      BY <2>1 DEF Due
    <2> QED  BY <1>1, <2>1, <2>2 DEF RecentInv, LooksRecent, DoubtsRecent
  <1> QED  BY <1>2, <1>3, <1>4 DEF Judge

LEMMA RecentKept ==
  ASSUME LaneTypes, RecentInv, [Next]_vars
  PROVE  RecentInv'
  <1> USE TypesKept
  <1>1. CASE LeaderMoves \/ Drop \/ ReadState \/ UNCHANGED vars
    <2>1. UNCHANGED <<pollMemory, loop, known>> /\ upsets' \in {upsets, upsets + 1}
      BY <1>1 DEF LeaderMoves, Drop, ReadState, LaneOnly, Upset, vars, wsMemory
    <2> QED  BY <2>1, RecentAside
  <1>2. CASE Receive \/ Resync
    <2>1. UNCHANGED <<pollMemory, loop, upsets>>
      BY <1>2 DEF Receive, Resync, LaneOnly
    <2>2. known => known'
      BY <1>2 DEF Receive, Resync, Coalesce, Advance, Baseline
    <2> QED  BY <2>1, <2>2, RecentAside
  <1>3. CASE Escalate
    BY <1>3, RecentSettled DEF Escalate
  <1> QED  BY <1>1, <1>2, <1>3, RecentElapse, RecentTick, RecentFetch, RecentLost, RecentJudge
           DEF Next

-----------------------------------------------------------------------------
(* What the lane's rows say, and what the consumers hold beyond the anchor. *)

TellsInv == RowsReached /\ ToldAhead /\ ToldSince

LEMMA RowAges ==
  ASSUME LaneTypes
  PROVE  \A d \in Direction : produced[d] \in Nat /\ observed[d] \in Nat
BY AgedIn DEF LaneTypes

LEMMA WindowIn == ASSUME LaneTypes PROVE Window \in Nat
BY DEF LaneTypes, Window

LEMMA UnreadIn ==
  ASSUME LaneTypes
  PROVE  unread["anchor"] \subseteq Direction /\ unread["fetch"] \subseteq Direction
BY DEF LaneTypes

\* What changes neither the lane's rows nor the two memories leaves all of it.
LEMMA TellsAside ==
  ASSUME TellsInv, UNCHANGED <<pollMemory, rows, told, leaks, unread, heard>>, Reading' => Reading
  PROVE  TellsInv'
  <1>1. Window' = Window
    BY DEF pollMemory, Window
  <1>2. RowsReached'
    BY <1>1 DEF TellsInv, RowsReached, rows
  <1>3. ToldAhead'
    BY <1>1 DEF TellsInv, ToldAhead, rows, pollMemory
  <1>4. ToldSince'
    BY DEF TellsInv, ToldSince, rows
  <1> QED  BY <1>2, <1>3, <1>4 DEF TellsInv

\* A tick ages the rows and the window alike.
LEMMA TellsElapse ==
  ASSUME LaneTypes, RecentInv, TellsInv, Elapse
  PROVE  TellsInv'
  <1>1. ~Reading /\ ~Reading'
    BY DEF Elapse, Reading
  <1>2. \A d \in Direction : /\ observed[d] \in Nat /\ observed'[d] \in Nat
                             /\ observed'[d] <= observed[d] + 1
                             /\ produced[d] \in Nat /\ produced'[d] \in Nat
                             /\ produced'[d] <= produced[d] + 1
    BY AgedIn DEF Elapse, LaneTypes
  <1>3. Window \in Nat /\ Window' = Window + 1
    <2>1. Window \in Age
      BY WindowsBounded DEF Window
    <2> QED  BY <2>1, GoneIsLate DEF Elapse, Window, Age, Older
  <1>4. unread' = unread /\ told' = told /\ leaks' = leaks /\ anchor' = anchor
    BY DEF Elapse
  <1>5. RowsReached'
    <2>1. \A d \in unread["anchor"] : observed[d] <= Window /\ d \in Direction
      BY UnreadIn DEF TellsInv, RowsReached
    <2>2. \A d \in unread["anchor"] : observed'[d] <= Window'
      BY <1>2, <1>3, <2>1
    <2> QED  BY <1>1, <1>4, <2>2 DEF RowsReached
  <1>6. ToldAhead'
    <2> SUFFICES ASSUME leaks = {}, anchor = 0, told # 0
                 PROVE  produced'["entry"] <= Window' /\ "entry" \in unread["anchor"]
      BY <1>1, <1>4 DEF ToldAhead
    <2>1. produced["entry"] <= Window /\ "entry" \in unread["anchor"]
      BY DEF TellsInv, ToldAhead
    <2>2. "entry" \in Direction
      BY DEF Direction
    <2> QED  BY <1>2, <1>3, <2>1, <2>2
  <1>7. ToldSince'
    BY <1>1 DEF ToldSince
  <1> QED  BY <1>5, <1>6, <1>7 DEF TellsInv

\* What a push or a resync writes: a row of its directions, that the look which
\* is out has not read, and an entry for whoever held nothing.
LEMMA AdvanceWrites ==
  ASSUME LaneTypes, NEW obs \in Positions, Advance(obs)
  PROVE  \E M \in SUBSET Direction :
           /\ \A d \in Direction : /\ observed'[d] = IF d \in M THEN 0 ELSE observed[d]
                                   /\ produced'[d] \in {0, produced[d]}
           /\ unread'["anchor"] = unread["anchor"] \cup M
           /\ unread'["fetch"] = unread["fetch"] \cup M
           /\ told = 0 /\ told' # 0 => "entry" \in M /\ produced'["entry"] = 0
           /\ leaks' = leaks
  <1> DEFINE k == Kind(wsAnchor, obs)
  <1>1. wsAnchor \in Int /\ obs \in Int /\ told \in Int
    BY PositionsAreSizes DEF LaneTypes
  <1>2. Moved(k) \in SUBSET Direction
    BY <1>1, KindOf, MovedOf
  <1>3. \A d \in Direction : observed'[d] = IF d \in Moved(k) THEN 0 ELSE observed[d]
    BY WrittenIn DEF LaneTypes, Advance
  <1>4. \A d \in Direction : Written(produced, k)[d] = IF d \in Moved(k) THEN 0 ELSE produced[d]
    BY WrittenIn DEF LaneTypes
  <1>5. \/ produced' = Written(produced, k) /\ told' = Informed(k, obs) /\ k # "none"
        \/ produced' = produced /\ told' = told
    BY DEF Advance
  <1>6. unread'["anchor"] = unread["anchor"] \cup Moved(k)
        /\ unread'["fetch"] = unread["fetch"] \cup Moved(k)
    BY DEF Advance, LaneTypes
  <1>7. ASSUME told = 0, told' # 0
        PROVE  "entry" \in Moved(k) /\ produced'["entry"] = 0
    <2>1. produced' = Written(produced, k) /\ told' = Informed(k, obs) /\ k # "none"
      BY <1>5, <1>7
    <2>2. "entry" \in Moved(k)
      BY <1>1, <1>7, <2>1, InformedOf
    <2> QED  BY <1>4, <2>1, <2>2 DEF Direction
  <1>8. leaks' = leaks
    BY DEF Advance
  <1>9. \A d \in Direction : produced'[d] \in {0, produced[d]}
    BY <1>4, <1>5
  <1> HIDE DEF k
  <1> QED  BY <1>2, <1>3, <1>6, <1>7, <1>8, <1>9

LEMMA TellsAdvance ==
  ASSUME LaneTypes, TellsInv, NEW obs \in Positions, Advance(obs), UNCHANGED <<pollMemory, loop>>
  PROVE  TellsInv'
  <1>1. PICK M \in SUBSET Direction :
           /\ \A d \in Direction : /\ observed'[d] = IF d \in M THEN 0 ELSE observed[d]
                                   /\ produced'[d] \in {0, produced[d]}
           /\ unread'["anchor"] = unread["anchor"] \cup M
           /\ unread'["fetch"] = unread["fetch"] \cup M
           /\ told = 0 /\ told' # 0 => "entry" \in M /\ produced'["entry"] = 0
           /\ leaks' = leaks
    BY AdvanceWrites
  <1>2. Window' = Window /\ Window \in Nat
    BY WindowIn DEF pollMemory, Window
  <1>3. anchor' = anchor /\ heard' = heard /\ (Reading' <=> Reading)
    BY DEF pollMemory, loop, Reading
  <1>4. RowsReached'
    <2>1. ASSUME NEW d \in unread'["anchor"] PROVE observed'[d] <= Window'
      <3>1. d \in Direction
        BY <1>1, UnreadIn
      <3>2. CASE d \in M
        BY <1>1, <1>2, <3>1, <3>2
      <3>3. CASE d \notin M
        BY <1>1, <1>2, <3>1, <3>3 DEF TellsInv, RowsReached
      <3> QED  BY <3>2, <3>3
    <2>2. ASSUME Reading, NEW d \in unread'["fetch"] PROVE observed'[d] = 0
      <3>1. d \in Direction
        BY <1>1, UnreadIn
      <3>2. d \notin M => d \in unread["fetch"]
        BY <1>1
      <3> QED  BY <1>1, <2>2, <3>1, <3>2 DEF TellsInv, RowsReached
    <2> QED  BY <1>3, <2>1, <2>2 DEF RowsReached
  <1>5. ToldAhead'
    <2> SUFFICES ASSUME leaks' = {}, anchor' = 0
                 PROVE  /\ told' # 0 => /\ produced'["entry"] <= Window'
                                        /\ "entry" \in unread'["anchor"]
                        /\ Reading' /\ heard' # 0 => "entry" \in unread'["anchor"]
      BY DEF ToldAhead
    <2>1. /\ told # 0 => produced["entry"] <= Window /\ "entry" \in unread["anchor"]
          /\ Reading /\ heard # 0 => "entry" \in unread["anchor"]
      BY <1>1, <1>3 DEF TellsInv, ToldAhead
    <2>2. produced'["entry"] \in {0, produced["entry"]}
      BY <1>1 DEF Direction
    <2> QED  BY <1>1, <1>2, <1>3, <2>1, <2>2
  <1>6. ToldSince'
    <2> SUFFICES ASSUME Reading', heard' = 0, told' # 0
                 PROVE  produced'["entry"] = 0 /\ "entry" \in unread'["fetch"]
      BY DEF ToldSince
    <2>1. told # 0 => produced["entry"] = 0 /\ "entry" \in unread["fetch"]
      BY <1>3 DEF TellsInv, ToldSince
    <2>2. produced'["entry"] \in {0, produced["entry"]}
      BY <1>1 DEF Direction
    <2> QED  BY <1>1, <2>1, <2>2
  <1> QED  BY <1>4, <1>5, <1>6 DEF TellsInv

LEMMA TellsFetch ==
  ASSUME LaneTypes, TellsInv, Fetch
  PROVE  TellsInv'
  <1>1. /\ Window' = Window /\ anchor' = anchor /\ told' = told /\ heard' = told /\ leaks' = leaks
        /\ produced' = produced /\ observed' = observed
    BY DEF Fetch, LoopOnly, pollMemory, rows, Window
  <1>2. unread'["anchor"] = unread["anchor"] /\ unread'["fetch"] = {}
    BY DEF Fetch, LaneTypes
  <1> QED  BY <1>1, <1>2 DEF TellsInv, RowsReached, ToldAhead, ToldSince

\* What the window reaches, a row of it covers.
LEMMA ReachedIsCovered ==
  ASSUME LaneTypes, TellsInv, NEW d \in unread["anchor"], d \in Moved(Change)
  PROVE  d \in Covered(observed)
  <1>1. Lookback = Window + Grace /\ Grace \in Nat
    BY TimesAssumption DEF Lookback, Window
  <1>2. observed[d] \in Nat /\ observed[d] <= Window /\ Window \in Nat
    BY RowAges, UnreadIn, WindowIn DEF TellsInv, RowsReached
  <1> QED  BY <1>1, <1>2 DEF Covered

\* A pass that read flat, and tells nothing, leaves consumers who hold a position
\* to the lane's next row, or says that nobody told them.
LEMMA ShadowSays ==
  ASSUME LaneTypes, TellsInv, Reading, Shadow, fetched = 0, told' # 0, leaks' = {},
         Change # "none" => Vouched \/ Covered(observed) = {}
  PROVE  produced["entry"] = 0 /\ "entry" \in unread["fetch"]
  <1>1. told # 0 /\ told \in Int /\ heard \in Int /\ anchor \in Int /\ fetched \in Int
    BY PositionsAreSizes DEF Shadow, LaneTypes
  <1>2. heard = 0 => produced["entry"] = 0 /\ "entry" \in unread["fetch"]
    BY <1>1 DEF TellsInv, ToldSince
  <1>3. ASSUME heard # 0 PROVE FALSE
    <2>1. Side(fetched) \notin {Side(heard), Side(told)}
      BY <1>1, <1>3, SideRange
    <2>2. Change \in {"close", "none"} /\ (Change = "none" => anchor = 0)
      BY <1>1, KindOf DEF Change
    <2>3. CASE Change = "none"
      <3>1. unread["anchor"] = {} /\ leaks = {}
        BY <2>1, <2>3 DEF Shadow
      <3>2. "entry" \in unread["anchor"]
        BY <1>3, <2>2, <2>3, <3>1 DEF TellsInv, ToldAhead
      <3> QED  BY <3>1, <3>2
    <2>4. CASE Change = "close"
      <3>1. Moved(Change) = {"exit"}
        BY <2>4, MovedOf
      <3>2. Covered(produced) # Moved(Change) /\ unread["anchor"] \cap Moved(Change) # {}
        BY <2>1, <2>4 DEF Shadow
      <3>3. "exit" \in unread["anchor"]
        BY <3>1, <3>2
      <3>4. "exit" \in Covered(observed)
        BY <3>1, <3>3, ReachedIsCovered
      <3> QED  BY <2>4, <3>2, <3>4 DEF Vouched
    <2> QED  BY <2>2, <2>3, <2>4
  <1> QED  BY <1>2, <1>3

LEMMA TellSays ==
  ASSUME LaneTypes, Tell, fetched = 0
  PROVE  told' = 0
BY PositionsAreSizes, InformedOf DEF LaneTypes, Tell, Change

LEMMA TellsSettled ==
  ASSUME LaneTypes, TellsInv, Settled, Reading, pc' = "slept", UNCHANGED rows,
         fetched = 0 /\ told' # 0 /\ leaks' = {} => /\ produced["entry"] = 0
                                                    /\ "entry" \in unread["fetch"]
  PROVE  TellsInv'
  <1>1. /\ Window' = 0 /\ anchor' = fetched /\ ~Reading'
        /\ unread'["anchor"] = unread["fetch"]
        /\ produced' = produced /\ observed' = observed
    BY DEF Settled, Window, LaneTypes, Reading, rows
  <1>2. \A d \in unread["fetch"] : observed[d] = 0
    BY DEF TellsInv, RowsReached
  <1>3. RowsReached' /\ ToldSince'
    BY <1>1, <1>2 DEF RowsReached, ToldSince
  <1>4. ToldAhead'
    BY <1>1 DEF ToldAhead
  <1> QED  BY <1>3, <1>4 DEF TellsInv

\* What the owner of production is when the pass settles without a word.
LEMMA SettlesSilently ==
  ASSUME LaneTypes, JudgeSettles, ~(Change # "none" /\ ~Vouched /\ owner = "poll"),
         Change # "none"
  PROVE  Vouched \/ Covered(observed) = {}
  <1>1. CASE Vouched
    BY <1>1
  <1>2. CASE ~Vouched
    <2>1. owner = "ws"
      BY <1>2 DEF LaneTypes
    <2>2. ~Owed /\ ~Stranded
      BY <1>2, <2>1 DEF JudgeSettles, Doubted
    <2> QED  BY <2>2 DEF Stranded
  <1> QED  BY <1>1, <1>2

LEMMA TellsJudge ==
  ASSUME LaneTypes, TellsInv, Judge
  PROVE  TellsInv'
  <1>1. Reading /\ UNCHANGED <<rows, wsMemory>>
    BY DEF Judge, Reading, LoopOnly
  <1>2. CASE JudgeSettles
    <2>1. fetched = 0 /\ told' # 0 /\ leaks' = {} => /\ produced["entry"] = 0
                                                     /\ "entry" \in unread["fetch"]
      <3>1. CASE Change # "none" /\ ~Vouched /\ owner = "poll"
        BY <1>2, <3>1, TellSays DEF JudgeSettles
      <3>2. CASE ~(Change # "none" /\ ~Vouched /\ owner = "poll")
        BY <1>1, <1>2, <3>2, SettlesSilently, ShadowSays DEF JudgeSettles
      <3> QED  BY <3>1, <3>2
    <2> QED  BY <1>1, <1>2, <2>1, TellsSettled DEF JudgeSettles
  <1>3. CASE JudgeHolds
    <2>1. /\ Window' = Window /\ anchor' = anchor /\ ~Reading' /\ unread' = unread
          /\ told' = told /\ leaks' = leaks /\ produced' = produced /\ observed' = observed
      BY <1>1, <1>3 DEF JudgeHolds, Held, Window, Reading, rows
    <2> QED  BY <2>1 DEF TellsInv, RowsReached, ToldAhead, ToldSince
  <1>4. CASE JudgeConfirms
    <2>1. UNCHANGED <<pollMemory, rows, told, leaks, unread, heard>>
      BY <1>1, <1>4 DEF Judge, JudgeConfirms
    <2> QED  BY <1>1, <2>1, TellsAside
  <1> QED  BY <1>2, <1>3, <1>4 DEF Judge

LEMMA TellsEscalate ==
  ASSUME LaneTypes, TellsInv, Escalate
  PROVE  TellsInv'
  <1>1. Reading /\ UNCHANGED rows /\ Settled /\ pc' = "slept"
    BY DEF Escalate, Reading, LoopOnly
  <1>2. fetched = 0 /\ told' # 0 /\ leaks' = {} => /\ produced["entry"] = 0
                                                   /\ "entry" \in unread["fetch"]
    BY <1>1, TellSays, ShadowSays DEF Escalate
  <1> QED  BY <1>1, <1>2, TellsSettled

LEMMA TellsKept ==
  ASSUME LaneTypes, RecentInv, TellsInv, [Next]_vars
  PROVE  TellsInv'
  <1>1. CASE LeaderMoves \/ Drop \/ ReadState \/ Tick \/ UNCHANGED vars
    <2>1. UNCHANGED <<pollMemory, rows, told, leaks, unread, heard>>
      BY <1>1 DEF LeaderMoves, Drop, ReadState, LaneOnly, Tick, LoopOnly, vars, loop
    <2>2. Reading' => Reading
      BY <1>1 DEF LeaderMoves, Drop, ReadState, LaneOnly, Tick, vars, loop, Reading
    <2> QED  BY <2>1, <2>2, TellsAside
  <1>2. CASE Receive
    <2>1. UNCHANGED <<pollMemory, loop>> /\ truth \in Positions
      BY <1>2 DEF Receive, LaneOnly, LaneTypes
    <2>2. CASE Coalesce(truth)
      BY <2>1, <2>2, TellsAside DEF Coalesce, loop, Reading
    <2>3. CASE Advance(truth)
      BY <2>1, <2>3, TellsAdvance
    <2> QED  BY <1>2, <2>2, <2>3 DEF Receive
  <1>3. CASE Resync
    <2>1. UNCHANGED <<pollMemory, loop>> /\ Head(reading) \in Positions
      BY <1>3 DEF Resync, LaneOnly, LaneTypes
    <2>2. CASE Baseline(Head(reading))
      BY <2>1, <2>2, TellsAside DEF Baseline, loop, Reading
    <2>3. CASE Advance(Head(reading))
      BY <2>1, <2>3, TellsAdvance
    <2> QED  BY <1>3, <2>2, <2>3 DEF Resync
  <1>4. CASE FetchFails \/ Restart
    <2>1. ~Reading' /\ UNCHANGED <<pollMemory, rows, told, leaks, unread>>
      BY <1>4 DEF FetchFails, Restart, LoopOnly, Reading
    <2>2. Window' = Window
      BY <2>1 DEF pollMemory, Window
    <2> QED  BY <2>1, <2>2 DEF TellsInv, RowsReached, ToldAhead, ToldSince, rows, pollMemory
  <1> QED  BY <1>1, <1>2, <1>3, <1>4, TellsElapse, TellsFetch, TellsJudge, TellsEscalate DEF Next
-----------------------------------------------------------------------------
(* The theorems. *)

LEMMA LanesInitially == Init => LanesInv
  <1> SUFFICES ASSUME Init PROVE LanesInv
    OBVIOUS
  <1>1. LaneTypes
    BY TypesInitially
  <1>2. upsets \in 0 .. MaxUpsets /\ upsets \in Nat
    BY <1>1 DEF LaneTypes
  <1>3. Spent \in Nat /\ Due \in Nat /\ Standby \in Nat
    BY <1>2, SpentOf, TimesAssumption DEF Spent, Init, Due
  <1>4. LooksRecent
    BY <1>3 DEF Init, LooksRecent
  <1>5. DoubtsRecent
    BY DEF Init, DoubtsRecent
  <1>6. ~Reading /\ unread["anchor"] = {} /\ told = anchor
    BY DEF Init, Reading
  <1>7. RowsReached /\ ToldAhead /\ ToldSince
    BY <1>6 DEF RowsReached, ToldAhead, ToldSince
  <1> QED  BY <1>1, <1>4, <1>5, <1>7 DEF LanesInv

\* The inductive invariant of the two lanes: no window outgrows the horizon, the
\* lane's rows are in reach of the look, and who holds more was told of it.
THEOREM LanesInvariant == Spec => []LanesInv
  <1>1. LanesInv /\ [Next]_vars => LanesInv'
    BY TypesKept, RecentKept, TellsKept DEF LanesInv, RecentInv, TellsInv
  <1> QED  BY <1>1, LanesInitially, PTL DEF Spec

\* Every window stays in the bound, doubtAge's as well while a doubt is held.
LEMMA LanesTypes == LanesInv => TypeOK
  <1> SUFFICES ASSUME LanesInv PROVE TypeOK
    OBVIOUS
  <1>1. LaneTypes /\ RecentInv
    BY DEF LanesInv, RecentInv
  <1>2. pollAge \in Age /\ (pending => doubtAge \in Age)
    BY <1>1, WindowsBounded
  <1>3. doubtAge \in Age
    BY <1>1, <1>2, GoneIsLate DEF LaneTypes, Age
  <1>4. {truth, wsAnchor, anchor, fetched, heard, told} \subseteq Positions
    BY <1>1 DEF LaneTypes
  <1>5. {known, resynced, subscribed, pending} \subseteq BOOLEAN
    BY <1>1 DEF LaneTypes
  <1> QED  BY <1>1, <1>2, <1>3, <1>4, <1>5 DEF LaneTypes, TypeOK

\* Every size, age and answer is in its range, and no window is older than the
\* horizon (stream/poller.py).
THEOREM LanesTypeCorrect == Spec => []TypeOK
BY LanesInvariant, LanesTypes, PTL

LEMMA StrandedStep ==
  ASSUME LanesInv, [Next]_vars,
         pc = "judge" /\ anchor' # anchor /\ ~Vouched /\ unread.anchor \cap Moved(Change) # {}
  PROVE  told' = Informed(Change, anchor')
  <1>1. LaneTypes /\ TellsInv
    BY DEF LanesInv, TellsInv
  <1>2. JudgeSettles
    <2>1. ~UNCHANGED vars
      BY DEF vars, pollMemory
    <2>2. Judge
      BY <2>1 DEF Next, LeaderMoves, Elapse, Drop, ReadState, Receive, Resync, LaneOnly, Tick,
                  Fetch, FetchFails, Restart, Escalate, pollMemory
    <2> QED  BY <2>2 DEF Judge, JudgeHolds, Held, JudgeConfirms, pollMemory
  <1>3. anchor' = fetched
    BY <1>2 DEF JudgeSettles, Settled
  <1>4. PICK d \in unread["anchor"] : d \in Moved(Change)
    OBVIOUS
  <1>5. Change # "none" /\ Covered(observed) # {}
    BY <1>1, <1>4, ReachedIsCovered DEF Moved
  <1>6. Change # "none" /\ ~Vouched /\ owner = "poll"
    BY <1>1, <1>2, <1>5, SettlesSilently
  <1>7. Tell
    BY <1>2, <1>6 DEF JudgeSettles
  <1> QED  BY <1>3, <1>7 DEF Tell

\* A move the lane wrote a row of is told by the pass that settles it without a
\* vouch, however late, held, raced or cut off by a transfer (_reconcile).
THEOREM StrandedIsToldHolds == Spec => StrandedIsTold
  <1>1. LanesInv /\ [Next]_vars
          => [(pc = "judge" /\ anchor' # anchor /\ ~Vouched
                 /\ unread.anchor \cap Moved(Change) # {})
               => told' = Informed(Change, anchor')]_vars
    BY StrandedStep
  <1> QED  BY <1>1, LanesInvariant, PTL DEF Spec, StrandedIsTold

LEMMA OpensOnceStep ==
  ASSUME LanesInv, [Next]_vars,
         pc # "slept" /\ pc' = "slept" /\ Change = "open" /\ told' # told /\ leaks = {}
  PROVE  Side(told') # Side(told)
  <1>1. LaneTypes /\ TellsInv
    BY DEF LanesInv, TellsInv
  <1>2. anchor = 0 /\ fetched # 0 /\ {anchor, fetched, told} \subseteq Int
    BY <1>1, PositionsAreSizes, KindOf DEF Change, LaneTypes
  <1>3. Tell /\ ~Vouched
    <2>1. ~UNCHANGED vars
      BY DEF vars
    <2>2. Judge \/ Escalate
      <3>1. ~LeaderMoves /\ ~Elapse /\ ~Drop /\ ~ReadState
        BY DEF LeaderMoves, Elapse, Drop, ReadState, LaneOnly
      <3>2. ~Receive /\ ~Resync
        BY DEF Receive, Resync, LaneOnly, loop
      <3>3. ~Tick /\ ~Fetch /\ ~FetchFails /\ ~Restart
        BY DEF Tick, Fetch, FetchFails, Restart
      <3> QED  BY <2>1, <3>1, <3>2, <3>3 DEF Next
    <2>3. CASE Judge
      BY <2>3 DEF Judge, JudgeSettles, JudgeHolds, JudgeConfirms, Shadow
    <2>4. CASE Escalate
      BY <2>4 DEF Escalate, Shadow
    <2> QED  BY <2>2, <2>3, <2>4
  <1>4. told' = fetched
    BY <1>2, <1>3, InformedOf DEF Tell, Change
  <1>5. told = 0
    <2> SUFFICES ASSUME told # 0 PROVE FALSE
      OBVIOUS
    <2>1. produced["entry"] <= Window
      BY <1>1, <1>2 DEF TellsInv, ToldAhead
    <2>2. produced["entry"] \in Nat /\ Window \in Nat
      BY <1>1, RowAges, WindowIn DEF Direction
    <2>3. Lookback = Window + Grace /\ Grace \in Nat
      BY TimesAssumption DEF Lookback, Window
    <2>4. Moved(Change) = {"entry"}
      BY MovedOf
    <2>5. Covered(produced) = Moved(Change)
      BY <2>1, <2>2, <2>3, <2>4 DEF Covered
    <2> QED  BY <1>3, <2>5 DEF Vouched
  <1> QED  BY <1>2, <1>4, <1>5, SideRange

\* An open the lane told is not told again by the pass (_reconcile's vouch): the
\* entry it wrote is in the window, whatever was delayed, held or raced.
THEOREM PollOpensOnceHolds == Spec => PollOpensOnce
  <1>1. LanesInv /\ [Next]_vars
          => [(pc # "slept" /\ pc' = "slept" /\ Change = "open" /\ told' # told /\ leaks = {})
               => Side(told') # Side(told)]_vars
    BY OpensOnceStep
  <1> QED  BY <1>1, LanesInvariant, PTL DEF Spec, PollOpensOnce
=============================================================================
