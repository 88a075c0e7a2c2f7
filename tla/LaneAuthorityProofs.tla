------------------------- MODULE LaneAuthorityProofs -------------------------
(***************************************************************************)
(* The ownership of production, for every poll set, threshold and gap: the   *)
(* failover is bounded, and the handback is earned.                         *)
(*                                                                         *)
(* Both rest on what an evaluation leaves behind: while the websocket owns   *)
(* production, or a run of health is being counted, the heartbeat has aged   *)
(* at most tickAge past the threshold, and a run of health is no longer than *)
(* the era it runs in.                                                      *)
(***************************************************************************)
EXTENDS LaneAuthority, TLAPS

WatchedInv == owner = "ws" \/ healthyFor # NotHealthy => beatAge <= StaleAfter + tickAge
RunInv ==
  healthyFor # NotHealthy => healthyFor <= eraAge /\ worst <= StaleAfter + TickGap
LaneInv == TypeOK /\ WatchedInv /\ RunInv

USE DEF NotHealthy

\* The initial row is the migration's, and nothing is counted yet.
LEMMA InitLaneInv == Init => LaneInv
  BY WalletsAssumption, TimesAssumption, UpsetsAssumption, NoWalletAssumption
  DEF Init, LaneInv, TypeOK, WatchedInv, RunInv, Reason, Stamp, Phase, Oldest

LEMMA Slack ==
  ASSUME NEW a \in Int, NEW b \in Nat, NEW c \in Nat PROVE a <= b => a <= b + c
  OBVIOUS

\* A transfer keeps the invariant when the websocket that takes over is fresh.
LEMMA TakeOwnershipKeeps ==
  ASSUME LaneInv, NEW to \in {"poll", "ws"}, NEW why \in Reason,
         to = "ws" => Fresh, TakeOwnership(to, why), tickAge' \in 0 .. TickGap,
         UNCHANGED <<enabled, tracked, beatAge, phase, subscribed, todo, reading, refreshAge>>,
         upsets' \in 0 .. MaxUpsets
  PROVE  LaneInv'
<1>1. TypeOK'
  <2>1. stamp' \in [Wallets -> Stamp]
    BY DEF TakeOwnership, Stamp
  <2>2. healthyFor' \in NotHealthy .. RecoverAfter /\ eraAge' \in 0 .. RecoverAfter
    BY TimesAssumption DEF TakeOwnership
  <2> QED BY <2>1, <2>2 DEF LaneInv, TypeOK, TakeOwnership
<1>2. WatchedInv'
  <2>1. healthyFor' = NotHealthy /\ beatAge' = beatAge /\ (owner' = "ws" => beatAge <= StaleAfter)
    BY DEF TakeOwnership, Fresh
  <2>2. beatAge \in Int /\ tickAge' \in Nat /\ StaleAfter \in Nat
    BY TimesAssumption DEF LaneInv, TypeOK, Oldest
  <2>3. beatAge <= StaleAfter => beatAge <= StaleAfter + tickAge'
    BY <2>2, Slack
  <2> QED BY <2>1, <2>3 DEF WatchedInv
<1>3. RunInv'
  BY DEF RunInv, TakeOwnership
<1> QED BY <1>1, <1>2, <1>3 DEF LaneInv

\* So does counting: from the health there was, or from nothing.
LEMMA ProbationKeeps ==
  ASSUME LaneInv, NEW h \in {NotHealthy, HealthSoFar}, Probation(h),
         owner = "poll", h # NotHealthy => Fresh, tickAge' = 0,
         UNCHANGED <<enabled, tracked, beatAge, phase, subscribed, todo, reading, refreshAge, upsets>>
  PROVE  LaneInv'
<1>1. HealthSoFar \in 0 .. RecoverAfter /\ HealthSoFar <= MaxOf(eraAge, 0)
  BY TimesAssumption DEF LaneInv, TypeOK, RunInv, HealthSoFar, MaxOf
<1>2. TypeOK'
  BY <1>1, TimesAssumption DEF LaneInv, TypeOK, Probation
<1>3. WatchedInv'
  BY TimesAssumption DEF LaneInv, TypeOK, WatchedInv, Probation, Fresh
<1>4. RunInv'
  BY <1>1, TimesAssumption DEF LaneInv, TypeOK, RunInv, WatchedInv, Probation, MaxOf, Fresh
<1> QED BY <1>2, <1>3, <1>4 DEF LaneInv

LEMMA EvaluateKeeps == LaneInv /\ EvaluateAuthority => LaneInv'
<1> SUFFICES ASSUME LaneInv, EvaluateAuthority PROVE LaneInv'
  OBVIOUS
<1> USE DEF EvaluateAuthority
<1>0. /\ owner \in {"poll", "ws"} /\ upsets \in 0 .. MaxUpsets /\ 0 \in 0 .. TickGap
      /\ tickAge' = 0
      /\ UNCHANGED <<enabled, tracked, beatAge, phase, subscribed, todo, reading, refreshAge, upsets>>
  BY TimesAssumption DEF LaneInv, TypeOK
<1>1. ASSUME NEW why \in Reason, TakeOwnership("poll", why) PROVE LaneInv'
  BY <1>0, <1>1, TakeOwnershipKeeps
<1>2. {"stale", "outgrown", "disabled", "covered"} \subseteq Reason
  BY DEF Reason
<1>3. CASE EvaluateDisabled
  <2>1. CASE owner = "ws" \/ reason # "disabled"
    BY <1>1, <1>2, <1>3, <2>1 DEF EvaluateDisabled
  <2>2. CASE owner = "poll" /\ Probation(NotHealthy)
    BY <1>0, <2>2, ProbationKeeps
  <2> QED BY <1>0, <1>3, <2>1, <2>2 DEF EvaluateDisabled
<1>4. CASE EvaluateOwning
  <2>1. CASE ~Fresh \/ Outgrown
    BY <1>1, <1>2, <1>4, <2>1 DEF EvaluateOwning
  <2>2. CASE Fresh /\ UNCHANGED <<row, stamp, history>>
    BY <1>0, <2>2, TimesAssumption
    DEF LaneInv, TypeOK, WatchedInv, RunInv, Fresh, row, history
  <2> QED BY <1>4, <2>1, <2>2 DEF EvaluateOwning
<1>5. CASE EvaluateHandback
  <2>1. CASE ~Fresh
    BY <1>0, <1>5, <2>1, ProbationKeeps DEF EvaluateHandback
  <2>2. CASE Fresh /\ Probation(HealthSoFar)
    BY <1>0, <1>5, <2>2, ProbationKeeps DEF EvaluateHandback
  <2>3. CASE Fresh /\ TakeOwnership("ws", "covered")
    BY <1>0, <1>2, <2>3, TakeOwnershipKeeps
  <2> QED BY <1>5, <2>1, <2>2, <2>3 DEF EvaluateHandback
<1> QED BY <1>3, <1>4, <1>5

LEMMA DriftKeeps == LaneInv /\ ReconcileTakes => LaneInv'
<1> SUFFICES ASSUME LaneInv, ReconcileTakes PROVE LaneInv'
  OBVIOUS
<1>1. upsets' \in 0 .. MaxUpsets /\ "drift" \in Reason /\ tickAge' \in 0 .. TickGap
  BY UpsetsAssumption DEF LaneInv, TypeOK, ReconcileTakes, Upset, Reason
<1> QED BY <1>1, TakeOwnershipKeeps DEF ReconcileTakes

LEMMA ElapseKeeps == LaneInv /\ Elapse => LaneInv'
<1> SUFFICES ASSUME LaneInv, Elapse PROVE LaneInv'
  OBVIOUS
<1> USE TimesAssumption DEF LaneInv, TypeOK, Elapse, Capped, Oldest
<1>1. /\ tickAge' \in 0 .. TickGap /\ tickAge' = tickAge + 1
      /\ beatAge' \in 0 .. Oldest /\ beatAge' <= beatAge + 1
      /\ eraAge' \in 0 .. RecoverAfter
  OBVIOUS
<1>2. healthyFor' \in NotHealthy .. RecoverAfter /\ refreshAge' \in 0 .. RefreshAfter
  OBVIOUS
<1>3. WatchedInv'
  BY <1>1 DEF WatchedInv
<1>4. healthyFor' # NotHealthy => healthyFor' <= eraAge'
  BY DEF RunInv
<1>5. worst' \in 0 .. Oldest /\ (healthyFor' # NotHealthy => worst' <= StaleAfter + TickGap)
  BY <1>1, <1>3 DEF RunInv, WatchedInv, MaxOf
<1>6. TypeOK'
  BY <1>1, <1>2, <1>5
<1> QED BY <1>3, <1>4, <1>5, <1>6 DEF RunInv

\* Nothing else touches the row, the eras or the evaluations, and a beat only
\* makes the heartbeat younger.
LEMMA OthersKeep ==
  ASSUME LaneInv, TypeOK', UNCHANGED <<row, tickAge, history>>, beatAge' <= beatAge
  PROVE  LaneInv'
  BY TimesAssumption DEF LaneInv, TypeOK, WatchedInv, RunInv, row, history

LEMMA LaneKeeps ==
  ASSUME LaneInv,
         \/ PollSetChanges \/ Switch \/ Connect \/ Drop \/ BeginRefresh \/ ListWanted
         \/ ReadState \/ Resync \/ ResyncUnsubscribed \/ ResyncFails \/ EndRefresh \/ Beat \/ Start
         \/ \E w \in Wallets : PushBaselines(w)
  PROVE  LaneInv'
<1> USE TimesAssumption, UpsetsAssumption
        DEF LaneInv, TypeOK, Stamp, Phase, row, lane, history, LaneUnchanged, Upset
<1>1. CASE PollSetChanges BY <1>1, OthersKeep DEF PollSetChanges
<1>2. CASE Switch BY <1>2, OthersKeep DEF Switch
<1>3. CASE Connect BY <1>3, OthersKeep DEF Connect
<1>4. CASE Drop BY <1>4, OthersKeep DEF Drop
<1>5. CASE BeginRefresh BY <1>5, OthersKeep DEF BeginRefresh
<1>6. CASE ListWanted
  <2>1. subscribed' \subseteq Wallets /\ todo' \subseteq Wallets
    BY <1>6 DEF ListWanted
  <2> QED BY <1>6, <2>1, OthersKeep DEF ListWanted
<1>7. CASE ReadState BY <1>7, OthersKeep DEF ReadState
<1>8. CASE Resync BY <1>8, OthersKeep DEF Resync
<1>9. CASE ResyncUnsubscribed BY <1>9, OthersKeep DEF ResyncUnsubscribed
<1>10. CASE ResyncFails BY <1>10, OthersKeep DEF ResyncFails
<1>11. CASE EndRefresh BY <1>11, OthersKeep DEF EndRefresh
<1>12. CASE Beat BY <1>12, OthersKeep DEF Beat, Oldest
<1>13. CASE Start BY <1>13, OthersKeep DEF Start, Oldest
<1>14. CASE \E w \in Wallets : PushBaselines(w) BY <1>14, OthersKeep DEF PushBaselines
<1> QED
  BY <1>1, <1>2, <1>3, <1>4, <1>5, <1>6, <1>7, <1>8, <1>9, <1>10, <1>11, <1>12, <1>13, <1>14

LEMMA NextLaneInv == LaneInv /\ [Next]_vars => LaneInv'
<1> SUFFICES ASSUME LaneInv, [Next]_vars PROVE LaneInv'
  OBVIOUS
<1>1. CASE EvaluateAuthority BY <1>1, EvaluateKeeps
<1>2. CASE ReconcileTakes BY <1>2, DriftKeeps
<1>3. CASE Elapse BY <1>3, ElapseKeeps
<1>4. CASE \/ PollSetChanges \/ Switch \/ Connect \/ Drop \/ BeginRefresh \/ ListWanted
           \/ ReadState \/ Resync \/ ResyncUnsubscribed \/ ResyncFails \/ EndRefresh \/ Beat \/ Start
           \/ \E w \in Wallets : PushBaselines(w)
  BY <1>4, LaneKeeps
<1>5. CASE UNCHANGED vars
  BY <1>5 DEF LaneInv, TypeOK, WatchedInv, RunInv, vars, row, lane, history
<1> QED BY <1>1, <1>2, <1>3, <1>4, <1>5 DEF Next

LEMMA LaneInvHolds == Spec => []LaneInv
  BY InitLaneInv, NextLaneInv, PTL DEF Spec

\* Every state of the row, the lane and the ages has its type.
THEOREM LaneTypeCorrect == Spec => []TypeOK
<1>1. LaneInv => TypeOK
  BY DEF LaneInv
<1> QED BY <1>1, LaneInvHolds, PTL

\* For every threshold and gap, a websocket that owns production has beaten
\* within the threshold and the time since the poller last looked.
THEOREM FailoverBoundedHolds == Spec => []FailoverBounded
<1>1. LaneInv => FailoverBounded
  BY DEF LaneInv, WatchedInv, FailoverBounded
<1> QED BY <1>1, LaneInvHolds, PTL

\* For every recovery window, production goes back only after a whole window
\* of the same era, in which the heartbeat was never older than the threshold
\* and one gap.
THEOREM HandbackEarnedHolds == Spec => HandbackEarned
<1> DEFINE Earned ==
      owner = "poll" /\ owner' = "ws" => eraAge >= RecoverAfter /\ worst <= StaleAfter + TickGap
<1>1. LaneInv /\ [Next]_vars => [Earned]_vars
  <2> SUFFICES ASSUME LaneInv, Next, owner = "poll", owner' = "ws" PROVE Earned
    BY DEF vars
  <2>1. EvaluateAuthority
    BY DEF Next, ReconcileTakes, TakeOwnership, Elapse, PollSetChanges, Switch, row, Connect,
           Drop, BeginRefresh, ListWanted, ReadState, Resync, ResyncUnsubscribed, ResyncFails,
           EndRefresh, Beat, Start, PushBaselines, LaneUnchanged
  <2>2. ~(HealthSoFar < RecoverAfter)
    BY <2>1 DEF EvaluateAuthority, EvaluateDisabled, EvaluateOwning,
       EvaluateHandback, TakeOwnership, Probation
  <2>3. healthyFor # NotHealthy /\ healthyFor >= RecoverAfter
    BY <2>2, TimesAssumption DEF HealthSoFar, MaxOf, LaneInv, TypeOK
  <2> QED BY <2>3, TimesAssumption DEF LaneInv, RunInv, TypeOK
<1> QED BY <1>1, LaneInvHolds, PTL DEF Spec, HandbackEarned
==============================================================================
