---------------------------- MODULE Provisioning ----------------------------
(***************************************************************************)
(* How a copy mapping gets its sub-account and its money: /copy and        *)
(* /uncopy write rows in the bot process, the executor's provisioning pass *)
(* mints (or, at the master's cap, adopts) a sub-account, tops it up to    *)
(* the allocation and stamps the row.  The row a pass works from is the    *)
(* snapshot its cycle began with; the operator, the market, a halt and a   *)
(* crash may step in at every await.                                       *)
(***************************************************************************)
EXTENDS Integers, FiniteSets

CONSTANTS
  Leaders,    \* wallets the operator may copy
  Accounts,   \* the sub-accounts a master may ever hold (its cap)
  Orphans,    \* those it holds before the first /copy
  MaxDollars, \* bound: the largest allocation and stake
  MaxEdits,   \* bound: commands of the operator that write
  MaxFaults   \* bound: crashes, lost or refused replies, failed reads

ProvisioningAssumption ==
  /\ IsFiniteSet(Accounts) /\ Accounts # {} /\ Orphans \subseteq Accounts
  /\ MaxDollars \in Nat \ {0} /\ MaxEdits \in Nat /\ MaxFaults \in Nat

None == "none"
NoneAssumption == None \notin Leaders \cup Accounts

Dollars == 1 .. MaxDollars
Terms == [alloc : Dollars, stake : Dollars]
NoRow == [known |-> FALSE, enabled |-> FALSE, addr |-> None, funded |-> FALSE,
          alloc |-> 1, stake |-> 1]
Copied ==
  [known : {TRUE}, enabled : BOOLEAN, addr : Accounts \cup {None}, funded : BOOLEAN,
   alloc : Dollars, stake : Dollars]
Row == {NoRow} \cup Copied

VARIABLES
  row,      \* copy_subs
  pending,  \* copy_pending: the /copy waiting for its confirm tap
  cap,      \* risk_limits: the tighter of the stake caps
  minted, balance, holding, \* the exchange: sub-accounts, their money, those with a position
  halted,
  pc, snap, snapCap, left, cur, got, topup, \* the pass: its rows and limits, mappings to
            \* visit, the one at work, its sub-account, the transfer it asks
  edits, faults, signedHalted \* bounds used, and signatures since the halt opened

bot == <<row, pending, cap>>
exchange == <<minted, balance, holding>>
pass == <<snap, snapCap, left, cur, got, topup>>
vars == <<bot, exchange, halted, pc, pass, edits, faults, signedHalted>>

Mapped == {row[l].addr : l \in Leaders} \ {None}
IsProvisioned(r) == r.addr # None /\ r.funded

\* Mutant: the funding gap of a sub-account above its target is not clamped.
Unclamped(n) == n

Max0(n) == IF n > 0 THEN n ELSE 0

\* RiskPolicy.judge_provisioning: the typo ceiling is MaxDollars, the stake is
\* bounded by the allocation and by the caps.
JudgeProvisioning(t, limit) == t.alloc <= MaxDollars /\ t.stake <= t.alloc /\ t.stake <= limit

Init ==
  /\ row = [l \in Leaders |-> NoRow] /\ pending = <<>> /\ cap = MaxDollars
  /\ minted = Orphans /\ balance = [a \in Accounts |-> 0] /\ holding = {}
  /\ halted = FALSE /\ pc = "idle"
  /\ snap = [l \in Leaders |-> NoRow] /\ snapCap = MaxDollars
  /\ left = {} /\ cur = None /\ got = None /\ topup = 0
  /\ edits = 0 /\ faults = 0 /\ signedHalted = 0
-----------------------------------------------------------------------------
\* The bot.  One request waits per operator: a later /copy replaces it.
Copy ==
  /\ edits < MaxEdits
  /\ \E l \in Leaders, t \in Terms :
       JudgeProvisioning(t, cap) /\ pending' = <<l, t>>
  /\ UNCHANGED <<row, cap, exchange, halted, pc, pass, edits, faults, signedHalted>>

\* An insert, or the terms replaced on the existing row: `provisioned_at` is
\* cleared, which opens the funding leg again; the sub-account stays.
Register(l, t) ==
  row' = [row EXCEPT ![l] =
    [known |-> TRUE, enabled |-> TRUE, addr |-> row[l].addr, funded |-> FALSE,
     alloc |-> t.alloc, stake |-> t.stake]]

Confirm ==
  /\ pending # <<>> /\ edits < MaxEdits
  /\ Register(pending[1], pending[2])
  /\ pending' = <<>> /\ edits' = edits + 1
  /\ UNCHANGED <<cap, exchange, halted, pc, pass, faults, signedHalted>>

Cancel ==
  /\ pending # <<>> /\ pending' = <<>>
  /\ UNCHANGED <<row, cap, exchange, halted, pc, pass, edits, faults, signedHalted>>

DisableSub(l) == row' = [row EXCEPT ![l].enabled = FALSE]

Uncopy ==
  /\ edits < MaxEdits /\ edits' = edits + 1
  /\ \E l \in Leaders : row[l].enabled /\ DisableSub(l)
  /\ UNCHANGED <<pending, cap, exchange, halted, pc, pass, faults, signedHalted>>

SetLimit ==
  /\ edits < MaxEdits /\ edits' = edits + 1
  /\ \E c \in Dollars \ {cap} : cap' = c
  /\ UNCHANGED <<row, pending, exchange, halted, pc, pass, faults, signedHalted>>

HaltOrResume ==
  /\ halted' = ~halted /\ signedHalted' = 0
  /\ UNCHANGED <<bot, exchange, pc, pass, edits, faults>>

\* The market and the operator's own trades in a sub-account.  Gains are left
\* out, so that a balance above what was asked for can only come from funding.
Trades ==
  /\ \E a \in minted :
       \/ balance[a] > 0 /\ a \notin holding /\ holding' = holding \cup {a} /\ UNCHANGED balance
       \/ a \in holding /\ holding' = holding \ {a}
          /\ balance' \in {balance, [balance EXCEPT ![a] = Max0(@ - 1)]}
  /\ UNCHANGED <<bot, minted, halted, pc, pass, edits, faults, signedHalted>>
-----------------------------------------------------------------------------
\* The executor's pass.
Goes(place) == pc' = place
Fault == faults < MaxFaults /\ faults' = faults + 1
Signs == signedHalted' = IF halted /\ signedHalted < 2 THEN signedHalted + 1 ELSE signedHalted

ReadMappings ==
  /\ pc = "idle" /\ ~halted /\ Goes("visit")
  /\ snap' = row /\ snapCap' = cap
  /\ left' = {l \in Leaders : row[l].enabled /\ ~IsProvisioned(row[l])}
  /\ UNCHANGED <<bot, exchange, halted, cur, got, topup, edits, faults, signedHalted>>

Visit ==
  /\ pc = "visit" /\ left # {}
  /\ \E l \in left :
       /\ cur' = l /\ left' = left \ {l}
       /\ IF JudgeProvisioning(snap[l], snapCap)
            THEN /\ Goes(IF snap[l].addr = None THEN "createGate" ELSE "gap")
                 /\ got' = snap[l].addr /\ UNCHANGED row
            ELSE DisableSub(l) /\ Goes("visit") /\ UNCHANGED got
  /\ UNCHANGED <<pending, cap, exchange, halted, snap, snapCap, topup, edits, faults, signedHalted>>

EndPass ==
  /\ pc = "visit" /\ left = {} /\ Goes("idle")
  /\ UNCHANGED <<bot, exchange, halted, pass, edits, faults, signedHalted>>

\* The halt gate each signature carries: a halt ends the pass.
Gate(leg, then) ==
  /\ pc = leg /\ Goes(IF halted THEN "idle" ELSE then)
  /\ UNCHANGED <<bot, exchange, halted, pass, edits, faults, signedHalted>>

\* Minted with its answer, minted with the answer lost, refused or never sent,
\* or refused at the cap.
CreateSubAccount ==
  /\ pc = "create" /\ Signs
  /\ \/ \E a \in Accounts \ minted :
          /\ minted' = minted \cup {a}
          /\ \/ Goes("record") /\ got' = a /\ UNCHANGED faults
             \/ Goes("visit") /\ Fault /\ UNCHANGED got
     \/ Goes("visit") /\ Fault /\ UNCHANGED <<minted, got>>
     \/ minted = Accounts /\ Goes("adopt") /\ UNCHANGED <<minted, got, faults>>
  /\ UNCHANGED <<bot, balance, holding, halted, snap, snapCap, left, cur, topup, edits>>

RecordSubAddress(then) ==
  /\ row' = IF row[cur].addr = None THEN [row EXCEPT ![cur].addr = got] ELSE row
  /\ Goes(then)
  /\ UNCHANGED <<pending, cap, exchange, halted, pass, edits, faults, signedHalted>>

\* Mutant: the rows that claim a sub-account are not consulted.
AnyIdle(unread) == minted \ (unread \cup holding)

\* A sub-account of the master that no row claims and that holds nothing; one
\* whose positions cannot be read is neither adoptable nor evidence that none is.
Adoptable(unread) == minted \ (Mapped \cup unread \cup holding)

AdoptOrphanSub ==
  /\ pc = "adopt"
  /\ \/ Fault /\ Goes("visit") /\ UNCHANGED <<row, got>>  \* the listing
     \/ \E unread \in SUBSET (minted \ Mapped) :
          /\ IF unread = {} THEN UNCHANGED faults ELSE Fault
          /\ \/ \E a \in Adoptable(unread) : got' = a /\ Goes("adopted") /\ UNCHANGED row
             \/ /\ Adoptable(unread) = {} /\ UNCHANGED got /\ Goes("visit")
                /\ IF unread = {} THEN DisableSub(cur) ELSE UNCHANGED row
  /\ UNCHANGED <<pending, cap, exchange, halted, snap, snapCap, left, cur, topup, edits, signedHalted>>

\* Cosmetic: refused or not, the pass goes on.
RenameAdoptedSub ==
  /\ pc = "rename" /\ Signs /\ Goes("gap")
  /\ UNCHANGED <<bot, exchange, halted, pass, edits, faults>>

FundingGap ==
  /\ pc = "gap"
  /\ \/ /\ topup' = Max0(snap[cur].alloc - balance[got])
        /\ Goes(IF topup' = 0 THEN "mark" ELSE "fundGate") /\ UNCHANGED faults
     \/ Fault /\ Goes("visit") /\ UNCHANGED topup
  /\ UNCHANGED <<bot, exchange, halted, snap, snapCap, left, cur, got, edits, signedHalted>>

SubAccountTransfer ==
  /\ pc = "fund" /\ Signs
  /\ \/ balance' = [balance EXCEPT ![got] = @ + topup]
        /\ \/ Goes("mark") /\ UNCHANGED faults
           \/ Goes("visit") /\ Fault
     \/ Goes("visit") /\ Fault /\ UNCHANGED balance
  /\ UNCHANGED <<bot, minted, holding, halted, pass, edits>>

\* One mapping is provisioned per pass.
MarkFunded ==
  /\ pc = "mark" /\ Goes("idle")
  /\ row' = [row EXCEPT ![cur].funded = TRUE]
  /\ UNCHANGED <<pending, cap, exchange, halted, pass, edits, faults, signedHalted>>

Crash ==
  /\ pc # "idle" /\ Fault /\ Goes("idle")
  /\ UNCHANGED <<bot, exchange, halted, pass, edits, signedHalted>>

Executes ==
  \/ ReadMappings \/ Visit \/ EndPass
  \/ Gate("createGate", "create") \/ CreateSubAccount
  \/ pc = "record" /\ RecordSubAddress("gap")
  \/ AdoptOrphanSub
  \/ pc = "adopted" /\ RecordSubAddress("renameGate")
  \/ Gate("renameGate", "rename") \/ RenameAdoptedSub
  \/ FundingGap \/ Gate("fundGate", "fund") \/ SubAccountTransfer \/ MarkFunded

Next == Copy \/ Confirm \/ Cancel \/ Uncopy \/ SetLimit \/ HaltOrResume \/ Trades \/ Executes \/ Crash

\* The loop keeps taking its steps; faults are bounded, so replies come back in
\* the end.  The operator, the market and a halt promise nothing.
Spec == Init /\ [][Next]_vars
FairSpec == Spec /\ WF_vars(Executes)
-----------------------------------------------------------------------------
TypeOK ==
  /\ row \in [Leaders -> Row] /\ cap \in Dollars
  /\ pending \in {<<>>} \cup {<<l, t>> : l \in Leaders, t \in Terms}
  /\ minted \subseteq Accounts /\ balance \in [Accounts -> Nat] /\ holding \subseteq minted
  /\ halted \in BOOLEAN /\ pc \in {"idle", "visit", "createGate", "create", "record", "adopt",
       "adopted", "renameGate", "rename", "gap", "fundGate", "fund", "mark"}
  /\ snap \in [Leaders -> Row] /\ snapCap \in Dollars /\ left \subseteq Leaders
  /\ cur \in Leaders \cup {None} /\ got \in Accounts \cup {None} /\ topup \in Nat
  /\ edits \in 0 .. MaxEdits /\ faults \in 0 .. MaxFaults /\ signedHalted \in 0 .. 2

\* No two Leaders are copied into one sub-account, whatever was minted, lost
\* and adopted in between: their books must not mix.
OneLeaderPerSub ==
  \A l, m \in Leaders : l # m /\ row[l].addr # None => row[l].addr # row[m].addr

\* Sub-accounts cannot be deleted, so a slot is spent for good: beyond the
\* mapped ones and those held before, every one answers for a fault.
NoSlotWasted ==
  Cardinality(minted \ Orphans) <=
    Cardinality(Mapped) + faults + (IF pc = "record" THEN 1 ELSE 0)

\* Funding is a top-up to a target balance: no retry, lost answer or re-issued
\* /copy stacks one allocation on another.
NeverStacked == \A a \in Accounts : balance[a] <= MaxDollars

\* Every signature of the pass has its own late gate: at most the one already
\* past its gate is sent while a halt stands.
OneSignatureUnderHalt == signedHalted <= 1

\* A mapping that waits for its sub-account or its money gets them or is
\* disabled, unless a halt comes between.
Waits(l) == row[l].enabled /\ ~IsProvisioned(row[l])
PendingSettles == \A l \in Leaders : Waits(l) ~> (~Waits(l) \/ halted)

\* What `reenable_sub` says of new terms: the executor tops the sub-account up
\* to the requested allocation before the row counts as provisioned.
FundedAsAsked ==
  [][\A l \in Leaders : ~row[l].funded /\ row'[l].funded => snap[l].alloc >= row[l].alloc]_vars
=============================================================================
