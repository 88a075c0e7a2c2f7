---------------------------- MODULE MappingsProofs ----------------------------
(***************************************************************************)
(* The life of a copy mapping, for any Leaders, sub-accounts, budgets and  *)
(* bounds: the sub-accounts are kept apart and no slot is wasted, the      *)
(* books come to say what happened, and a spent budget winds down.         *)
(*                                                                         *)
(* The part that runs keeps an invariant of its own (PInv, LInv, BInv),    *)
(* the others stand at rest: MappingsInv.                                  *)
(***************************************************************************)
EXTENDS MCMappings, FiniteSets, FiniteSetTheorems, TLAPS

CreatePlaces == {"createGate", "create", "record", "adopt", "adopted"}
SubPlaces == {"record", "adopted", "renameGate", "rename", "gap", "fundGate", "fund", "mark"}
SignPlaces == {"create", "rename", "fund"}

\* Between its visit and its end the pass works for one Leader whose visit is
\* behind it, and from the answer of a creation or an adoption on, for one sub-account.
AtWork ==
  /\ \A l \in left : row[l].known
  /\ pc \notin {"idle", "visit"} => cur \in Leaders \ left /\ row[cur].known
  /\ pc \in SubPlaces => got \in Accounts

\* The addresses of the Leaders still to visit, and of the one a sub-account is
\* sought for, are the snapshot's: only the pass writes an address.
AddressesStand ==
  /\ \A l \in left : row[l].addr = snap[l].addr
  /\ pc \in CreatePlaces => row[cur].addr = P!None

\* A sub-account minted or adopted is on the exchange and no row's, until recorded.
Unclaimed ==
  /\ P!Mapped \subseteq minted /\ Orphans \subseteq minted
  /\ pc \in {"record", "adopted"} => got \in minted \ P!Mapped

\* A transfer asked for fits under the largest allocation.
TransferFits == pc \in {"fundGate", "fund"} => balance[got] + topup <= MaxDollars

\* A halt that has seen no signature may still see the one past its gate.
GateSpends == (~halted \/ pc \in SignPlaces) => signedHalted = 0

\* What the pass of Provisioning keeps.
PInv ==
  /\ P!TypeOK /\ AtWork /\ AddressesStand /\ Unclaimed /\ TransferFits /\ GateSpends
  /\ P!OneLeaderPerSub /\ P!NoSlotWasted /\ P!NeverStacked /\ P!OneSignatureUnderHalt


\* While a cycle runs, a mark of the row is a mark of the row it read or wrote:
\* nobody else sets one.
MarksRead ==
  pc # "idle" => /\ mapping.breached # 0 => judged.breached # 0
                 /\ mapping.warned # 0 => judged.warned # 0

\* A notice that was told has its mark in the row; the disable's is the row's end.
MarkedOnceTold ==
  /\ told.warn <= 1 /\ (told.warn # 0 => mapping.warned # 0)
  /\ told.breach <= 1 /\ (told.breach # 0 => mapping.breached # 0)
  /\ told.disable <= 1 /\ (told.disable # 0 => ~mapping.enabled)

\* A cycle works from a row of the table.
CycleHasRow == pc # "idle" => judged \in L!Row

\* From the cancel of the stray trigger to the disable nothing of ours comes back:
\* a trigger that rests is one whose cancel was refused.
NothingLeft == pc = "disable" => ~live /\ (stray => spared)

\* What the cycle of LossBudget keeps.
LInv == L!TypeOK /\ CycleHasRow /\ L!EditWins /\ MarksRead /\ MarkedOnceTold /\ NothingLeft

\* A position that has vanished stays so: to be classified, or filed as closed by hand.
Vanished == pc = "classify" \/ reason = "operator" => ~held

\* What the cycle of Brackets keeps.
BInv == B!TypeOK /\ Vanished /\ B!LiquidationNotByHand

\* The part that runs keeps its own invariant, the others stand at rest.
MappingsInv ==
  /\ part \in {"provisioning", "budget", "brackets"}
  /\ IF part = "provisioning" THEN PInv ELSE NoProvisioning
  /\ IF part = "budget" THEN LInv ELSE NoBudget
  /\ IF part = "brackets" THEN BInv ELSE NoBrackets
LEMMA Assumptions ==
  /\ P!ProvisioningAssumption /\ P!NoneAssumption
  /\ L!BudgetAssumption /\ B!BracketAssumption
  BY MappingsAssumption


-----------------------------------------------------------------------------
USE DEF P!None, P!bot, P!exchange, P!pass, P!Goes, P!Fault, P!Signs

\* What the writers do to a row keeps it a row; an address is recorded, and the
\* money stamped, on one that a /copy has made.
\* What the writers do to a row of a /copy keeps it one.
LEMMA CopiedEdits ==
  ASSUME NEW r \in P!Copied
  PROVE  /\ r.known /\ r.addr \in Accounts \cup {P!None} /\ r.alloc \in 1 .. MaxDollars
         /\ [r EXCEPT !.enabled = FALSE] \in P!Copied
         /\ [r EXCEPT !.funded = TRUE] \in P!Copied
         /\ \A a \in Accounts : [r EXCEPT !.addr = a] \in P!Copied
  BY DEF P!Copied, P!Dollars

LEMMA RowFacts ==
  ASSUME NEW r \in P!Row
  PROVE  /\ r.known => r \in P!Copied
         /\ r.enabled => r.known
         /\ r.addr \in Accounts \cup {P!None} /\ r.alloc \in 1 .. MaxDollars
<1>1. P!NoRow.known = FALSE /\ P!NoRow.enabled = FALSE /\ P!NoRow.addr = P!None /\ P!NoRow.alloc = 1
  BY DEF P!NoRow
<1>2. 1 \in 1 .. MaxDollars
  BY Assumptions DEF P!ProvisioningAssumption
<1> QED BY <1>1, <1>2, CopiedEdits DEF P!Row

\* What Register writes is the row of a /copy.
LEMMA RegisteredIsCopied ==
  ASSUME NEW a \in Accounts \cup {P!None}, NEW t \in P!Terms
  PROVE  [known |-> TRUE, enabled |-> TRUE, addr |-> a, funded |-> FALSE,
          alloc |-> t.alloc, stake |-> t.stake] \in P!Copied
  BY DEF P!Copied, P!Terms, P!Dollars

\* What the writers leave: a row a /copy has made stays one.
RowsKept ==
  row' \in [Leaders -> P!Row] /\ \A l \in Leaders : row[l].known => row'[l].known

LEMMA RowWrite ==
  ASSUME row \in [Leaders -> P!Row], NEW l \in Leaders, NEW r \in P!Copied,
         row' = [row EXCEPT ![l] = r]
  PROVE  RowsKept
  BY CopiedEdits DEF P!Row, RowsKept

LEMMA DisableWrites ==
  ASSUME row \in [Leaders -> P!Row], NEW l \in Leaders, row[l].known, P!DisableSub(l)
  PROVE  RowsKept
  BY RowFacts, CopiedEdits, RowWrite DEF P!DisableSub

LEMMA FundedWrites ==
  ASSUME row \in [Leaders -> P!Row], NEW l \in Leaders, row[l].known,
         row' = [row EXCEPT ![l].funded = TRUE]
  PROVE  RowsKept
  BY RowFacts, CopiedEdits, RowWrite

LEMMA AddressWrites ==
  ASSUME row \in [Leaders -> P!Row], NEW l \in Leaders, row[l].known, got \in Accounts,
         row' = [row EXCEPT ![l].addr = got]
  PROVE  RowsKept
  BY RowFacts, CopiedEdits, RowWrite

LEMMA RegisterWrites ==
  ASSUME row \in [Leaders -> P!Row], NEW l \in Leaders, NEW t \in P!Terms, P!Register(l, t)
  PROVE  RowsKept
  BY RowFacts, RegisteredIsCopied, RowWrite DEF P!Register

LEMMA RowStays == row \in [Leaders -> P!Row] /\ row' = row => RowsKept
  BY DEF RowsKept

\* Every value the pass, the bot and the exchange write has its type, and the
\* Leader at work is one whose row a /copy has made.
LEMMA TypesStep ==
  ASSUME P!TypeOK, AtWork, P!Next PROVE P!TypeOK' /\ AtWork'
<1> USE DEF P!TypeOK, AtWork, SubPlaces
<1>0. \A l \in Leaders : row[l].enabled => row[l].known
  BY RowFacts
<1>1. CASE P!Copy
  BY <1>1 DEF P!Copy
<1>2. CASE P!Confirm
  <2>1. PICK l \in Leaders, t \in P!Terms : pending = <<l, t>>
    BY <1>2 DEF P!Confirm
  <2>2. P!Register(l, t) /\ edits' \in 0 .. MaxEdits
    BY <1>2, <2>1, Assumptions DEF P!Confirm, P!ProvisioningAssumption
  <2>4. RowsKept
    BY <2>2, RegisterWrites
  <2> QED BY <1>2, <2>2, <2>4 DEF P!Confirm, RowsKept
<1>3. CASE P!Cancel
  BY <1>3 DEF P!Cancel
<1>4. CASE P!Uncopy
  <2>1. RowsKept
    <3>1. PICK l \in Leaders : row[l].enabled /\ P!DisableSub(l)
      BY <1>4 DEF P!Uncopy
    <3>2. row \in [Leaders -> P!Row] /\ row[l].known
      BY <1>0, <3>1
    <3> QED BY <3>1, <3>2, DisableWrites
  <2> QED BY <1>4, <2>1, Assumptions DEF P!Uncopy, P!ProvisioningAssumption, RowsKept
<1>5. CASE P!SetLimit
  BY <1>5, Assumptions DEF P!SetLimit, P!ProvisioningAssumption
<1>6. CASE P!HaltOrResume
  BY <1>6 DEF P!HaltOrResume
<1>7. CASE P!Trades
  BY <1>7 DEF P!Trades, P!Max0
<1>8. CASE P!ReadMappings
  BY <1>0, <1>8 DEF P!ReadMappings
<1>9. CASE P!Visit
  <2>1. PICK l \in left : /\ cur' = l /\ left' = left \ {l}
              /\ \/ pc' \in {"createGate", "gap"} /\ got' = snap[l].addr /\ row' = row
                    /\ (pc' = "gap" => snap[l].addr # P!None)
                 \/ P!DisableSub(l) /\ pc' = "visit" /\ got' = got
    BY <1>9 DEF P!Visit
  <2>2. RowsKept
    BY <2>1, DisableWrites, RowStays
  <2>3. snap[l].addr \in Accounts \cup {P!None}
    BY <2>1, RowFacts
  <2> QED BY <1>9, <2>1, <2>2, <2>3 DEF P!Visit, RowsKept
<1>10. CASE P!EndPass
  BY <1>10 DEF P!EndPass
<1>11. CASE P!Gate("createGate", "create") \/ P!Gate("renameGate", "rename") \/ P!Gate("fundGate", "fund")
  BY <1>11 DEF P!Gate
<1>12. CASE P!CreateSubAccount
  BY <1>12, Assumptions DEF P!CreateSubAccount, P!ProvisioningAssumption
<1>13. CASE (pc = "record" /\ P!RecordSubAddress("gap")) \/ (pc = "adopted" /\ P!RecordSubAddress("renameGate"))
  <2>1. RowsKept
    BY <1>13, AddressWrites, RowStays DEF P!RecordSubAddress
  <2> QED BY <1>13, <2>1 DEF P!RecordSubAddress, RowsKept
<1>14. CASE P!AdoptOrphanSub
  <2>1. RowsKept
    BY <1>14, DisableWrites, RowStays DEF P!AdoptOrphanSub
  <2>2. got' \in Accounts \cup {P!None} /\ pc' \in {"visit", "adopted"} /\ (pc' = "adopted" => got' \in Accounts)
    BY <1>14 DEF P!AdoptOrphanSub, P!Adoptable
  <2>3. faults' \in 0 .. MaxFaults
    BY <1>14, Assumptions DEF P!AdoptOrphanSub, P!ProvisioningAssumption
  <2>4. /\ pc = "adopt"
        /\ UNCHANGED <<pending, cap, minted, balance, holding, halted, snap, snapCap, left, cur, topup, edits, signedHalted>>
    BY <1>14 DEF P!AdoptOrphanSub
  <2> QED BY <2>1, <2>2, <2>3, <2>4 DEF RowsKept
<1>15. CASE P!RenameAdoptedSub
  BY <1>15 DEF P!RenameAdoptedSub
<1>16. CASE P!FundingGap
  <2>1. got \in Accounts /\ cur \in Leaders /\ balance[got] \in Nat /\ snap[cur].alloc \in Nat
    BY <1>16, RowFacts DEF P!FundingGap
  <2> QED BY <1>16, <2>1, Assumptions DEF P!FundingGap, P!Max0, P!ProvisioningAssumption
<1>17. CASE P!SubAccountTransfer
  BY <1>17, Assumptions DEF P!SubAccountTransfer, P!ProvisioningAssumption
<1>18. CASE P!MarkFunded
  <2>1. RowsKept
    <3>1. row \in [Leaders -> P!Row] /\ cur \in Leaders /\ row[cur].known /\ row' = [row EXCEPT ![cur].funded = TRUE]
      BY <1>18 DEF P!MarkFunded
    <3> QED BY <3>1, FundedWrites
  <2> QED BY <1>18, <2>1 DEF P!MarkFunded, RowsKept
<1>19. CASE P!Crash
  BY <1>19, Assumptions DEF P!Crash, P!ProvisioningAssumption
<1> HIDE DEF P!TypeOK, AtWork, P!None, P!bot, P!exchange, P!pass, P!Goes, P!Fault, P!Signs, SubPlaces
<1>20. CASE P!Executes
  BY <1>8, <1>9, <1>10, <1>11, <1>12, <1>13, <1>14, <1>15, <1>16, <1>17, <1>18, <1>20 DEF P!Executes
<1> QED
  BY <1>20, <1>1, <1>2, <1>3, <1>4, <1>5, <1>6, <1>7, <1>8, <1>9, <1>10, <1>11, <1>12, <1>13, <1>14,
     <1>15, <1>16, <1>17, <1>18, <1>19 DEF P!Next

LEMMA DisableKeepsAddresses ==
  ASSUME row \in [Leaders -> P!Row], NEW l \in Leaders, P!DisableSub(l), row[l].known
  PROVE  \A m \in Leaders : row'[m].addr = row[m].addr
<1>1. row[l] \in P!Copied /\ row' = [row EXCEPT ![l] = [row[l] EXCEPT !.enabled = FALSE]]
  BY RowFacts DEF P!DisableSub
<1>2. [row[l] EXCEPT !.enabled = FALSE].addr = row[l].addr
  BY <1>1 DEF P!Copied
<1> QED BY <1>1, <1>2

\* The addresses: a sub-account is given to one Leader.
LEMMA SubsStep ==
  ASSUME P!TypeOK, AtWork, AddressesStand, Unclaimed, P!OneLeaderPerSub, P!Next
  PROVE  AddressesStand' /\ Unclaimed' /\ P!OneLeaderPerSub'
<1> USE DEF P!TypeOK, AtWork, AddressesStand, Unclaimed, P!OneLeaderPerSub, P!Mapped,
            CreatePlaces, SubPlaces
<1>1. CASE P!Copy \/ P!Cancel \/ P!SetLimit \/ P!HaltOrResume \/ P!Trades \/ P!EndPass \/ P!Crash
  BY <1>1 DEF P!Copy, P!Cancel, P!SetLimit, P!HaltOrResume, P!Trades, P!EndPass, P!Crash
<1>2. CASE P!Confirm
  BY <1>2 DEF P!Confirm, P!Register
<1>3. CASE P!Uncopy
  BY <1>3 DEF P!Uncopy, P!DisableSub
<1>4. CASE P!ReadMappings
  BY <1>4 DEF P!ReadMappings
<1>5. CASE P!Visit
  <2>1. PICK l \in left : /\ cur' = l /\ left' = left \ {l}
              /\ \/ pc' = (IF snap[l].addr = P!None THEN "createGate" ELSE "gap") /\ row' = row
                 \/ P!DisableSub(l) /\ pc' = "visit"
    BY <1>5 DEF P!Visit
  <2>2. \A m \in Leaders : row'[m].addr = row[m].addr
    BY <2>1, DisableKeepsAddresses
  <2>3. minted' = minted /\ snap' = snap /\ pc' \notin {"record", "adopted"}
    BY <1>5, <2>1 DEF P!Visit
  <2>4. AddressesStand'
    BY <2>1, <2>2, <2>3
  <2> QED BY <2>2, <2>3, <2>4
<1>6. CASE P!Gate("createGate", "create") \/ P!Gate("renameGate", "rename") \/ P!Gate("fundGate", "fund")
  BY <1>6 DEF P!Gate
<1>7. CASE P!CreateSubAccount
  BY <1>7 DEF P!CreateSubAccount
<1>8. CASE (pc = "record" /\ P!RecordSubAddress("gap")) \/ (pc = "adopted" /\ P!RecordSubAddress("renameGate"))
  <2>1. /\ cur \in Leaders \ left /\ row[cur].addr = P!None /\ got \in minted \ P!Mapped
        /\ row' = [row EXCEPT ![cur].addr = got]
        /\ pc' \in {"gap", "renameGate"} /\ UNCHANGED <<minted, snap, left, cur, got>>
    BY <1>8 DEF P!RecordSubAddress
  <2>2. row'[cur].addr = got /\ \A m \in Leaders \ {cur} : row'[m] = row[m]
    <3>1. row[cur] \in P!Copied
      BY <1>8, <2>1, RowFacts
    <3> QED BY <2>1, <3>1 DEF P!Copied
  <2>3. got \in Accounts /\ \A m \in Leaders : row[m].addr # got
    BY <2>1, Assumptions DEF P!NoneAssumption
  <2>4. AddressesStand'
    BY <2>1, <2>2
  <2>5. P!OneLeaderPerSub'
    BY <2>2, <2>3
  <2>6. Unclaimed'
    BY <2>1, <2>2
  <2> QED BY <2>4, <2>5, <2>6
<1>9. CASE P!AdoptOrphanSub
  <2>1. \A m \in Leaders : row'[m].addr = row[m].addr
    BY <1>9, DisableKeepsAddresses DEF P!AdoptOrphanSub
  <2>2. pc' = "visit" \/ (pc' = "adopted" /\ got' \in minted \ P!Mapped)
    BY <1>9 DEF P!AdoptOrphanSub, P!Adoptable
  <2>3. pc = "adopt" /\ UNCHANGED <<minted, snap, left, cur>>
    BY <1>9 DEF P!AdoptOrphanSub
  <2> QED BY <2>1, <2>2, <2>3
<1>10. CASE P!RenameAdoptedSub
  BY <1>10 DEF P!RenameAdoptedSub
<1>11. CASE P!FundingGap
  BY <1>11 DEF P!FundingGap
<1>12. CASE P!SubAccountTransfer
  BY <1>12 DEF P!SubAccountTransfer
<1>13. CASE P!MarkFunded
  BY <1>13 DEF P!MarkFunded
<1> HIDE DEF P!TypeOK, AtWork, AddressesStand, Unclaimed, P!OneLeaderPerSub
<1> QED
  BY <1>1, <1>2, <1>3, <1>4, <1>5, <1>6, <1>7, <1>8, <1>9, <1>10, <1>11, <1>12, <1>13
  DEF P!Next, P!Executes

\* The money: what a transfer adds was asked for under the largest allocation.
LEMMA MoneyStep ==
  ASSUME P!TypeOK, AtWork, TransferFits, P!NeverStacked, P!Next
  PROVE  TransferFits' /\ P!NeverStacked'
<1> USE DEF P!TypeOK, AtWork, TransferFits, P!NeverStacked, SubPlaces
<1>1. CASE P!Copy \/ P!Confirm \/ P!Cancel \/ P!Uncopy \/ P!SetLimit \/ P!HaltOrResume
           \/ P!ReadMappings \/ P!Visit \/ P!EndPass \/ P!CreateSubAccount \/ P!AdoptOrphanSub
           \/ P!RenameAdoptedSub \/ P!MarkFunded \/ P!Crash
           \/ P!RecordSubAddress("gap") \/ P!RecordSubAddress("renameGate")
           \/ P!Gate("createGate", "create") \/ P!Gate("renameGate", "rename")
  <2>1. balance' = balance
    BY <1>1 DEF P!Copy, P!Confirm, P!Cancel, P!Uncopy, P!SetLimit, P!HaltOrResume, P!ReadMappings,
      P!Visit, P!EndPass, P!CreateSubAccount, P!AdoptOrphanSub, P!RenameAdoptedSub, P!MarkFunded,
      P!Crash, P!RecordSubAddress, P!Gate
  <2>2. pc' \notin {"fundGate", "fund"} \/ UNCHANGED <<pc, got, topup>>
    BY <1>1 DEF P!Copy, P!Confirm, P!Cancel, P!Uncopy, P!SetLimit, P!HaltOrResume, P!ReadMappings,
      P!Visit, P!EndPass, P!CreateSubAccount, P!AdoptOrphanSub, P!RenameAdoptedSub, P!MarkFunded,
      P!Crash, P!RecordSubAddress, P!Gate
  <2> QED BY <2>1, <2>2
<1>2. CASE P!Trades
  <2>1. UNCHANGED <<pc, got, topup>> /\ \A a \in Accounts : balance'[a] <= balance[a]
    BY <1>2 DEF P!Trades, P!Max0
  <2>2. \A a \in Accounts : balance[a] \in Nat /\ balance'[a] \in Nat
    BY <1>2 DEF P!Trades, P!Max0
  <2> QED BY <2>1, <2>2, Assumptions DEF P!ProvisioningAssumption
<1>3. CASE P!FundingGap
  <2>1. got \in Accounts /\ cur \in Leaders /\ balance[got] \in Nat /\ snap[cur].alloc \in 1 .. MaxDollars
    BY <1>3, RowFacts DEF P!FundingGap
  <2>2. UNCHANGED <<balance, got>>
        /\ \/ topup' = P!Max0(snap[cur].alloc - balance[got])
              /\ pc' = (IF topup' = 0 THEN "mark" ELSE "fundGate")
           \/ pc' = "visit"
    BY <1>3 DEF P!FundingGap
  <2> QED BY <2>1, <2>2, Assumptions DEF P!Max0, P!ProvisioningAssumption
<1>4. CASE P!Gate("fundGate", "fund")
  BY <1>4 DEF P!Gate
<1>5. CASE P!SubAccountTransfer
  BY <1>5 DEF P!SubAccountTransfer
<1> HIDE DEF P!TypeOK, AtWork, TransferFits, P!NeverStacked
<1> QED
  BY <1>1, <1>2, <1>3, <1>4, <1>5 DEF P!Next, P!Executes

\* The signatures: each place that signs is entered through its gate, past
\* which no halt stands, and left by the signature.
LEMMA SignatureStep ==
  ASSUME P!TypeOK, GateSpends, P!OneSignatureUnderHalt, P!Next
  PROVE  GateSpends' /\ P!OneSignatureUnderHalt'
<1> USE DEF P!TypeOK, GateSpends, P!OneSignatureUnderHalt, SignPlaces
<1>1. CASE P!Copy \/ P!Confirm \/ P!Cancel \/ P!Uncopy \/ P!SetLimit \/ P!Trades
           \/ P!ReadMappings \/ P!Visit \/ P!EndPass \/ P!AdoptOrphanSub \/ P!FundingGap
           \/ P!MarkFunded \/ P!Crash
           \/ P!RecordSubAddress("gap") \/ P!RecordSubAddress("renameGate")
  <2>1. UNCHANGED <<halted, signedHalted>>
    BY <1>1 DEF P!Copy, P!Confirm, P!Cancel, P!Uncopy, P!SetLimit, P!Trades, P!ReadMappings,
      P!Visit, P!EndPass, P!AdoptOrphanSub, P!FundingGap, P!MarkFunded, P!Crash, P!RecordSubAddress
  <2>2. pc' \notin SignPlaces \/ pc' = pc
    BY <1>1 DEF P!Copy, P!Confirm, P!Cancel, P!Uncopy, P!SetLimit, P!Trades, P!ReadMappings,
      P!Visit, P!EndPass, P!AdoptOrphanSub, P!FundingGap, P!MarkFunded, P!Crash, P!RecordSubAddress
  <2> QED BY <2>1, <2>2
<1>2. CASE P!HaltOrResume
  BY <1>2 DEF P!HaltOrResume
<1>3. CASE P!Gate("createGate", "create") \/ P!Gate("renameGate", "rename") \/ P!Gate("fundGate", "fund")
  BY <1>3 DEF P!Gate
<1>4. CASE P!CreateSubAccount
  BY <1>4 DEF P!CreateSubAccount
<1>5. CASE P!RenameAdoptedSub
  BY <1>5 DEF P!RenameAdoptedSub
<1>6. CASE P!SubAccountTransfer
  BY <1>6 DEF P!SubAccountTransfer
<1> HIDE DEF P!TypeOK, GateSpends, P!OneSignatureUnderHalt
<1> QED
  BY <1>1, <1>2, <1>3, <1>4, <1>5, <1>6 DEF P!Next, P!Executes

\* The instance's counts are the library's.
LEMMA SameFinite ==
  ASSUME NEW S PROVE P!IsFiniteSet(S) <=> IsFiniteSet(S)
  BY DEF P!IsFiniteSet, IsFiniteSet

LEMMA SameCardinality ==
  ASSUME NEW S PROVE P!Cardinality(S) = Cardinality(S)
  BY DEF P!Cardinality, Cardinality

LEMMA Counts ==
  ASSUME P!TypeOK, Unclaimed
  PROVE  /\ IsFiniteSet(minted \ Orphans) /\ Cardinality(minted \ Orphans) \in Nat
         /\ IsFiniteSet(P!Mapped) /\ Cardinality(P!Mapped) \in Nat /\ faults \in Nat
<1>1. IsFiniteSet(minted)
  BY Assumptions, SameFinite, FS_Subset DEF P!TypeOK, P!ProvisioningAssumption
<1>2. IsFiniteSet(minted \ Orphans) /\ IsFiniteSet(P!Mapped)
  BY <1>1, FS_Subset DEF Unclaimed
<1>3. faults \in Nat
  BY Assumptions DEF P!TypeOK, P!ProvisioningAssumption
<1> QED BY <1>2, <1>3, FS_CardinalityType

\* A step that neither mints nor records, and that leaves the place of the
\* record by a fault.
QuietSlots ==
  /\ minted' = minted /\ \A l \in Leaders : row'[l].addr = row[l].addr
  /\ \/ faults' = faults /\ (pc = "record" => pc' = "record")
     \/ faults' = faults + 1

LEMMA QuietKeepsSlots ==
  ASSUME P!TypeOK, Unclaimed, P!NoSlotWasted, QuietSlots PROVE P!NoSlotWasted'
<1>1. P!Mapped' = P!Mapped
  BY DEF QuietSlots, P!Mapped
<1> QED BY <1>1, Counts, SameCardinality DEF QuietSlots, P!NoSlotWasted

\* The slots: a minted one is recorded, or a fault came between.
LEMMA SlotsStep ==
  ASSUME P!TypeOK, AtWork, AddressesStand, Unclaimed, P!NoSlotWasted, P!Next
  PROVE  P!NoSlotWasted'
<1> USE DEF P!TypeOK, AtWork
<1>1. CASE P!Copy \/ P!Cancel \/ P!SetLimit \/ P!HaltOrResume \/ P!Trades \/ P!EndPass \/ P!Crash
           \/ P!ReadMappings \/ P!RenameAdoptedSub \/ P!FundingGap \/ P!SubAccountTransfer
           \/ P!Gate("createGate", "create") \/ P!Gate("renameGate", "rename")
           \/ P!Gate("fundGate", "fund")
  <2>1. QuietSlots
    BY <1>1 DEF QuietSlots, P!Copy, P!Cancel, P!SetLimit, P!HaltOrResume, P!Trades, P!EndPass, P!Crash,
      P!ReadMappings, P!RenameAdoptedSub, P!FundingGap, P!SubAccountTransfer, P!Gate
  <2> QED BY <2>1, QuietKeepsSlots
<1>2. CASE P!Confirm
  <2>1. PICK l \in Leaders, t \in P!Terms : P!Register(l, t)
    BY <1>2 DEF P!Confirm
  <2>2. \A m \in Leaders : row'[m].addr = row[m].addr
    BY <2>1 DEF P!Register
  <2> QED BY <1>2, <2>2, QuietKeepsSlots DEF QuietSlots, P!Confirm
<1>3. CASE P!Uncopy \/ P!Visit \/ P!MarkFunded
  <2>1. \A m \in Leaders : row'[m].addr = row[m].addr
    <3>1. CASE P!Uncopy
      BY <3>1, RowFacts, DisableKeepsAddresses DEF P!Uncopy
    <3>2. CASE P!Visit
      BY <3>2, DisableKeepsAddresses DEF P!Visit
    <3>3. CASE P!MarkFunded
      <4>1. row[cur] \in P!Copied /\ row' = [row EXCEPT ![cur] = [row[cur] EXCEPT !.funded = TRUE]]
        BY <3>3, RowFacts DEF P!MarkFunded
      <4>2. [row[cur] EXCEPT !.funded = TRUE].addr = row[cur].addr
        BY <4>1 DEF P!Copied
      <4> QED BY <4>1, <4>2
    <3> QED BY <1>3, <3>1, <3>2, <3>3
  <2> QED BY <1>3, <2>1, QuietKeepsSlots DEF QuietSlots, P!Uncopy, P!Visit, P!MarkFunded
<1>4. CASE P!CreateSubAccount
  <2>1. P!Mapped' = P!Mapped /\ pc = "create"
    BY <1>4 DEF P!CreateSubAccount, P!Mapped
  <2>2. CASE minted' = minted
    BY <1>4, <2>2, QuietKeepsSlots DEF QuietSlots, P!CreateSubAccount
  <2>3. CASE minted' # minted
    <3>1. PICK a \in Accounts \ minted : minted' = minted \cup {a}
      BY <1>4, <2>3 DEF P!CreateSubAccount
    <3>2. minted' \ Orphans = (minted \ Orphans) \cup {a} /\ a \notin minted \ Orphans
      BY <3>1 DEF Unclaimed
    <3>3. Cardinality(minted' \ Orphans) = Cardinality(minted \ Orphans) + 1
      <4>1. IsFiniteSet(minted \ Orphans)
        BY Counts
      <4>2. Cardinality((minted \ Orphans) \cup {a}) = Cardinality(minted \ Orphans) + 1
        BY <3>2, <4>1, FS_AddElement
      <4> QED BY <3>2, <4>2
    <3>4. (pc' = "record" /\ faults' = faults) \/ (pc' # "record" /\ faults' = faults + 1)
      BY <1>4, <2>3 DEF P!CreateSubAccount
    <3> QED BY <2>1, <3>3, <3>4, Counts, SameCardinality DEF P!NoSlotWasted
  <2> QED BY <2>2, <2>3
<1>5. CASE (pc = "record" /\ P!RecordSubAddress("gap")) \/ (pc = "adopted" /\ P!RecordSubAddress("renameGate"))
  <2>1. /\ cur \in Leaders /\ row[cur].addr = P!None /\ got \in minted \ P!Mapped
        /\ row' = [row EXCEPT ![cur].addr = got] /\ row[cur] \in P!Copied
        /\ UNCHANGED <<minted, faults>> /\ pc' # "record"
    BY <1>5, RowFacts DEF P!RecordSubAddress, AddressesStand, Unclaimed, CreatePlaces
  <2>2. row'[cur].addr = got /\ \A m \in Leaders \ {cur} : row'[m] = row[m]
    BY <2>1 DEF P!Copied
  <2>3. got # P!None
    BY <2>1, Assumptions DEF P!NoneAssumption
  <2>4. P!Mapped' = P!Mapped \cup {got}
    BY <2>1, <2>2, <2>3 DEF P!Mapped
  <2>5. Cardinality(P!Mapped') = Cardinality(P!Mapped) + 1
    <3>1. IsFiniteSet(P!Mapped) /\ got \notin P!Mapped
      BY <2>1, Counts
    <3>2. Cardinality(P!Mapped \cup {got}) = Cardinality(P!Mapped) + 1
      BY <3>1, FS_AddElement
    <3> QED BY <2>4, <3>2
  <2> QED BY <2>1, <2>5, Counts, SameCardinality DEF P!NoSlotWasted
<1>6. CASE P!AdoptOrphanSub
  <2>1. \A m \in Leaders : row'[m].addr = row[m].addr
    BY <1>6, DisableKeepsAddresses DEF P!AdoptOrphanSub
  <2>2. pc = "adopt" /\ minted' = minted /\ (faults' = faults \/ faults' = faults + 1)
    BY <1>6 DEF P!AdoptOrphanSub
  <2> QED BY <2>1, <2>2, QuietKeepsSlots DEF QuietSlots
<1> HIDE DEF P!TypeOK, AtWork
<1> QED
  BY <1>1, <1>2, <1>3, <1>4, <1>5, <1>6 DEF P!Next, P!Executes

LEMMA ProvisioningStep ==
  ASSUME PInv, P!Next PROVE PInv'
  BY TypesStep, SubsStep, MoneyStep, SignatureStep, SlotsStep DEF PInv

LEMMA ProvisioningStutter ==
  ASSUME PInv, UNCHANGED P!vars PROVE PInv'
  BY DEF PInv, P!vars, P!TypeOK, AtWork, AddressesStand, Unclaimed, TransferFits, GateSpends,
    P!OneLeaderPerSub, P!NoSlotWasted, P!NeverStacked, P!OneSignatureUnderHalt, P!Mapped
-----------------------------------------------------------------------------
LEMMA ProvisioningInit == P!Init => PInv
<1> SUFFICES ASSUME P!Init PROVE PInv
  OBVIOUS
<1> USE DEF P!Init
<1>1. P!NoRow \in P!Row
  BY DEF P!Row
<1>2. P!TypeOK
  <2>1. row \in [Leaders -> P!Row] /\ snap \in [Leaders -> P!Row]
    BY <1>1
  <2>2. cap \in P!Dollars /\ snapCap \in P!Dollars /\ 0 \in 0 .. MaxEdits /\ 0 \in 0 .. MaxFaults
    BY Assumptions DEF P!ProvisioningAssumption, P!Dollars
  <2>3. minted \subseteq Accounts /\ balance \in [Accounts -> Nat]
    BY Assumptions DEF P!ProvisioningAssumption
  <2>4. pending \in {<<>>} \cup {<<l, t>> : l \in Leaders, t \in P!Terms}
    OBVIOUS
  <2>5. holding \subseteq minted /\ halted \in BOOLEAN /\ left \subseteq Leaders /\ topup \in Nat
    OBVIOUS
  <2>6. cur \in Leaders \cup {P!None} /\ got \in Accounts \cup {P!None} /\ signedHalted \in 0 .. 2
    OBVIOUS
  <2> QED BY <2>1, <2>2, <2>3, <2>4, <2>5, <2>6 DEF P!TypeOK
<1>3. P!Mapped = {}
  BY DEF P!Mapped, P!NoRow
<1>4. AtWork /\ AddressesStand /\ Unclaimed /\ TransferFits /\ GateSpends
  BY <1>3 DEF AtWork, AddressesStand, Unclaimed, TransferFits, GateSpends, CreatePlaces, SubPlaces
<1>5. P!OneLeaderPerSub /\ P!NeverStacked /\ P!OneSignatureUnderHalt
  BY Assumptions DEF P!OneLeaderPerSub, P!NeverStacked, P!OneSignatureUnderHalt, P!NoRow,
    P!ProvisioningAssumption
<1>6. P!NoSlotWasted
  <2>1. minted \ Orphans = {}
    OBVIOUS
  <2>2. P!Cardinality(minted \ Orphans) = 0 /\ P!Cardinality(P!Mapped) = 0
    BY <1>3, <2>1, FS_EmptySet, SameCardinality
  <2> QED BY <2>2 DEF P!NoSlotWasted
<1> QED BY <1>2, <1>4, <1>5, <1>6 DEF PInv
-----------------------------------------------------------------------------
USE DEF L!Goes, L!Fault, L!EndsCycle, L!venue, L!bounds

LEMMA Naturals ==
  /\ Alloc \in Nat /\ Budgets \subseteq Nat /\ Worths \subseteq Nat
  /\ MaxReissues \in Nat /\ MaxFaults \in Nat /\ MaxPlaced \in Nat
  BY Assumptions DEF L!BudgetAssumption, B!BracketAssumption

\* What the writers do to a row keeps it a row.
LEMMA BudgetRowEdits ==
  ASSUME NEW r \in L!Row
  PROVE  /\ [r EXCEPT !.enabled = FALSE] \in L!Row
         /\ [r EXCEPT !.funded = TRUE] \in L!Row
         /\ \A n \in Nat, t \in L!Instant : [r EXCEPT !.base = n, !.armed = t] \in L!Row
         /\ \A w, b \in L!Instant :
              [r EXCEPT !.warned = L!Kept(@, w), !.breached = L!Kept(@, b)] \in L!Row
<1> USE DEF L!Row
<1>1. [r EXCEPT !.enabled = FALSE] \in L!Row /\ [r EXCEPT !.funded = TRUE] \in L!Row
  OBVIOUS
<1>2. ASSUME NEW n \in Nat, NEW t \in L!Instant
      PROVE  [r EXCEPT !.base = n, !.armed = t] \in L!Row
  OBVIOUS
<1>3. ASSUME NEW w \in L!Instant, NEW b \in L!Instant
      PROVE  [r EXCEPT !.warned = L!Kept(@, w), !.breached = L!Kept(@, b)] \in L!Row
  BY DEF L!Kept
<1> QED BY <1>1, <1>2, <1>3

\* The notices and the marks: who sets a mark tells of it, and who clears one
\* forgets the telling.
LEMMA MarksStep ==
  ASSUME L!TypeOK, CycleHasRow, L!EditWins, MarksRead, MarkedOnceTold, L!Next
  PROVE  L!EditWins' /\ MarksRead' /\ MarkedOnceTold'
<1> USE DEF L!EditWins, MarksRead, MarkedOnceTold
<1>0. /\ mapping \in L!Row /\ edits \in Nat /\ L!Now \in Nat \ {0}
      /\ told \in [warn : Nat, breach : Nat, disable : Nat]
  BY Naturals DEF L!TypeOK, L!Now
<1>1. CASE L!Copy
  BY <1>0, <1>1 DEF L!Copy, L!ReenableSub, L!Nothing, L!Row
<1>2. CASE L!Uncopy
  BY <1>0, <1>2 DEF L!Uncopy, L!Row
<1>3. CASE L!HaltOrResume \/ L!Market \/ L!ClosedByHand \/ L!ReadState \/ L!JudgesNothing
           \/ L!HaltGate \/ L!CancelStrayBrackets \/ L!NothingToClose \/ L!Entry \/ L!Exit
           \/ L!NoEvent \/ L!Crash
  <2>1. UNCHANGED <<mapping, told, judgedFor>>
    BY <1>3 DEF L!HaltOrResume, L!Market, L!ClosedByHand, L!ReadState, L!JudgesNothing, L!HaltGate,
      L!CancelStrayBrackets, L!NothingToClose, L!Entry, L!Exit, L!NoEvent, L!Crash
  <2>2. pc' = "idle" \/ judged' = mapping \/ (pc # "idle" /\ judged' = judged)
        \/ (pc' = pc /\ judged' = judged)
    BY <1>3 DEF L!HaltOrResume, L!Market, L!ClosedByHand, L!ReadState, L!JudgesNothing, L!HaltGate,
      L!CancelStrayBrackets, L!NothingToClose, L!Entry, L!Exit, L!NoEvent, L!Crash
  <2> QED BY <2>1, <2>2
<1>4. CASE L!ArmLossBudget
  <2>1. judged \in L!Row
    BY <1>4 DEF CycleHasRow, L!ArmLossBudget
  <2> QED BY <1>0, <1>4, <2>1 DEF L!ArmLossBudget, L!Row
<1>5. CASE L!RecordBudgetSpend
  <2>1. judged \in L!Row
    BY <1>5 DEF CycleHasRow, L!RecordBudgetSpend
  <2>2. CASE L!SameTerms
    <3>1. PICK w \in {0, L!Now}, b \in {0, L!Now}, n \in {0, 1} :
            /\ w # 0 => judged.warned = 0
            /\ b # 0 => judged.breached = 0
            /\ n # 0 => w # 0
            /\ mapping' = [mapping EXCEPT !.warned = L!Kept(@, w), !.breached = L!Kept(@, b)]
            /\ judged' = [judged EXCEPT !.warned = L!Kept(@, w), !.breached = L!Kept(@, b)]
            /\ told' = [told EXCEPT !.breach = @ + (IF b # 0 THEN 1 ELSE 0), !.warn = @ + n]
            /\ judgedFor' = IF b # 0 THEN judged.budget ELSE judgedFor
      <4> DEFINE loss == L!Loss(judged.base, okIn, state.equity)
                 spent == L!Spent(loss, judged.budget)
                 w == IF (L!Warned(loss, judged.budget) \/ spent) /\ judged.warned = 0 THEN L!Now ELSE 0
                 b == IF spent /\ judged.breached = 0 THEN L!Now ELSE 0
                 n == IF w # 0 /\ ~spent THEN 1 ELSE 0
      <4>1. /\ mapping' = [mapping EXCEPT !.warned = L!Kept(@, w), !.breached = L!Kept(@, b)]
            /\ judged' = [judged EXCEPT !.warned = L!Kept(@, w), !.breached = L!Kept(@, b)]
            /\ told' = [told EXCEPT !.breach = @ + (IF b # 0 THEN 1 ELSE 0), !.warn = @ + n]
            /\ judgedFor' = IF b # 0 THEN judged.budget ELSE judgedFor
        BY <1>5, <2>2 DEF L!RecordBudgetSpend, L!Informed
      <4>2. /\ w \in {0, L!Now} /\ b \in {0, L!Now} /\ n \in {0, 1}
            /\ (w # 0 => judged.warned = 0) /\ (b # 0 => judged.breached = 0) /\ (n # 0 => w # 0)
        OBVIOUS
      <4> HIDE DEF w, b, n
      <4> QED BY <4>1, <4>2
    <3>2. /\ mapping'.warned = L!Kept(mapping.warned, w) /\ mapping'.breached = L!Kept(mapping.breached, b)
          /\ mapping'.enabled = mapping.enabled /\ mapping'.budget = mapping.budget
      BY <1>0, <3>1 DEF L!Row
    <3>3. judged'.warned = L!Kept(judged.warned, w) /\ judged'.breached = L!Kept(judged.breached, b)
      BY <2>1, <3>1 DEF L!Row
    <3>4. /\ told'.warn = told.warn + n /\ told'.breach = told.breach + (IF b # 0 THEN 1 ELSE 0)
          /\ told'.disable = told.disable
      BY <1>0, <3>1
    <3>5. judged.budget = mapping.budget /\ pc = "judge"
      BY <1>5, <2>2 DEF L!SameTerms, L!RecordBudgetSpend
    <3>6. L!EditWins'
      BY <1>0, <3>1, <3>2, <3>5 DEF L!Kept
    <3>7. MarksRead'
      BY <1>0, <3>1, <3>2, <3>3, <3>5 DEF L!Kept
    <3>8. MarkedOnceTold'
      BY <1>0, <3>1, <3>2, <3>4, <3>5 DEF L!Kept
    <3> QED BY <3>6, <3>7, <3>8
  <2>3. CASE ~L!SameTerms
    BY <1>5, <2>3 DEF L!RecordBudgetSpend
  <2> QED BY <2>2, <2>3
<1>6. CASE L!DisableForSpentBudget
  <2>1. judged \in L!Row
    BY <1>6 DEF CycleHasRow, L!DisableForSpentBudget
  <2> QED BY <1>0, <1>6, <2>1 DEF L!DisableForSpentBudget, L!Row
<1>7. CASE L!TopUp
  BY <1>0, <1>7 DEF L!TopUp, L!Row
<1> HIDE DEF L!EditWins, MarksRead, MarkedOnceTold
<1> QED BY <1>1, <1>2, <1>3, <1>4, <1>5, <1>6, <1>7 DEF L!Next, L!Cycle

\* Nothing of ours comes back between the cancel of a stray trigger and the disable.
LEMMA NothingLeftStep ==
  ASSUME NothingLeft, L!Next PROVE NothingLeft'
  BY DEF NothingLeft, L!Next, L!Cycle, L!Copy, L!Uncopy, L!HaltOrResume, L!Market, L!ClosedByHand,
    L!ReadState, L!ArmLossBudget, L!RecordBudgetSpend, L!JudgesNothing, L!HaltGate,
    L!CancelStrayBrackets, L!FlatAndSpent, L!NothingToClose, L!DisableForSpentBudget, L!TopUp,
    L!Entry, L!Exit, L!NoEvent, L!Crash

\* The rows, the operator's and the cycle's.
LEMMA RowsStep ==
  ASSUME L!TypeOK, CycleHasRow, L!Next
  PROVE  mapping' \in L!Row /\ judged' \in L!Row \cup {L!NoRow} /\ CycleHasRow'
<1> USE DEF CycleHasRow
<1>0. /\ mapping \in L!Row /\ judged \in L!Row \cup {L!NoRow}
      /\ 0 \in L!Instant /\ edits \in 0 .. MaxReissues /\ L!Now \in L!Instant
  BY Naturals DEF L!TypeOK, L!Instant, L!Now
<1>1. CASE L!Copy
  BY <1>0, <1>1, Naturals DEF L!Copy, L!ReenableSub, L!Row
<1>2. CASE L!Uncopy
  BY <1>0, <1>2, BudgetRowEdits DEF L!Uncopy
<1>3. CASE L!HaltOrResume \/ L!Market \/ L!ClosedByHand \/ L!ReadState \/ L!JudgesNothing
           \/ L!HaltGate \/ L!CancelStrayBrackets \/ L!NothingToClose \/ L!Entry \/ L!Exit
           \/ L!NoEvent \/ L!Crash
  <2>1. mapping' = mapping
    BY <1>3 DEF L!HaltOrResume, L!Market, L!ClosedByHand, L!ReadState, L!JudgesNothing, L!HaltGate,
      L!CancelStrayBrackets, L!NothingToClose, L!Entry, L!Exit, L!NoEvent, L!Crash
  <2>2. (pc' = "idle" /\ judged' = L!NoRow) \/ judged' = mapping
        \/ (pc # "idle" /\ judged' = judged) \/ (pc' = pc /\ judged' = judged)
    BY <1>3 DEF L!HaltOrResume, L!Market, L!ClosedByHand, L!ReadState, L!JudgesNothing, L!HaltGate,
      L!CancelStrayBrackets, L!NothingToClose, L!Entry, L!Exit, L!NoEvent, L!Crash
  <2> QED BY <1>0, <2>1, <2>2
<1>4. CASE L!ArmLossBudget
  <2>1. judged \in L!Row /\ state.equity \in Nat
    BY <1>4 DEF L!ArmLossBudget, L!TypeOK, L!Seen
  <2>2. \/ mapping' = mapping /\ judged' = judged
        \/ /\ mapping' = [mapping EXCEPT !.base = state.equity, !.armed = L!Now]
           /\ judged' = [judged EXCEPT !.base = state.equity, !.armed = L!Now]
    BY <1>4 DEF L!ArmLossBudget
  <2>3. mapping' \in L!Row /\ judged' \in L!Row
    <3>1. CASE mapping' = mapping /\ judged' = judged
      BY <1>0, <2>1, <3>1
    <3>2. CASE mapping' = [mapping EXCEPT !.base = state.equity, !.armed = L!Now]
      <4>1. mapping' \in L!Row
        BY <1>0, <2>1, <3>2 DEF L!Row
      <4>2. judged' \in L!Row
        BY <1>0, <2>1, <2>2 DEF L!Row
      <4> QED BY <4>1, <4>2
    <3> QED BY <2>2, <3>1, <3>2
  <2> QED BY <2>3
<1>5. CASE L!RecordBudgetSpend
  <2>1. judged \in L!Row
    BY <1>5 DEF L!RecordBudgetSpend
  <2>2. CASE L!SameTerms
    <3>1. PICK w, b \in L!Instant :
            /\ mapping' = [mapping EXCEPT !.warned = L!Kept(@, w), !.breached = L!Kept(@, b)]
            /\ judged' = [judged EXCEPT !.warned = L!Kept(@, w), !.breached = L!Kept(@, b)]
      BY <1>0, <1>5, <2>2 DEF L!RecordBudgetSpend, L!Informed
    <3> QED BY <1>0, <2>1, <3>1, BudgetRowEdits
  <2>3. CASE ~L!SameTerms
    BY <1>0, <1>5, <2>1, <2>3 DEF L!RecordBudgetSpend
  <2> QED BY <2>2, <2>3
<1>6. CASE L!DisableForSpentBudget
  <2>1. judged \in L!Row
    BY <1>6 DEF L!DisableForSpentBudget
  <2> QED BY <1>0, <1>6, <2>1, BudgetRowEdits DEF L!DisableForSpentBudget
<1>7. CASE L!TopUp
  <2>1. judged \in L!Row /\ judged' = judged /\ (mapping' = mapping \/ mapping' = [mapping EXCEPT !.funded = TRUE])
    BY <1>7 DEF L!TopUp
  <2> QED BY <1>0, <2>1, BudgetRowEdits
<1> HIDE DEF CycleHasRow
<1> QED BY <1>1, <1>2, <1>3, <1>4, <1>5, <1>6, <1>7 DEF L!Next, L!Cycle

\* The venue's numbers, the answers and the notices.
LEMMA BudgetTypesStep ==
  ASSUME L!TypeOK, CycleHasRow, L!Next PROVE L!TypeOK'
<1>0. mapping' \in L!Row /\ judged' \in L!Row \cup {L!NoRow}
  BY RowsStep
<1>1. /\ equity' \in Nat /\ okIn' \in Nat /\ lostIn' \in Nat
      /\ held' \in BOOLEAN /\ stray' \in BOOLEAN /\ spared' \in BOOLEAN /\ live' \in BOOLEAN /\ halted' \in BOOLEAN
  <2> USE DEF L!TypeOK
  <2>0. /\ equity \in Nat /\ okIn \in Nat /\ lostIn \in Nat
        /\ held \in BOOLEAN /\ stray \in BOOLEAN /\ spared \in BOOLEAN /\ live \in BOOLEAN /\ halted \in BOOLEAN
    OBVIOUS
  <2> HIDE DEF L!TypeOK
  <2>1. CASE L!Market
    BY <2>0, <2>1, Naturals DEF L!Market
  <2>2. CASE L!ReadState \/ L!Entry \/ L!Exit \/ L!HaltOrResume \/ L!ClosedByHand \/ L!CancelStrayBrackets
    BY <2>0, <2>2 DEF L!ReadState, L!Entry, L!Exit, L!HaltOrResume, L!ClosedByHand, L!CancelStrayBrackets
  <2>3. CASE L!TopUp
    BY <2>0, <2>3, Naturals DEF L!TopUp, L!Max0
  <2>4. CASE L!Copy \/ L!Uncopy \/ L!ArmLossBudget \/ L!RecordBudgetSpend \/ L!JudgesNothing \/ L!HaltGate
             \/ L!NothingToClose \/ L!DisableForSpentBudget \/ L!NoEvent \/ L!Crash
    BY <2>0, <2>4 DEF L!Copy, L!Uncopy, L!ArmLossBudget, L!RecordBudgetSpend, L!JudgesNothing, L!HaltGate,
      L!NothingToClose, L!DisableForSpentBudget, L!NoEvent, L!Crash
  <2> QED BY <2>1, <2>2, <2>3, <2>4 DEF L!Next, L!Cycle
<1>2. state' \in L!Seen
  <2>1. state \in L!Seen /\ L!Unread \in L!Seen
    BY DEF L!TypeOK, L!Unread, L!Seen
  <2>2. CASE L!ReadState
    <3>1. equity \in Nat /\ held \in BOOLEAN
      BY DEF L!TypeOK
    <3>2. state' = state \/ state' = [read |-> TRUE, equity |-> equity, holding |-> held]
      BY <2>2 DEF L!ReadState
    <3>3. [read |-> TRUE, equity |-> equity, holding |-> held] \in L!Seen
      BY <3>1 DEF L!Seen
    <3> QED BY <2>1, <3>2, <3>3
  <2>3. state' = state \/ state' = L!Unread \/ L!ReadState
    BY DEF L!Next, L!Cycle, L!Copy, L!Uncopy, L!HaltOrResume, L!Market, L!ClosedByHand,
      L!ArmLossBudget, L!RecordBudgetSpend, L!JudgesNothing, L!HaltGate, L!CancelStrayBrackets,
      L!NothingToClose, L!DisableForSpentBudget, L!TopUp, L!Entry, L!Exit, L!NoEvent, L!Crash
  <2> QED BY <2>1, <2>2, <2>3
<1>3. /\ pc' \in {"idle", "judge", "gate", "close", "disable", "provision", "drain"}
      /\ edits' \in 0 .. MaxReissues /\ faults' \in 0 .. MaxFaults
  <2>1. /\ pc \in {"idle", "judge", "gate", "close", "disable", "provision", "drain"}
        /\ edits \in 0 .. MaxReissues /\ faults \in 0 .. MaxFaults
    BY DEF L!TypeOK
  <2>2. pc' = pc \/ pc' \in {"idle", "judge", "gate", "close", "disable", "provision", "drain"}
    BY DEF L!Next, L!Cycle, L!Copy, L!Uncopy, L!HaltOrResume, L!Market, L!ClosedByHand,
      L!ReadState, L!ArmLossBudget, L!RecordBudgetSpend, L!JudgesNothing, L!HaltGate,
      L!CancelStrayBrackets, L!NothingToClose, L!DisableForSpentBudget, L!TopUp, L!Entry, L!Exit,
      L!NoEvent, L!Crash
  <2>3. edits' = edits \/ (edits < MaxReissues /\ edits' = edits + 1)
    BY DEF L!Next, L!Cycle, L!Copy, L!Uncopy, L!HaltOrResume, L!Market, L!ClosedByHand,
      L!ReadState, L!ArmLossBudget, L!RecordBudgetSpend, L!JudgesNothing, L!HaltGate,
      L!CancelStrayBrackets, L!NothingToClose, L!DisableForSpentBudget, L!TopUp, L!Entry, L!Exit,
      L!NoEvent, L!Crash
  <2>4. faults' = faults \/ (faults < MaxFaults /\ faults' = faults + 1)
    BY DEF L!Next, L!Cycle, L!Copy, L!Uncopy, L!HaltOrResume, L!Market, L!ClosedByHand,
      L!ReadState, L!ArmLossBudget, L!RecordBudgetSpend, L!JudgesNothing, L!HaltGate,
      L!CancelStrayBrackets, L!NothingToClose, L!DisableForSpentBudget, L!TopUp, L!Entry, L!Exit,
      L!NoEvent, L!Crash
  <2> QED BY <2>1, <2>2, <2>3, <2>4, Naturals
<1>4. told' \in [warn : Nat, breach : Nat, disable : Nat] /\ judgedFor' \in Budgets \cup {0}
  <2>0. told \in [warn : Nat, breach : Nat, disable : Nat] /\ judgedFor \in Budgets \cup {0}
    BY DEF L!TypeOK
  <2>1. CASE L!Copy
    BY <2>0, <2>1 DEF L!Copy, L!ReenableSub, L!Nothing
  <2>2. CASE L!RecordBudgetSpend
    <3>1. judged.budget \in Budgets
      BY <2>2 DEF CycleHasRow, L!RecordBudgetSpend, L!Row
    <3>2. PICK m \in {0, 1}, n \in {0, 1} :
            told' = told \/ told' = [told EXCEPT !.breach = @ + m, !.warn = @ + n]
      BY <2>2 DEF L!RecordBudgetSpend
    <3>3. judgedFor' = judgedFor \/ judgedFor' = judged.budget
      BY <2>2 DEF L!RecordBudgetSpend
    <3>4. [told EXCEPT !.breach = @ + m, !.warn = @ + n] \in [warn : Nat, breach : Nat, disable : Nat]
      <4>1. told.breach + m \in Nat /\ told.warn + n \in Nat
        BY <2>0
      <4>2. \A x, y \in Nat : [told EXCEPT !.breach = x, !.warn = y] \in [warn : Nat, breach : Nat, disable : Nat]
        BY <2>0
      <4> QED BY <4>1, <4>2
    <3> QED BY <2>0, <3>1, <3>2, <3>3, <3>4
  <2>3. CASE L!DisableForSpentBudget
    BY <2>0, <2>3 DEF L!DisableForSpentBudget
  <2>4. (told' = told /\ judgedFor' = judgedFor) \/ L!Copy \/ L!RecordBudgetSpend \/ L!DisableForSpentBudget
    BY DEF L!Next, L!Cycle, L!Uncopy, L!HaltOrResume, L!Market, L!ClosedByHand,
      L!ReadState, L!ArmLossBudget, L!JudgesNothing, L!HaltGate, L!CancelStrayBrackets,
      L!NothingToClose, L!TopUp, L!Entry, L!Exit, L!NoEvent, L!Crash
  <2> QED BY <2>0, <2>1, <2>2, <2>3, <2>4
<1> QED BY <1>0, <1>1, <1>2, <1>3, <1>4 DEF L!TypeOK
-----------------------------------------------------------------------------
USE DEF B!Goes, B!Fault, B!exchange, B!books

\* What vanished stays vanished, and what took it is what the fills will say.
LEMMA BracketsStep ==
  ASSUME BInv, B!Next PROVE BInv'
<1> USE DEF BInv, Vanished, B!LiquidationNotByHand
<1>1. B!TypeOK'
  <2> USE DEF B!TypeOK
  <2>1. CASE B!PositionVanishes
    BY <2>1 DEF B!PositionVanishes, B!Vanishes
  <2>2. CASE B!LegCancelled
    BY <2>2, Naturals DEF B!LegCancelled
  <2>3. CASE B!HaltOrResume
    BY <2>3 DEF B!HaltOrResume
  <2>4. CASE B!Sweep
    BY <2>4 DEF B!Sweep
  <2>5. CASE B!IntervalPasses
    BY <2>5 DEF B!IntervalPasses
  <2>6. CASE B!ReadState
    BY <2>6 DEF B!ReadState
  <2>7. CASE B!ClassifyVanished
    <3>1. faults' \in 0 .. MaxFaults + 1
      BY <2>7, Naturals DEF B!ClassifyVanished
    <3>2. /\ reason' \in {"live", "bracket", "liquidated", "operator", "leader_close"}
          /\ paged' \in BOOLEAN /\ mine' = mine
      BY <2>7 DEF B!ClassifyVanished, B!EndEpisode
    <3> QED BY <2>7, <3>1, <3>2 DEF B!ClassifyVanished
  <2>8. CASE B!HaltGate
    BY <2>8 DEF B!HaltGate
  <2>9. CASE B!MaintainBrackets
    <3>1. faults' \in 0 .. MaxFaults + 1
      BY <2>9, Naturals DEF B!MaintainBrackets
    <3>2. due' \in BOOLEAN /\ mine' \subseteq B!Order /\ pc' \in {"drain", "place"}
      BY <2>9 DEF B!MaintainBrackets
    <3> QED BY <2>9, <3>1, <3>2 DEF B!MaintainBrackets
  <2>10. CASE B!PlaceGate
    BY <2>10 DEF B!PlaceGate
  <2>11. CASE B!PlaceBrackets
    <3>1. sent' \in 0 .. MaxPlaced /\ B!Pair(sent') \subseteq B!Order
      BY <2>11, Naturals DEF B!PlaceBrackets, B!Pair, B!Order
    <3> QED BY <2>11, <3>1, Naturals DEF B!PlaceBrackets
  <2>12. CASE B!RecordBrackets
    BY <2>12 DEF B!RecordBrackets
  <2>13. CASE B!NoEvent
    BY <2>13 DEF B!NoEvent
  <2>14. CASE B!ScaleIn
    BY <2>14 DEF B!ScaleIn
  <2>15. CASE B!LeaderExit
    BY <2>15 DEF B!LeaderExit, B!Vanishes, B!EndEpisode
  <2>16. CASE B!Crash
    BY <2>16, Naturals DEF B!Crash
  <2> HIDE DEF B!TypeOK
  <2> QED
    BY <2>1, <2>2, <2>3, <2>4, <2>5, <2>6, <2>7, <2>8, <2>9, <2>10, <2>11, <2>12, <2>13, <2>14,
       <2>15, <2>16 DEF B!Next, B!Cycle
<1>2. Vanished' /\ B!LiquidationNotByHand'
  <2>1. CASE B!PositionVanishes
    BY <2>1 DEF B!PositionVanishes, B!Vanishes
  <2>2. CASE B!LegCancelled \/ B!HaltOrResume \/ B!Sweep \/ B!IntervalPasses \/ B!HaltGate
             \/ B!MaintainBrackets \/ B!PlaceGate \/ B!PlaceBrackets \/ B!RecordBrackets \/ B!NoEvent
             \/ B!ScaleIn \/ B!Crash
    <3>1. UNCHANGED <<held, why, reason>> /\ (pc' = "classify" => pc = "classify")
      BY <2>2 DEF B!LegCancelled, B!HaltOrResume, B!Sweep, B!IntervalPasses, B!HaltGate,
        B!MaintainBrackets, B!PlaceGate, B!PlaceBrackets, B!RecordBrackets, B!NoEvent, B!ScaleIn, B!Crash
    <3> QED BY <3>1
  <2>3. CASE B!ReadState
    BY <2>3 DEF B!ReadState, B!Live
  <2>4. CASE B!ClassifyVanished
    BY <2>4 DEF B!ClassifyVanished, B!EndEpisode
  <2>5. CASE B!LeaderExit
    BY <2>5 DEF B!LeaderExit, B!Vanishes, B!EndEpisode
  <2> HIDE DEF BInv, Vanished, B!LiquidationNotByHand
  <2> QED BY <2>1, <2>2, <2>3, <2>4, <2>5 DEF B!Next, B!Cycle
<1> QED BY <1>1, <1>2
-----------------------------------------------------------------------------
LEMMA BudgetStep ==
  ASSUME LInv, L!Next PROVE LInv'
  BY BudgetTypesStep, RowsStep, MarksStep, NothingLeftStep DEF LInv

LEMMA BudgetStutter ==
  ASSUME LInv, UNCHANGED L!vars PROVE LInv'
  BY DEF LInv, L!vars, L!TypeOK, CycleHasRow, L!EditWins, MarksRead, MarkedOnceTold, NothingLeft

LEMMA BracketsStutter ==
  ASSUME BInv, UNCHANGED B!vars PROVE BInv'
  BY DEF BInv, B!vars, B!TypeOK, Vanished, B!LiquidationNotByHand

LEMMA BudgetInit == L!Init => LInv
<1> SUFFICES ASSUME L!Init PROVE LInv
  OBVIOUS
<1> USE DEF L!Init
<1>1. mapping \in L!Row
  BY Naturals DEF L!Row, L!Instant
<1>2. L!TypeOK
  <2>1. state \in L!Seen
    BY DEF L!Unread, L!Seen
  <2>2. told \in [warn : Nat, breach : Nat, disable : Nat]
    BY DEF L!Nothing
  <2>3. 0 \in 0 .. MaxReissues /\ 0 \in 0 .. MaxFaults
    BY Naturals
  <2>4. {held, stray, spared, live, halted} \subseteq BOOLEAN
    OBVIOUS
  <2> QED BY <1>1, <2>1, <2>2, <2>3, <2>4 DEF L!TypeOK
<1>3. L!EditWins /\ MarkedOnceTold
  BY DEF L!EditWins, MarkedOnceTold, L!Nothing
<1> QED BY <1>2, <1>3 DEF LInv, CycleHasRow, MarksRead, NothingLeft

LEMMA BracketsInit == B!Init => BInv
<1> SUFFICES ASSUME B!Init PROVE BInv
  OBVIOUS
<1> USE DEF B!Init
<1>1. {held, paged, halted, due, saw} \subseteq BOOLEAN
  OBVIOUS
<1>2. 0 \in 0 .. MaxPlaced /\ 0 \in 0 .. MaxFaults + 1
  BY Naturals
<1> QED BY <1>1, <1>2 DEF BInv, B!TypeOK, Vanished, B!LiquidationNotByHand

LEMMA InitMappings == Init => MappingsInv
  BY ProvisioningInit, BudgetInit, BracketsInit DEF Init, MappingsInv

LEMMA NextMappings == MappingsInv /\ [Next]_vars => MappingsInv'
<1> SUFFICES ASSUME MappingsInv, [Next]_vars PROVE MappingsInv'
  OBVIOUS
<1>1. UNCHANGED ofProvisioning /\ NoProvisioning => NoProvisioning'
  BY DEF ofProvisioning, NoProvisioning
<1>2. UNCHANGED ofBudget /\ NoBudget => NoBudget'
  BY DEF ofBudget, NoBudget
<1>3. UNCHANGED ofBrackets /\ NoBrackets => NoBrackets'
  BY DEF ofBrackets, NoBrackets
<1>4. CASE InProvisioning /\ P!Next
  <2>1. PInv'
    BY <1>4, ProvisioningStep DEF InProvisioning, MappingsInv
  <2> QED BY <1>2, <1>3, <1>4, <2>1 DEF InProvisioning, MappingsInv
<1>5. CASE InBudget /\ L!Next
  <2>1. LInv'
    BY <1>5, BudgetStep DEF InBudget, MappingsInv
  <2> QED BY <1>1, <1>3, <1>5, <2>1 DEF InBudget, MappingsInv
<1>6. CASE InBrackets /\ B!Next
  <2>1. BInv'
    BY <1>6, BracketsStep DEF InBrackets, MappingsInv
  <2> QED BY <1>1, <1>2, <1>6, <2>1 DEF InBrackets, MappingsInv
<1>7. CASE UNCHANGED vars
  <2>1. UNCHANGED P!vars /\ UNCHANGED L!vars /\ UNCHANGED B!vars /\ part' = part
    BY <1>7 DEF vars, shared, ofProvisioning, ofBudget, ofBrackets, P!vars, L!vars, B!vars
  <2>2. UNCHANGED ofProvisioning /\ UNCHANGED ofBudget /\ UNCHANGED ofBrackets
    BY <1>7 DEF vars
  <2> QED
    BY <1>1, <1>2, <1>3, <2>1, <2>2, ProvisioningStutter, BudgetStutter, BracketsStutter DEF MappingsInv
<1> QED BY <1>4, <1>5, <1>6, <1>7 DEF Next

\* The inductive invariant of the composition: the three passes of one executor
\* (execute/executor.py run_cycle) each keep theirs.
THEOREM MappingsInvariant == Spec => []MappingsInv
  BY InitMappings, NextMappings, PTL DEF Spec

LEMMA RestIsKept ==
  MappingsInv /\ part # "provisioning" => SubsAreKept
<1> SUFFICES ASSUME MappingsInv, part # "provisioning" PROVE SubsAreKept
  OBVIOUS
<1>1. NoProvisioning
  BY DEF MappingsInv
<1>2. faults \in Nat
  BY Naturals DEF MappingsInv, LInv, BInv, L!TypeOK, B!TypeOK
<1>3. P!Mapped = {}
  BY <1>1 DEF NoProvisioning, P!Mapped, P!NoRow
<1>4. P!NoSlotWasted
  <2>1. minted \ Orphans = {}
    BY <1>1 DEF NoProvisioning
  <2>2. P!Cardinality(minted \ Orphans) = 0 /\ P!Cardinality(P!Mapped) = 0
    BY <1>3, <2>1, FS_EmptySet, SameCardinality
  <2> QED BY <1>2, <2>2 DEF P!NoSlotWasted
<1> QED
  BY <1>1, <1>4, Assumptions DEF NoProvisioning, SubsAreKept, P!OneLeaderPerSub, P!NeverStacked,
    P!OneSignatureUnderHalt, P!NoRow, P!ProvisioningAssumption

LEMMA SubsFromInv == MappingsInv => SubsAreKept
  BY RestIsKept DEF MappingsInv, PInv, SubsAreKept

\* Whatever is minted, lost, adopted, re-issued or stopped in between
\* (execute/executor.py _provision), no two Leaders share a sub-account, every
\* slot spent answers for a mapping or a fault, no allocation is stacked on
\* another, and a halt sees at most one signature.
THEOREM SubsStayKept == Spec => []SubsAreKept
  BY MappingsInvariant, SubsFromInv, PTL

LEMMA BooksFromInv == MappingsInv => BooksAreTrue
<1> SUFFICES ASSUME MappingsInv PROVE BooksAreTrue
  OBVIOUS
<1>1. L!EditWins
  BY DEF MappingsInv, LInv, NoBudget, L!EditWins, L!NoRow
<1>2. L!ToldOnce
  BY DEF MappingsInv, LInv, L!TypeOK, MarkedOnceTold, NoBudget, L!Nothing, L!ToldOnce
<1>3. B!LiquidationNotByHand
  BY DEF MappingsInv, BInv, NoBrackets, B!LiquidationNotByHand
<1> QED BY <1>1, <1>2, <1>3 DEF BooksAreTrue

\* A standing breach was judged against the number that stands and each notice
\* is told once per number (execute/subs.py record_budget_spend), over any edits,
\* restarts and recoveries; a liquidation is not filed as the operator's doing
\* (execute/executor.py _classify_vanished).
THEOREM BooksStayTrue == Spec => []BooksAreTrue
  BY MappingsInvariant, BooksFromInv, PTL

LEMMA TypesFromInv == MappingsInv => TypesOK
  BY DEF MappingsInv, TypesOK, PInv, LInv, BInv

\* The three modules are typed in every behaviour of the composition: no write of
\* a row, a mark or a book (execute/subs.py) leaves its columns' types.
THEOREM MappingsTypes == Spec => []TypesOK
  BY MappingsInvariant, TypesFromInv, PTL

LEMMA NoOpenWhileWindingDown ==
  MappingsInv /\ [Next]_vars => (~held /\ held' => ~L!WindingDown(mapping))
<1> SUFFICES ASSUME MappingsInv, [Next]_vars, ~held, held' PROVE mapping.breached = 0
  BY DEF L!WindingDown
<1>1. CASE InBudget /\ L!Next
  <2>1. L!Entry
    BY <1>1 DEF L!Next, L!Cycle, L!Copy, L!Uncopy, L!HaltOrResume, L!Market, L!ClosedByHand,
      L!ReadState, L!ArmLossBudget, L!RecordBudgetSpend, L!JudgesNothing, L!HaltGate,
      L!CancelStrayBrackets, L!NothingToClose, L!DisableForSpentBudget, L!TopUp, L!Exit,
      L!NoEvent, L!Crash
  <2>2. LInv
    BY <1>1 DEF InBudget, MappingsInv
  <2> QED BY <2>1, <2>2 DEF L!Entry, L!WindingDown, LInv, MarksRead
<1>2. CASE part # "budget"
  BY <1>2 DEF MappingsInv, NoBudget, L!NoRow
<1>3. CASE UNCHANGED vars
  BY <1>3 DEF vars
<1> QED BY <1>1, <1>2, <1>3 DEF Next, InProvisioning, InBrackets

LEMMA NothingLeftAtDisable ==
  MappingsInv /\ [Next]_vars => (told'.disable > told.disable => ~live /\ (stray => spared))
<1> SUFFICES ASSUME MappingsInv, [Next]_vars, told'.disable > told.disable
             PROVE  ~live /\ (stray => spared)
  OBVIOUS
<1>1. CASE InBudget /\ L!Next
  <2>1. LInv /\ told \in [warn : Nat, breach : Nat, disable : Nat]
    BY <1>1 DEF InBudget, MappingsInv, LInv, L!TypeOK
  <2>2. told' # told
    BY <2>1
  <2>3. CASE L!DisableForSpentBudget
    BY <2>1, <2>3 DEF L!DisableForSpentBudget, LInv, NothingLeft
  <2>4. CASE L!Copy
    BY <2>1, <2>2, <2>4 DEF L!Copy, L!ReenableSub, L!Nothing
  <2>5. CASE L!RecordBudgetSpend
    <3>1. PICK m, n : told' = told \/ told' = [told EXCEPT !.breach = m, !.warn = n]
      BY <2>5 DEF L!RecordBudgetSpend
    <3>2. told'.disable = told.disable
      BY <2>1, <3>1
    <3> QED BY <2>1, <3>2
  <2> QED
    BY <1>1, <2>2, <2>3, <2>4, <2>5 DEF L!Next, L!Cycle, L!Uncopy, L!HaltOrResume, L!Market, L!ClosedByHand,
      L!ReadState, L!ArmLossBudget, L!JudgesNothing, L!HaltGate, L!CancelStrayBrackets,
      L!NothingToClose, L!TopUp, L!Entry, L!Exit, L!NoEvent, L!Crash
<1>2. CASE InProvisioning \/ InBrackets \/ UNCHANGED vars
  <2>1. told' = told
    BY <1>2 DEF InProvisioning, InBrackets, vars, ofBudget
  <2>2. told.disable \in Nat
    BY DEF MappingsInv, LInv, L!TypeOK, NoBudget, L!Nothing
  <2> QED BY <2>1, <2>2
<1> QED BY <1>1, <1>2 DEF Next

\* From the verdict on no position is opened (execute/executor.py _entry_skip),
\* and the mapping is disabled only flat, with a trigger of ours left on the book
\* only where the exchange answered its cancel and refused it
\* (_cancel_stray_brackets), whatever the cycle read before the verdict.
THEOREM WindDownAlwaysHolds == Spec => WindDownHolds
<1>1. MappingsInv /\ [Next]_vars => [~held /\ held' => ~L!WindingDown(mapping)]_L!vars
  BY NoOpenWhileWindingDown
<1>2. MappingsInv /\ [Next]_vars => [told'.disable > told.disable => ~live /\ (stray => spared)]_L!vars
  BY NothingLeftAtDisable
<1> QED
  BY <1>1, <1>2, MappingsInvariant, PTL DEF Spec, WindDownHolds, L!BreachBinds, L!DisableFollowsCancel
=============================================================================
