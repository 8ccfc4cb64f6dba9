---------------------- MODULE ArcSettlementHistoryProofs ----------------------
(***************************************************************************)
(* Theorems about what led to a state of the gate: what a spender moved,   *)
(* how long a change stood announced, what redemptions cost the proof in   *)
(* force; and that the gate implements ProofBudget.                        *)
(***************************************************************************)
EXTENDS MCArcSettlement, ArcSettlementProofs

USE GateAssumption

\* The history guards nothing: a step with it is a step without.
LEMMA HistoryStep == [HNext]_hvars => [Next]_vars
<1>1. HNext => Next
  BY DEF HNext, Next, TokenNext
<1> QED BY <1>1 DEF hvars

------------------------------------------------------------------------------
(* Approvals. *)

SpentInv ==
    /\ TypeOK
    /\ spent \in [Account -> [Account -> [granted : UInt, amount : Nat]]]
    /\ SpentWithinApproval

LEMMA InitSpent == HInit => SpentInv
<1> SUFFICES ASSUME HInit PROVE SpentInv
  OBVIOUS
<1>1. [granted |-> 0, amount |-> 0] \in [granted : UInt, amount : Nat]
  BY DEF UInt
<1> QED BY <1>1, InitTypeOK DEF HInit, Init, SpentInv, SpentWithinApproval, UInt

LEMMA ApproveSpent ==
    ASSUME SpentInv, TypeOK', NEW caller \in Account, NEW spender \in Account,
           NEW value \in Approval, Approve(caller, spender, value),
           spent' = [spent EXCEPT ![caller][spender] = [granted |-> value, amount |-> 0]]
    PROVE  SpentInv'
<1>1. [granted |-> value, amount |-> 0] \in [granted : UInt, amount : Nat]
  BY DEF UInt
<1>2. spent' \in [Account -> [Account -> [granted : UInt, amount : Nat]]]
  BY <1>1 DEF SpentInv
<1>3. ASSUME NEW a \in Account, NEW s \in Account, spent'[a][s].granted # UINT_MAX
      PROVE  spent'[a][s].amount + allowance'[a][s] = spent'[a][s].granted
  <2>1. allowance' = [allowance EXCEPT ![caller][spender] = value]
    BY DEF Approve
  <2>2. CASE a = caller /\ s = spender
    <3>1. spent'[a][s] = [granted |-> value, amount |-> 0] /\ allowance'[a][s] = value
      BY <2>1, <2>2 DEF SpentInv, TypeOK
    <3> QED BY <3>1 DEF UInt
  <2>3. CASE ~(a = caller /\ s = spender)
    <3>1. spent'[a][s] = spent[a][s] /\ allowance'[a][s] = allowance[a][s]
      BY <2>1, <2>3 DEF SpentInv, TypeOK
    <3> QED BY <1>3, <3>1 DEF SpentInv, SpentWithinApproval
  <2> QED BY <2>2, <2>3
<1> QED BY <1>2, <1>3 DEF SpentInv, SpentWithinApproval

LEMMA DrawSpent ==
    ASSUME SpentInv, TypeOK', NEW caller \in Account, NEW from \in Account,
           NEW to \in Account \cup {ZeroAddress}, NEW amount \in Amount,
           TransferFrom(caller, from, to, amount),
           spent' = IF spent[from][caller].granted = UINT_MAX THEN spent
                    ELSE [spent EXCEPT ![from][caller].amount = @ + amount]
    PROVE  SpentInv'
<1> DEFINE entry == spent[from][caller]
<1>1. /\ amount \in UInt /\ allowance[from][caller] \in UInt
      /\ entry \in [granted : UInt, amount : Nat]
  BY DEF SpentInv, TypeOK
<1>2. [entry EXCEPT !.amount = @ + amount] \in [granted : UInt, amount : Nat]
  BY <1>1 DEF UInt
<1>3. spent' \in [Account -> [Account -> [granted : UInt, amount : Nat]]]
  BY <1>2 DEF SpentInv
<1>4. allowance' = DrawnDown(from, caller, amount) /\ allowance[from][caller] >= amount
  BY DEF TransferFrom
<1>5. ASSUME NEW a \in Account, NEW s \in Account, spent'[a][s].granted # UINT_MAX
      PROVE  spent'[a][s].amount + allowance'[a][s] = spent'[a][s].granted
  <2>1. CASE a = from /\ s = caller
    <3>1. entry.granted # UINT_MAX
      BY <1>5, <2>1, <1>1 DEF SpentInv
    <3>2. /\ entry.amount + allowance[from][caller] = entry.granted
          /\ allowance[from][caller] # UINT_MAX
      BY <3>1, <1>1 DEF SpentInv, SpentWithinApproval, UInt
    <3>3. allowance'[a][s] = Wrap(allowance[from][caller] - amount)
      BY <1>4, <2>1, <3>2 DEF DrawnDown, SpentInv, TypeOK
    <3>4. allowance'[a][s] = allowance[from][caller] - amount
      BY <1>1, <1>4, <3>3, WrapExact
    <3>5. spent'[a][s] = [entry EXCEPT !.amount = @ + amount]
      BY <2>1, <3>1 DEF SpentInv
    <3>6. spent'[a][s].amount = entry.amount + amount /\ spent'[a][s].granted = entry.granted
      BY <1>1, <3>5
    <3> QED BY <1>1, <3>2, <3>4, <3>6 DEF UInt
  <2>2. CASE ~(a = from /\ s = caller)
    <3>1. spent'[a][s] = spent[a][s] /\ allowance'[a][s] = allowance[a][s]
      BY <1>4, <2>2 DEF DrawnDown, SpentInv, TypeOK
    <3> QED BY <1>5, <3>1 DEF SpentInv, SpentWithinApproval
  <2> QED BY <2>1, <2>2
<1> QED BY <1>3, <1>5 DEF SpentInv, SpentWithinApproval

LEMMA NextSpent == SpentInv /\ [HNext]_hvars => SpentInv'
<1> SUFFICES ASSUME SpentInv, [HNext]_hvars PROVE SpentInv'
  OBVIOUS
<1>1. TypeOK'
  BY HistoryStep, NextTypeOK DEF SpentInv
<1>2. ASSUME UNCHANGED <<allowance, spent>> PROVE SpentInv'
  BY <1>1, <1>2 DEF SpentInv, SpentWithinApproval
<1>3. CASE (GateNext \/ AdminNext \/ EnvNext) /\ UNCHANGED spent
  BY <1>2, <1>3 DEF GateNext, Settle, Redeem, AdminNext, SetSettler, ProposeOracle,
     CommitOracle, CancelOracle, TransferOwnership, AcceptOwnership,
     EnvNext, Tick, Publish, Restate, SetStatus, contractVars
<1>4. CASE \E caller \in Account, to \in Account \cup {ZeroAddress}, amount \in Amount :
              Transfer(caller, to, amount) /\ UNCHANGED spent
  BY <1>2, <1>4 DEF Transfer
<1>5. CASE UNCHANGED hvars
  BY <1>2, <1>5 DEF hvars, vars
<1> QED BY <1>1, <1>3, <1>4, <1>5, ApproveSpent, DrawSpent DEF HNext

\* Over any number of calls a spender moves no more than what the holder last approved,
\* and what is left of it is still there (approve, transferFrom).
THEOREM ApprovalsBoundSpending == HSpec => []SpentWithinApproval
<1>1. SpentInv => SpentWithinApproval
  BY DEF SpentInv
<1> QED BY <1>1, InitSpent, NextSpent, PTL DEF HSpec

------------------------------------------------------------------------------
(* Notice. *)

\* A standing proposal matures a whole timelock after it was made.
NoticeInv ==
    /\ TypeOK
    /\ standingSince \in Nat
    /\ proposal # NoProposal => proposal.eta = standingSince + ORACLE_TIMELOCK

LEMMA InitNotice == HInit => NoticeInv
  BY InitTypeOK DEF HInit, Init, NoticeInv

LEMMA NextNotice ==
    ASSUME NoticeInv, [HNext]_hvars
    PROVE  /\ NoticeInv'
           /\ [<<oracle, maxAttestationAge>>' # <<oracle, maxAttestationAge>> =>
                 /\ proposal.oracle = oracle' /\ proposal.maxAge = maxAttestationAge'
                 /\ now - standingSince >= ORACLE_TIMELOCK
                 /\ now - standingSince <= ORACLE_TIMELOCK + ORACLE_PROPOSAL_GRACE]_hvars
<1>1. TypeOK' /\ now \in Nat /\ standingSince \in Nat
  BY HistoryStep, NextTypeOK DEF NoticeInv, TypeOK
<1>2. ASSUME UNCHANGED <<gateVars, standingSince>> PROVE NoticeInv'
  BY <1>1, <1>2 DEF NoticeInv, gateVars
<1>3. CASE UNCHANGED hvars
  BY <1>2, <1>3 DEF hvars, vars
<1>4. CASE RecordProposal /\ UNCHANGED gateVars
  <2>1. UNCHANGED standingSince
    BY <1>4 DEF RecordProposal, gateVars
  <2> QED BY <1>2, <1>4, <2>1 DEF gateVars
<1>5. ASSUME NEW caller \in Account, CommitOracle(caller), RecordProposal
      PROVE  /\ NoticeInv'
             /\ proposal.oracle = oracle' /\ proposal.maxAge = maxAttestationAge'
             /\ now - standingSince >= ORACLE_TIMELOCK
             /\ now - standingSince <= ORACLE_TIMELOCK + ORACLE_PROPOSAL_GRACE
  <2>1. proposal # NoProposal
    BY <1>5 DEF CommitOracle, NoProposal
  <2>2. proposal.eta = standingSince + ORACLE_TIMELOCK
    BY <2>1 DEF NoticeInv
  <2>3. proposal' = NoProposal /\ standingSince' \in Nat
    BY <1>1, <1>5 DEF CommitOracle, RecordProposal
  <2>4. now - standingSince >= ORACLE_TIMELOCK
        /\ now - standingSince <= ORACLE_TIMELOCK + ORACLE_PROPOSAL_GRACE
    BY <1>1, <1>5, <2>2 DEF CommitOracle, Matured
  <2> QED BY <1>1, <1>5, <2>3, <2>4 DEF CommitOracle, NoticeInv
<1>6. ASSUME NEW caller \in Account, CancelOracle(caller), RecordProposal
      PROVE  NoticeInv' /\ UNCHANGED <<oracle, maxAttestationAge>>
  BY <1>1, <1>6 DEF CancelOracle, RecordProposal, NoticeInv
<1>7. ASSUME NEW caller \in Account, NEW next \in Oracle \cup {ZeroAddress},
             NEW maxAge \in MaxAgeArg, ProposeOracle(caller, next, maxAge), RecordProposal
      PROVE  NoticeInv' /\ UNCHANGED <<oracle, maxAttestationAge>>
  <2>1. proposal' = [oracle |-> next, maxAge |-> maxAge, eta |-> now + ORACLE_TIMELOCK]
        /\ next # ZeroAddress
    BY <1>7 DEF ProposeOracle
  <2>2. proposal'.eta = now + ORACLE_TIMELOCK /\ proposal'.oracle # ZeroAddress
    BY <2>1
  <2>3. CASE proposal' = proposal
    <3>1. proposal # NoProposal
      BY <2>2, <2>3 DEF NoProposal
    <3> QED BY <1>1, <1>7, <2>2, <2>3, <3>1 DEF RecordProposal, ProposeOracle, NoticeInv
  <2>4. CASE proposal' # proposal
    BY <1>1, <1>7, <2>2, <2>4 DEF RecordProposal, ProposeOracle, NoticeInv
  <2> QED BY <2>3, <2>4
<1>8. CASE GateNext /\ RecordProposal
  BY <1>4, <1>8 DEF GateNext, Settle, Redeem
<1>9. CASE EnvNext /\ RecordProposal
  BY <1>4, <1>9 DEF EnvNext, Tick, Publish, Restate, SetStatus, contractVars
<1>10. CASE TokenNext /\ RecordProposal
  BY <1>4, <1>10 DEF TokenNext, Transfer, TransferFrom, Approve, Move
<1>11. ASSUME NEW caller \in Account, RecordProposal,
              \/ \E settler \in Nominee, enabled \in BOOLEAN :
                    SetSettler(caller, settler, enabled)
              \/ \E newOwner \in Nominee : TransferOwnership(caller, newOwner)
              \/ AcceptOwnership(caller)
       PROVE  UNCHANGED gateVars
  BY <1>11 DEF SetSettler, TransferOwnership, AcceptOwnership
<1>12. CASE AdminNext /\ RecordProposal
  BY <1>4, <1>5, <1>6, <1>7, <1>11, <1>12 DEF AdminNext
<1>13. HNext => RecordProposal /\ (GateNext \/ TokenNext \/ AdminNext \/ EnvNext)
  BY DEF HNext, TokenNext, Recorded
<1> QED BY <1>3, <1>8, <1>9, <1>10, <1>12, <1>13

\* The oracle and the freshness bound change only to what has stood proposed, unchanged,
\* for the whole timelock and no longer than the grace window (proposeOracle,
\* commitOracle, cancelOracle), however proposals are replaced and ownership handed on.
THEOREM ChangesHadNotice == HSpec => ChangeHadFullNotice
  BY InitNotice, NextNotice, PTL DEF HSpec, ChangeHadFullNotice

------------------------------------------------------------------------------
(* What redemptions cost the proof in force.  While the gate stays with one *)
(* oracle, and that oracle answers its id, the two numbers the gate keeps   *)
(* of all redemptions say exactly which of them the proof has not seen.     *)

\* The gate is never rotated.
OracleStays == [][oracle' = oracle]_hvars

\* A later proof has seen every redemption; the one the debt is booked under, none of it.
DebtInv ==
    /\ Conserved
    /\ IdAlwaysAnswered
    /\ unseen \in [Oracle -> UInt]
    /\ redemptionDebtAttestationId <= feed[oracle].id
    /\ redemptionDebtAttestationId < feed[oracle].id => unseen[oracle] = 0
    /\ redemptionDebtAttestationId = feed[oracle].id => unseen[oracle] = pendingRedemptions

LEMMA InitDebt == HInit => DebtInv
<1> SUFFICES ASSUME HInit PROVE DebtInv
  OBVIOUS
<1>1. \A r \in FirstReading : r.status = "ok" /\ r.id \in Nat
  BY DEF FirstReading
<1>2. feed[oracle].id \in Nat
  BY <1>1 DEF HInit, Init
<1> QED BY <1>1, <1>2, InitConserved DEF HInit, Init, DebtInv, IdAlwaysAnswered, UInt

LEMMA DebtTypes ==
    ASSUME DebtInv
    PROVE  /\ totalSupply \in UInt /\ pendingRedemptions \in UInt /\ unseen[oracle] \in UInt
           /\ redemptionDebtAttestationId \in Nat
           /\ feed[oracle].id \in Nat /\ feed[oracle].reserves \in Nat
           /\ feed[oracle] \in Reading /\ oracle \in Oracle
           /\ NettedDebt = unseen[oracle]
<1>1. /\ totalSupply \in UInt /\ pendingRedemptions \in UInt /\ unseen[oracle] \in UInt
      /\ redemptionDebtAttestationId \in Nat
      /\ feed[oracle].id \in Nat /\ feed[oracle].reserves \in Nat
      /\ feed[oracle] \in Reading /\ oracle \in Oracle
  BY DEF DebtInv, Conserved, TypeOK, Reading, UInt
<1>2. NettedDebt = unseen[oracle]
  BY <1>1 DEF NettedDebt, Discharges, DebtInv
<1> QED BY <1>1, <1>2

\* The count of every oracle stays a word, whatever happens.
LEMMA UnseenType ==
    ASSUME DebtInv, RecordRedemptions, totalSupply' \in UInt
    PROVE  unseen' \in [Oracle -> UInt]
<1>1. ASSUME NEW o \in Oracle
      PROVE  unseen[o] + Monus(totalSupply, totalSupply') \in Nat
  BY DebtTypes DEF DebtInv, Monus, UInt
<1> QED BY <1>1 DEF RecordRedemptions, UInt

LEMMA RedeemDebt ==
    ASSUME DebtInv, NEW caller \in Account, NEW amount \in Amount, Redeem(caller, amount),
           RecordRedemptions
    PROVE  /\ totalSupply' = totalSupply - amount /\ amount > 0
           /\ UNCHANGED <<oracle, feed>>
           /\ redemptionDebtAttestationId' = feed[oracle].id
           /\ pendingRedemptions' = unseen[oracle] + amount
           /\ unseen'[oracle] = unseen[oracle] + amount
<1>1. totalSupply' = totalSupply - amount /\ amount \in Nat /\ amount # 0
  <2>1. totalSupply' = totalSupply - amount
    BY RedeemConserves DEF DebtInv
  <2>2. amount # 0
    BY DEF Redeem, RedeemAccepts
  <2>3. amount \in Nat
    BY GateAssumption DEF UInt
  <2> QED BY <2>1, <2>2, <2>3
<1>2. UNCHANGED <<oracle, feed>>
  BY DEF Redeem, gateVars, envVars
<1>3. SeenId = feed[oracle].id
  BY DebtTypes DEF SeenId, DebtInv, IdAlwaysAnswered
<1>4. redemptionDebtAttestationId' = feed[oracle].id
  BY <1>3, DebtTypes DEF Redeem, DebtInv
<1>5. NewDebt(amount) = unseen[oracle] + amount
  BY <1>1, <1>3, DebtTypes DEF NewDebt, DebtInv
<1>6. pendingRedemptions' = unseen[oracle] + amount /\ unseen[oracle] + amount <= UINT_MAX
  BY <1>5 DEF Redeem, RedeemAccepts
<1>7. Monus(totalSupply, totalSupply') = amount
  BY <1>1, DebtTypes DEF Monus, UInt
<1>8. unseen'[oracle] = unseen[oracle] + amount
  BY <1>1, <1>2, <1>6, <1>7, DebtTypes DEF RecordRedemptions, UInt
<1> QED BY <1>1, <1>2, <1>4, <1>6, <1>8

LEMMA SettleDebt ==
    ASSUME DebtInv, NEW caller \in Account, NEW to \in Account \cup {ZeroAddress},
           NEW amount \in Amount, Settle(caller, to, amount), RecordRedemptions
    PROVE  /\ totalSupply' = totalSupply + amount /\ amount > 0
           /\ totalSupply' + NettedDebt <= feed[oracle].reserves
           /\ UNCHANGED <<oracle, feed, redemptionDebtAttestationId>>
           /\ unseen'[oracle] = unseen[oracle]
           /\ pendingRedemptions' = IF Discharges THEN 0 ELSE pendingRedemptions
<1>1. totalSupply' = totalSupply + amount /\ amount \in Nat /\ amount > 0
  BY DEF Settle, SettleAccepts, UInt
<1>2. /\ UNCHANGED <<oracle, feed, redemptionDebtAttestationId>>
      /\ pendingRedemptions' = IF Discharges THEN 0 ELSE pendingRedemptions
  BY DEF Settle, gateVars, envVars
<1>3. totalSupply + amount <= Monus(feed[oracle].reserves, NettedDebt)
  BY DEF Settle, SettleAccepts, NettedDebt
<1>4. NettedDebt \in Nat
  BY DebtTypes DEF UInt
<1>5. totalSupply' + NettedDebt <= feed[oracle].reserves
  BY <1>1, <1>3, <1>4, DebtTypes DEF Monus, UInt
<1>6. Monus(totalSupply, totalSupply') = 0
  BY <1>1, DebtTypes DEF Monus, UInt
<1>7. unseen'[oracle] = unseen[oracle]
  BY <1>2, <1>6, DebtTypes DEF RecordRedemptions, UInt
<1> QED BY <1>1, <1>2, <1>5, <1>7

\* Steps that leave claims and debt alone leave the count alone, unless a proof lands.
LEMMA QuietDebt ==
    ASSUME DebtInv, UNCHANGED <<oracle, totalSupply>>, RecordRedemptions,
           feed'[oracle].id = feed[oracle].id
    PROVE  unseen'[oracle] = unseen[oracle]
<1>1. Monus(totalSupply, totalSupply') = 0
  BY DebtTypes DEF Monus, UInt
<1> QED BY <1>1, DebtTypes DEF RecordRedemptions, UInt

\* How a step of the oracles looks from the gate: no news, or the next proof.
LEMMA FeedStep ==
    ASSUME DebtInv, EnvNext
    PROVE  /\ UNCHANGED <<oracle, totalSupply, debtVars>>
           /\ feed'[oracle].reserves \in Nat
           /\ \/ feed'[oracle].id = feed[oracle].id
              \/ feed'[oracle].id = feed[oracle].id + 1
<1>1. UNCHANGED <<oracle, totalSupply, debtVars>>
  <2>1. UNCHANGED contractVars
    BY DEF EnvNext, Tick, Publish, Restate, SetStatus
  <2>2. UNCHANGED <<gateVars, claimVars, debtVars>>
    BY <2>1 DEF contractVars
  <2> QED BY <2>2 DEF claimVars, gateVars
<1>2. feed \in [Oracle -> Reading] /\ oracle \in Oracle
  BY DEF DebtInv, Conserved, TypeOK
<1>3. feed[oracle].reserves \in Nat
  BY DebtTypes
<1>4. CASE Tick
  BY <1>1, <1>3, <1>4 DEF Tick
<1>5. ASSUME NEW o \in Oracle, NEW r \in Figure, NEW t \in Stamp, Publish(o, r, t)
      PROVE  /\ feed'[oracle].reserves \in Nat
             /\ \/ feed'[oracle].id = feed[oracle].id
                \/ feed'[oracle].id = feed[oracle].id + 1
  BY <1>2, <1>3, <1>5 DEF Publish, UInt
<1>6. ASSUME NEW o \in Oracle, NEW r \in Figure, NEW t \in Stamp, Restate(o, r, t)
      PROVE  feed'[oracle].reserves \in Nat /\ feed'[oracle].id = feed[oracle].id
  BY <1>2, <1>3, <1>6 DEF Restate, UInt
<1>7. ASSUME NEW o \in Oracle, NEW s \in Status, SetStatus(o, s)
      PROVE  feed'[oracle].reserves \in Nat /\ feed'[oracle].id = feed[oracle].id
  BY <1>2, <1>3, <1>7 DEF SetStatus
<1> QED BY <1>1, <1>4, <1>5, <1>6, <1>7 DEF EnvNext

LEMMA HNextParts ==
    HNext => /\ RecordRedemptions
             /\ GateNext \/ TokenNext \/ AdminNext \/ EnvNext
  BY DEF HNext, TokenNext, Recorded

LEMMA TokenKeepsDebt == TokenNext => UNCHANGED <<oracle, totalSupply, debtVars, feed>>
  BY DEF TokenNext, Transfer, TransferFrom, Approve, Move, gateVars, claimVars, envVars

LEMMA AdminKeepsDebt == AdminNext => UNCHANGED <<totalSupply, debtVars, feed>>
  BY DEF AdminNext, SetSettler, ProposeOracle, CommitOracle, CancelOracle,
         TransferOwnership, AcceptOwnership, claimVars, envVars

LEMMA NextDebt ==
    ASSUME "noId" \notin Status, DebtInv, [HNext]_hvars, oracle' = oracle
    PROVE  DebtInv'
<1>1. Conserved' /\ IdAlwaysAnswered'
  BY HistoryStep, NextConserved, NextIdAnswered DEF DebtInv, Conserved
<1>2. totalSupply' \in UInt
  BY <1>1 DEF Conserved, TypeOK
<1>3. HNext => unseen' \in [Oracle -> UInt]
  BY <1>2, UnseenType, HNextParts
<1>4. CASE \E caller \in Account, to \in Account \cup {ZeroAddress}, amount \in Amount :
              Settle(caller, to, amount) /\ HNext
  BY <1>1, <1>3, <1>4, SettleDebt, HNextParts DEF DebtInv, Discharges
<1>5. CASE \E caller \in Account, amount \in Amount : Redeem(caller, amount) /\ HNext
  BY <1>1, <1>3, <1>5, RedeemDebt, HNextParts, DebtTypes DEF DebtInv
<1>6. ASSUME UNCHANGED <<oracle, totalSupply, debtVars>>, HNext,
             feed'[oracle].id = feed[oracle].id
      PROVE  DebtInv'
  <2>1. unseen'[oracle] = unseen[oracle]
    BY <1>6, QuietDebt, HNextParts
  <2> QED BY <1>1, <1>3, <1>6, <2>1 DEF DebtInv, debtVars
<1>7. CASE HNext /\ EnvNext /\ feed'[oracle].id = feed[oracle].id + 1
  <2>1. UNCHANGED <<oracle, debtVars>>
    BY <1>7, FeedStep
  <2>2. feed'[oracle].id # feed[oracle].id
        /\ redemptionDebtAttestationId < feed'[oracle].id
    BY <1>7, DebtTypes DEF DebtInv
  <2>3. unseen'[oracle] = 0
    BY <1>7, <2>2, HNextParts, DebtTypes DEF RecordRedemptions
  <2> QED BY <1>1, <1>3, <1>7, <2>1, <2>2, <2>3, DebtTypes DEF DebtInv, debtVars
<1>8. CASE UNCHANGED hvars
  BY <1>1, <1>8 DEF DebtInv, hvars, vars, debtVars, envVars
<1> QED BY <1>4, <1>5, <1>6, <1>7, <1>8, HNextParts, FeedStep, TokenKeepsDebt, AdminKeepsDebt
        DEF GateNext

\* While the gate keeps to one oracle that answers its id, the debt it nets off the
\* reserves is exactly what was redeemed since the proof in force landed: any number of
\* redemptions, settlements, proofs and restatements (redeem, settle, effectiveReserves).
THEOREM DebtIsExact ==
    ASSUME "noId" \notin Status
    PROVE  HSpec /\ OracleStays => []DebtIsExactlyUnseen
<1>1. DebtInv => DebtIsExactlyUnseen
  BY DebtTypes DEF DebtIsExactlyUnseen
<1>2. DebtInv /\ [HNext]_hvars /\ [oracle' = oracle]_hvars => DebtInv'
  BY NextDebt DEF hvars, vars, gateVars
<1> QED BY <1>1, <1>2, InitDebt, PTL DEF HSpec, OracleStays

\* One step of the gate is one of the budget's, or none.
LEMMA BudgetStep ==
    ASSUME "noId" \notin Status, DebtInv, [HNext]_hvars, oracle' = oracle
    PROVE  [Budget!Next]_<<totalSupply, totalSupply + NettedDebt, feed[oracle].reserves>>
<1>1. DebtInv' /\ NettedDebt' = unseen'[oracle]
  <2>1. DebtInv'
    BY NextDebt
  <2>2. redemptionDebtAttestationId' \in Nat /\ feed'[oracle'].id \in Nat
    BY <2>1 DEF DebtInv, Conserved, TypeOK, Reading
  <2> QED BY <2>1, <2>2 DEF DebtInv, NettedDebt, Discharges
<1>2. NettedDebt = unseen[oracle] /\ unseen[oracle] \in Nat /\ totalSupply \in Nat
  BY DebtTypes DEF UInt
<1> USE DEF Budget!Next
<1>3. ASSUME NEW caller \in Account, NEW to \in Account \cup {ZeroAddress},
             NEW amount \in Amount, Settle(caller, to, amount), HNext
      PROVE  Budget!Settle
  <2>1. amount \in Nat
    BY DEF UInt
  <2> QED BY <1>1, <1>2, <1>3, <2>1, SettleDebt, HNextParts DEF Budget!Settle
<1>4. ASSUME NEW caller \in Account, NEW amount \in Amount, Redeem(caller, amount), HNext
      PROVE  Budget!Redeem
  <2>1. amount \in Nat
    BY DEF UInt
  <2> QED BY <1>1, <1>2, <1>4, <2>1, RedeemDebt, HNextParts DEF Budget!Redeem
<1>5. CASE HNext /\ EnvNext
  <2>1. UNCHANGED totalSupply /\ feed'[oracle].reserves \in Nat
    BY <1>5, FeedStep
  <2>2. CASE feed'[oracle].id = feed[oracle].id
    <3>1. NettedDebt' = NettedDebt
      BY <1>1, <1>2, <1>5, <2>2, QuietDebt, FeedStep, HNextParts
    <3> QED BY <2>1, <3>1 DEF Budget!Restate
  <2>3. CASE feed'[oracle].id = feed[oracle].id + 1
    <3>1. unseen'[oracle] = 0
      BY <1>5, <2>3, HNextParts, DebtTypes DEF RecordRedemptions
    <3> QED BY <1>1, <1>2, <2>1, <3>1 DEF Budget!NewProof
  <2> QED BY <1>5, <2>2, <2>3, FeedStep
<1>6. ASSUME UNCHANGED <<oracle, totalSupply, debtVars, feed>>
      PROVE  UNCHANGED <<totalSupply, totalSupply + NettedDebt, feed[oracle].reserves>>
  BY <1>6 DEF NettedDebt, Discharges, debtVars
<1>7. CASE UNCHANGED hvars
  BY <1>6, <1>7 DEF hvars, vars, gateVars, envVars, claimVars
<1> QED BY <1>3, <1>4, <1>5, <1>6, <1>7, HNextParts, TokenKeepsDebt, AdminKeepsDebt DEF GateNext

\* The gate implements ProofBudget: it spends each proof once, refunds nothing and starts
\* afresh with the next, for any accounts, word and order of calls, while it keeps to one
\* oracle that answers its id.
THEOREM GateImplementsBudget ==
    ASSUME "noId" \notin Status
    PROVE  HSpec /\ OracleStays => GateKeepsBudget
<1>1. HInit => Budget!Init
  <2> SUFFICES ASSUME HInit PROVE Budget!Init
    OBVIOUS
  <2>1. DebtInv /\ totalSupply = 0 /\ pendingRedemptions = 0
    BY InitDebt DEF HInit, Init
  <2>2. NettedDebt = 0
    BY <2>1 DEF NettedDebt
  <2> QED BY <2>1, <2>2, DebtTypes DEF Budget!Init
<1>2. DebtInv /\ [HNext]_hvars /\ [oracle' = oracle]_hvars =>
        DebtInv'
        /\ [Budget!Next]_<<totalSupply, totalSupply + NettedDebt, feed[oracle].reserves>>
  BY NextDebt, BudgetStep DEF hvars, vars, gateVars
<1> QED BY <1>1, <1>2, InitDebt, PTL DEF HSpec, OracleStays, GateKeepsBudget, Budget!Spec
==============================================================================
