------------------------- MODULE ArcSettlementHistory -------------------------
(***************************************************************************)
(* ArcSettlement with three history variables, for the promises that       *)
(* relate a state to what led to it.  They record; they guard nothing.     *)
(***************************************************************************)
EXTENDS ArcSettlement

VARIABLES
    unseen,        \* unseen[o]: redeemed since o's present attestation landed
    standingSince, \* when the standing proposal was made
    spent          \* spent[a][s]: moved by s out of a since a last approved s
                   \* a finite amount

hvars == <<vars, unseen, standingSince, spent>>

HInit ==
    /\ Init
    /\ unseen = [o \in Oracle |-> 0]
    /\ standingSince = now
    /\ spent = [a \in Account |-> [s \in Account |-> [granted |-> 0, amount |-> 0]]]

\* An oracle's new attestation starts its count afresh; until then every
\* redemption adds to it.  Counting stops at UINT_MAX: no debt is larger.
RecordRedemptions ==
    LET counted(n) == IF n > UINT_MAX THEN UINT_MAX ELSE n
    IN  unseen' = [o \in Oracle |->
                     IF feed'[o].id # feed[o].id THEN 0
                     ELSE counted(unseen[o] + Monus(totalSupply, totalSupply'))]

RecordProposal == standingSince' = IF proposal' # proposal THEN now ELSE standingSince

Recorded == RecordRedemptions /\ RecordProposal

HNext ==
    \/ (GateNext \/ AdminNext \/ EnvNext) /\ Recorded /\ UNCHANGED spent
    \/ \E caller \in Account, to \in Account \cup {ZeroAddress}, amount \in Amount :
          Transfer(caller, to, amount) /\ Recorded /\ UNCHANGED spent
    \/ \E caller, spender \in Account, value \in Approval :
          /\ Approve(caller, spender, value) /\ Recorded
          /\ spent' = [spent EXCEPT ![caller][spender] = [granted |-> value, amount |-> 0]]
    \/ \E caller, from \in Account, to \in Account \cup {ZeroAddress}, amount \in Amount :
          /\ TransferFrom(caller, from, to, amount) /\ Recorded
          /\ spent' = IF spent[from][caller].granted = UINT_MAX THEN spent
                      ELSE [spent EXCEPT ![from][caller].amount = @ + amount]

HSpec == HInit /\ [][HNext]_hvars

------------------------------------------------------------------------------
\* What settle would net off the reserves now.
NettedDebt == IF Discharges THEN 0 ELSE pendingRedemptions

\* The debt netted off the reserves is exactly what was redeemed since the proof
\* in force landed (lines 198-203): never less, or one USDC could back two
\* claims; never more, or settlement would stay shut for no reason.
DebtIsExactlyUnseen ==
    feed[oracle].status = "ok" => NettedDebt = unseen[oracle]

\* Nothing redeemed since the proof in force landed is ever left out.
\* ArcSettlement.sol:25-28 and 213-215 say so of every oracle, failing or rotated.
UnseenIsNetted ==
    feed[oracle].status = "ok" => NettedDebt >= unseen[oracle]

\* Redemption must never be blocked by a misbehaving oracle
\* (ArcSettlement.sol:213): whatever the oracle answers, a holder can redeem.
RedemptionNeverBlocked ==
    \A a \in Account, amount \in Amount \ {0} :
       amount <= balanceOf[a] => RedeemAccepts(a, amount)

\* The oracle and the freshness bound only ever change to what has stood
\* proposed, unchanged, for the whole timelock and not past the grace window
\* (lines 44-47, 275-276): holders always had the notice to redeem first.
ChangeHadFullNotice ==
    [][<<oracle, maxAttestationAge>>' # <<oracle, maxAttestationAge>> =>
          /\ proposal.oracle = oracle' /\ proposal.maxAge = maxAttestationAge'
          /\ now - standingSince >= ORACLE_TIMELOCK
          /\ now - standingSince <= ORACLE_TIMELOCK + ORACLE_PROPOSAL_GRACE]_hvars

\* Over any number of calls, a spender moves no more than what the holder last
\* approved for it, and what is left of it is still there (lines 238-253).
SpentWithinApproval ==
    \A a, s \in Account :
       spent[a][s].granted # UINT_MAX =>
          spent[a][s].amount + allowance[a][s] = spent[a][s].granted
==============================================================================
