--------------------------- MODULE ArcSettleProofs ---------------------------
(***************************************************************************)
(* Theorems about the two contracts together: behind the reserve oracle    *)
(* the gate meets only what its own model assumes, claims are covered up   *)
(* to what a relay hides, and the word of a revoked key expires; for any   *)
(* number of accounts, keys and signatures.                                *)
(***************************************************************************)
EXTENDS ArcSettleHistory, FiniteSetTheorems, TLAPS

------------------------------------------------------------------------------
(* What is proved of the gate alone holds of it here.                       *)

GateFacts == INSTANCE ArcSettlementProofs WITH
    Oracle <- {OracleAddress}, Figure <- UInt, Status <- {"ok"},
    MaxId <- MaxSigned, feed <- getters

LEMMA SameAssumption == GateFacts!GateAssumption
  BY ArcSettleAssumption DEF Gate!UInt, GateFacts!UInt, Gate!Statuses,
         GateFacts!Statuses, Gate!IsFiniteSet, GateFacts!IsFiniteSet

LEMMA SameInit == Gate!Init <=> GateFacts!Init
  BY DEF Gate!UInt, GateFacts!UInt, Gate!Statuses, GateFacts!Statuses, Gate!Init,
         GateFacts!Init, Gate!FirstReading, GateFacts!FirstReading, Gate!ValidMaxAge,
         GateFacts!ValidMaxAge, Gate!NoProposal, GateFacts!NoProposal

LEMMA SameSettle ==
    ASSUME NEW caller, NEW to, NEW amount
    PROVE  Gate!Settle(caller, to, amount) <=> GateFacts!Settle(caller, to, amount)
  BY DEF Gate!Settle, GateFacts!Settle, Gate!SettleAccepts, GateFacts!SettleAccepts,
         Gate!Usable, GateFacts!Usable, Gate!Monus, GateFacts!Monus, Gate!Wrap,
         GateFacts!Wrap, Gate!Discharges, GateFacts!Discharges, Gate!claimVars,
         GateFacts!claimVars, Gate!adminVars, GateFacts!adminVars, Gate!gateVars,
         GateFacts!gateVars, Gate!debtVars, GateFacts!debtVars, Gate!envVars,
         GateFacts!envVars

LEMMA SameRedeem ==
    ASSUME NEW caller, NEW amount
    PROVE  Gate!Redeem(caller, amount) <=> GateFacts!Redeem(caller, amount)
  BY DEF Gate!Redeem, GateFacts!Redeem, Gate!RedeemAccepts, GateFacts!RedeemAccepts,
         Gate!NewDebt, GateFacts!NewDebt, Gate!SeenId, GateFacts!SeenId, Gate!Wrap,
         GateFacts!Wrap, Gate!claimVars, GateFacts!claimVars, Gate!adminVars,
         GateFacts!adminVars, Gate!gateVars, GateFacts!gateVars, Gate!debtVars,
         GateFacts!debtVars, Gate!envVars, GateFacts!envVars

LEMMA SameToken == Gate!TokenNext <=> GateFacts!TokenNext
  BY DEF Gate!TokenNext, GateFacts!TokenNext, Gate!Transfer, GateFacts!Transfer, Gate!Approve,
         GateFacts!Approve, Gate!TransferFrom, GateFacts!TransferFrom, Gate!Move,
         GateFacts!Move, Gate!Moved, GateFacts!Moved, Gate!DrawnDown, GateFacts!DrawnDown,
         Gate!Wrap, GateFacts!Wrap, Gate!claimVars, GateFacts!claimVars, Gate!adminVars,
         GateFacts!adminVars, Gate!gateVars, GateFacts!gateVars, Gate!debtVars,
         GateFacts!debtVars, Gate!envVars, GateFacts!envVars

LEMMA SameAdmin == Gate!AdminNext <=> GateFacts!AdminNext
  BY DEF Gate!AdminNext, GateFacts!AdminNext, Gate!SetSettler, GateFacts!SetSettler,
         Gate!ProposeOracle, GateFacts!ProposeOracle, Gate!CommitOracle,
         GateFacts!CommitOracle, Gate!CancelOracle, GateFacts!CancelOracle,
         Gate!TransferOwnership, GateFacts!TransferOwnership, Gate!AcceptOwnership,
         GateFacts!AcceptOwnership, Gate!ValidMaxAge, GateFacts!ValidMaxAge, Gate!Matured,
         GateFacts!Matured, Gate!NoProposal, GateFacts!NoProposal, Gate!claimVars,
         GateFacts!claimVars, Gate!adminVars, GateFacts!adminVars, Gate!gateVars,
         GateFacts!gateVars, Gate!debtVars, GateFacts!debtVars, Gate!envVars,
         GateFacts!envVars

LEMMA SameEnv == Gate!EnvNext <=> GateFacts!EnvNext
  BY DEF Gate!EnvNext, GateFacts!EnvNext, Gate!Tick, GateFacts!Tick, Gate!Publish,
         GateFacts!Publish, Gate!Restate, GateFacts!Restate, Gate!SetStatus,
         GateFacts!SetStatus, Gate!contractVars, GateFacts!contractVars, Gate!claimVars,
         GateFacts!claimVars, Gate!adminVars, GateFacts!adminVars, Gate!gateVars,
         GateFacts!gateVars, Gate!debtVars, GateFacts!debtVars, Gate!envVars,
         GateFacts!envVars

LEMMA SameGate == [Gate!Next]_(Gate!vars) => [GateFacts!Next]_(GateFacts!vars)
<1>1. Gate!GateNext <=> GateFacts!GateNext
  BY SameSettle, SameRedeem DEF Gate!GateNext, GateFacts!GateNext
<1>2. UNCHANGED Gate!vars <=> UNCHANGED GateFacts!vars
    BY DEF Gate!vars, GateFacts!vars, Gate!claimVars, GateFacts!claimVars, Gate!adminVars,
           GateFacts!adminVars, Gate!gateVars, GateFacts!gateVars, Gate!debtVars,
           GateFacts!debtVars, Gate!envVars, GateFacts!envVars
<1> QED BY <1>1, <1>2, SameToken, SameAdmin, SameEnv DEF Gate!Next, GateFacts!Next

------------------------------------------------------------------------------
(* The gate behind the oracle.  An accepted proof is a Publish: its number  *)
(* stays within what the gate's model explores since every one has a        *)
(* signature of its own.                                                    *)

ProofInv ==
    /\ nonce = _attestationId /\ _attestationId \in Nat
    /\ vault \in Int /\ vault <= UINT_MAX
    /\ IsFiniteSet(signed) /\ Cardinality(signed) <= MaxSigned
    /\ \A s \in signed : s.digest.reserves \in UInt /\ s.digest.attestedAt \in Stamp
    /\ \A n \in 1 .. nonce : \E s \in signed : s.digest.nonce = n

LEMMA OneSignatureEach ==
    ASSUME NEW S, IsFiniteSet(S), NEW n \in Nat,
           \A i \in 1 .. n : \E s \in S : s.digest.nonce = i
    PROVE  n <= Cardinality(S)
<1> DEFINE f == [i \in 1 .. n |-> CHOOSE s \in S : s.digest.nonce = i]
<1>1. \A i \in 1 .. n : f[i] \in S /\ f[i].digest.nonce = i
  OBVIOUS
<1>2. f \in [1 .. n -> S]
  BY <1>1
<1> HIDE DEF f
<1>3. f \in Injection(1 .. n, S)
  BY <1>1, <1>2 DEF Injection, IsInjective
<1>4. Cardinality(1 .. n) <= Cardinality(S)
  BY <1>3, FS_Injection
<1> QED BY <1>4, FS_Interval

LEMMA InitProof == Init => ProofInv
<1>1. UINT_MAX \in Nat /\ MaxSigned \in Nat
  BY ArcSettleAssumption DEF Gate!GateAssumption, Reserve!OracleAssumption
<1> QED BY <1>1, FS_EmptySet DEF Init, Reserve!Init, ProofInv

\* The signature that is submitted is one more than were accepted.
LEMMA RoomForProof ==
    ASSUME ProofInv, NEW signature \in signed, signature.digest.nonce = nonce + 1
    PROVE  _attestationId < MaxSigned
<1>1. \A i \in 1 .. (nonce + 1) : \E s \in signed : s.digest.nonce = i
  BY DEF ProofInv
<1>2. nonce + 1 <= Cardinality(signed)
  BY <1>1, OneSignatureEach DEF ProofInv
<1>3. Cardinality(signed) \in Nat /\ MaxSigned \in Nat
  BY ArcSettleAssumption, FS_CardinalityType DEF ProofInv, Reserve!OracleAssumption
<1> QED BY <1>2, <1>3 DEF ProofInv

\* What each kind of call does, seen from the gate.
LEMMA GateUnmoved ==
    ASSUME UNCHANGED <<gateVars, _reserves, _attestedAt, _attestationId, now>>
    PROVE  UNCHANGED Gate!vars
  BY DEF gateVars, getters, Gate!vars, Gate!claimVars, Gate!adminVars, Gate!gateVars,
         Gate!debtVars, Gate!envVars

LEMMA SubmitIsPublish ==
    ASSUME ProofInv, NEW signature \in signed, NEW form, UNCHANGED <<gateVars, vault>>,
           Reserve!SubmitAttestation(signature.digest.reserves, signature.digest.attestedAt,
                                    signature.digest.nonce, signature, form)
    PROVE  /\ Gate!EnvNext /\ ProofInv'
           /\ signature.digest.nonce = nonce + 1
           /\ _attestationId' = _attestationId + 1
<1>1. /\ signature.digest.nonce = nonce + 1
      /\ _attestationId' = _attestationId + 1 /\ nonce' = nonce + 1
      /\ _reserves' = signature.digest.reserves /\ _attestedAt' = signature.digest.attestedAt
      /\ UNCHANGED <<now, signed>>
  BY DEF Reserve!SubmitAttestation, Reserve!InOrder
<1>2. _attestationId < MaxSigned
  BY <1>1, RoomForProof
<1>3. Gate!Publish(OracleAddress, signature.digest.reserves, signature.digest.attestedAt)
  BY <1>1, <1>2 DEF Gate!Publish, getters, gateVars, Gate!contractVars, Gate!claimVars,
     Gate!adminVars, Gate!gateVars, Gate!debtVars
<1>4. Gate!EnvNext
  BY <1>3 DEF Gate!EnvNext, ProofInv
<1>5. ProofInv'
  BY <1>1 DEF ProofInv
<1> QED BY <1>1, <1>4, <1>5

LEMMA AttestStep ==
    ASSUME ProofInv, NEW key \in Key, NEW t \in Stamp, NEW n \in Nonce, Attest(key, t, n)
    PROVE  UNCHANGED Gate!vars /\ UNCHANGED <<_attestationId, nonce>> /\ ProofInv'
<1> DEFINE new == [signer |-> key, digest |-> Reserve!attestationDigest(found, t, n)]
<1>1. /\ signed' = signed \cup {new}
      /\ Reserve!Cardinality(signed) < MaxSigned
      /\ UNCHANGED <<gateVars, oracleVars, now, vault>>
  BY DEF Attest, Reserve!Sign, Reserve!oracleVars, Reserve!ownerVars, Reserve!keyVars,
         Reserve!readingVars, oracleVars
<1>2. new.digest.reserves \in UInt /\ new.digest.attestedAt \in Stamp
  BY ArcSettleAssumption DEF found, Reserve!attestationDigest, ProofInv, UInt, Gate!GateAssumption
<1> HIDE DEF new
<1>3. Cardinality(signed) < MaxSigned
  BY <1>1 DEF Reserve!Cardinality, Cardinality
<1>4. Cardinality(signed) \in Nat /\ MaxSigned \in Nat
  BY ArcSettleAssumption, FS_CardinalityType DEF ProofInv, Reserve!OracleAssumption
<1>5. IsFiniteSet(signed') /\ Cardinality(signed') <= MaxSigned
  <2>1. IsFiniteSet(signed)
    BY DEF ProofInv
  <2>2. /\ IsFiniteSet(signed \cup {new})
        /\ Cardinality(signed \cup {new}) =
              IF new \in signed THEN Cardinality(signed) ELSE Cardinality(signed) + 1
    BY <2>1, FS_AddElement
  <2>3. Cardinality(signed \cup {new}) <= MaxSigned
    BY <1>3, <1>4, <2>2
  <2>4. signed' = signed \cup {new}
    BY <1>1
  <2> QED BY <2>2, <2>3, <2>4
<1>6. ProofInv'
  BY <1>1, <1>2, <1>5 DEF ProofInv, oracleVars
<1> QED BY <1>1, <1>6, GateUnmoved DEF oracleVars

LEMMA OracleAdminStep ==
    ASSUME ProofInv, Reserve!AdminNext, UNCHANGED <<gateVars, vault>>
    PROVE  UNCHANGED Gate!vars /\ UNCHANGED <<_attestationId, nonce>> /\ ProofInv'
<1>1. UNCHANGED <<_reserves, _attestedAt, _attestationId, nonce, now, signed>>
  BY DEF Reserve!AdminNext, Reserve!ConfirmAttestor, Reserve!AnnounceAttestor,
     Reserve!CancelAttestor, Reserve!RevokeAttestor, Reserve!TransferOwnership,
     Reserve!AcceptOwnership, Reserve!readingVars
<1> QED BY <1>1, GateUnmoved DEF ProofInv

LEMMA DepositStep ==
    ASSUME ProofInv, NEW amount \in Amount, Deposit(amount)
    PROVE  UNCHANGED Gate!vars /\ UNCHANGED <<_attestationId, nonce>> /\ ProofInv'
<1>1. amount \in Nat
  BY ArcSettleAssumption DEF Gate!GateAssumption, Gate!UInt
<1> QED BY <1>1, GateUnmoved DEF Deposit, ProofInv, oracleVars

LEMMA TickStep ==
    ASSUME ProofInv, Tick
    PROVE  Gate!EnvNext /\ UNCHANGED <<_attestationId, nonce>> /\ ProofInv'
<1>1. /\ UNCHANGED <<gateVars, oracleVars, signed, vault>>
      /\ now < MaxTime /\ now' = now + 1
  BY DEF Tick, Reserve!Tick, Reserve!oracleVars, Reserve!ownerVars, Reserve!keyVars,
         Reserve!readingVars, oracleVars
<1>2. Gate!Tick
  BY <1>1 DEF Gate!Tick, Gate!contractVars, Gate!claimVars, Gate!adminVars, Gate!gateVars,
     Gate!debtVars, gateVars, oracleVars, getters
<1> QED BY <1>1, <1>2 DEF Gate!EnvNext, ProofInv, oracleVars

LEMMA RedeemStep ==
    ASSUME ProofInv, NEW caller \in Account, NEW amount \in Amount, Redeem(caller, amount)
    PROVE  Gate!GateNext /\ UNCHANGED <<_attestationId, nonce>> /\ ProofInv'
<1>1. amount \in Nat
  BY ArcSettleAssumption DEF Gate!GateAssumption, Gate!UInt
<1> QED BY ArcSettleAssumption, <1>1 DEF Redeem, Gate!GateNext, ProofInv, oracleVars

LEMMA GateCallStep ==
    ASSUME ProofInv, GateCall
    PROVE  Gate!Next /\ UNCHANGED <<_attestationId, nonce>> /\ ProofInv'
  BY DEF GateCall, Gate!Next, Gate!GateNext, ProofInv, oracleVars

\* Only a submission moves the readings.
LEMMA StepRaisesId ==
    ASSUME [Next]_vars
    PROVE  [_attestationId' = _attestationId + 1]_<<_reserves, _attestedAt, _attestationId>>
<1>1. CASE UNCHANGED oracleVars
  BY <1>1 DEF oracleVars
<1>2. CASE OracleCall
  BY <1>2 DEF OracleCall, Reserve!SubmitAttestation, Reserve!AdminNext,
     Reserve!ConfirmAttestor, Reserve!AnnounceAttestor, Reserve!CancelAttestor,
     Reserve!RevokeAttestor, Reserve!TransferOwnership, Reserve!AcceptOwnership,
     Reserve!readingVars
<1>3. CASE Tick
  BY <1>3 DEF Tick, Reserve!Tick, Reserve!oracleVars, Reserve!readingVars
<1>4. CASE \E key \in Key, t \in Stamp, n \in Nonce : Attest(key, t, n)
  BY <1>4 DEF Attest, Reserve!Sign, Reserve!oracleVars, Reserve!readingVars
<1> QED BY <1>1, <1>2, <1>3, <1>4 DEF Next, OtherNext, GateCall, Deposit, Redeem, vars

LEMMA StepRefines == ProofInv /\ [Next]_vars => ProofInv' /\ [Gate!Next]_(Gate!vars)
<1> SUFFICES ASSUME ProofInv, [Next]_vars PROVE ProofInv' /\ [Gate!Next]_(Gate!vars)
  OBVIOUS
<1>1. CASE UNCHANGED vars
  BY <1>1, GateUnmoved DEF vars, oracleVars, ProofInv
<1>2. CASE GateCall
  BY <1>2, GateCallStep
<1>3. CASE OracleCall
  BY <1>3, SubmitIsPublish, OracleAdminStep DEF OracleCall, Gate!Next
<1>4. CASE Tick
  BY <1>4, TickStep DEF Gate!Next
<1>5. CASE \E amount \in Amount : Deposit(amount)
  BY <1>5, DepositStep
<1>6. CASE \E key \in Key, t \in Stamp, n \in Nonce : Attest(key, t, n)
  BY <1>6, AttestStep
<1>7. CASE \E caller \in Account, amount \in Amount : Redeem(caller, amount)
  BY <1>7, RedeemStep DEF Gate!Next
<1> QED BY <1>1, <1>2, <1>3, <1>4, <1>5, <1>6, <1>7 DEF Next, OtherNext

\* Behind the reserve oracle the gate meets only what its own model allows of an oracle, so
\* that what is proved of the gate alone holds of the deployed pair; and no figure is put in
\* force, or restated, but under the next id (ReserveAttestationOracle.sol:141-145).
THEOREM GateMeetsItsModel == Spec => GateSpec
<1>1. Init => Gate!Init
  BY DEF Init
<1> QED BY <1>1, InitProof, StepRefines, StepRaisesId, PTL DEF Spec, GateSpec, Gate!Spec

------------------------------------------------------------------------------
(* Solvency.  A figure is at most the USDC there is and what was paid out   *)
(* since it was signed.  Of the latter the gate knows what was redeemed     *)
(* since the figure landed; the rest is what a relay hid.                   *)

Netted == IF _attestationId > redemptionDebtAttestationId THEN 0 ELSE pendingRedemptions

\* The figure of a signature, if it backs anything, and what was paid out by then.
Backed(figure, before) == figure > 0 => figure <= vault + paidOut - before

PairInv == ProofInv /\ GateFacts!Conserved

SolventInv ==
    /\ PairInv
    /\ paidOut \in Nat /\ observed \in Nat /\ lag \in Nat
    /\ \A s \in signed : paidBefore[s] \in Nat /\ Backed(s.digest.reserves, paidBefore[s])
    /\ _reserves \in Nat /\ Backed(_reserves, observed)
    /\ redemptionDebtAttestationId <= _attestationId
    /\ paidOut - observed <= Netted + lag
    /\ SolventUpToRelay

LEMMA HistoryStep == [HNext]_hvars => [Next]_vars
<1>1. HNext => Next
  BY DEF HNext, Next
<1> QED BY <1>1 DEF hvars

LEMMA InitPair == Init => PairInv
  BY InitProof, SameAssumption, SameInit, GateFacts!InitConserved DEF Init, PairInv

LEMMA NextPair == PairInv /\ [Next]_vars => PairInv'
  BY StepRefines, SameAssumption, SameGate, GateFacts!NextConserved DEF PairInv

LEMMA PairTypes ==
    ASSUME PairInv
    PROVE  /\ totalSupply \in Nat /\ pendingRedemptions \in Nat
           /\ redemptionDebtAttestationId \in Nat /\ _attestationId \in Nat
           /\ vault \in Int
           /\ oracle = OracleAddress /\ maxAttestationAge \in Nat /\ now \in Nat
           /\ Netted \in Nat
<1>1. MIN_ATTESTATION_AGE \in Nat
  BY ArcSettleAssumption DEF Gate!GateAssumption
<1> QED BY <1>1 DEF PairInv, ProofInv, GateFacts!Conserved, GateFacts!TypeOK, GateFacts!UInt,
            GateFacts!AgeRange, Netted

LEMMA InitSolvent == HInit => SolventInv
<1> SUFFICES ASSUME HInit PROVE SolventInv
  OBVIOUS
<1>1. PairInv
  BY InitPair DEF HInit
<1>2. /\ totalSupply = 0 /\ redemptionDebtAttestationId = 0
      /\ _attestationId = 0 /\ _reserves = 0 /\ signed = {} /\ vault = 0
      /\ pendingRedemptions = 0
  BY DEF HInit, Init, Gate!Init, Reserve!Init
<1> QED BY <1>1, <1>2 DEF HInit, SolventInv, Backed, Netted, SolventUpToRelay

\* What settling asks, and what it leaves of the debt.
LEMMA SettleEffect ==
    ASSUME PairInv, NEW caller, NEW to, NEW amount \in Amount, Gate!Settle(caller, to, amount)
    PROVE  /\ totalSupply' = totalSupply + amount /\ amount \in Nat
           /\ totalSupply' + Netted <= _reserves /\ 0 < _reserves
           /\ now - _attestedAt <= maxAttestationAge
           /\ UNCHANGED redemptionDebtAttestationId
           /\ _attestationId' = _attestationId => Netted' = Netted
<1>1. amount \in Nat /\ amount # 0
  BY ArcSettleAssumption DEF Gate!Settle, Gate!SettleAccepts, Gate!GateAssumption, Gate!UInt
<1>2. getters[oracle] = [status |-> "ok", reserves |-> _reserves,
                         timestamp |-> _attestedAt, id |-> _attestationId]
  BY PairTypes DEF getters
<1>3. _reserves \in Nat
  BY <1>2 DEF PairInv, GateFacts!Conserved, GateFacts!TypeOK, GateFacts!Reading, GateFacts!UInt
<1>4. /\ totalSupply' = totalSupply + amount
      /\ pendingRedemptions' = IF Gate!Discharges THEN 0 ELSE pendingRedemptions
      /\ UNCHANGED redemptionDebtAttestationId
  BY DEF Gate!Settle
<1>5. (IF Gate!Discharges THEN 0 ELSE pendingRedemptions) = Netted
  BY <1>2, PairTypes DEF Gate!Discharges, Netted
<1>6. /\ totalSupply + amount <= Gate!Monus(_reserves, Netted)
      /\ now - _attestedAt <= maxAttestationAge
  BY <1>2, <1>5 DEF Gate!Settle, Gate!SettleAccepts, Gate!Usable
<1>7. totalSupply' + Netted <= _reserves /\ 0 < _reserves
  BY <1>1, <1>3, <1>4, <1>6, PairTypes DEF Gate!Monus
<1>8. _attestationId' = _attestationId => Netted' = Netted
  BY <1>4, <1>5 DEF Netted
<1> QED BY <1>1, <1>4, <1>6, <1>7, <1>8

LEMMA RedeemEffect ==
    ASSUME PairInv, redemptionDebtAttestationId <= _attestationId,
           NEW caller \in Account, NEW amount \in Amount, Redeem(caller, amount)
    PROVE  /\ totalSupply' = totalSupply - amount /\ amount \in Nat
           /\ vault' = vault - amount
           /\ Netted' = Netted + amount
           /\ redemptionDebtAttestationId' <= _attestationId'
           /\ UNCHANGED <<oracleVars, signed>>
<1>1. amount \in Nat
  BY ArcSettleAssumption DEF Gate!GateAssumption, Gate!UInt
<1>2. Gate!Redeem(caller, amount) /\ vault' = vault - amount /\ UNCHANGED <<oracleVars, signed>>
  BY DEF Redeem
<1>3. totalSupply' = totalSupply - amount
  BY <1>2, SameAssumption, SameRedeem, GateFacts!RedeemConserves DEF PairInv
<1>4. getters[oracle] = [status |-> "ok", reserves |-> _reserves,
                         timestamp |-> _attestedAt, id |-> _attestationId]
  BY PairTypes DEF getters
<1>5. /\ pendingRedemptions' = IF _attestationId > redemptionDebtAttestationId
                               THEN amount ELSE pendingRedemptions + amount
      /\ redemptionDebtAttestationId' = IF _attestationId > redemptionDebtAttestationId
                                        THEN _attestationId ELSE redemptionDebtAttestationId
  BY <1>2, <1>4 DEF Gate!Redeem, Gate!NewDebt, Gate!SeenId
<1> QED BY <1>1, <1>2, <1>3, <1>5, PairTypes DEF Netted, oracleVars

\* Any other call of the gate.
LEMMA OtherGateCall ==
    Gate!TokenNext \/ Gate!AdminNext =>
        UNCHANGED <<totalSupply, pendingRedemptions, redemptionDebtAttestationId>>
  BY DEF Gate!TokenNext, Gate!Transfer, Gate!Approve, Gate!TransferFrom, Gate!Move,
         Gate!AdminNext, Gate!SetSettler, Gate!ProposeOracle, Gate!CommitOracle,
         Gate!CancelOracle, Gate!TransferOwnership, Gate!AcceptOwnership,
         Gate!claimVars, Gate!debtVars

LEMMA PairNext == PairInv /\ HNext => PairInv'
  BY HistoryStep, NextPair

LEMMA RedeemSolvent ==
    ASSUME SolventInv, PairInv', NEW caller \in Account, NEW amount \in Amount,
           Redeem(caller, amount), paidOut' = paidOut + amount,
           UNCHANGED <<paidBefore, observed, lag>>
    PROVE  SolventInv'
<1>1. /\ totalSupply' = totalSupply - amount /\ amount \in Nat
      /\ vault' = vault - amount
      /\ Netted' = Netted + amount
      /\ redemptionDebtAttestationId' <= _attestationId'
      /\ UNCHANGED <<_reserves, signed>>
  BY RedeemEffect DEF SolventInv, oracleVars
<1>2. totalSupply \in Nat /\ vault \in Int /\ Netted \in Nat
  BY PairTypes DEF SolventInv
<1>3. paidOut \in Nat /\ observed \in Nat /\ lag \in Nat
  BY DEF SolventInv
<1>4. \A before \in Nat : vault' + paidOut' - before = vault + paidOut - before
  BY <1>1, <1>2, <1>3
<1>5. \A s \in signed' : paidBefore'[s] \in Nat /\ Backed(s.digest.reserves, paidBefore[s])'
  BY <1>1, <1>4 DEF SolventInv, Backed
<1>6. _reserves' \in Nat /\ Backed(_reserves, observed)'
  BY <1>1, <1>3, <1>4 DEF SolventInv, Backed
<1>7. paidOut' - observed' <= Netted' + lag' /\ SolventUpToRelay'
  BY <1>1, <1>2, <1>3 DEF SolventInv, SolventUpToRelay
<1> QED BY <1>1, <1>3, <1>5, <1>6, <1>7 DEF SolventInv

LEMMA AttestSolvent ==
    ASSUME SolventInv, PairInv', NEW key \in Key, NEW t \in Stamp, NEW n \in Nonce,
           Attest(key, t, n),
           paidBefore' = [s \in signed' |->
                            IF s = [signer |-> key,
                                    digest |-> Reserve!attestationDigest(found, t, n)]
                            THEN paidOut ELSE paidBefore[s]],
           UNCHANGED <<paidOut, observed, lag>>
    PROVE  SolventInv'
<1> DEFINE new == [signer |-> key, digest |-> Reserve!attestationDigest(found, t, n)]
<1>1. /\ signed' = signed \cup {new}
      /\ UNCHANGED <<totalSupply, pendingRedemptions, redemptionDebtAttestationId,
                     _reserves, _attestationId, vault>>
  BY DEF Attest, Reserve!Sign, Reserve!oracleVars, Reserve!ownerVars, Reserve!keyVars,
         Reserve!readingVars, gateVars
<1>2. new.digest.reserves = found
  BY DEF Reserve!attestationDigest
<1>3. vault \in Int /\ paidOut \in Nat
  BY PairTypes DEF SolventInv
<1> HIDE DEF new
<1>4. ASSUME NEW s \in signed'
      PROVE  paidBefore'[s] \in Nat /\ Backed(s.digest.reserves, paidBefore[s])'
  <2>1. CASE s = new
    <3>1. paidBefore'[s] = paidOut
      BY <2>1 DEF new
    <3> QED BY <1>1, <1>2, <1>3, <2>1, <3>1 DEF Backed, found
  <2>2. CASE s # new
    <3>1. paidBefore'[s] = paidBefore[s] /\ s \in signed
      BY <1>1, <2>2 DEF new
    <3> QED BY <1>1, <3>1 DEF SolventInv, Backed
  <2> QED BY <2>1, <2>2
<1>5. SolventUpToRelay' /\ Netted' = Netted /\ Backed(_reserves, observed)'
  BY <1>1 DEF SolventInv, SolventUpToRelay, Netted, Backed
<1> QED BY <1>1, <1>4, <1>5 DEF SolventInv

\* A step that neither pays out, nor signs, nor lands a figure.
LEMMA QuietSolvent ==
    ASSUME SolventInv, PairInv', SolventUpToRelay', Netted' = Netted,
           vault' >= vault,
           redemptionDebtAttestationId' = redemptionDebtAttestationId,
           UNCHANGED <<_reserves, _attestationId, signed, paidOut, paidBefore, observed, lag>>
    PROVE  SolventInv'
<1>1. vault \in Int /\ vault' \in Int /\ paidOut \in Nat /\ observed \in Nat
  BY DEF SolventInv, PairInv, ProofInv
<1>2. ASSUME NEW s \in signed
      PROVE  paidBefore[s] \in Nat /\ Backed(s.digest.reserves, paidBefore[s])'
  <2>1. s.digest.reserves \in Int
    BY DEF SolventInv, PairInv, ProofInv, UInt
  <2> QED BY <1>1, <2>1 DEF SolventInv, Backed
<1>3. Backed(_reserves, observed)'
  BY <1>1 DEF SolventInv, Backed
<1> QED BY <1>2, <1>3 DEF SolventInv

\* USDC that covers the claims still does when there is more of it.
LEMMA MoreCovers ==
    ASSUME NEW claims \in Nat, NEW usdc \in Int, NEW hidden \in Nat, NEW more \in Int,
           claims <= usdc + hidden, more >= usdc
    PROVE  claims <= more + hidden
  OBVIOUS

LEMMA IdleSolvent ==
    ASSUME SolventInv, PairInv', vault' >= vault,
           UNCHANGED <<totalSupply, pendingRedemptions, redemptionDebtAttestationId, _reserves,
                       _attestationId, signed, paidOut, paidBefore, observed, lag>>
    PROVE  SolventInv'
<1>1. totalSupply <= vault + lag /\ totalSupply \in Nat /\ vault \in Int /\ lag \in Nat
  BY PairTypes DEF SolventInv, SolventUpToRelay
<1>2. vault' \in Int
  BY DEF PairInv, ProofInv
<1>3. Netted' = Netted
  BY DEF Netted
<1>5. totalSupply <= vault' + lag
  BY <1>1, <1>2, MoreCovers
<1>6. SolventUpToRelay'
  BY <1>5 DEF SolventUpToRelay
<1> QED BY <1>3, <1>6, QuietSolvent

LEMMA LandSolvent ==
    ASSUME SolventInv, PairInv', NEW signature \in signed, NEW form,
           Reserve!SubmitAttestation(signature.digest.reserves, signature.digest.attestedAt,
                                    signature.digest.nonce, signature, form),
           UNCHANGED <<gateVars, vault, paidOut, paidBefore>>,
           NEW s \in signed, Landed(s), observed' = paidBefore[s],
           lag' = IF paidOut - paidBefore[s] > lag THEN paidOut - paidBefore[s] ELSE lag
    PROVE  SolventInv'
<1>1. /\ _attestationId' = _attestationId + 1 /\ UNCHANGED signed
      /\ _reserves' = s.digest.reserves
      /\ UNCHANGED <<totalSupply, redemptionDebtAttestationId>>
  BY DEF Reserve!SubmitAttestation, Landed, Reserve!attestationDigest, gateVars
<1>2. /\ redemptionDebtAttestationId \in Nat /\ _attestationId \in Nat
      /\ totalSupply \in Nat /\ vault \in Int
  BY PairTypes DEF SolventInv
<1>3. paidOut \in Nat /\ paidBefore[s] \in Nat /\ lag \in Nat
  BY DEF SolventInv
<1>4. Netted' = 0 /\ redemptionDebtAttestationId' <= _attestationId'
  BY <1>1, <1>2 DEF Netted, SolventInv
<1>5. lag' \in Nat /\ lag' >= lag /\ paidOut - observed' <= lag'
  BY <1>3
<1>6. _reserves' \in Nat /\ Backed(_reserves, observed)'
  <2>1. s.digest.reserves \in Nat
    BY DEF SolventInv, PairInv, ProofInv, UInt
  <2> QED BY <1>1, <2>1 DEF SolventInv, Backed
<1>7. SolventUpToRelay'
  BY <1>1, <1>2, <1>3, <1>5 DEF SolventInv, SolventUpToRelay
<1>8. \A z \in signed' : paidBefore'[z] \in Nat /\ Backed(z.digest.reserves, paidBefore[z])'
  BY <1>1 DEF SolventInv, Backed
<1> QED BY <1>1, <1>3, <1>4, <1>5, <1>6, <1>7, <1>8 DEF SolventInv

LEMMA OtherSolvent ==
    ASSUME SolventInv, PairInv', OtherNext,
           IF nonce' = nonce THEN UNCHANGED <<observed, lag, speaker>>
           ELSE \E s \in signed :
                   /\ Landed(s)
                   /\ speaker' = s.signer
                   /\ observed' = paidBefore[s]
                   /\ lag' = IF paidOut - paidBefore[s] > lag
                             THEN paidOut - paidBefore[s] ELSE lag,
           UNCHANGED <<paidOut, paidBefore>>
    PROVE  SolventInv'
<1>1. PairInv /\ ProofInv /\ vault \in Int /\ totalSupply \in Nat
  BY PairTypes DEF SolventInv, PairInv
<1>2. CASE GateCall
  <2>1. UNCHANGED <<oracleVars, signed, vault, observed, lag>>
    BY <1>2 DEF GateCall, oracleVars
  <2>2. ASSUME NEW caller \in Account, NEW to \in Account \cup {ZeroAddress},
               NEW amount \in Amount, Gate!Settle(caller, to, amount)
        PROVE  SolventInv'
    <3>1. /\ totalSupply' = totalSupply + amount
          /\ totalSupply' + Netted <= _reserves /\ 0 < _reserves
          /\ redemptionDebtAttestationId' = redemptionDebtAttestationId
          /\ Netted' = Netted /\ amount \in Nat
      BY <1>1, <2>1, <2>2, SettleEffect DEF oracleVars
    <3>2. /\ paidOut \in Nat /\ observed \in Nat /\ lag \in Nat /\ Netted \in Nat
          /\ _reserves \in Nat
          /\ _reserves <= vault + paidOut - observed
          /\ paidOut - observed <= Netted + lag
      BY <1>1, <3>1, PairTypes DEF SolventInv, Backed
    <3>3. totalSupply' <= vault + lag
      BY <1>1, <3>1, <3>2
    <3> QED BY <1>1, <2>1, <3>1, <3>3, QuietSolvent DEF oracleVars, SolventUpToRelay
  <2>3. CASE Gate!TokenNext \/ Gate!AdminNext
    BY <1>1, <2>1, <2>3, OtherGateCall, IdleSolvent DEF oracleVars
  <2> QED BY <1>2, <2>2, <2>3 DEF GateCall
<1>3. ASSUME UNCHANGED <<gateVars, _reserves, _attestationId, nonce, signed>>,
             vault' >= vault
      PROVE  SolventInv'
  <2>1. UNCHANGED <<totalSupply, pendingRedemptions, redemptionDebtAttestationId>>
    BY <1>3 DEF gateVars
  <2> QED BY <1>3, <2>1, IdleSolvent
<1>4. ASSUME NEW signature \in signed, NEW form, UNCHANGED <<gateVars, vault>>,
             Reserve!SubmitAttestation(signature.digest.reserves, signature.digest.attestedAt,
                                      signature.digest.nonce, signature, form)
      PROVE  SolventInv'
  <2>1. nonce' # nonce
    BY <1>1, <1>4 DEF Reserve!SubmitAttestation, Reserve!InOrder, ProofInv
  <2> QED BY <1>4, <2>1, LandSolvent
<1>5. CASE Reserve!AdminNext /\ UNCHANGED <<gateVars, vault>>
  <2>1. UNCHANGED <<_reserves, _attestationId, nonce, signed>>
    BY <1>5 DEF Reserve!AdminNext, Reserve!ConfirmAttestor, Reserve!AnnounceAttestor,
       Reserve!CancelAttestor, Reserve!RevokeAttestor, Reserve!TransferOwnership,
       Reserve!AcceptOwnership, Reserve!readingVars
  <2> QED BY <1>1, <1>3, <1>5, <2>1
<1>6. ASSUME NEW amount \in Amount, Deposit(amount)
      PROVE  SolventInv'
  <2>1. amount \in Nat
    BY ArcSettleAssumption DEF Gate!GateAssumption, Gate!UInt
  <2> QED BY <1>1, <1>3, <1>6, <2>1 DEF Deposit, oracleVars
<1>7. CASE Tick
  BY <1>1, <1>3, <1>7 DEF Tick, Reserve!Tick, Reserve!oracleVars, Reserve!readingVars
<1> QED BY <1>2, <1>4, <1>5, <1>6, <1>7 DEF OtherNext, OracleCall

LEMMA NextSolvent == SolventInv /\ [HNext]_hvars => SolventInv'
<1> SUFFICES ASSUME SolventInv, [HNext]_hvars PROVE SolventInv'
  OBVIOUS
<1>1. PairInv'
  BY HistoryStep, NextPair DEF SolventInv
<1>2. CASE HNext
  BY <1>1, <1>2, RedeemSolvent, AttestSolvent, OtherSolvent DEF HNext
<1>3. CASE UNCHANGED hvars
  <2>1. UNCHANGED <<totalSupply, pendingRedemptions, redemptionDebtAttestationId, _reserves,
                    _attestationId, signed, vault, paidOut, paidBefore, observed, lag>>
    BY <1>3 DEF hvars, vars, gateVars, oracleVars
  <2>2. vault' >= vault
    BY <2>1, PairTypes DEF SolventInv
  <2> QED BY <1>1, <2>1, <2>2, IdleSolvent
<1> QED BY <1>2, <1>3

\* Claims exceed the USDC in the reserve by no more than was ever paid out between the
\* signing of a figure and its landing: for any accounts, keys, delays and orders of
\* redemptions, deposits, signatures and relays (settle, redeem, submitAttestation).
THEOREM ClaimsCoveredUpToRelay == HSpec => []SolventUpToRelay
<1>1. SolventInv => SolventUpToRelay
  BY DEF SolventInv
<1> QED BY <1>1, InitSolvent, NextSolvent, PTL DEF HSpec
------------------------------------------------------------------------------
(* The word of a revoked key.  A figure bears no later time than its        *)
(* signer's revocation: a date beyond the clock does not land.              *)

WordInv ==
    /\ PairInv
    /\ _attestedAt \in Nat /\ _attestedAt <= now
    /\ speaker \in Key /\ revokedAt \in [Key -> Nat]
    /\ \A s \in signed : s.signer \in Key
    /\ speaker \in isAttestor \/ _attestedAt <= revokedAt[speaker]

LEMMA InitWord == HInit => WordInv
<1> SUFFICES ASSUME HInit PROVE WordInv
  OBVIOUS
<1>1. PairInv
  BY InitPair DEF HInit
<1>2. FirstAttestor \in Key /\ StartTime \in Nat
  BY ArcSettleAssumption DEF Reserve!OracleAssumption
<1>3. _attestedAt = 0 /\ now = StartTime /\ signed = {} /\ isAttestor = {FirstAttestor}
  BY DEF HInit, Init, Reserve!Init
<1> QED BY <1>1, <1>2, <1>3 DEF HInit, WordInv

\* What the other calls do to the figure's time and to the clock.
LEMMA OtherEffect ==
    ASSUME WordInv, OtherNext
    PROVE  /\ now <= now' /\ signed' = signed
           /\ \/ UNCHANGED <<nonce, _attestedAt>>
              \/ /\ nonce' # nonce /\ UNCHANGED <<isAttestor, now>>
                 /\ _attestedAt' \in Nat /\ _attestedAt' <= now
<1>1. now \in Nat /\ nonce \in Nat
  BY PairTypes DEF WordInv, PairInv, ProofInv
<1>2. CASE GateCall \/ \E amount \in Amount : Deposit(amount)
  <2>1. ASSUME GateCall PROVE UNCHANGED <<oracleVars, signed, now>>
    <3>1. Gate!TokenNext => UNCHANGED Gate!envVars
      BY DEF Gate!TokenNext, Gate!Transfer, Gate!Approve, Gate!TransferFrom, Gate!Move
    <3>2. Gate!AdminNext => UNCHANGED Gate!envVars
      BY DEF Gate!AdminNext, Gate!SetSettler, Gate!ProposeOracle, Gate!CommitOracle,
         Gate!CancelOracle, Gate!TransferOwnership, Gate!AcceptOwnership
    <3>3. ASSUME NEW caller, NEW to, NEW amount, Gate!Settle(caller, to, amount)
          PROVE  UNCHANGED Gate!envVars
      BY <3>3 DEF Gate!Settle
    <3>4. UNCHANGED Gate!envVars
      BY <2>1, <3>1, <3>2, <3>3 DEF GateCall
    <3>5. now' = now
      BY <3>4 DEF Gate!envVars
    <3> QED BY <2>1, <3>5 DEF GateCall
  <2>2. ASSUME NEW amount \in Amount, Deposit(amount)
        PROVE  UNCHANGED <<oracleVars, signed, now>>
    BY <2>2 DEF Deposit
  <2> QED BY <1>1, <1>2, <2>1, <2>2 DEF oracleVars
<1>3. CASE Tick
  BY <1>1, <1>3 DEF Tick, Reserve!Tick, Reserve!oracleVars, Reserve!readingVars
<1>4. ASSUME NEW signature \in signed, NEW form \in Reserve!Forms,
             Reserve!SubmitAttestation(signature.digest.reserves, signature.digest.attestedAt,
                                      signature.digest.nonce, signature, form)
      PROVE  /\ nonce' # nonce /\ UNCHANGED <<isAttestor, now, signed>>
             /\ _attestedAt' \in Nat /\ _attestedAt' <= now
  <2>1. signature.digest.attestedAt \in Nat
    BY ArcSettleAssumption DEF WordInv, PairInv, ProofInv, Reserve!OracleAssumption
  <2> QED BY <1>1, <1>4, <2>1 DEF Reserve!SubmitAttestation, Reserve!InOrder, Reserve!keyVars
<1>5. CASE Reserve!AdminNext
  BY <1>1, <1>5 DEF Reserve!AdminNext, Reserve!ConfirmAttestor, Reserve!AnnounceAttestor,
     Reserve!CancelAttestor, Reserve!RevokeAttestor, Reserve!TransferOwnership,
     Reserve!AcceptOwnership, Reserve!readingVars
<1> QED BY <1>1, <1>2, <1>3, <1>4, <1>5 DEF OtherNext, OracleCall

LEMMA OtherWord ==
    ASSUME WordInv, PairInv', OtherNext,
           IF nonce' = nonce THEN UNCHANGED <<observed, lag, speaker>>
           ELSE \E s \in signed : Landed(s) /\ speaker' = s.signer,
           revokedAt' = [k \in Key |-> IF k \in isAttestor' THEN 0
                                       ELSE IF k \in isAttestor THEN now
                                       ELSE revokedAt[k]]
    PROVE  WordInv'
<1>1. now \in Nat /\ now' \in Nat
  BY PairTypes DEF WordInv, PairInv, ProofInv, GateFacts!Conserved, GateFacts!TypeOK
<1>2. revokedAt' \in [Key -> Nat]
  BY <1>1 DEF WordInv
<1>3. CASE UNCHANGED <<nonce, _attestedAt>>
  <2>1. speaker' = speaker /\ speaker \in Key
    BY <1>3 DEF WordInv
  <2>2. speaker' \in isAttestor' \/ _attestedAt' <= revokedAt'[speaker']
    BY <1>3, <2>1 DEF WordInv
  <2>3. now <= now' /\ signed' = signed
    BY OtherEffect
  <2> QED BY <1>1, <1>2, <1>3, <2>1, <2>2, <2>3 DEF WordInv
<1>4. CASE nonce' # nonce /\ UNCHANGED isAttestor /\ _attestedAt' \in Nat /\ _attestedAt' <= now
  <2>1. PICK s \in signed : Landed(s) /\ speaker' = s.signer
    BY <1>4
  <2>2. speaker' \in Key /\ speaker' \in isAttestor'
    BY <1>4, <2>1 DEF WordInv, Landed
  <2>3. now <= now' /\ signed' = signed
    BY OtherEffect
  <2> QED BY <1>1, <1>2, <1>4, <2>2, <2>3 DEF WordInv
<1> QED BY <1>3, <1>4, OtherEffect

\* Paying out and signing leave the figure, the keys and the clock alone.
LEMMA StillWord ==
    ASSUME WordInv, PairInv', UNCHANGED <<_attestedAt, now, isAttestor, speaker, revokedAt>>,
           \A s \in signed' : s.signer \in Key
    PROVE  WordInv'
  BY DEF WordInv

LEMMA NextWord == WordInv /\ [HNext]_hvars => WordInv'
<1> SUFFICES ASSUME WordInv, [HNext]_hvars PROVE WordInv'
  OBVIOUS
<1>1. PairInv'
  BY HistoryStep, NextPair DEF WordInv
<1>2. ASSUME NEW caller \in Account, NEW amount \in Amount, Redeem(caller, amount),
             UNCHANGED <<speaker, revokedAt>>
      PROVE  WordInv'
  <2>1. UNCHANGED <<_attestedAt, isAttestor, signed>>
    BY <1>2 DEF Redeem, oracleVars
  <2>2. now' = now
    BY <1>2 DEF Redeem, Gate!Redeem, Gate!envVars
  <2> QED BY <1>1, <1>2, <2>1, <2>2, StillWord DEF WordInv
<1>3. ASSUME NEW key \in Key, NEW t \in Stamp, NEW n \in Nonce, Attest(key, t, n),
             UNCHANGED <<speaker, revokedAt>>
      PROVE  WordInv'
  <2>1. /\ signed' = signed \cup {[signer |-> key,
                                   digest |-> Reserve!attestationDigest(found, t, n)]}
        /\ UNCHANGED <<_attestedAt, isAttestor, now>>
    BY <1>3 DEF Attest, Reserve!Sign, Reserve!oracleVars, Reserve!keyVars, Reserve!readingVars
  <2>2. \A s \in signed' : s.signer \in Key
    BY <2>1 DEF WordInv
  <2> QED BY <1>1, <1>3, <2>1, <2>2, StillWord
<1>4. CASE HNext
  BY <1>1, <1>2, <1>3, <1>4, OtherWord DEF HNext
<1>5. CASE UNCHANGED hvars
  <2>1. UNCHANGED <<_attestedAt, now, isAttestor, speaker, revokedAt, signed>>
    BY <1>5 DEF hvars, vars, oracleVars
  <2> QED BY <1>1, <2>1, StillWord DEF WordInv
<1> QED BY <1>4, <1>5

\* Only settling raises the supply, and only on a figure that is fresh enough.
LEMMA OnlySettleIssues ==
    ASSUME WordInv, HNext, totalSupply' > totalSupply
    PROVE  now - _attestedAt <= maxAttestationAge
<1>1. totalSupply \in Nat
  BY PairTypes DEF WordInv
<1>2. ASSUME NEW caller \in Account, NEW amount \in Amount, Redeem(caller, amount)
      PROVE  totalSupply' = totalSupply - amount /\ amount \in Nat
  BY <1>2, ArcSettleAssumption, SameAssumption, SameRedeem, GateFacts!RedeemConserves
     DEF Redeem, WordInv, PairInv, Gate!GateAssumption, Gate!UInt
<1>3. ASSUME NEW key \in Key, NEW t \in Stamp, NEW n \in Nonce, Attest(key, t, n)
      PROVE  totalSupply' = totalSupply
  BY <1>3 DEF Attest, gateVars
<1>4. CASE GateCall
  BY <1>1, <1>4, SettleEffect, OtherGateCall DEF GateCall, WordInv
<1>5. OracleCall \/ Tick \/ (\E amount \in Amount : Deposit(amount)) => totalSupply' = totalSupply
  BY DEF OracleCall, Tick, Deposit, gateVars
<1> QED BY <1>1, <1>2, <1>3, <1>4, <1>5 DEF HNext, OtherNext

\* Once a key is revoked, nothing is issued on its last figure for longer than the
\* freshness bound (revokeAttestor, submitAttestation's refusal of future dates, and
\* settle's of old ones), for any keys, clocks and signatures left unsubmitted.
THEOREM RevokedWordDies == HSpec => RevokedWordExpires
<1>1. ASSUME WordInv, [HNext]_hvars, totalSupply' > totalSupply
      PROVE  speaker \in isAttestor \/ now - revokedAt[speaker] <= maxAttestationAge
  <2>1. totalSupply \in Nat /\ now \in Nat /\ maxAttestationAge \in Nat
    BY <1>1, PairTypes DEF WordInv
  <2>2. HNext
    BY <1>1, <2>1 DEF hvars, vars, gateVars
  <2>3. now - _attestedAt <= maxAttestationAge
    BY <1>1, <2>2, OnlySettleIssues
  <2>4. CASE speaker \notin isAttestor
    <3>1. /\ revokedAt[speaker] \in Nat /\ _attestedAt \in Nat
          /\ _attestedAt <= revokedAt[speaker]
      BY <1>1, <2>4 DEF WordInv
    <3> QED BY <2>1, <2>3, <3>1
  <2> QED BY <2>4
<1> QED BY <1>1, InitWord, NextWord, PTL DEF HSpec, RevokedWordExpires
==============================================================================
