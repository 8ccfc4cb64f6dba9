------------------------------ MODULE ArcSettle ------------------------------
(***************************************************************************)
(* The two contracts together, and the USDC they are about.  ArcSettlement *)
(* reads ReserveAttestationOracle on one chain with one clock.  Off-chain, *)
(* USDC is deposited and paid out on redemption, and attestors sign what   *)
(* they find in the reserve; a signature reaches the oracle later, through *)
(* anybody, or never.  Attestors tell the truth about the figure; the time *)
(* they put on it is their own clock's.                                    *)
(***************************************************************************)
EXTENDS Integers, FiniteSets

CONSTANTS
    Account, ZeroAddress, Deployer, UINT_MAX,
    OracleAddress,                     \* where ReserveAttestationOracle lives
    ORACLE_TIMELOCK, ORACLE_PROPOSAL_GRACE, MIN_ATTESTATION_AGE, MAX_ATTESTATION_AGE,
    Amount, Approval, Nominee, MaxAgeArg,
    Key, FirstAttestor, Unrelated, Domain, This, ATTESTOR_TIMELOCK, ATTESTOR_GRACE,
    Stamp, Nonce,
    MaxSigned, StartTime, MaxTime      \* bounds

VARIABLES
    \* ArcSettlement
    totalSupply, balanceOf, allowance, owner, pendingOwner, isSettler,
    oracle, maxAttestationAge, proposal,
    pendingRedemptions, redemptionDebtAttestationId,
    \* ReserveAttestationOracle
    oracleOwner, oraclePendingOwner, isAttestor, attestorEta,
    _reserves, _attestedAt, _attestationId, nonce, signed,
    \* the chain, and the USDC in the reserve, less what redeemers are still owed
    now, vault

UInt == 0 .. UINT_MAX

\* What ArcSettlement reads through IReserveOracle are the oracle's getters,
\* which never revert.
getters == [o \in {OracleAddress} |->
              [status |-> "ok", reserves |-> _reserves,
               timestamp |-> _attestedAt, id |-> _attestationId]]

Gate == INSTANCE ArcSettlement WITH
    Oracle <- {OracleAddress}, Figure <- UInt, Status <- {"ok"},
    MaxId <- MaxSigned, feed <- getters

Reserve == INSTANCE ReserveAttestationOracle WITH
    owner <- oracleOwner, pendingOwner <- oraclePendingOwner, Figure <- UInt

gateVars == <<totalSupply, balanceOf, allowance, owner, pendingOwner, isSettler, oracle,
              maxAttestationAge, proposal, pendingRedemptions, redemptionDebtAttestationId>>
oracleVars == <<oracleOwner, oraclePendingOwner, isAttestor, attestorEta,
                _reserves, _attestedAt, _attestationId, nonce>>
vars == <<gateVars, oracleVars, signed, now, vault>>

\* Both contracts are deployed as each assumes, on one chain.
ASSUME ArcSettleAssumption ==
    Gate!GateAssumption /\ Reserve!OracleAssumption

Init == Reserve!Init /\ Gate!Init /\ vault = 0

------------------------------------------------------------------------------
\* A redemption pays the USDC out; no other call of the contract moves any.
Redeem(caller, amount) ==
    /\ UNCHANGED <<oracleVars, signed>>
    /\ Gate!Redeem(caller, amount)
    /\ vault' = vault - amount

GateCall ==
    /\ UNCHANGED <<oracleVars, signed, vault>>
    /\ \/ \E caller \in Account, to \in Account \cup {ZeroAddress}, amount \in Amount :
             Gate!Settle(caller, to, amount)
       \/ Gate!TokenNext
       \/ Gate!AdminNext

OracleCall ==
    /\ \/ \E signature \in signed, form \in Reserve!Forms :
             Reserve!SubmitAttestation(signature.digest.reserves, signature.digest.attestedAt,
                                      signature.digest.nonce, signature, form)
       \/ Reserve!AdminNext
    /\ UNCHANGED <<gateVars, vault>>

Deposit(amount) ==
    /\ vault + amount <= UINT_MAX
    /\ vault' = vault + amount
    /\ UNCHANGED <<gateVars, oracleVars, signed, now>>

\* What an attestor finds in the reserve: nothing, while redeemers are owed more.
found == IF vault > 0 THEN vault ELSE 0

Attest(key, attestedAt, attestationNonce) ==
    /\ Reserve!Sign(key, Reserve!attestationDigest(found, attestedAt, attestationNonce))
    /\ UNCHANGED <<gateVars, vault>>

Tick ==
    /\ Reserve!Tick
    /\ UNCHANGED <<gateVars, vault>>

OtherNext ==
    \/ GateCall
    \/ OracleCall
    \/ \E amount \in Amount : Deposit(amount)
    \/ Tick

Next ==
    \/ \E caller \in Account, amount \in Amount : Redeem(caller, amount)
    \/ \E key \in Key, t \in Stamp, n \in Nonce : Attest(key, t, n)
    \/ OtherNext

Spec == Init /\ [][Next]_vars

\* Behind the real oracle the gate meets what ArcSettlement allows of an oracle, and less:
\* a reading changes only with the id, and the id by one, so that no figure is restated
\* under an id a debt was booked against (ArcSettlement.sol:177).
GateSpec == Gate!Spec
    /\ [][_attestationId' = _attestationId + 1]_<<_reserves, _attestedAt, _attestationId>>
==============================================================================
