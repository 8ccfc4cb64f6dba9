---------------------------- MODULE ArcSettlement ----------------------------
(***************************************************************************)
(* The settlement contract, src/src/ArcSettlement.sol: an ERC-20 whose     *)
(* issuance (settle) is refused unless a reserve oracle proves cover.      *)
(* One action is one transaction: the EVM runs it to the end or reverts    *)
(* it, and every call to the oracle is a STATICCALL, so nothing interleaves*)
(* inside one.  A reverted transaction changes nothing and is no step.     *)
(*                                                                         *)
(* The oracles are the environment.  All the gate sees of one is its three *)
(* getters (IReserveOracle.sol), so an oracle is the reading it would      *)
(* answer with; how a reading may change follows the mocks the contract is *)
(* tested with.  The repository's own oracle is ReserveAttestationOracle,  *)
(* and the two are composed in ArcSettle.                                  *)
(***************************************************************************)
EXTENDS Integers, FiniteSets

CONSTANTS
    Account,               \* addresses that send transactions or hold claims
    Oracle,                \* addresses an oracle may live at
    ZeroAddress,           \* address(0): holds nothing, sends nothing
    Deployer,              \* sender of the constructor
    UINT_MAX,              \* type(uint256).max
    ORACLE_TIMELOCK, ORACLE_PROPOSAL_GRACE,
    MIN_ATTESTATION_AGE, MAX_ATTESTATION_AGE,
    \* Arguments of the calls.  An empty set removes the calls that take it.
    Amount,                \* amounts to settle, redeem and transfer
    Approval,              \* values to approve
    Nominee,               \* addresses to make a settler, or the next owner
    MaxAgeArg,             \* freshness bounds to deploy with or to propose
    \* Behaviour of the oracles.
    Figure, Stamp,         \* reserves and timestamps an oracle may report
    Status,                \* how an oracle may answer, see Statuses
    \* Bounds.
    StartTime, MaxTime,    \* block time at deployment, last block time explored
    MaxId                  \* attestation id after which no proof is published

(***************************************************************************)
(* How the oracle behaves when called.  "noReserves" and "noId": that one  *)
(* getter reverts.  "malformed": the call returns, with data that does not *)
(* decode as a uint256 (the address holds no code, or other code).         *)
(***************************************************************************)
Statuses == {"ok", "noReserves", "noId", "malformed"}

UInt == 0 .. UINT_MAX

ASSUME GateAssumption ==
    /\ IsFiniteSet(Account)
    /\ Deployer \in Account
    /\ ZeroAddress \notin Account \cup Oracle
    /\ UINT_MAX \in Nat \ {0}
    /\ ORACLE_TIMELOCK \in Nat
    /\ ORACLE_PROPOSAL_GRACE \in Nat
    /\ MIN_ATTESTATION_AGE \in Nat
    /\ MAX_ATTESTATION_AGE \in Nat
    /\ Amount \subseteq UInt
    /\ Approval \subseteq UInt
    /\ Nominee \subseteq Account \cup {ZeroAddress}
    /\ MaxAgeArg \subseteq Nat
    /\ Figure \subseteq UInt
    /\ Stamp \subseteq Nat
    /\ Status \subseteq Statuses
    /\ StartTime \in Nat
    \* A never-attested oracle (timestamp 0) is stale: block time is decades past 0.
    /\ StartTime > MAX_ATTESTATION_AGE
    /\ MaxTime \in Nat
    /\ MaxId \in Nat

VARIABLES
    totalSupply, balanceOf, allowance,
    owner, pendingOwner,
    isSettler,             \* the addresses the mapping holds true for
    oracle, maxAttestationAge,
    proposal,              \* pendingOracle, pendingMaxAttestationAge, pendingOracleEta
    pendingRedemptions, redemptionDebtAttestationId,
    now,                   \* block.timestamp
    feed                   \* what each oracle would answer

claimVars == <<totalSupply, balanceOf>>
adminVars == <<owner, pendingOwner, isSettler>>
gateVars  == <<oracle, maxAttestationAge, proposal>>
debtVars  == <<pendingRedemptions, redemptionDebtAttestationId>>
envVars   == <<now, feed>>
vars == <<claimVars, allowance, adminVars, gateVars, debtVars, envVars>>

------------------------------------------------------------------------------
(***************************************************************************)
(* Arithmetic.  Wrap is what an unchecked block does with a sum or a       *)
(* difference of two words; a checked operation reverts, which is a guard  *)
(* here.  Monus is the code's "x > y ? x - y : 0".                         *)
(* An operator named after another (Discharges_AtSameId) is that operator  *)
(* with a mistake in it: no action uses it.                                *)
(***************************************************************************)
Wrap(x) == IF x < 0 THEN x + UINT_MAX + 1
           ELSE IF x > UINT_MAX THEN x - UINT_MAX - 1
           ELSE x

Monus(x, y) == IF x > y THEN x - y ELSE 0

NoProposal == [oracle |-> ZeroAddress, maxAge |-> 0, eta |-> 0]

ValidMaxAge_NoCeiling(age) == age >= MIN_ATTESTATION_AGE

ValidMaxAge(age) == age >= MIN_ATTESTATION_AGE /\ age <= MAX_ATTESTATION_AGE

Reading == [status : Statuses, reserves : UInt, timestamp : Nat, id : Nat]

(***************************************************************************)
(* The first answer of an oracle: a mock is deployed with a reading of id  *)
(* 1, the attestation oracle with nothing attested at all.                 *)
(***************************************************************************)
FirstReading ==
    {[status |-> "ok", reserves |-> 0, timestamp |-> 0, id |-> 0]} \cup
    {[status |-> "ok", reserves |-> r, timestamp |-> t, id |-> 1] :
        r \in Figure, t \in Stamp}

Init ==
    /\ totalSupply = 0
    /\ balanceOf = [a \in Account |-> 0]
    /\ allowance = [a \in Account |-> [s \in Account |-> 0]]
    /\ owner = Deployer
    /\ pendingOwner = ZeroAddress
    /\ isSettler = {Deployer}
    /\ oracle \in Oracle
    /\ maxAttestationAge \in {age \in MaxAgeArg : ValidMaxAge(age)}
    /\ proposal = NoProposal
    /\ pendingRedemptions = 0
    /\ redemptionDebtAttestationId = 0
    /\ now = StartTime
    /\ feed \in [Oracle -> FirstReading]

------------------------------------------------------------------------------
(* The reserve gate. *)

\* Neither future dated nor older than maxAttestationAge.
Usable == /\ feed[oracle].timestamp <= now
          /\ now - feed[oracle].timestamp <= maxAttestationAge

\* The two views, and whether they return at all: a getter that reverts takes
\* the view with it, except those a stale timestamp keeps from being called.
effectiveReserves ==
    IF ~Usable THEN 0
    ELSE Monus(feed[oracle].reserves,
               IF feed[oracle].id > redemptionDebtAttestationId
               THEN 0 ELSE pendingRedemptions)

settleableHeadroom == Monus(effectiveReserves, totalSupply)

ViewReturns == \/ feed[oracle].status = "ok"
               \/ feed[oracle].status # "malformed" /\ ~Usable

\* A proof newer than the booked redemptions has landed since.
Discharges_AtSameId == /\ pendingRedemptions # 0
                       /\ feed[oracle].id >= redemptionDebtAttestationId

Discharges == /\ pendingRedemptions # 0
              /\ feed[oracle].id > redemptionDebtAttestationId

SettleAccepts(caller, to, amount) ==
    /\ caller \in isSettler
    /\ to # ZeroAddress
    /\ amount # 0
    /\ feed[oracle].status = "ok"
    /\ Usable
    /\ totalSupply + amount <= UINT_MAX
    /\ totalSupply + amount <=
         Monus(feed[oracle].reserves, IF Discharges THEN 0 ELSE pendingRedemptions)

Settle_KeepsDebt(caller, to, amount) ==
    /\ SettleAccepts(caller, to, amount)
    /\ totalSupply' = totalSupply + amount
    /\ balanceOf' = [balanceOf EXCEPT ![to] = Wrap(@ + amount)]
    /\ UNCHANGED <<allowance, adminVars, gateVars, debtVars, envVars>>

Settle(caller, to, amount) ==
    /\ SettleAccepts(caller, to, amount)
    /\ pendingRedemptions' = IF Discharges THEN 0 ELSE pendingRedemptions
    /\ totalSupply' = totalSupply + amount
    /\ balanceOf' = [balanceOf EXCEPT ![to] = Wrap(@ + amount)]
    /\ UNCHANGED <<allowance, adminVars, gateVars, redemptionDebtAttestationId, envVars>>

(***************************************************************************)
(* redeem reads the id in a try: a reverting oracle leaves the debt id as  *)
(* it is.  An answer that does not decode reverts in the caller, outside   *)
(* what the catch covers.                                                  *)
(***************************************************************************)
SeenId == IF feed[oracle].status = "noId"
          THEN redemptionDebtAttestationId ELSE feed[oracle].id

NewDebt_Overwrites(amount) == amount

NewDebt(amount) == IF SeenId > redemptionDebtAttestationId
                   THEN amount ELSE pendingRedemptions + amount

RedeemAccepts(caller, amount) ==
    /\ amount # 0
    /\ balanceOf[caller] >= amount
    /\ feed[oracle].status # "malformed"
    /\ NewDebt(amount) <= UINT_MAX

Redeem(caller, amount) ==
    /\ RedeemAccepts(caller, amount)
    /\ balanceOf' = [balanceOf EXCEPT ![caller] = Wrap(@ - amount)]
    /\ totalSupply' = Wrap(totalSupply - amount)
    /\ pendingRedemptions' = NewDebt(amount)
    /\ redemptionDebtAttestationId' =
         IF SeenId > redemptionDebtAttestationId THEN SeenId ELSE redemptionDebtAttestationId
    /\ UNCHANGED <<allowance, adminVars, gateVars, envVars>>

------------------------------------------------------------------------------
(* ERC-20. *)

Moved_ReadsFirst(from, to, amount) ==
    [balanceOf EXCEPT ![from] = Wrap(@ - amount), ![to] = Wrap(balanceOf[to] + amount)]

\* The two storage writes in the code's order: from and to may be the same.
Moved(from, to, amount) ==
    LET debited == [balanceOf EXCEPT ![from] = Wrap(@ - amount)]
    IN  [debited EXCEPT ![to] = Wrap(@ + amount)]

Move(from, to, amount) ==
    /\ to # ZeroAddress
    /\ balanceOf[from] >= amount
    /\ balanceOf' = Moved(from, to, amount)
    /\ UNCHANGED <<totalSupply, adminVars, gateVars, debtVars, envVars>>

Transfer(caller, to, amount) ==
    /\ Move(caller, to, amount)
    /\ UNCHANGED allowance

Approve(caller, spender, value) ==
    /\ allowance' = [allowance EXCEPT ![caller][spender] = value]
    /\ UNCHANGED <<claimVars, adminVars, gateVars, debtVars, envVars>>

DrawnDown_Swapped(from, spender, amount) ==
    [allowance EXCEPT ![spender][from] = Wrap(@ - amount)]

\* An allowance of UINT_MAX is never drawn down.
DrawnDown(from, spender, amount) ==
    IF allowance[from][spender] = UINT_MAX THEN allowance
    ELSE [allowance EXCEPT ![from][spender] = Wrap(@ - amount)]

TransferFrom(caller, from, to, amount) ==
    /\ allowance[from][caller] >= amount
    /\ allowance' = DrawnDown(from, caller, amount)
    /\ Move(from, to, amount)

------------------------------------------------------------------------------
(* Administration. *)

SetSettler(caller, settler, enabled) ==
    /\ caller = owner
    /\ settler # ZeroAddress
    /\ isSettler' = IF enabled THEN isSettler \cup {settler} ELSE isSettler \ {settler}
    /\ UNCHANGED <<claimVars, allowance, owner, pendingOwner, gateVars, debtVars, envVars>>

\* A standing proposal is overwritten, and its delay starts again.
ProposeOracle(caller, next, maxAge) ==
    /\ caller = owner
    /\ next # ZeroAddress
    /\ ValidMaxAge(maxAge)
    /\ proposal' = [oracle |-> next, maxAge |-> maxAge, eta |-> now + ORACLE_TIMELOCK]
    /\ UNCHANGED <<claimVars, allowance, adminVars, oracle, maxAttestationAge, debtVars, envVars>>

Matured_NeverExpires == now >= proposal.eta

Matured == now >= proposal.eta /\ now <= proposal.eta + ORACLE_PROPOSAL_GRACE

CommitOracle(caller) ==
    /\ caller = owner
    /\ proposal.oracle # ZeroAddress
    /\ Matured
    /\ oracle' = proposal.oracle
    /\ maxAttestationAge' = proposal.maxAge
    /\ proposal' = NoProposal
    /\ UNCHANGED <<claimVars, allowance, adminVars, debtVars, envVars>>

CancelOracle(caller) ==
    /\ caller = owner
    /\ proposal.oracle # ZeroAddress
    /\ proposal' = NoProposal
    /\ UNCHANGED <<claimVars, allowance, adminVars, oracle, maxAttestationAge, debtVars, envVars>>

TransferOwnership(caller, newOwner) ==
    /\ caller = owner
    /\ newOwner # ZeroAddress
    /\ pendingOwner' = newOwner
    /\ UNCHANGED <<claimVars, allowance, owner, isSettler, gateVars, debtVars, envVars>>

AcceptOwnership(caller) ==
    /\ caller = pendingOwner
    /\ owner' = caller
    /\ pendingOwner' = ZeroAddress
    /\ UNCHANGED <<claimVars, allowance, isSettler, gateVars, debtVars, envVars>>

------------------------------------------------------------------------------
(* The environment: time, and the oracles. *)

contractVars == <<claimVars, allowance, adminVars, gateVars, debtVars>>

Tick ==
    /\ now < MaxTime
    /\ now' = now + 1
    /\ UNCHANGED <<contractVars, feed>>

\* A new proof: MockReserveOracle.setReserves.
Publish(o, reserves, timestamp) ==
    /\ feed[o].id < MaxId
    /\ feed' = [feed EXCEPT ![o] = [status |-> @.status, reserves |-> reserves,
                                    timestamp |-> timestamp, id |-> @.id + 1]]
    /\ UNCHANGED <<contractVars, now>>

\* The same proof, told differently: MockReserveOracle.restateWithoutNewProof.
Restate(o, reserves, timestamp) ==
    /\ feed[o].id > 0
    /\ feed' = [feed EXCEPT ![o] = [status |-> @.status, reserves |-> reserves,
                                    timestamp |-> timestamp, id |-> @.id]]
    /\ UNCHANGED <<contractVars, now>>

\* A getter starts or stops failing: BrokenOracle, ReentrantOracle.arm.
SetStatus(o, status) ==
    /\ feed' = [feed EXCEPT ![o] = [status |-> status, reserves |-> @.reserves,
                                    timestamp |-> @.timestamp, id |-> @.id]]
    /\ UNCHANGED <<contractVars, now>>

------------------------------------------------------------------------------
GateNext ==
    \/ \E caller \in Account, to \in Account \cup {ZeroAddress}, amount \in Amount :
          Settle(caller, to, amount)
    \/ \E caller \in Account, amount \in Amount : Redeem(caller, amount)

TokenNext ==
    \/ \E caller \in Account, to \in Account \cup {ZeroAddress}, amount \in Amount :
          Transfer(caller, to, amount)
    \/ \E caller, spender \in Account, value \in Approval : Approve(caller, spender, value)
    \/ \E caller, from \in Account, to \in Account \cup {ZeroAddress}, amount \in Amount :
          TransferFrom(caller, from, to, amount)

AdminNext ==
    \E caller \in Account :
       \/ \E settler \in Nominee, enabled \in BOOLEAN : SetSettler(caller, settler, enabled)
       \/ \E next \in Oracle \cup {ZeroAddress}, maxAge \in MaxAgeArg :
             ProposeOracle(caller, next, maxAge)
       \/ CommitOracle(caller)
       \/ CancelOracle(caller)
       \/ \E newOwner \in Nominee : TransferOwnership(caller, newOwner)
       \/ AcceptOwnership(caller)

EnvNext ==
    \/ Tick
    \/ \E o \in Oracle, r \in Figure, t \in Stamp : Publish(o, r, t) \/ Restate(o, r, t)
    \/ \E o \in Oracle, s \in Status : SetStatus(o, s)

Next == GateNext \/ TokenNext \/ AdminNext \/ EnvNext

Spec == Init /\ [][Next]_vars

------------------------------------------------------------------------------
(* Properties. *)

AgeRange == MIN_ATTESTATION_AGE .. MAX_ATTESTATION_AGE

\* Every variable holds a value its Solidity type and the constructor's checks
\* allow; the freshness bound stays within its two limits (lines 48-51).
TypeOK ==
    /\ totalSupply \in UInt
    /\ balanceOf \in [Account -> UInt]
    /\ allowance \in [Account -> [Account -> UInt]]
    /\ owner \in Account
    /\ pendingOwner \in Account \cup {ZeroAddress}
    /\ isSettler \subseteq Account
    /\ oracle \in Oracle
    /\ maxAttestationAge \in AgeRange
    /\ proposal \in [oracle : Oracle, maxAge : AgeRange, eta : Nat] \cup {NoProposal}
    /\ pendingRedemptions \in UInt
    /\ redemptionDebtAttestationId \in Nat
    /\ now \in Nat
    /\ feed \in [Oracle -> Reading]

\* The claims in circulation under these balances: claim i of holder a exists
\* while a's balance is at least i.
Claims(balances) == {c \in Account \X (1 .. UINT_MAX) : c[2] <= balances[c[1]]}

\* Balances add up to totalSupply in every state, though every balance is
\* written by unchecked arithmetic (lines 192-194, 208-211, 259-262) and a
\* transfer's two accounts may be one.
ClaimsConserved == Cardinality(Claims(balanceOf)) = totalSupply

\* A claim and a booked redemption are never counted into more than a word can
\* hold, whatever the oracles answer: settle nets the debt before it issues.
\* redeem's checked "pendingRedemptions += amount" (line 226) rests on it.
DebtFits == totalSupply + pendingRedemptions <= UINT_MAX

\* Redemption is always available (line 213): a holder can redeem any part of
\* its balance in every state, oracle outage or not, as long as the oracle is a
\* contract whose answer decodes.
RedemptionAlwaysAvailable ==
    feed[oracle].status # "malformed" =>
       \A a \in Account, amount \in Amount \ {0} :
          amount <= balanceOf[a] => RedeemAccepts(a, amount)

\* The view tells the truth (lines 134-138): settle accepts an amount exactly
\* when the view returns and the amount is within the headroom it returns.
HeadroomIsExactlySettleable ==
    \A s \in isSettler, a \in Account, amount \in Amount \ {0} :
       SettleAccepts(s, a, amount) <=> (ViewReturns /\ amount <= settleableHeadroom)

\* Holders and settlers never open headroom (lines 198-203): a step that changes
\* the claims or the booked debt leaves the headroom where it was or lower, so
\* only a proof, the clock or the owner can raise it.
HeadroomOnlyFromProof ==
    [][<<claimVars, debtVars>>' # <<claimVars, debtVars>>
          => settleableHeadroom' <= settleableHeadroom]_vars
==============================================================================
