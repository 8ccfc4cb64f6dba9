---------------------- MODULE ReserveAttestationOracle ----------------------
(***************************************************************************)
(* The reserve oracle, src/src/ReserveAttestationOracle.sol: a figure only *)
(* enters it with a registered attestor's signature.  One action is one    *)
(* transaction.  Off-chain, anybody who holds a key signs what it likes,   *)
(* when it likes: "signed" is every signature that exists, and any of them *)
(* may be submitted by anybody, later, never, or several times.            *)
(***************************************************************************)
EXTENDS Integers, FiniteSets

CONSTANTS
    Account,               \* addresses that own, or may be handed, the oracle
    Deployer, ZeroAddress,
    Key,                   \* addresses that hold a signing key
    FirstAttestor,         \* the constructor's argument
    Unrelated,             \* what ecrecover answers for a digest not signed
    Domain, This,          \* EIP-712 domains; the one of this contract and chain
    UINT_MAX,
    ATTESTOR_TIMELOCK, ATTESTOR_GRACE,
    Nominee,               \* arguments of transferOwnership
    Figure, Stamp, Nonce,  \* what may be signed and submitted
    MaxSigned,             \* how many signatures are made
    StartTime, MaxTime     \* block time at deployment, last one explored

UInt == 0 .. UINT_MAX

\* What is submitted as a signature: one as it was made, its high-s twin (same key,
\* same digest), bytes of the wrong length or v, or bytes no key can have made,
\* for which ecrecover answers address(0).
Forms == {"canonical", "twin", "malformed", "void"}

Address == Key \cup {ZeroAddress}

ASSUME OracleAssumption ==
    /\ Deployer \in Account
    /\ ZeroAddress \notin Account \cup Key
    /\ FirstAttestor \in Key
    /\ Unrelated \notin Key
    /\ This \in Domain
    /\ UINT_MAX \in Nat
    /\ ATTESTOR_TIMELOCK \in Nat
    /\ ATTESTOR_GRACE \in Nat
    /\ Nominee \subseteq Account \cup {ZeroAddress}
    /\ Figure \subseteq UInt
    /\ Stamp \subseteq Nat
    /\ Nonce \subseteq Nat
    /\ MaxSigned \in Nat
    /\ StartTime \in Nat
    \* Block time is decades past 0: an eta of 0 is no announcement, and the
    \* deployment's attestor counts as known for longer than the timelock.
    /\ StartTime > ATTESTOR_TIMELOCK
    /\ MaxTime \in Nat

VARIABLES
    owner, pendingOwner,
    isAttestor,            \* the keys the mapping holds true for
    attestorEta,
    _reserves, _attestedAt, _attestationId, nonce,
    now,                   \* block.timestamp
    signed                 \* every signature made so far, off-chain

ownerVars   == <<owner, pendingOwner>>
keyVars     == <<isAttestor, attestorEta>>
readingVars == <<_reserves, _attestedAt, _attestationId, nonce>>
oracleVars  == <<ownerVars, keyVars, readingVars>>
vars        == <<oracleVars, now, signed>>

------------------------------------------------------------------------------
\* attestationDigest hashes exactly these, and hashes do not collide.
Digest == [reserves : UInt, attestedAt : Nat, nonce : Nat, domain : Domain]

attestationDigest(reserves, attestedAt, attestationNonce) ==
    [reserves |-> reserves, attestedAt |-> attestedAt,
     nonce |-> attestationNonce, domain |-> This]

Signature == [signer : Key, digest : Digest]

Recovered(digest, signature, form) ==
    IF form = "void" THEN ZeroAddress
    ELSE IF signature.digest = digest THEN signature.signer ELSE Unrelated

Recovers_AnyDigest(digest, signature, form, signer) ==
    form = "canonical" /\ signer = signature.signer

\* _recover: the signer of this digest, if the bytes have the one form accepted;
\* it reverts rather than return address(0).
Recovers(digest, signature, form, signer) ==
    /\ form \notin {"twin", "malformed"}
    /\ signer = Recovered(digest, signature, form)
    /\ signer # ZeroAddress

Init ==
    /\ owner = Deployer
    /\ pendingOwner = ZeroAddress
    /\ isAttestor = {FirstAttestor}
    /\ attestorEta = [k \in Address |-> 0]
    /\ _reserves = 0
    /\ _attestedAt = 0
    /\ _attestationId = 0
    /\ nonce = 0
    /\ now = StartTime
    /\ signed = {}

------------------------------------------------------------------------------
\* A mistaken InOrder, and so below for every name of the form Operator_Mistake.
InOrder_Backdated(attestedAt, attestationNonce) ==
    attestationNonce = nonce + 1 /\ attestedAt <= now

InOrder_FutureDated(attestedAt, attestationNonce) ==
    attestationNonce = nonce + 1 /\ attestedAt > _attestedAt

InOrder(attestedAt, attestationNonce) ==
    /\ attestationNonce = nonce + 1
    /\ attestedAt <= now
    /\ attestedAt > _attestedAt

Signed(reserves, attestedAt, attestationNonce, signature, form) ==
    \E signer \in Address \cup {Unrelated} :
       /\ Recovers(attestationDigest(reserves, attestedAt, attestationNonce),
                   signature, form, signer)
       /\ signer \in isAttestor

SubmitAttestation_SameFigureKeepsId(reserves, attestedAt, attestationNonce, signature, form) ==
    /\ InOrder(attestedAt, attestationNonce)
    /\ Signed(reserves, attestedAt, attestationNonce, signature, form)
    /\ _reserves' = reserves /\ _attestedAt' = attestedAt /\ nonce' = attestationNonce
    /\ _attestationId' = IF nonce # 0 /\ reserves = _reserves
                         THEN _attestationId ELSE _attestationId + 1
    /\ UNCHANGED <<ownerVars, keyVars, now, signed>>

SubmitAttestation(reserves, attestedAt, attestationNonce, signature, form) ==
    /\ InOrder(attestedAt, attestationNonce)
    /\ Signed(reserves, attestedAt, attestationNonce, signature, form)
    /\ _reserves' = reserves
    /\ _attestedAt' = attestedAt
    /\ nonce' = attestationNonce
    /\ _attestationId' = _attestationId + 1
    /\ UNCHANGED <<ownerVars, keyVars, now, signed>>

------------------------------------------------------------------------------
(* The attestor set. *)

AnnounceAttestor_AnyAddress(caller, attestor) ==
    /\ caller = owner
    /\ attestor \notin isAttestor
    /\ attestorEta' = [attestorEta EXCEPT ![attestor] = now + ATTESTOR_TIMELOCK]
    /\ UNCHANGED <<ownerVars, isAttestor, readingVars, now, signed>>

AnnounceAttestor(caller, attestor) ==
    /\ caller = owner
    /\ attestor # ZeroAddress
    /\ attestor \notin isAttestor
    /\ attestorEta' = [attestorEta EXCEPT ![attestor] = now + ATTESTOR_TIMELOCK]
    /\ UNCHANGED <<ownerVars, isAttestor, readingVars, now, signed>>

Matured_NeverExpires(eta) == eta # 0 /\ now >= eta

Matured(eta) == eta # 0 /\ now >= eta /\ now <= eta + ATTESTOR_GRACE

\* Anybody may finish what the owner announced.
ConfirmAttestor(attestor) ==
    /\ Matured(attestorEta[attestor])
    /\ attestorEta' = [attestorEta EXCEPT ![attestor] = 0]
    /\ isAttestor' = isAttestor \cup {attestor}
    /\ UNCHANGED <<ownerVars, readingVars, now, signed>>

CancelAttestor(caller, attestor) ==
    /\ caller = owner
    /\ attestorEta[attestor] # 0
    /\ attestorEta' = [attestorEta EXCEPT ![attestor] = 0]
    /\ UNCHANGED <<ownerVars, isAttestor, readingVars, now, signed>>

\* At once, and with whatever announcement of the same key is on its way.
RevokeAttestor_KeepsAnnouncement(caller, attestor) ==
    /\ caller = owner
    /\ isAttestor' = isAttestor \ {attestor}
    /\ UNCHANGED <<ownerVars, attestorEta, readingVars, now, signed>>

RevokeAttestor(caller, attestor) ==
    /\ caller = owner
    /\ isAttestor' = isAttestor \ {attestor}
    /\ attestorEta' = [attestorEta EXCEPT ![attestor] = 0]
    /\ UNCHANGED <<ownerVars, readingVars, now, signed>>

TransferOwnership(caller, newOwner) ==
    /\ caller = owner
    /\ newOwner # ZeroAddress
    /\ pendingOwner' = newOwner
    /\ UNCHANGED <<owner, keyVars, readingVars, now, signed>>

AcceptOwnership(caller) ==
    /\ caller = pendingOwner
    /\ owner' = caller
    /\ pendingOwner' = ZeroAddress
    /\ UNCHANGED <<keyVars, readingVars, now, signed>>

------------------------------------------------------------------------------
(* The environment: keys, registered or not, and time. *)

Sign(key, digest) ==
    /\ Cardinality(signed) < MaxSigned
    /\ signed' = signed \cup {[signer |-> key, digest |-> digest]}
    /\ UNCHANGED <<oracleVars, now>>

Tick ==
    /\ now < MaxTime
    /\ now' = now + 1
    /\ UNCHANGED <<oracleVars, signed>>

ProofNext ==
    \E signature \in signed, r \in Figure, t \in Stamp, n \in Nonce, form \in Forms :
       SubmitAttestation(r, t, n, signature, form)

AdminNext ==
    \/ \E attestor \in Address : ConfirmAttestor(attestor)
    \/ \E caller \in Account, attestor \in Address :
          \/ AnnounceAttestor(caller, attestor)
          \/ CancelAttestor(caller, attestor)
          \/ RevokeAttestor(caller, attestor)
    \/ \E caller \in Account, newOwner \in Nominee : TransferOwnership(caller, newOwner)
    \/ \E caller \in Account : AcceptOwnership(caller)

EnvNext ==
    \/ Tick
    \/ \E key \in Key, r \in Figure, t \in Stamp, n \in Nonce, d \in Domain :
          Sign(key, [reserves |-> r, attestedAt |-> t, nonce |-> n, domain |-> d])

Next == ProofNext \/ AdminNext \/ EnvNext

Spec == Init /\ [][Next]_vars

------------------------------------------------------------------------------
(* Properties. *)

\* Every variable holds a value of its Solidity type.
TypeOK ==
    /\ owner \in Account
    /\ pendingOwner \in Account \cup {ZeroAddress}
    /\ isAttestor \subseteq Key
    /\ attestorEta \in [Address -> Nat]
    /\ _reserves \in UInt
    /\ _attestedAt \in Nat
    /\ _attestationId \in Nat
    /\ nonce \in Nat
    /\ now \in Nat
    /\ signed \subseteq Signature

\* The figure in force is word for word one that a key signed for this contract
\* and this chain, under the nonce the oracle is at (lines 8-12, 118-125): it is
\* never mixed from two signatures, edited by the relayer, or set by the owner.
FigureIsSigned ==
    nonce > 0 =>
       \E s \in signed :
          s.digest = [reserves |-> _reserves, attestedAt |-> _attestedAt,
                      nonce |-> nonce, domain |-> This]

\* A proof is never replaced by an older or a future one, the id counts the
\* accepted proofs and nothing else changes the reading (lines 130-146).
ProofsInOrder ==
    [][readingVars' # readingVars =>
          /\ _attestationId' = _attestationId + 1
          /\ nonce' = _attestationId'
          /\ _attestedAt' > _attestedAt
          /\ _attestedAt' <= now]_vars
==============================================================================
