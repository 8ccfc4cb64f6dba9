------------------- MODULE ReserveAttestationOracleHistory -------------------
(***************************************************************************)
(* ReserveAttestationOracle with one history variable: since when each key *)
(* has been publicly announced without being cancelled or revoked since.   *)
(***************************************************************************)
EXTENDS ReserveAttestationOracle

VARIABLE knownSince        \* knownSince[k], 0 for a key nobody has notice of

hvars == <<vars, knownSince>>

\* The deployment announces its own attestor: whoever holds a claim saw it.
HInit ==
    /\ Init
    /\ knownSince = [k \in Address |-> IF k = FirstAttestor
                                   THEN StartTime - ATTESTOR_TIMELOCK ELSE 0]

HNext ==
    \/ ProofNext /\ UNCHANGED knownSince
    \/ EnvNext /\ UNCHANGED knownSince
    \/ \E attestor \in Address : ConfirmAttestor(attestor) /\ UNCHANGED knownSince
    \/ \E caller \in Account, attestor \in Address :
          /\ AnnounceAttestor(caller, attestor)
          /\ knownSince' = [knownSince EXCEPT ![attestor] = now]
    \/ \E caller \in Account, attestor \in Address :
          /\ CancelAttestor(caller, attestor) \/ RevokeAttestor(caller, attestor)
          /\ knownSince' = [knownSince EXCEPT ![attestor] = 0]
    \/ \E caller \in Account, newOwner \in Nominee :
          TransferOwnership(caller, newOwner) /\ UNCHANGED knownSince
    \/ \E caller \in Account : AcceptOwnership(caller) /\ UNCHANGED knownSince

HSpec == HInit /\ [][HNext]_hvars

\* Whoever can sign has been announced for at least the timelock, without a
\* cancellation or revocation since (lines 14-20): the owner cannot slip a key
\* in, and a revoked key is out for at least that long.
AttestorsHadNotice ==
    \A k \in isAttestor :
       knownSince[k] # 0 /\ now - knownSince[k] >= ATTESTOR_TIMELOCK

\* A key only becomes an attestor inside the grace window of an announcement
\* still standing (lines 32-34): a forgotten one cannot be revived.
RegisteredInWindow ==
    [][\A k \in isAttestor' \ isAttestor :
          now - knownSince[k] \in
             ATTESTOR_TIMELOCK .. (ATTESTOR_TIMELOCK + ATTESTOR_GRACE)]_hvars

\* Every accepted figure carries the signature of a key that holders had notice
\* of for the whole timelock, whoever relays it and however old the signature.
AcceptedUnderNotice ==
    [][_attestationId' # _attestationId =>
          \E s \in signed :
             /\ s.digest = [reserves |-> _reserves', attestedAt |-> _attestedAt',
                            nonce |-> nonce', domain |-> This]
             /\ s.signer \in isAttestor
             /\ knownSince[s.signer] # 0
             /\ now - knownSince[s.signer] >= ATTESTOR_TIMELOCK]_hvars
==============================================================================
