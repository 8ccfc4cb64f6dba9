-------------------------- MODULE ArcSettleHistory --------------------------
(***************************************************************************)
(* ArcSettle with history: how much was paid out before each signature, by *)
(* whom the figure in force was signed, and when a key was revoked.        *)
(***************************************************************************)
EXTENDS ArcSettle

VARIABLES
    paidOut,       \* USDC paid out on redemptions so far
    paidBefore,    \* paidBefore[s]: paid out by the time signature s was made
    observed,      \* paid out by the time the figure in force was signed
    lag,           \* most paid out between a figure's signing and its landing
    speaker,       \* who signed the figure in force
    revokedAt      \* when a key was last revoked, 0 for one that may sign

hvars == <<vars, paidOut, paidBefore, observed, lag, speaker, revokedAt>>

HInit ==
    /\ Init
    /\ paidOut = 0
    /\ paidBefore = [s \in {} |-> 0]
    /\ observed = 0
    /\ lag = 0
    /\ speaker = FirstAttestor
    /\ revokedAt = [k \in Key |-> 0]

\* The signature that has just landed.
Landed(s) ==
    /\ s \in signed
    /\ s.signer \in isAttestor
    /\ s.digest = Reserve!attestationDigest(_reserves', _attestedAt', nonce')

HNext ==
    \/ \E caller \in Account, amount \in Amount :
          /\ Redeem(caller, amount)
          /\ paidOut' = paidOut + amount
          /\ UNCHANGED <<paidBefore, observed, lag, speaker, revokedAt>>
    \/ \E key \in Key, t \in Stamp, n \in Nonce :
          /\ Attest(key, t, n)
          /\ paidBefore' = [s \in signed' |->
                              IF s = [signer |-> key,
                                      digest |-> Reserve!attestationDigest(found, t, n)]
                              THEN paidOut ELSE paidBefore[s]]
          /\ UNCHANGED <<paidOut, observed, lag, speaker, revokedAt>>
    \/ /\ OtherNext
       /\ IF nonce' = nonce THEN UNCHANGED <<observed, lag, speaker>>
          ELSE \E s \in signed :
                  /\ Landed(s)
                  /\ speaker' = s.signer
                  /\ observed' = paidBefore[s]
                  /\ lag' = IF paidOut - paidBefore[s] > lag
                            THEN paidOut - paidBefore[s] ELSE lag
       /\ revokedAt' = [k \in Key |-> IF k \in isAttestor' THEN 0
                                      ELSE IF k \in isAttestor THEN now
                                      ELSE revokedAt[k]]
       /\ UNCHANGED <<paidOut, paidBefore>>

HSpec == HInit /\ [][HNext]_hvars

\* Redemptions stay netted off the reserves until an attestation lands "that has
\* actually observed the USDC outflow" (ArcSettlement.sol:25-28): what was paid out
\* after the figure in force was signed is still booked as debt.
UnobservedIsNetted ==
    _attestationId > 0 =>
       (IF Gate!Discharges THEN 0 ELSE pendingRedemptions) >= paidOut - observed

\* What the contracts guarantee of solvency: claims exceed the USDC in the reserve by no
\* more than was ever paid out between the signing of a figure and its landing.
\* The gate discharges redemptions on landing (lines 174-182), not on signing.
SolventUpToRelay == totalSupply <= vault + lag

\* A key's word dies with the key: once it is revoked, nothing is issued on its
\* last figure for longer than the freshness bound, whatever time it had signed.
\* revokeAttestor does not touch the figure (lines 201-205); it takes the oracle's
\* refusal of future dates and the gate's of old ones to retire it.
RevokedWordExpires ==
    [][totalSupply' > totalSupply =>
          \/ speaker \in isAttestor
          \/ now - revokedAt[speaker] <= maxAttestationAge]_hvars
==============================================================================
