------------------- MODULE ReserveAttestationOracleProofs --------------------
(***************************************************************************)
(* Theorems about the reserve oracle: the figure in force is one that was  *)
(* signed, in order, by a key that holders had notice of, for any number   *)
(* of keys, owners, signatures and submissions.                            *)
(***************************************************************************)
EXTENDS ReserveAttestationOracleHistory, TLAPS

------------------------------------------------------------------------------
(* What is in force was signed. *)

\* The zero address is never announced, so that only keys are confirmed.
Typed == TypeOK /\ attestorEta[ZeroAddress] = 0

\* The id counts the accepted proofs, as the nonce does.
OracleInv == Typed /\ FigureIsSigned /\ nonce = _attestationId

USE OracleAssumption

LEMMA InitOracle == Init => OracleInv
  BY DEF Init, OracleInv, Typed, TypeOK, FigureIsSigned, Address, UInt

\* What _recover answers and the mapping knows signed this very digest.
LEMMA SignedIsSigned ==
    ASSUME Typed, NEW signature \in signed, NEW r, NEW s, NEW n, NEW form,
           Signed(r, s, n, signature, form)
    PROVE  signature.digest = attestationDigest(r, s, n) /\ signature.signer \in isAttestor
<1>1. PICK signer \in Address \cup {Unrelated} :
         Recovers(attestationDigest(r, s, n), signature, form, signer) /\ signer \in isAttestor
  BY DEF Signed
<1>2. signer \in Key
  BY <1>1 DEF Typed, TypeOK
<1>3. signer = IF form = "void" THEN ZeroAddress
               ELSE IF signature.digest = attestationDigest(r, s, n)
                    THEN signature.signer ELSE Unrelated
  BY <1>1 DEF Recovers, Recovered
<1> QED BY <1>1, <1>2, <1>3

LEMMA SubmissionKeeps ==
    ASSUME OracleInv, NEW signature \in signed, NEW r \in Figure, NEW s \in Stamp, NEW n \in Nonce,
           NEW form \in Forms, SubmitAttestation(r, s, n, signature, form)
    PROVE  OracleInv'
<1>1. Typed'
  BY DEF SubmitAttestation, OracleInv, Typed, TypeOK, InOrder, ownerVars, keyVars, UInt
<1>2. signature.digest = [reserves |-> r, attestedAt |-> s, nonce |-> n, domain |-> This]
  BY SignedIsSigned DEF SubmitAttestation, OracleInv, attestationDigest
<1>3. FigureIsSigned'
  BY <1>2 DEF SubmitAttestation, FigureIsSigned
<1> QED BY <1>1, <1>3 DEF SubmitAttestation, InOrder, OracleInv

\* Nothing but a submission touches the reading, and no signature is unmade.
LEMMA ReadingKept ==
    ASSUME OracleInv, UNCHANGED readingVars, signed \subseteq signed', Typed'
    PROVE  OracleInv'
  BY DEF OracleInv, FigureIsSigned, readingVars

LEMMA AdminKeeps == OracleInv /\ AdminNext => OracleInv' /\ UNCHANGED <<readingVars, now, signed>>
<1> SUFFICES ASSUME OracleInv, AdminNext
             PROVE  OracleInv' /\ UNCHANGED <<readingVars, now, signed>>
  OBVIOUS
<1>1. ASSUME NEW attestor \in Address, ConfirmAttestor(attestor)
      PROVE  Typed' /\ UNCHANGED <<readingVars, now, signed>>
  <2>1. attestor \in Key
    BY <1>1 DEF ConfirmAttestor, Matured, OracleInv, Typed, TypeOK, Address
  <2> QED BY <1>1, <2>1 DEF ConfirmAttestor, OracleInv, Typed, TypeOK, ownerVars, readingVars
<1>2. ASSUME NEW caller \in Account, NEW attestor \in Address, AnnounceAttestor(caller, attestor)
      PROVE  Typed' /\ UNCHANGED <<readingVars, now, signed>>
  BY <1>2 DEF AnnounceAttestor, OracleInv, Typed, TypeOK, ownerVars, readingVars
<1>3. ASSUME NEW caller \in Account, NEW attestor \in Address, CancelAttestor(caller, attestor)
      PROVE  Typed' /\ UNCHANGED <<readingVars, now, signed>>
  BY <1>3 DEF CancelAttestor, OracleInv, Typed, TypeOK, ownerVars, readingVars
<1>4. ASSUME NEW caller \in Account, NEW attestor \in Address, RevokeAttestor(caller, attestor)
      PROVE  Typed' /\ UNCHANGED <<readingVars, now, signed>>
  BY <1>4 DEF RevokeAttestor, OracleInv, Typed, TypeOK, ownerVars, readingVars
<1>5. ASSUME NEW caller \in Account, NEW newOwner \in Nominee, TransferOwnership(caller, newOwner)
      PROVE  Typed' /\ UNCHANGED <<readingVars, now, signed>>
  BY <1>5 DEF TransferOwnership, OracleInv, Typed, TypeOK, keyVars, readingVars
<1>6. ASSUME NEW caller \in Account, AcceptOwnership(caller)
      PROVE  Typed' /\ UNCHANGED <<readingVars, now, signed>>
  BY <1>6 DEF AcceptOwnership, OracleInv, Typed, TypeOK, keyVars, readingVars
<1>7. Typed' /\ UNCHANGED <<readingVars, now, signed>>
  BY <1>1, <1>2, <1>3, <1>4, <1>5, <1>6 DEF AdminNext
<1> QED BY <1>7, ReadingKept

LEMMA EnvKeeps == OracleInv /\ EnvNext => OracleInv' /\ UNCHANGED oracleVars
<1> SUFFICES ASSUME OracleInv, EnvNext PROVE OracleInv' /\ UNCHANGED oracleVars
  OBVIOUS
<1>1. CASE Tick
  <2>1. Typed' /\ UNCHANGED <<oracleVars, signed>>
    BY <1>1 DEF Tick, OracleInv, Typed, TypeOK, oracleVars, ownerVars, keyVars, readingVars
  <2> QED BY <2>1, ReadingKept DEF oracleVars
<1>2. ASSUME NEW key \in Key, NEW r \in Figure, NEW s \in Stamp, NEW n \in Nonce, NEW d \in Domain,
             Sign(key, [reserves |-> r, attestedAt |-> s, nonce |-> n, domain |-> d])
      PROVE  OracleInv' /\ UNCHANGED oracleVars
  <2>1. [reserves |-> r, attestedAt |-> s, nonce |-> n, domain |-> d] \in Digest
    BY DEF Digest, UInt
  <2>2. Typed' /\ signed \subseteq signed'
    BY <1>2, <2>1 DEF Sign, Signature, OracleInv, Typed, TypeOK, oracleVars, ownerVars, keyVars, readingVars
  <2> QED BY <1>2, <2>2, ReadingKept DEF Sign, oracleVars
<1> QED BY <1>1, <1>2 DEF EnvNext

LEMMA NextOracle == OracleInv /\ [Next]_vars => OracleInv'
<1> SUFFICES ASSUME OracleInv, [Next]_vars PROVE OracleInv'
  OBVIOUS
<1>1. CASE ProofNext
  BY <1>1, SubmissionKeeps DEF ProofNext
<1>2. CASE AdminNext
  BY <1>2, AdminKeeps
<1>3. CASE EnvNext
  BY <1>3, EnvKeeps
<1>4. CASE UNCHANGED vars
  BY <1>4, ReadingKept DEF vars, oracleVars, OracleInv, Typed, TypeOK, ownerVars, keyVars, readingVars
<1> QED BY <1>1, <1>2, <1>3, <1>4 DEF Next

\* Every variable keeps the values of its Solidity type; in particular no address but a
\* key ever becomes an attestor.
THEOREM OracleTypes == Spec => []TypeOK
<1>1. OracleInv => TypeOK
  BY DEF OracleInv, Typed
<1> QED BY <1>1, InitOracle, NextOracle, PTL DEF Spec

\* The figure in force is always word for word one that a key signed for this contract
\* and chain, under the nonce the oracle is at (_recover and submitAttestation).
THEOREM InForceIsSigned == Spec => []FigureIsSigned
<1>1. OracleInv => FigureIsSigned
  BY DEF OracleInv
<1> QED BY <1>1, InitOracle, NextOracle, PTL DEF Spec

\* No call but submitAttestation changes the reading, and that one moves the id and the
\* nonce by one and the date forward, never past the present.
THEOREM ReadingMovesForward == Spec => ProofsInOrder
<1>1. ASSUME OracleInv, [Next]_vars
      PROVE  [readingVars' # readingVars =>
                /\ _attestationId' = _attestationId + 1
                /\ nonce' = _attestationId'
                /\ _attestedAt' > _attestedAt
                /\ _attestedAt' <= now]_vars
  <2>1. CASE ProofNext
    BY <1>1, <2>1 DEF ProofNext, SubmitAttestation, InOrder, OracleInv
  <2>2. CASE AdminNext
    BY <1>1, <2>2, AdminKeeps
  <2>3. CASE EnvNext
    BY <1>1, <2>3, EnvKeeps DEF oracleVars
  <2>4. CASE UNCHANGED vars
    BY <2>4
  <2> QED BY <1>1, <2>1, <2>2, <2>3, <2>4 DEF Next
<1> QED BY <1>1, InitOracle, NextOracle, PTL DEF Spec, ProofsInOrder

------------------------------------------------------------------------------
(* Who signs had been announced. *)

\* An announcement stands since when its key is known, and only for a key that is no
\* attestor yet: that is why cancelling and announcing again take no notice away.
AnnouncedSince ==
    \A k \in Address : attestorEta[k] # 0 =>
       /\ k \notin isAttestor
       /\ knownSince[k] # 0 /\ attestorEta[k] = knownSince[k] + ATTESTOR_TIMELOCK

NoticeInv ==
    /\ OracleInv
    /\ knownSince \in [Address -> Nat]
    /\ now >= StartTime
    /\ AnnouncedSince
    /\ AttestorsHadNotice

LEMMA InitNotice == HInit => NoticeInv
<1> SUFFICES ASSUME HInit PROVE NoticeInv
  OBVIOUS
<1>1. OracleInv
  BY InitOracle DEF HInit
<1>2. StartTime - ATTESTOR_TIMELOCK \in Nat /\ StartTime - ATTESTOR_TIMELOCK # 0
  OBVIOUS
<1> QED BY <1>1, <1>2 DEF HInit, Init, NoticeInv, AnnouncedSince, AttestorsHadNotice, Address

\* Steps that touch no key and no announcement.
LEMMA KeysKept ==
    ASSUME NoticeInv, OracleInv', UNCHANGED <<keyVars, knownSince>>, now' >= now, now' \in Nat
    PROVE  NoticeInv'
<1>1. now \in Nat /\ knownSince \in [Address -> Nat] /\ isAttestor \subseteq Address
  BY DEF NoticeInv, OracleInv, Typed, TypeOK, Address
<1>2. AttestorsHadNotice'
  BY <1>1 DEF NoticeInv, AttestorsHadNotice, keyVars
<1> QED BY <1>1, <1>2 DEF NoticeInv, AnnouncedSince, keyVars

LEMMA ConfirmKeepsNotice ==
    ASSUME NoticeInv, OracleInv', NEW attestor \in Address, ConfirmAttestor(attestor),
           UNCHANGED knownSince
    PROVE  /\ NoticeInv'
           /\ now - knownSince[attestor] \in
                 ATTESTOR_TIMELOCK .. (ATTESTOR_TIMELOCK + ATTESTOR_GRACE)
<1>1. /\ now \in Nat /\ knownSince \in [Address -> Nat] /\ isAttestor \subseteq Address
      /\ attestorEta \in [Address -> Nat]
  BY DEF NoticeInv, OracleInv, Typed, TypeOK, Address
<1>2. /\ attestorEta[attestor] # 0 /\ now >= attestorEta[attestor]
      /\ now <= attestorEta[attestor] + ATTESTOR_GRACE
      /\ attestorEta' = [attestorEta EXCEPT ![attestor] = 0]
      /\ isAttestor' = isAttestor \cup {attestor}
      /\ now' = now
  BY DEF ConfirmAttestor, Matured
<1>3. knownSince[attestor] # 0 /\ attestorEta[attestor] = knownSince[attestor] + ATTESTOR_TIMELOCK
  BY <1>2 DEF NoticeInv, AnnouncedSince
<1>4. knownSince[attestor] \in Nat
  BY <1>1
<1>5. now - knownSince[attestor] \in ATTESTOR_TIMELOCK .. (ATTESTOR_TIMELOCK + ATTESTOR_GRACE)
  BY <1>1, <1>2, <1>3, <1>4
<1>6. AttestorsHadNotice'
  BY <1>1, <1>2, <1>3, <1>4, <1>5 DEF NoticeInv, AttestorsHadNotice
<1>7. AnnouncedSince'
  BY <1>1, <1>2 DEF NoticeInv, AnnouncedSince
<1> QED BY <1>2, <1>5, <1>6, <1>7 DEF NoticeInv

LEMMA AnnounceKeepsNotice ==
    ASSUME NoticeInv, OracleInv', NEW caller \in Account, NEW attestor \in Address,
           AnnounceAttestor(caller, attestor),
           knownSince' = [knownSince EXCEPT ![attestor] = now]
    PROVE  NoticeInv'
<1>1. /\ now \in Nat /\ knownSince \in [Address -> Nat] /\ isAttestor \subseteq Address
      /\ attestorEta \in [Address -> Nat] /\ now # 0
  BY DEF NoticeInv, OracleInv, Typed, TypeOK, Address
<1>2. /\ attestor \notin isAttestor
      /\ attestorEta' = [attestorEta EXCEPT ![attestor] = now + ATTESTOR_TIMELOCK]
      /\ UNCHANGED <<isAttestor, now>>
  BY DEF AnnounceAttestor
<1>3. AttestorsHadNotice'
  BY <1>1, <1>2 DEF NoticeInv, AttestorsHadNotice
<1>4. AnnouncedSince'
  BY <1>1, <1>2 DEF NoticeInv, AnnouncedSince
<1> QED BY <1>1, <1>2, <1>3, <1>4 DEF NoticeInv

LEMMA WithdrawKeepsNotice ==
    ASSUME NoticeInv, OracleInv', NEW caller \in Account, NEW attestor \in Address,
           CancelAttestor(caller, attestor) \/ RevokeAttestor(caller, attestor),
           knownSince' = [knownSince EXCEPT ![attestor] = 0]
    PROVE  NoticeInv'
<1>1. /\ now \in Nat /\ knownSince \in [Address -> Nat] /\ isAttestor \subseteq Address
      /\ attestorEta \in [Address -> Nat]
  BY DEF NoticeInv, OracleInv, Typed, TypeOK, Address
<1>2. /\ attestorEta' = [attestorEta EXCEPT ![attestor] = 0]
      /\ isAttestor' \subseteq isAttestor
      /\ now' = now
  BY DEF CancelAttestor, RevokeAttestor
<1>3. attestor \notin isAttestor'
  <2>1. CASE CancelAttestor(caller, attestor)
    BY <2>1 DEF CancelAttestor, NoticeInv, AnnouncedSince
  <2>2. CASE RevokeAttestor(caller, attestor)
    BY <2>2 DEF RevokeAttestor
  <2> QED BY <2>1, <2>2
<1>4. AttestorsHadNotice'
  BY <1>1, <1>2, <1>3 DEF NoticeInv, AttestorsHadNotice
<1>5. AnnouncedSince'
  BY <1>1, <1>2 DEF NoticeInv, AnnouncedSince
<1> QED BY <1>1, <1>2, <1>4, <1>5 DEF NoticeInv

\* The history guards nothing: a step with it is a step without.
LEMMA HNextIsNext == HNext => Next
  BY DEF HNext, Next, AdminNext

LEMMA ProofKeepsKeys == ProofNext => UNCHANGED <<keyVars, now>>
  BY DEF ProofNext, SubmitAttestation

LEMMA EnvKeepsKeys == OracleInv /\ EnvNext => UNCHANGED keyVars /\ now' >= now /\ now' \in Nat
<1> SUFFICES ASSUME OracleInv, EnvNext
             PROVE  UNCHANGED keyVars /\ now' >= now /\ now' \in Nat
  OBVIOUS
<1>1. now \in Nat
  BY DEF OracleInv, Typed, TypeOK
<1>2. CASE Tick
  BY <1>1, <1>2 DEF Tick, oracleVars
<1>3. CASE \E key \in Key, r \in Figure, s \in Stamp, n \in Nonce, d \in Domain :
          Sign(key, [reserves |-> r, attestedAt |-> s, nonce |-> n, domain |-> d])
  BY <1>1, <1>3 DEF Sign, oracleVars
<1> QED BY <1>2, <1>3 DEF EnvNext

\* A step keeps the notice, and registers a key only inside its window.
LEMMA NextNotice ==
    ASSUME NoticeInv, HNext
    PROVE  /\ NoticeInv'
           /\ \A k \in isAttestor' \ isAttestor :
                 now - knownSince[k] \in
                    ATTESTOR_TIMELOCK .. (ATTESTOR_TIMELOCK + ATTESTOR_GRACE)
<1>1. OracleInv /\ OracleInv' /\ now \in Nat
  <2>1. Next /\ OracleInv
    BY HNextIsNext DEF NoticeInv
  <2> QED BY <2>1, NextOracle DEF OracleInv, Typed, TypeOK
<1>2. CASE ProofNext /\ UNCHANGED knownSince
  BY <1>1, <1>2, ProofKeepsKeys, KeysKept DEF keyVars
<1>3. CASE EnvNext /\ UNCHANGED knownSince
  BY <1>1, <1>3, EnvKeepsKeys, KeysKept DEF keyVars
<1>4. ASSUME NEW attestor \in Address, ConfirmAttestor(attestor), UNCHANGED knownSince
      PROVE  /\ NoticeInv'
             /\ \A k \in isAttestor' \ isAttestor :
                   now - knownSince[k] \in
                      ATTESTOR_TIMELOCK .. (ATTESTOR_TIMELOCK + ATTESTOR_GRACE)
  <2>1. isAttestor' = isAttestor \cup {attestor}
    BY <1>4 DEF ConfirmAttestor
  <2> QED BY <1>1, <1>4, <2>1, ConfirmKeepsNotice
<1>5. ASSUME NEW caller \in Account, NEW attestor \in Address, AnnounceAttestor(caller, attestor),
             knownSince' = [knownSince EXCEPT ![attestor] = now]
      PROVE  NoticeInv' /\ isAttestor' = isAttestor
  BY <1>1, <1>5, AnnounceKeepsNotice DEF AnnounceAttestor
<1>6. ASSUME NEW caller \in Account, NEW attestor \in Address,
             CancelAttestor(caller, attestor) \/ RevokeAttestor(caller, attestor),
             knownSince' = [knownSince EXCEPT ![attestor] = 0]
      PROVE  NoticeInv' /\ isAttestor' \subseteq isAttestor
  BY <1>1, <1>6, WithdrawKeepsNotice DEF CancelAttestor, RevokeAttestor
<1>7. ASSUME NEW caller \in Account, NEW newOwner \in Nominee,
             TransferOwnership(caller, newOwner), UNCHANGED knownSince
      PROVE  NoticeInv' /\ isAttestor' = isAttestor
  BY <1>1, <1>7, KeysKept DEF TransferOwnership, keyVars
<1>8. ASSUME NEW caller \in Account, AcceptOwnership(caller), UNCHANGED knownSince
      PROVE  NoticeInv' /\ isAttestor' = isAttestor
  BY <1>1, <1>8, KeysKept DEF AcceptOwnership, keyVars
<1> QED BY <1>2, <1>3, <1>4, <1>5, <1>6, <1>7, <1>8 DEF HNext

LEMMA StutterNotice == NoticeInv /\ UNCHANGED hvars => NoticeInv'
<1> SUFFICES ASSUME NoticeInv, UNCHANGED hvars PROVE NoticeInv'
  OBVIOUS
<1>1. OracleInv' /\ UNCHANGED <<keyVars, knownSince, now>>
  BY NextOracle DEF NoticeInv, hvars, vars, oracleVars
<1> QED BY <1>1, KeysKept DEF NoticeInv, OracleInv, Typed, TypeOK

LEMMA BoxNotice == NoticeInv /\ [HNext]_hvars => NoticeInv'
  BY NextNotice, StutterNotice

\* Whoever can sign has been announced for the whole timelock, without a cancellation or
\* a revocation since, for any keys, owners and times (announce, confirm, cancel, revoke).
THEOREM NobodyUnannouncedSigns == HSpec => []AttestorsHadNotice
<1>1. NoticeInv => AttestorsHadNotice
  BY DEF NoticeInv
<1> QED BY <1>1, InitNotice, BoxNotice, PTL DEF HSpec

\* A key becomes an attestor only inside the grace window of an announcement that stands.
THEOREM RegistrationInWindow == HSpec => RegisteredInWindow
<1>1. ASSUME NoticeInv, [HNext]_hvars
      PROVE  [\A k \in isAttestor' \ isAttestor :
                 now - knownSince[k] \in
                    ATTESTOR_TIMELOCK .. (ATTESTOR_TIMELOCK + ATTESTOR_GRACE)]_hvars
  BY <1>1, NextNotice
<1> QED BY <1>1, InitNotice, BoxNotice, PTL DEF HSpec, RegisteredInWindow

\* Every figure that is accepted carries the signature of a key holders had notice of for
\* the whole timelock, whoever relays it and however old the signature is.
THEOREM AcceptedFiguresHadNotice == HSpec => AcceptedUnderNotice
<1>1. ASSUME NoticeInv, [HNext]_hvars
      PROVE  [_attestationId' # _attestationId =>
                 \E s \in signed :
                    /\ s.digest = [reserves |-> _reserves', attestedAt |-> _attestedAt',
                                   nonce |-> nonce', domain |-> This]
                    /\ s.signer \in isAttestor
                    /\ knownSince[s.signer] # 0
                    /\ now - knownSince[s.signer] >= ATTESTOR_TIMELOCK]_hvars
  <2> SUFFICES ASSUME HNext, _attestationId' # _attestationId
               PROVE  \E s \in signed :
                         /\ s.digest = [reserves |-> _reserves', attestedAt |-> _attestedAt',
                                        nonce |-> nonce', domain |-> This]
                         /\ s.signer \in isAttestor
                         /\ knownSince[s.signer] # 0
                         /\ now - knownSince[s.signer] >= ATTESTOR_TIMELOCK
    BY <1>1
  <2>1. Next /\ OracleInv
    BY <1>1, HNextIsNext DEF NoticeInv
  <2>2. ProofNext
    BY <2>1, AdminKeeps, EnvKeeps DEF Next, oracleVars, readingVars
  <2>3. PICK signature \in signed, r \in Figure, s \in Stamp, n \in Nonce, form \in Forms :
           SubmitAttestation(r, s, n, signature, form)
    BY <2>2 DEF ProofNext
  <2>4. signature.digest = attestationDigest(r, s, n) /\ signature.signer \in isAttestor
    BY <2>1, <2>3, SignedIsSigned DEF SubmitAttestation, OracleInv
  <2>5. signature.digest = [reserves |-> _reserves', attestedAt |-> _attestedAt',
                            nonce |-> nonce', domain |-> This]
    BY <2>3, <2>4 DEF SubmitAttestation, attestationDigest
  <2> QED BY <1>1, <2>4, <2>5 DEF NoticeInv, AttestorsHadNotice
<1> QED BY <1>1, InitNotice, BoxNotice, PTL DEF HSpec, AcceptedUnderNotice
==============================================================================
