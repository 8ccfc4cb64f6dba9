\* Two keys, two owners, one other domain: proofs, announcements, revocations.
SPECIFICATION HSpec
CONSTANTS
    a1 = a1
    a2 = a2
    zero = zero
    k1 = k1
    k2 = k2
    unrelated = unrelated
    here = here
    elsewhere = elsewhere
    Account = {a1, a2}
    Deployer = a1
    ZeroAddress = zero
    Key = {k1, k2}
    FirstAttestor = k1
    Unrelated = unrelated
    Domain = {here, elsewhere}
    This = here
    UINT_MAX = 2
    ATTESTOR_TIMELOCK = 2
    ATTESTOR_GRACE = 1
    Nominee = {a2, zero}
    Figure = {1, 2}
    Stamp = {3, 5}
    Nonce = {1, 2}
    MaxSigned = 2
    StartTime = 3
    MaxTime = 7
INVARIANTS
    TypeOK
    FigureIsSigned
    AttestorsHadNotice
PROPERTIES
    ProofsInOrder
    AcceptedUnderNotice
    RegisteredInWindow
