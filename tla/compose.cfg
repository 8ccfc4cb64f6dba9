\* Both contracts, honest attestors, slow relays, clocks of their own.
SPECIFICATION HSpec
CONSTANTS
    a1 = a1
    zero = zero
    o1 = o1
    k1 = k1
    unrelated = unrelated
    here = here
    Account = {a1}
    ZeroAddress = zero
    Deployer = a1
    UINT_MAX = 2
    OracleAddress = o1
    ORACLE_TIMELOCK = 9
    ORACLE_PROPOSAL_GRACE = 1
    MIN_ATTESTATION_AGE = 1
    MAX_ATTESTATION_AGE = 1
    Amount = {1}
    Approval = {}
    Nominee = {}
    MaxAgeArg = {1}
    Key = {k1}
    FirstAttestor = k1
    Unrelated = unrelated
    Domain = {here}
    This = here
    ATTESTOR_TIMELOCK = 1
    ATTESTOR_GRACE = 1
    Stamp = {2, 3, 4}
    Nonce = {1, 2}
    MaxSigned = 2
    StartTime = 2
    MaxTime = 4
INVARIANT
    SolventUpToRelay
PROPERTIES
    RevokedWordExpires
    GateSpec
