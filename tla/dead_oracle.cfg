\* An oracle address whose answer does not decode.
SPECIFICATION HSpec
CONSTANTS
    a1 = a1
    zero = zero
    o1 = o1
    ZeroAddress = zero
    Deployer = a1
    Account = {a1}
    Oracle = {o1}
    UINT_MAX = 2
    ORACLE_TIMELOCK = 1
    ORACLE_PROPOSAL_GRACE = 1
    MIN_ATTESTATION_AGE = 1
    MAX_ATTESTATION_AGE = 1
    Amount = {1, 2}
    Approval = {}
    Nominee = {}
    MaxAgeArg = {1}
    Figure = {2}
    Stamp = {2, 3}
    Status = {"ok", "malformed"}
    StartTime = 2
    MaxTime = 3
    MaxId = 2
INVARIANT
    RedemptionNeverBlocked
