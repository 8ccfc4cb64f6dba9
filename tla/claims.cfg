\* The token: transfers, approvals, issue and redemption; the oracle may fail.
SPECIFICATION HSpec
CONSTANTS
    a1 = a1
    a2 = a2
    zero = zero
    o1 = o1
    ZeroAddress = zero
    Deployer = a1
    Account = {a1, a2}
    Oracle = {o1}
    UINT_MAX = 3
    ORACLE_TIMELOCK = 1
    ORACLE_PROPOSAL_GRACE = 1
    MIN_ATTESTATION_AGE = 1
    MAX_ATTESTATION_AGE = 1
    Amount = {1, 2}
    Approval = {0, 2, 3}
    Nominee = {}
    MaxAgeArg = {1}
    Figure = {3}
    Stamp = {2}
    Status = {"ok", "noId"}
    StartTime = 2
    MaxTime = 2
    MaxId = 1
INVARIANTS
    ClaimsConserved
    SpentWithinApproval
    RedemptionAlwaysAvailable
