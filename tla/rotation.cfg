\* Two oracles, two owners: the timelock under overwritten, cancelled, expired
\* and inherited proposals.
SPECIFICATION HSpec
CONSTANTS
    o2 = o2
    a1 = a1
    a2 = a2
    zero = zero
    o1 = o1
    ZeroAddress = zero
    Deployer = a1
    Account = {a1, a2}
    Oracle = {o1, o2}
    UINT_MAX = 2
    ORACLE_TIMELOCK = 2
    ORACLE_PROPOSAL_GRACE = 1
    MIN_ATTESTATION_AGE = 1
    MAX_ATTESTATION_AGE = 2
    Amount = {}
    Approval = {}
    Nominee = {a2, zero}
    MaxAgeArg = {0, 1, 2, 3}
    Figure = {2}
    Stamp = {3}
    Status = {"ok"}
    StartTime = 3
    MaxTime = 9
    MaxId = 1
INVARIANT
    TypeOK
PROPERTY
    ChangeHadFullNotice
