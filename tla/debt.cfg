\* One oracle whose id never fails on its own: the view against the gate, and what
\* redemptions cost the proof in force.
SPECIFICATION HSpec
CONSTANTS
    a1 = a1
    a2 = a2
    zero = zero
    o1 = o1
    ZeroAddress = zero
    Deployer = a1
    Account = {a1, a2}
    Oracle = {o1}
    UINT_MAX = 5
    ORACLE_TIMELOCK = 1
    ORACLE_PROPOSAL_GRACE = 1
    MIN_ATTESTATION_AGE = 1
    MAX_ATTESTATION_AGE = 1
    Amount = {1, 2}
    Approval = {}
    Nominee = {}
    MaxAgeArg = {1}
    Figure = {1, 3, 5}
    Stamp = {2, 3}
    Status = {"ok", "noReserves", "malformed"}
    StartTime = 2
    MaxTime = 4
    MaxId = 3
INVARIANTS
    HeadroomIsExactlySettleable
    DebtIsExactlyUnseen
PROPERTIES
    HeadroomOnlyFromProof
    GateKeepsBudget
