\* Two threads of proposals against one offline model, one limiter, one store.
SPECIFICATION Spec
CONSTANTS
    t1 = t1
    t2 = t2
    Thread = {t1, t2}
    Environment <- MCEnvironment
    Contract <- MCContract
    UsdcAmount = {1, 3}
    ONE = 2
    UINT256_MAX = 4
    DefaultReserves = 3
    Figure = {4}
    MaxPerCycle = 1
    MaxPerHour = 2
    HOUR = 1
    CYCLE_TTL_SECONDS = 0
    MAX_TRACKED_CYCLES = 0
    MaxAge = 0
    ChainTime = {1}
    WINDOW = 0
    FindLimit = 1
    MaxPriorIds = 1
    MaxClock = 1
    MaxRuns = 3
    MaxAttestations = 2
    MaxFallibleRuns = 2
    MaxFailures = 1
INVARIANTS
    TypeOK
    AuditMatchesLedger
    OnlyFailuresOrphan
    RecurrenceSeesEarlier
    OwnSettingsWin
    SnapshotNoOlderThanStated
    MisconfiguredCostsNothing
PROPERTIES
    OfflineKeepsBudget
    EveryCallEnds
