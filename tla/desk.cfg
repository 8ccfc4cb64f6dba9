\* Two cycles at once, one incident each, on one limiter and sinks that fail.
SPECIFICATION Spec
CONSTANTS
    c1 = c1
    c2 = c2
    Cycle = {c1, c2}
    Text <- MCText
    Name = {"pager", "alert", "ticket"}
    Override <- MCOverride
    slack_webhook_url = TRUE
    github = FALSE
    ticket_endpoint = TRUE
    DryRun = FALSE
    MaxPerCycle = 2
    MaxPerHour = 3
    HOUR = 1
    CYCLE_TTL_SECONDS = 1
    MAX_TRACKED_CYCLES = 2
    MaxIncidents = 1
    MaxClock = 1
INVARIANTS
    TypeOK
    RecordsClaimOnlyDeliveries
    DeniedOnlyByError
    EveryRouteIsServed
    HourlyCap
    CycleCap
PROPERTIES
    EveryCycleEnds
\* A cycle ends, and nothing restarts it.
CHECK_DEADLOCK FALSE
