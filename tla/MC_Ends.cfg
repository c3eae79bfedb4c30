SPECIFICATION EndsSpec
CONSTANTS
    Engagement = {e1}
    Connection = {c1, c2}
    Operator   = {o1}
    NoOne      = NoOne
    GcTtl      = 1
    MaxClock   = 2
    MaxClicks  = 2
    MaxFaults  = 0
    a1        = a1
    a2        = a2
    soar      = soar
    Alert     = {a1, a2}
    Request   = {q}
    Batch     = {hec}
    Tcp       = {tcp}
    Direct    = {soar}
    Chat      = {slack, pagerduty}
    Pager     = pagerduty
    Fields   <- Artifacts
    Sev      <- Severities
    BatchSize = 2
    Window    = 0
    MaxTime   = 1
    MaxUpsets = 1
    Logs     <- EngagementLogs
CHECK_DEADLOCK FALSE
INVARIANTS BatchKeepsCount SevereEscalationPages
PROPERTIES PendingKillIsServed HonouredKillClosesChannel SendEnds
