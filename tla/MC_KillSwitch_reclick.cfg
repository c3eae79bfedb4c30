SPECIFICATION Spec
CONSTANTS
    Engagement = {e1}
    Connection = {c1, c2}
    Operator   = {o1}
    NoOne      = NoOne
    GcTtl      = 1
    MaxClock   = 2
    MaxClicks  = 2
    MaxFaults  = 0
PROPERTY AcceptedKillReachesLive
