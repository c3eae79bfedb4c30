SPECIFICATION Spec
CONSTANTS
    Challenge        = {s1}
    Inbound          = {w1, w2}
    Ip               = {i1}
    Context         <- OneContext
    PushTimeout      = 1
    ChallengeTimeout = 1
    Ttl              = 1
    Lines            = {"valid", "empty"}
    AutoStatus       = {"pending"}
    MaxClock         = 2
    MaxFaults        = 0
    NoOne            = NoOne
CHECK_DEADLOCK FALSE
INVARIANT SingleUse
