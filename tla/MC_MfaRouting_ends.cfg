SPECIFICATION FairSpec
CONSTANTS
    Challenge        = {s1}
    Inbound          = {w1}
    Ip               = {i1}
    Context         <- Contexts
    PushTimeout      = 1
    ChallengeTimeout = 1
    Ttl              = 0
    Lines            = {"valid", "wrong", "empty"}
    AutoStatus       = {"pending", "approved", "denied"}
    MaxClock         = 2
    MaxFaults        = 2
    NoOne            = NoOne
CHECK_DEADLOCK FALSE
PROPERTY ChallengeEnds
