SPECIFICATION Spec
CONSTANTS
    Challenge        = {s1, s2}
    Inbound          = {w1, w2}
    Ip               = {i1}
    Context         <- OneContext
    PushTimeout      = 1
    ChallengeTimeout = 1
    Ttl              = 0
    Lines            = {"valid"}
    AutoStatus       = {"pending"}
    MaxClock         = 1
    MaxFaults        = 0
    NoOne            = NoOne
CHECK_DEADLOCK FALSE
SYMMETRY Symmetry
INVARIANTS GrantIsEarned OneDecisionOnFile SingleUseIfSerial
