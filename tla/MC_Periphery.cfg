SPECIFICATION Spec
CONSTANTS
    Link = {k1}
    Service = {"modbus", "s7", "dnp3", "mysql", "http", "smtp"}
    Request <- Requests
    MaxFrames = 2
    Client = {c1, c2}
    Port = {5001, 5002}
    Header <- Headers
    Nowhere = Nowhere
    User = {"alice", "bob"}
    Login = {n1, n2}
    Provider = {"duo", "okta", "twilio", "push-sim"}
    MaxClock = 2
    MaxSecret = 2
    MaxPush = 2
    Fields <- ConfigFields
    Files <- PluginFiles
    Engine = "myorg_ml"
    Libs = {"hvac"}
    MaxVersion = 1
    Yields <- CommandYields
    Act = {"noop", "isolate_session", "alert_credential_exfil"}
    Cap = 2
    MaxQueue = 2
    MaxEpisodes = 2
    Rounds = 2
    Kind = {"sudo", "probe", "cat", "echo"}
    Lex <- LexOf
    Probes = {"probe"}
    Pause <- PauseOf
    Recall = 4
    MaxCommands = 6
    MaxConns = 3
    Move = {"alert", "isolate", "plant"}
    Plants = {"plant"}
    PassCap = 6
    MaxOrders = 3
    MaxVisits = 3
INVARIANTS
    DecoysKeepFace
    NobodyElsesAddress
    RetiredSecretIsDead
    ApprovalIsFresh
    StartIsSound
    ReturnIsEarned
    EchoIsProvenOnce
    PassEndsByItself
CHECK_DEADLOCK FALSE
