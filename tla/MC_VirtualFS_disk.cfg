SPECIFICATION Spec
CONSTANTS
    cred = cred
    token = token
    passwd = passwd
    log = log
    decoy = decoy
    tmp = tmp
    keep = keep
    w = w
    Fresh = Fresh
    None = None
    Live = Live
    Path = {cred, log, decoy, tmp}
    LogFile = {log}
    DecoyFile = {decoy}
    CredentialDecoy = {decoy}
    Honeytoken = {cred}
    Credential = {cred}
    System = {}
    Placeholder = {}
    Payload = {tmp}
    Persistence = {}
    Dir = {}
    Under <- UnderHome
    KeepOf <- KeepOfAll
    Rank <- RankOf
    Unprompted = {cred, log}
    Text = {w}
    Patterns <- SomePatterns
    MaxLen = 2
    MaxOps = 3
    MaxPersists = 2
CHECK_DEADLOCK FALSE
PROPERTY ActsLikeADisk
