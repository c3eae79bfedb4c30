SPECIFICATION Spec
CONSTANTS
    cred = cred
    token = token
    passwd = passwd
    log = log
    decoy = decoy
    tmp = tmp
    keep = keep
    w = w
    Fresh = Fresh
    None = None
    Live = Live
    Path = {token, cred, decoy, tmp, keep}
    LogFile = {}
    DecoyFile = {decoy}
    CredentialDecoy = {decoy}
    Honeytoken = {token, cred}
    Credential = {cred}
    System = {}
    Placeholder = {keep}
    Payload = {tmp}
    Persistence = {}
    Dir = {tmp}
    Under <- UnderHome
    KeepOf <- KeepOfAll
    Rank <- RankOf
    Unprompted = {cred}
    Text = {w}
    Patterns <- SomePatterns
    MaxLen = 2
    MaxOps = 3
    MaxPersists = 1
CHECK_DEADLOCK FALSE
INVARIANTS BaitTakenIsObserved TamperingIsEvident
