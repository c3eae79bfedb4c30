SPECIFICATION RecordsSpec
CONSTANTS
    Eng = {e1, e2}
    ActionName = {a1}
    Op = {o1}
    Api = api
    Thread = {t1}
    Token = {tok}
    Presented = {tok, nothing}
    None = None
    MaxNotes = 2
    MaxRequests = 3
    MaxSaves = 1
    MaxFaults = 1
    MaxClock = 0
    Sitting = {"s1", "s2", "s3"}
    HostOf <- Hosts
    CaseOf <- Cases
    CanRaise <- Raise
    SevOf <- Severities
    MaxCommands <- Commands
    MinTime = 3
    MaxTime = 4
    Limit = {1}
    Day = 2
    StateFile = state
    LogFile = log
    BeatFile = beat
    TempFile = temp
    Window <- Windows
    Subject = {x}
    About <- AboutOf
    Deployment = {"here", "other"}
    Here = "here"
    Foreign <- OtherArchive
    Keep = 1
    NoJob = NoJob
    Missing = Missing
    MaxBody = 2
    MaxDays = 2
    MaxJobs = 2
    MaxMishaps = 1
    Deed = {"a", "b"}
    Forged = "z"
    MaxDeeds = 3
    MaxEdits = 2
    Agent = {"old", "new"}
    Stale = 1
    Down = 2
    LastSecond = 5
    MaxFailures = 1
SYMMETRY Symmetry
CHECK_DEADLOCK FALSE
INVARIANTS OverlayKeepsPromises StateOutlivesLog BackupHoldsTheSteady ListingIsWhole ChartsAddUp DamageIsNoticed RosterTellsTheTruth
