SPECIFICATION Spec
CONSTANTS
    i1 = i1
    k1 = k1
    Identity    = {i1}
    Key         = {k1}
    KeyOf      <- OneFile
    Connection  = {c1, c2, c3}
    CmdObs      = {"reverse_shell_attempted"}
    EventObs    = {"credential_files_read"}
    Cap         = 20
    MaxCommands = 2
    MaxFaults   = 1
    MaxCrashes  = 1
    NoOne       = NoOne
CHECK_DEADLOCK FALSE
SYMMETRY Symmetry
INVARIANTS OnceIfUndisturbed LadderDrained RememberedAlertIsLogged
