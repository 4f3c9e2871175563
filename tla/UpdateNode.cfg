SPECIFICATION MCSpec
CONSTANTS
    a1 = a1  a2 = a2  v1 = v1  v2 = v2  p1 = p1  p2 = p2
    None = None  Bad = Bad  Old = Old  Link = Link  Torn = Torn
    Apps = {a1, a2}
    Legacy = {}
    Internal = {}
    Triggered = {}
    Runtimes = {v1, v2}
    InitHosts <- UsualHosts
    Window = 1
    MaxRuns = 3
    MaxFaults = 2
    MaxKills = 1
    Installers = {p1, p2}
    NvmOps = 2
    NvmFaults = 2
    MaxUser = 1
SYMMETRY Symmetry
INVARIANTS ReportIsTrue ExitZeroIsComplete RuntimesAreSafe
PROPERTIES ImplementsPromise
CHECK_DEADLOCK FALSE
