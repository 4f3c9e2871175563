SPECIFICATION Spec
CONSTANTS
    a1 = a1  v1 = v1  v2 = v2  None = None
    Apps = {a1}
    Legacy = {}
    Internal = {}
    Triggered = {a1}
    Runtimes = {v1, v2}
    InitHosts <- AllHosts
    Window = 2
    MaxRuns = 1
    MaxFaults = 4
    MaxKills = 1
INVARIANTS TypeOK VerifiedRunsIt
PROPERTIES StoppedStaysStopped RestartsWhole
CHECK_DEADLOCK FALSE
