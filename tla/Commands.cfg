SPECIFICATION MCSpec
CONSTANTS
    p1 = p1  p2 = p2  p3 = p3  None = None
    Procs = {p1, p2, p3}
    Forms = {"plain", "env", "force"}
    Timeout = 2
    MaxOps = 3
    MaxFaults = 2
    Users = {p1, p2}
    Names <- Four
    Modules = {"a"}
    Space <- Spaces
    Path <- Paths
    AppOf <- Scripts
    Regex <- Patterns
    BadApps = {"bad"}
    Commands <- TheCommands
    Starts <- TheStarts
    MaxCommands = 3
    MaxFailures = 1
INVARIANT HeldByWorker
PROPERTIES KeptOutBriefly ActsAsAsked
CHECK_DEADLOCK FALSE
