SPECIFICATION MCSpec
CONSTANTS
    p1 = p1  p2 = p2  s1 = s1  s2 = s2  s3 = s3  None = None  Torn = Torn
    Procs = {p1, p2}
    Services = {s1, s2, s3}
    Timed = {s3}
    Confs <- AllConfs
    Kinds <- AllKinds
    Scenes = {"failures", "concurrent", "cron"}
    MaxOps = 4
    MaxFaults = 2
SYMMETRY Symmetry
INVARIANTS TypeOK StartedIsComplete StopSticks DeletedIsGone Manageable TimerHasTarget
PROPERTIES RegisteredLast ForgottenLast
CHECK_DEADLOCK FALSE
