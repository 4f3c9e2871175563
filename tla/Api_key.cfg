SPECIFICATION MCSpec
CONSTANTS
    Procs = {p1}
    Server = server
    Ports = {n1}
    None = None
    Empty = Empty
    MaxOps = 1
    MaxFaults = 0
    r1 = r1  r2 = r2  a = a
    Requests = {r1, r2}
    Apps = {a}
    MaxBody = 1
    MaxUser = 1
    RequestFaults = 1
INVARIANT PrintedKeyIsServed
CHECK_DEADLOCK FALSE
