SPECIFICATION MCSpec
CONSTANTS
    Procs = {p1, p2}
    Server = server
    Ports = {n1}
    None = None
    Empty = Empty
    MaxOps = 3
    MaxFaults = 2
    r1 = r1  r2 = r2  a = a
    Requests = {r1, r2}
    Apps = {a}
    MaxBody = 1
    MaxUser = 1
    RequestFaults = 1
INVARIANTS ManagedService RequestsAsAnswered
PROPERTIES KeyStays ApiComesUp
CHECK_DEADLOCK FALSE
