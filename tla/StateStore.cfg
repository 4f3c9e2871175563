SPECIFICATION MCSpec
CONSTANTS
    p1 = p1  p2 = p2  s1 = s1  s2 = s2  v1 = v1  v2 = v2  None = None
    Procs = {p1, p2}
    Services = {s1, s2}
    Values = {v1, v2}
    Pins = {0}
    Kinds = {"register", "unregister", "clear", "replace", "load", "save"}
    InitFiles <- AnyFile
    Retries = 1
    MaxOps = 3
    MaxFaults = 1
SYMMETRY ProcSymmetry
INVARIANTS TypeOK LockExclusion FileIdsUnique NoLostCommit
PROPERTIES LockNeverTakenOver CorruptFileKept ImplementsRegistry
CHECK_DEADLOCK FALSE
