SPECIFICATION MCSpec
CONSTANTS
    p1 = p1  p2 = p2  s1 = s1  v1 = v1  v2 = v2  a1 = a1  a2 = a2  a3 = a3
    None = None
PROPERTIES OperationsEnd Resolves
CHECK_DEADLOCK FALSE
