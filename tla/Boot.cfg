SPECIFICATION MCSpec
CONSTANTS
    a1 = a1  a2 = a2  p1 = p1  p2 = p2  None = None  Torn = Torn
    web = web  cron = cron  mod = mod  dot = dot  dash = dash
    u1 = u1  u2 = u2  u3 = u3  u4 = u4  AllWord = AllWord
    Apps = {a1, a2}
    Olds <- NoneOrOne
    Bare = {}
    Procs = {p1, p2}
    Commands <- AllCommands
    MaxOps = 3
    MaxFaults = 2
    MaxUser = 2
    Migrators = {p1, p2}
    Lists <- AllLists
    Legacies <- NoneOrTemplate
    Dumps <- DumpFiles
    All = AllWord
    MaxMigrations = 3
    MaxFailures = 2
SYMMETRY Symmetry
INVARIANTS OneGoodCopy NothingIsLost
PROPERTY BootsAsAsked
CHECK_DEADLOCK FALSE
