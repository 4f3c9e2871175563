SPECIFICATION MCSpec
CONSTANTS
    Kilo = 1024
    Texts <- Strings
    Commands <- AllCommands
    Names <- MCNames
    Sanitized <- MCSanitized
    Rendered = "plain"
    Users <- MCUsers
    Groups <- MCGroups
    Found = {"node", "bash", "python3"}
    BashIsUsual = TRUE
    rt1 = rt1  rt2 = rt2  x1 = x1  x2 = x2  blank = blank  quoted = quoted
    slashed = slashed  usr = usr  bin = bin  old = old  tool = tool  word = word
    NoFile = NoFile
    UnitFiles <- SomeUnits
    Environments <- PlainEnvironments
    Edits <- Written
    Runtimes <- TheRuntimes
    NodeExes = {old, rt1, rt2}
    BasePath <- TheBasePath
    Bare <- TheBare
    Blank = {blank}
    Quote = {quoted}
    MaxUpdates = 3
    MaxEdits = 2
    Scenes = {"start", "runtime"}
INVARIANT UnitAsAsked
PROPERTY OnlyRuntimeChanges
CHECK_DEADLOCK FALSE
