SPECIFICATION MCSpec
CONSTANTS
    a = a  b = b  t = t  u = u  v1 = v1  v2 = v2  v3 = v3  d1 = d1  d2 = d2
    p1 = p1  p2 = p2  m1 = m1  m2 = m2  k1 = k1  k2 = k2  x1 = x1  x2 = x2
    None = None  Partial = Partial  Torn = Torn
    Npm = {a, b}
    NpmNamed = {b}
    Tar = {t, u}
    TarApps <- Apps
    TarField <- FieldApps
    Deps = {d1, d2}
    Versions = {v1, v2, v3}
    Unstable = {v3}
    Commands <- AllCommands
    MaxOps = 4
    MaxFaults = 2
    Writers = {p1, p2}
    Sections = {m1, m2}
    Keys = {k1, k2}
    Vals = {x1, x2}
    Requests <- AllRequests
    ConfOps = 4
    ConfFaults = 1
    Scenes = {"npm", "tar", "conf", "writers"}
INVARIANTS ModulesAsReported SettingsAsReported
PROPERTIES DeathsAreSurvived
CHECK_DEADLOCK FALSE
