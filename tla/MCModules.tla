------------------------------ MODULE MCModules ------------------------------
(* Modules and their configuration for TLC, in scenes of their own: "npm" and *)
(* "tar" install, update, launch and remove modules, "conf" and "writers"    *)
(* change module_conf.json by one process and by two at a time.              *)
EXTENDS ModuleSettings, TLC

CONSTANTS a, b, t, u, v1, v2, v3, d1, d2,
          p1, p2, m1, m2, k1, k2, x1, x2,
          Scenes  \* the scenes of the run

VARIABLE scene

-----------------------------------------------------------------------------
C(kind, m, v, safe) == [kind |-> kind, mod |-> m, ver |-> v, safe |-> safe]
Of(ms, vs) == {C("install", m, v, FALSE) : m \in ms, v \in vs}
              \cup {C("uninstall", m, v1, FALSE) : m \in ms}
All == {C("launch", a, v1, FALSE), C("uninstallAll", a, v1, FALSE)}

\* Two npm modules, also with --safe, and a version that crashes; tarballs of
\* one and of two apps beside an npm module, and the internal modules.
CommandsOf(s) ==
    CASE s = "npm" -> Of({a, b}, {v1, v3}) \cup All
                      \cup {C("install", m, v, TRUE) : m \in {a, b}, v \in {v1, v3}}
      [] s = "tar" -> Of({a, t, u}, {v1, v2}) \cup All \cup {C("local", a, v1, FALSE)}
                      \cup {C("install", a, v, TRUE) : v \in {v1, v2}}
      [] OTHER -> {}
AllCommands == CommandsOf("npm") \cup CommandsOf("tar")

\* One app called like the module, and two that are not.
Apps == (t :> {"self"} @@ u :> {"other", "second"})
FieldApps == [m \in Tar |-> "apps"]
\* Or called by a longer name than the module, or declared under "pm2".
LongerApps == (t :> {"longer"} @@ u :> {"other", "second"})
FieldPm2 == [m \in Tar |-> "pm2"]

E(m, k, v) == [mod |-> m, key |-> k, val |-> v]
One(kind, e) == [kind |-> kind, edits |-> <<e>>]
Two == [kind |-> "multiset", edits |-> <<E(m1, k1, x2), E(m2, None, x1)>>]

\* One key set to either value, the module as a plain value, a second module,
\* several keys at once, removals and an installation default.
AllRequests ==
    {One("set", E(m1, k1, x1)), One("set", E(m1, k2, x2)), One("set", E(m1, None, x1)),
     One("set", E(m2, k1, x2)), One("unset", E(m1, k1, None)), One("unset", E(m1, None, None)),
     One("default", E(m1, k1, x2)), One("set", E(m2, k1, x1)), Two,
     [kind |-> "all", edits |-> <<>>]}
FewRequests == {One("set", E(m2, k1, x1)), One("default", E(m1, k1, x2)), Two}

-----------------------------------------------------------------------------
MCInit ==
    /\ scene \in Scenes
    /\ Init
    /\ Conf!Init /\ (scene \in {"npm", "tar"} => file = None)
MCNext ==
    /\ UNCHANGED scene
    /\ \/ /\ \/ \E c \in CommandsOf(scene) :
                   ops < (IF scene = "npm" THEN 4 ELSE 3) /\ Begin(c)
             \/ Step \/ Respawn \/ Stop \/ Dies
          /\ UNCHANGED confVars
       \/ /\ scene \in {"conf", "writers"} /\ Conf!Next
          /\ IF scene = "conf" THEN confOps'[p2] = 0
             ELSE \A p \in {p1, p2} : confOps'[p] <= 2 /\ op'[p] \in FewRequests \cup {None}
          /\ UNCHANGED vars
MCSpec == MCInit /\ [][MCNext]_<<vars, confVars, scene>>

=============================================================================
