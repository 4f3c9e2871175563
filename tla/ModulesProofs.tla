---------------------------- MODULE ModulesProofs ----------------------------
(***************************************************************************)
(* That what Modules reports of a module is so, for any modules, versions, *)
(* commands, failures and deaths.                                          *)
(*                                                                         *)
(* A command is a sequence of steps that each change one thing; what it    *)
(* reports in the end rests on what every step before it has left.  The    *)
(* inductive invariant says which commands reach a step (Place) and what   *)
(* holds there: of an installation (Installed), of an update that is to be *)
(* taken back (Updating, Unlisted), of a removal (Removing), and of a      *)
(* launch (Launching).  systemd, which respawns what crashes from whatever *)
(* code is there at the moment, steps in between at any time.              *)
(***************************************************************************)
EXTENDS ModuleSettings, FiniteSetTheorems, TLAPS

Steps ==
    {"idle", "unknown", "backup", "unlist", "remove", "npm", "list", "start", "watch",
     "revert", "restart", "unpack", "startApps", "enlist", "inspect", "deleteApps",
     "delist", "next", "launch", "local"}
Service == [reg : BOOLEAN, code : Versions \cup {None}]

\* TypeOK without its counters.
Types ==
    /\ listed \in [Modules -> BOOLEAN]
    /\ folder \in [Modules -> Versions \cup {None, Partial}]
    /\ backup \in [Npm -> Versions \cup {None, Partial}]
    /\ svc \in [Services -> Service]
    /\ pc \in Steps /\ cmd \in Command \cup {None}
    /\ answer \in {"none", "ok", "error", "crash"} /\ queue \subseteq Modules

\* The commands that reach a step, and of which modules.
Place ==
    /\ pc # "idle" => cmd \in Command
    /\ pc \in {"backup", "npm", "list", "start", "watch", "revert", "restart"} =>
          cmd.kind = "install" /\ cmd.mod \in Npm
    /\ pc \in {"unlist", "remove"} =>
          cmd.kind \in {"install", "uninstall", "uninstallAll"} /\ cmd.mod \in Npm
    /\ pc \in {"unpack", "startApps", "enlist"} => cmd.kind = "install" /\ cmd.mod \in Tar
    /\ pc \in {"inspect", "deleteApps", "delist"} =>
          cmd.kind \in {"uninstall", "uninstallAll"} /\ cmd.mod \in Tar
    /\ pc = "unknown" => cmd.kind = "uninstall"
    /\ pc = "next" => cmd.kind = "uninstallAll"
    /\ pc = "launch" => cmd.kind = "launch"
    /\ pc = "local" => cmd.kind = "local"

Runs(s) == svc[s].reg /\ svc[s].code # None
Gone(s) == ~svc[s].reg /\ svc[s].code = None
Registered == \A s \in Services : Runs(s) \/ svc[s].code = None

\* The service runs the version that is being installed, where that is promised.
IsNew(s) == cmd.mod \in Tar \cup NpmNamed => svc[s].code = cmd.ver \/ cmd.ver \in Unstable

Installed ==
    /\ pc \in {"list", "start", "watch", "startApps", "enlist"} \/ Done("install", "ok") =>
          folder[cmd.mod] = cmd.ver
    /\ pc \in {"start", "watch"} => listed[cmd.mod]
    /\ pc = "restart" => folder[cmd.mod] # None
    /\ Done("install", "ok") => listed[cmd.mod] \/ (cmd.mod \in Tar /\ "conf" \in failed)
    /\ pc \in {"watch", "enlist"} \/ Done("install", "ok") =>
          \A s \in ServicesOf(cmd.mod) : Runs(s) /\ IsNew(s)
    /\ pc = "startApps" => \A s \in ServicesOf(cmd.mod) \ todo : Runs(s) /\ IsNew(s)

\* An update of a module with code, of which nothing but npm has failed.
UpdateFailsInNpm ==
    /\ cmd.kind = "install" /\ cmd.mod \in Npm /\ failed \subseteq {"npm"}
    /\ had.listed[cmd.mod] /\ had.folder[cmd.mod] \in Versions
Updating ==
    pc \in {"backup", "unlist", "remove", "npm", "list", "start", "watch", "revert", "restart"}
      /\ UpdateFailsInNpm =>
        /\ pc # "backup" => backup[cmd.mod] = had.folder[cmd.mod]
        /\ pc \in {"backup", "restart"} => folder[cmd.mod] = had.folder[cmd.mod]
Restored ==
    Done("install", "error") /\ UpdateFailsInNpm =>
        folder[cmd.mod] = had.folder[cmd.mod] /\ Runs(NpmService(cmd.mod))

Unlisted == pc \in {"remove", "npm"} => ~listed[cmd.mod] \/ "conf" \in failed

\* The services whose names uninstall works out as the start did.
OwnNames(m) == TarApps[m] = {"self"} \/ \A n \in TarApps[m] : ~HasModuleName(n)
Removes == cmd.kind = "uninstall" /\ cmd.mod \in Tar /\ failed = {} /\ OwnNames(cmd.mod)
Removing ==
    /\ pc = "deleteApps" /\ Removes => \A s \in ServicesOf(cmd.mod) \ todo : Gone(s)
    /\ pc = "delist" \/ Done("uninstall", "ok") =>
          /\ Removes => \A s \in ServicesOf(cmd.mod) : Gone(s)
          /\ cmd.mod \in Tar => folder[cmd.mod] = None
    /\ Done("uninstall", "ok") /\ Removes => ~listed[cmd.mod]

Launching ==
    pc = "launch" \/ Done("launch", "ok") =>
        \A m \in Modules :
            listed[m] /\ folder[m] \in Versions /\ m \notin failed /\ (pc = "launch" => m \notin queue)
            => \A s \in ServicesOf(m) : Runs(s)

IInv ==
    /\ TypeOK /\ Place /\ Registered /\ Installed /\ Updating /\ Restored /\ Unlisted
    /\ Removing /\ Launching

-----------------------------------------------------------------------------
(* The services of a module.                                               *)

LEMMA NpmOwner == \A m \in Npm : NpmService(m)[1] = m
  BY DEF NpmService

LEMMA NpmServices ==
  ASSUME NEW m \in Npm
  PROVE  /\ NpmService(m) \in Services /\ NpmService(m)[1] = m
         /\ ServicesOf(m) = {NpmService(m)}
<1>1. NpmService(m)[1] = m /\ NpmService(m) \in Services
  BY NpmOwner DEF Services
<1>2. ASSUME NEW s \in Services, s[1] = m PROVE s = NpmService(m)
  <2>1. CASE s \in {NpmService(n) : n \in Npm}
    <3>1. PICK n \in Npm : s = NpmService(n)
      BY <2>1, Zenon
    <3> QED BY <1>2, <3>1, NpmOwner
  <2>2. CASE s \in UNION {StartedAs(t) : t \in Tar}
    <3>1. PICK t \in Tar : s \in StartedAs(t)
      BY <2>2
    <3>2. s[1] = t
      BY <3>1 DEF StartedAs
    <3> QED BY <1>2, <3>2, ModulesAssumption
  <2> QED BY <2>1, <2>2 DEF Services
<1> QED BY <1>1, <1>2 DEF ServicesOf

LEMMA TarServices ==
  ASSUME NEW t \in Tar
  PROVE  ServicesOf(t) = StartedAs(t) /\ StartedAs(t) \subseteq Services
<1>1. \A s \in StartedAs(t) : s[1] = t
  BY DEF StartedAs
<1>2. StartedAs(t) \subseteq Services
  BY DEF Services
<1>3. ASSUME NEW s \in Services, s[1] = t PROVE s \in StartedAs(t)
  <2>1. CASE s \in {NpmService(n) : n \in Npm}
    <3>1. PICK n \in Npm : s = NpmService(n)
      BY <2>1, Zenon
    <3> QED BY <1>3, <3>1, NpmOwner, ModulesAssumption
  <2>2. CASE s \in UNION {StartedAs(u) : u \in Tar}
    <3>1. PICK u \in Tar : s \in StartedAs(u)
      BY <2>2
    <3>2. s[1] = u
      BY <3>1 DEF StartedAs
    <3> QED BY <1>3, <3>1, <3>2
  <2> QED BY <2>1, <2>2 DEF Services
<1> QED BY <1>1, <1>2, <1>3 DEF ServicesOf

LEMMA Owner == \A s \in Services : s[1] \in Modules
<1> SUFFICES ASSUME NEW s \in Services PROVE s[1] \in Modules
  OBVIOUS
<1>1. CASE s \in {NpmService(n) : n \in Npm}
  <2>1. PICK n \in Npm : s = NpmService(n)
    BY <1>1, Zenon
  <2> QED BY <2>1, NpmOwner DEF Modules
<1>2. CASE s \in UNION {StartedAs(u) : u \in Tar}
  <2>1. PICK u \in Tar : s \in StartedAs(u)
    BY <1>2
  <2>2. s[1] = u
    BY <2>1 DEF StartedAs
  <2> QED BY <2>2 DEF Modules
<1> QED BY <1>1, <1>2 DEF Services

\* The names an uninstallation deletes are those the start has given, if every
\* app is called like its module, or by a name without the module's.
LEMMA SameNames ==
  ASSUME NEW t \in Tar, OwnNames(t)
  PROVE  DeletedAs(t) = StartedAs(t)
<1>1. CASE TarApps[t] = {"self"}
  <2>1. Cardinality({"self"}) = 1
    BY FS_Singleton
  <2>2. DeletedAs(t) = {<<t, FALSE, "self">>}
    <3>1. (Cardinality(TarApps[t]) > 1 \/ "self" # "self") = FALSE
      BY <1>1, <2>1
    <3> QED BY <1>1, <3>1, Zenon DEF DeletedAs
  <2>3. StartedAs(t) = {<<t, FALSE, "self">>}
    <3>1. (NeedPrefix(t) /\ ~HasModuleName("self")) = FALSE
      BY <1>1 DEF NeedPrefix
    <3> QED BY <1>1, <3>1, Zenon DEF StartedAs
  <2> QED BY <2>2, <2>3
<1>2. CASE TarApps[t] # {"self"} /\ \A n \in TarApps[t] : ~HasModuleName(n)
  <2>1. ASSUME NEW n \in TarApps[t]
        PROVE  <<t, Cardinality(TarApps[t]) > 1 \/ n # "self", n>>
                 = <<t, NeedPrefix(t) /\ ~HasModuleName(n), n>>
    <3>1. (Cardinality(TarApps[t]) > 1 \/ n # "self") = TRUE
      BY <1>2 DEF HasModuleName
    <3>2. (NeedPrefix(t) /\ ~HasModuleName(n)) = TRUE
      BY <1>2 DEF NeedPrefix
    <3> QED BY <3>1, <3>2, Zenon
  <2> QED BY <2>1, Zenon DEF DeletedAs, StartedAs
<1> QED BY <1>1, <1>2 DEF OwnNames

-----------------------------------------------------------------------------
(* What a respawn leaves of a service.                                     *)

LEMMA RespawnStep ==
  ASSUME Types, Respawn, NEW s \in Services
  PROVE  /\ svc'[s].reg = svc[s].reg
         /\ svc[s].code = None => svc'[s].code = None
         /\ folder[s[1]] \in Versions /\ svc[s].code # None => svc'[s].code # None
         /\ svc[s].code \notin Unstable => svc'[s].code = svc[s].code
<1>1. PICK r \in Services :
        /\ svc[r].code \in Unstable /\ folder[r[1]] # svc[r].code
        /\ svc' = [svc EXCEPT ![r].code = IF folder[r[1]] \in Versions THEN folder[r[1]] ELSE None]
  BY DEF Respawn
<1>2. None \notin Unstable /\ None \notin Versions
  BY ModulesAssumption
<1>3. CASE r # s
  <2>1. svc'[s] = svc[s]
    BY <1>1, <1>3 DEF Types
  <2> QED BY <2>1
<1>4. CASE r = s
  <2>1. svc'[s] = [svc[s] EXCEPT !.code = IF folder[s[1]] \in Versions THEN folder[s[1]] ELSE None]
    BY <1>1, <1>4 DEF Types
  <2>2. svc[s] \in Service
    BY DEF Types
  <2>3. svc'[s].reg = svc[s].reg /\ svc'[s].code = IF folder[s[1]] \in Versions THEN folder[s[1]] ELSE None
    BY <2>1, <2>2 DEF Service
  <2> QED BY <1>1, <1>2, <1>4, <2>3
<1> QED BY <1>3, <1>4

LEMMA RespawnRuns ==
  ASSUME Types, Respawn, NEW s \in Services
  PROVE  /\ folder[s[1]] \in Versions /\ Runs(s) => Runs(s)'
         /\ Gone(s) => Gone(s)'
         /\ IsNew(s) => IsNew(s)' \/ cmd.mod \notin Tar \cup NpmNamed
         /\ Runs(s) \/ svc[s].code = None => Runs(s)' \/ svc'[s].code = None
<1>1. cmd' = cmd
  BY DEF Respawn, Locals
<1> QED BY <1>1, RespawnStep, ModulesAssumption DEF Runs, Gone, IsNew

-----------------------------------------------------------------------------
(* Types.                                                                  *)

LEMMA CommandFields ==
  ASSUME NEW c \in Command
  PROVE  /\ c.kind \in {"install", "uninstall", "launch", "uninstallAll", "local"}
         /\ c.mod \in Modules /\ c.ver \in Versions
         /\ \A m \in Modules : /\ [c EXCEPT !.mod = m] \in Command
                            /\ [c EXCEPT !.mod = m].mod = m
                            /\ [c EXCEPT !.mod = m].kind = c.kind
  BY DEF Command

LEMMA ModuleSets == Npm \subseteq Modules /\ Tar \subseteq Modules /\ Npm \cap Tar = {}
  BY ModulesAssumption DEF Modules

LEMMA StartedType ==
  ASSUME Types, NEW m \in Npm, folder[m] \in Versions
  PROVE  /\ Started(m) \in Service
         /\ Started(m).reg /\ Started(m).code # None
         /\ m \in NpmNamed /\ Registered => Started(m).code = folder[m]
<1>1. NpmService(m) \in Services
  BY NpmServices
<1>2. svc[NpmService(m)] \in Service
  BY <1>1 DEF Types
<1>3. svc[NpmService(m)].code \in Versions \cup {None}
  BY <1>2 DEF Service
<1> DEFINE code == IF (m \in NpmNamed /\ svc[NpmService(m)].reg) \/ svc[NpmService(m)].code = None
                   THEN folder[m] ELSE svc[NpmService(m)].code
<1>4. code \in Versions
  BY <1>3
<1>5. Started(m) = [reg |-> TRUE, code |-> code]
  BY Zenon DEF Started
<1>6. m \in NpmNamed /\ Registered => code = folder[m]
  BY <1>1, <1>3 DEF Registered, Runs
<1> HIDE DEF code
<1>7. Started(m) \in Service /\ Started(m).reg /\ Started(m).code = code
  BY <1>4, <1>5 DEF Service
<1> QED BY <1>4, <1>6, <1>7, ModulesAssumption

LEMMA FreshType ==
  ASSUME NEW t \in Tar, folder[t] \in Versions
  PROVE  Fresh(t) \in Service /\ Fresh(t).reg /\ Fresh(t).code = folder[t]
  BY DEF Fresh, Service

LEMMA CountsStep ==
  ASSUME TypeOK, Next
  PROVE  ops' \in 0..MaxOps /\ faults' \in 0..MaxFaults
<1> USE DEF Works, Breaks, Locals
<1> DEFINE Counted == /\ ops' = ops \/ (ops < MaxOps /\ ops' = ops + 1)
                      /\ faults' = faults \/ (faults < MaxFaults /\ faults' = faults + 1)
<1>1. Counted
  <2>1. CASE Unknown
    BY <2>1 DEF Unknown
  <2>2. CASE Backup
    BY <2>2 DEF Backup
  <2>3. CASE Unlist
    BY <2>3 DEF Unlist
  <2>4. CASE Remove
    BY <2>4 DEF Remove, Removed, Goes, Ends
  <2>5. CASE NpmInstall
    BY <2>5 DEF NpmInstall
  <2>6. CASE List
    BY <2>6 DEF List
  <2>7. CASE Start
    BY <2>7 DEF Start
  <2>8. CASE Watch
    BY <2>8 DEF Watch
  <2>9. CASE Revert
    BY <2>9 DEF Revert
  <2>10. CASE Restart
    BY <2>10 DEF Restart
  <2>11. CASE Unpack
    BY <2>11 DEF Unpack
  <2>12. CASE StartApp
    BY <2>12 DEF StartApp
  <2>13. CASE Enlist
    BY <2>13 DEF Enlist
  <2>14. CASE Inspect
    BY <2>14 DEF Inspect
  <2>15. CASE DeleteApp
    BY <2>15 DEF DeleteApp
  <2>16. CASE Delist
    BY <2>16 DEF Delist
  <2>17. CASE Following
    BY <2>17 DEF Following
  <2>18. CASE Launch
    BY <2>18 DEF Launch
  <2>19. CASE LocalInstall
    BY <2>19 DEF LocalInstall
  <2>20. ASSUME NEW c \in Commands, Begin(c) PROVE Counted
    BY <2>20 DEF Begin
  <2>21. CASE Respawn
    BY <2>21 DEF Respawn
  <2>22. CASE Stop
    BY <2>22 DEF Stop
  <2>23. CASE Dies
    BY <2>23 DEF Dies
  <2> QED BY <2>1, <2>2, <2>3, <2>4, <2>5, <2>6, <2>7, <2>8, <2>9, <2>10, <2>11,
             <2>12, <2>13, <2>14, <2>15, <2>16, <2>17, <2>18, <2>19, <2>20, <2>21,
             <2>22, <2>23, Zenon DEF Next, Step
<1>2. ops \in 0..MaxOps /\ faults \in 0..MaxFaults /\ MaxOps \in Nat /\ MaxFaults \in Nat
  BY CommandsAssumption DEF TypeOK
<1> QED BY <1>1, <1>2

LEMMA TypesStep ==
  ASSUME Types, Place, Installed, Next
  PROVE  Types'
<1> USE DEF Goes, Ends, Works, Breaks, Locals
<1>0. /\ cmd # None => cmd \in Command
      /\ pc # "idle" => cmd \in Command
  BY DEF Types, Place
<1>1. CASE Unknown
  BY <1>0, <1>1, CommandFields, ModuleSets DEF Unknown, Types, Place, Installed, Steps
<1>2. CASE Backup
  BY <1>0, <1>2, CommandFields, ModuleSets DEF Backup, Types, Place, Installed, Steps
<1>3. CASE Unlist
  BY <1>0, <1>3, CommandFields, ModuleSets DEF Unlist, Types, Place, Installed, Steps
<1>4. CASE Remove
  BY <1>0, <1>4, CommandFields, ModuleSets DEF Remove, Removed, Types, Place, Steps
<1>5. CASE NpmInstall
  BY <1>0, <1>5, CommandFields, ModuleSets DEF NpmInstall, Types, Place, Installed, Steps
<1>6. CASE List
  BY <1>0, <1>6, CommandFields, ModuleSets DEF List, Types, Place, Installed, Steps
<1>7. CASE Start
  <2>1. cmd.mod \in Npm /\ folder[cmd.mod] \in Versions
    BY <1>0, <1>7, CommandFields DEF Start, Place, Installed
  <2>2. Started(cmd.mod) \in Service
    BY <2>1, StartedType
  <2>3. svc' \in [Services -> Service]
    BY <1>7, <2>2 DEF Start, StartNpm, Types
  <2>4. pc' \in Steps /\ answer' \in {"none", "ok", "error", "crash"}
    BY <1>7 DEF Start, Types, Steps
  <2> QED BY <1>7, <2>3, <2>4 DEF Start, Types
<1>8. CASE Watch
  BY <1>0, <1>8, CommandFields, ModuleSets DEF Watch, Types, Place, Installed, Steps
<1>9. CASE Revert
  BY <1>0, <1>9, CommandFields, ModuleSets DEF Revert, Types, Place, Installed, Steps
<1>10. CASE Restart
  <2>1. cmd.mod \in Npm /\ folder[cmd.mod] # None /\ folder[cmd.mod] \in Versions \cup {None, Partial}
    BY <1>0, <1>10, ModuleSets DEF Restart, Types, Place, Installed
  <2>2. CASE folder[cmd.mod] = Partial
    BY <1>10, <2>2 DEF Restart, Types, Steps
  <2>3. CASE folder[cmd.mod] # Partial
    <3>1. Started(cmd.mod) \in Service
      BY <2>1, <2>3, StartedType
    <3>2. svc' \in [Services -> Service]
      BY <1>10, <2>3, <3>1 DEF Restart, StartNpm, Types
    <3>3. pc' \in Steps /\ answer' \in {"none", "ok", "error", "crash"}
      BY <1>10, <2>3 DEF Restart, Types, Steps
    <3> QED BY <1>10, <2>3, <3>2, <3>3 DEF Restart, Types
  <2> QED BY <2>2, <2>3
<1>11. CASE Unpack
  BY <1>0, <1>11, CommandFields, ModuleSets DEF Unpack, Types, Place, Installed, Steps
<1>12. CASE StartApp
  <2>1. cmd.mod \in Tar /\ folder[cmd.mod] \in Versions
    BY <1>0, <1>12, CommandFields DEF StartApp, Place, Installed
  <2>2. Fresh(cmd.mod) \in Service
    BY <2>1, FreshType
  <2>3. svc' \in [Services -> Service]
    <3>1. UNCHANGED svc \/ \E s \in todo : svc' = [svc EXCEPT ![s] = Fresh(cmd.mod)]
      BY <1>12 DEF StartApp
    <3> QED BY <2>2, <3>1 DEF Types
  <2>4. pc' \in Steps /\ answer' \in {"none", "ok", "error", "crash"}
    BY <1>12 DEF StartApp, Types, Steps
  <2> QED BY <1>12, <2>3, <2>4 DEF StartApp, Types
<1>13. CASE Enlist
  BY <1>0, <1>13, CommandFields, ModuleSets DEF Enlist, Types, Place, Installed, Steps
<1>14. CASE Inspect
  BY <1>0, <1>14, CommandFields, ModuleSets DEF Inspect, Types, Place, Installed, Steps
<1>15. CASE DeleteApp
  <2>1. NoService \in Service
    BY DEF NoService, Service
  <2>2. svc' \in [Services -> Service]
    <3>1. UNCHANGED svc \/ \E s \in todo : svc' = [svc EXCEPT ![s] = NoService]
      BY <1>15 DEF DeleteApp
    <3> QED BY <2>1, <3>1 DEF Types
  <2>3. pc' \in Steps /\ answer' \in {"none", "ok", "error", "crash"}
    BY <1>15 DEF DeleteApp, Types, Steps
  <2> QED BY <1>0, <1>15, <2>2, <2>3, CommandFields DEF DeleteApp, Types
<1>16. CASE Delist
  <2>1. cmd.mod \in Modules /\ listed' \in [Modules -> BOOLEAN]
    BY <1>0, <1>16, CommandFields DEF Delist, Types
  <2>2. pc' \in Steps /\ answer' \in {"none", "ok", "error", "crash"}
    BY <1>16 DEF Delist, Removed, Types, Steps
  <2> QED BY <1>16, <2>1, <2>2 DEF Delist, Types
<1>17. CASE Following
  <2>1. cmd \in Command
    BY <1>0, <1>17 DEF Following
  <2>2. cmd' \in Command /\ queue' \subseteq Modules
    <3>1. \/ UNCHANGED <<cmd, queue>>
          \/ \E m \in FirstOf : cmd' = [cmd EXCEPT !.mod = m] /\ queue' = queue \ {m}
      BY <1>17 DEF Following
    <3>2. FirstOf \subseteq Modules
      BY DEF FirstOf, Types
    <3> QED BY <2>1, <3>1, <3>2, CommandFields DEF Types
  <2>3. pc' \in Steps /\ answer' \in {"none", "ok", "error", "crash"}
    BY <1>17 DEF Following, Types, Steps
  <2> QED BY <1>17, <2>2, <2>3 DEF Following, Types
<1>18. CASE Launch
  <2>1. UNCHANGED svc \/ \E m \in FirstOf : folder[m] \in Versions /\ svc' = Launched(m)
    BY <1>18 DEF Launch
  <2>2. FirstOf \subseteq Modules
    BY DEF FirstOf, Types
  <2>3. svc' \in [Services -> Service]
    <3>1. ASSUME NEW m \in Modules, folder[m] \in Versions PROVE Launched(m) \in [Services -> Service]
      <4>1. CASE m \in Npm
        <5>1. Launched(m) = [svc EXCEPT ![NpmService(m)] = Started(m)]
          BY <4>1 DEF Launched
        <5> QED BY <3>1, <4>1, <5>1, StartedType DEF Types
      <4>2. CASE m \in Tar
        <5>1. Launched(m) = [s \in Services |-> IF s \in StartedAs(m) THEN Fresh(m) ELSE svc[s]]
          BY <4>2, ModuleSets DEF Launched
        <5> QED BY <3>1, <4>2, <5>1, FreshType DEF Types
      <4> QED BY <4>1, <4>2 DEF Modules
    <3> QED BY <2>1, <2>2, <3>1 DEF Types
  <2>4. pc' \in Steps /\ answer' \in {"none", "ok", "error", "crash"} /\ queue' \subseteq Modules
    BY <1>18 DEF Launch, Types, Steps
  <2> QED BY <1>18, <2>3, <2>4 DEF Launch, Types
<1>19. CASE LocalInstall
  BY <1>0, <1>19, CommandFields, ModuleSets DEF LocalInstall, Types, Place, Installed, Steps
<1>20. ASSUME NEW c \in Commands, Begin(c) PROVE Types'
  BY <1>20, CommandsAssumption, CommandFields DEF Begin, Entry, Types, Steps
<1>21. CASE Respawn
  BY <1>0, <1>21, CommandFields DEF Respawn, Types, Place, Installed, Steps, Service
<1>22. CASE Stop
  BY <1>0, <1>22, CommandFields DEF Stop, Types, Place, Installed, Steps, Service
<1>23. CASE Dies
  BY <1>0, <1>23, CommandFields DEF Dies, Types, Place, Installed, Steps, Service
<1> QED BY <1>1, <1>2, <1>3, <1>4, <1>5, <1>6, <1>7, <1>8, <1>9, <1>10, <1>11,
           <1>12, <1>13, <1>14, <1>15, <1>16, <1>17, <1>18, <1>19, <1>20, <1>21,
           <1>22, <1>23, Zenon DEF Next, Step

-----------------------------------------------------------------------------
(* Which commands reach which step.                                        *)

LEMMA PlaceStep ==
  ASSUME Types, Place, Next
  PROVE  Place'
<1> USE DEF Goes, Ends, Works, Breaks, Locals
<1>1. CASE Unknown
  BY <1>1 DEF Unknown, Place
<1>2. CASE Backup
  BY <1>2 DEF Backup, Place
<1>3. CASE Unlist
  BY <1>3 DEF Unlist, Place
<1>4. CASE Remove
  BY <1>4 DEF Remove, Removed, Place
<1>5. CASE NpmInstall
  BY <1>5 DEF NpmInstall, Place
<1>6. CASE List
  BY <1>6 DEF List, Place
<1>7. CASE Start
  BY <1>7 DEF Start, Place
<1>8. CASE Watch
  BY <1>8 DEF Watch, Place
<1>9. CASE Revert
  BY <1>9 DEF Revert, Place
<1>10. CASE Restart
  BY <1>10 DEF Restart, Place
<1>11. CASE Unpack
  BY <1>11 DEF Unpack, Place
<1>12. CASE StartApp
  BY <1>12 DEF StartApp, Place
<1>13. CASE Enlist
  BY <1>13 DEF Enlist, Place
<1>14. CASE Inspect
  BY <1>14 DEF Inspect, Place
<1>15. CASE DeleteApp
  BY <1>15 DEF DeleteApp, Place
<1>16. CASE Delist
  BY <1>16 DEF Delist, Removed, Place
<1>17. CASE Following
  <2>1. cmd \in Command /\ cmd.kind = "uninstallAll"
    BY <1>17 DEF Following, Place
  <2>2. CASE queue = {} /\ Ends("ok") /\ UNCHANGED <<cmd, queue>>
    BY <2>2 DEF Place
  <2>3. ASSUME NEW m \in FirstOf, cmd' = [cmd EXCEPT !.mod = m],
               Goes(IF m \in Npm THEN "unlist" ELSE "inspect")
        PROVE  Place'
    <3>1. m \in Modules
      BY DEF FirstOf, Types
    <3>2. cmd' \in Command /\ cmd'.mod = m /\ cmd'.kind = "uninstallAll"
      BY <2>1, <2>3, <3>1, CommandFields
    <3> QED BY <2>3, <3>1, <3>2 DEF Place, Modules
  <2> QED BY <1>17, <2>2, <2>3 DEF Following
<1>18. CASE Launch
  BY <1>18 DEF Launch, Place
<1>19. CASE LocalInstall
  BY <1>19 DEF LocalInstall, Place
<1>20. ASSUME NEW c \in Commands, Begin(c) PROVE Place'
  BY <1>20, CommandsAssumption, CommandFields, ModuleSets DEF Begin, Entry, Place, Modules
<1>21. CASE Respawn
  BY <1>21 DEF Respawn, Place
<1>22. CASE Stop
  BY <1>22 DEF Stop, Place
<1>23. CASE Dies
  BY <1>23 DEF Dies, Place
<1> QED BY <1>1, <1>2, <1>3, <1>4, <1>5, <1>6, <1>7, <1>8, <1>9, <1>10, <1>11,
           <1>12, <1>13, <1>14, <1>15, <1>16, <1>17, <1>18, <1>19, <1>20, <1>21,
           <1>22, <1>23, Zenon DEF Next, Step

-----------------------------------------------------------------------------
(* Whatever runs is registered.                                            *)

\* A service that is started, or deleted, and the others as they were.
LEMMA Replaced ==
  ASSUME Types, Registered, NEW x, NEW r, svc' = svc \/ svc' = [svc EXCEPT ![x] = r],
         (r.reg /\ r.code # None) \/ r.code = None
  PROVE  Registered'
  BY DEF Types, Registered, Runs

\* A launch brings up the services of one module.
LEMMA LaunchedRuns ==
  ASSUME Types, NEW m \in Modules, folder[m] \in Versions, svc' = Launched(m), NEW s \in Services
  PROVE  /\ s \in ServicesOf(m) => Runs(s)'
         /\ s \notin ServicesOf(m) => svc'[s] = svc[s]
<1>1. CASE m \in Npm
  <2>1. svc' = [svc EXCEPT ![NpmService(m)] = Started(m)]
    BY <1>1 DEF Launched
  <2>2. ServicesOf(m) = {NpmService(m)}
    BY <1>1, NpmServices
  <2> QED BY <1>1, <2>1, <2>2, StartedType DEF Types, Runs
<1>2. CASE m \in Tar
  <2>1. svc' = [x \in Services |-> IF x \in StartedAs(m) THEN Fresh(m) ELSE svc[x]]
    BY <1>2, ModuleSets DEF Launched
  <2>2. ServicesOf(m) = StartedAs(m)
    BY <1>2, TarServices
  <2> QED BY <1>2, <2>1, <2>2, FreshType, ModulesAssumption DEF Runs
<1> QED BY <1>1, <1>2 DEF Modules

LEMMA RegisteredStep ==
  ASSUME Types, Place, Installed, Registered, Next
  PROVE  Registered'
<1> USE DEF Goes, Ends, Works, Breaks, Locals
<1>1. CASE Unknown
  BY <1>1 DEF Unknown, Registered, Runs
<1>2. CASE Backup
  BY <1>2 DEF Backup, Registered, Runs
<1>3. CASE Unlist
  BY <1>3 DEF Unlist, Registered, Runs
<1>4. CASE Remove
  BY <1>4 DEF Remove, Registered, Runs
<1>5. CASE NpmInstall
  BY <1>5 DEF NpmInstall, Registered, Runs
<1>6. CASE List
  BY <1>6 DEF List, Registered, Runs
<1>7. CASE Start
  <2>1. cmd.mod \in Npm /\ folder[cmd.mod] \in Versions
    BY <1>7, CommandFields DEF Start, Place, Installed
  <2>2. Started(cmd.mod).reg /\ Started(cmd.mod).code # None
    BY <2>1, StartedType
  <2>3. UNCHANGED svc \/ svc' = [svc EXCEPT ![NpmService(cmd.mod)] = Started(cmd.mod)]
    BY <1>7 DEF Start, StartNpm
  <2> QED BY <2>2, <2>3, Replaced
<1>8. CASE Watch
  BY <1>8 DEF Watch, Registered, Runs
<1>9. CASE Revert
  BY <1>9 DEF Revert, Registered, Runs
<1>10. CASE Restart
  <2>1. UNCHANGED svc \/ (svc' = [svc EXCEPT ![NpmService(cmd.mod)] = Started(cmd.mod)] /\ folder[cmd.mod] # Partial)
    BY <1>10 DEF Restart, StartNpm
  <2>2. folder[cmd.mod] # Partial => Started(cmd.mod).reg /\ Started(cmd.mod).code # None
    <3>1. cmd.mod \in Npm /\ folder[cmd.mod] # None /\ folder[cmd.mod] \in Versions \cup {None, Partial}
      BY <1>10, ModuleSets DEF Restart, Types, Place, Installed
    <3> QED BY <3>1, StartedType
  <2>3. CASE svc' = svc
    BY <2>3 DEF Registered, Runs
  <2>4. CASE svc' = [svc EXCEPT ![NpmService(cmd.mod)] = Started(cmd.mod)] /\ folder[cmd.mod] # Partial
    <3>1. Started(cmd.mod).reg /\ Started(cmd.mod).code # None
      BY <2>2, <2>4
    <3> QED BY <2>4, <3>1, Replaced
  <2> QED BY <2>1, <2>3, <2>4
<1>11. CASE Unpack
  BY <1>11 DEF Unpack, Registered, Runs
<1>12. CASE StartApp
  <2>1. cmd.mod \in Tar /\ folder[cmd.mod] \in Versions
    BY <1>12, CommandFields DEF StartApp, Place, Installed
  <2>2. Fresh(cmd.mod).reg /\ Fresh(cmd.mod).code # None
    BY <2>1, FreshType, ModulesAssumption
  <2>3. UNCHANGED svc \/ \E s \in todo : svc' = [svc EXCEPT ![s] = Fresh(cmd.mod)]
    BY <1>12 DEF StartApp
  <2> QED BY <2>2, <2>3, Replaced
<1>13. CASE Enlist
  BY <1>13 DEF Enlist, Registered, Runs
<1>14. CASE Inspect
  BY <1>14 DEF Inspect, Registered, Runs
<1>15. CASE DeleteApp
  <2>1. NoService.code = None
    BY DEF NoService
  <2>2. UNCHANGED svc \/ \E s \in todo : svc' = [svc EXCEPT ![s] = NoService]
    BY <1>15 DEF DeleteApp
  <2> QED BY <2>1, <2>2, Replaced
<1>16. CASE Delist
  BY <1>16 DEF Delist, Registered, Runs
<1>17. CASE Following
  BY <1>17 DEF Following, Registered, Runs
<1>18. CASE Launch
  <2>1. UNCHANGED svc \/ \E m \in FirstOf : folder[m] \in Versions /\ svc' = Launched(m)
    BY <1>18 DEF Launch
  <2>2. FirstOf \subseteq Modules
    BY DEF FirstOf, Types
  <2>3. ASSUME NEW m \in Modules, folder[m] \in Versions, svc' = Launched(m) PROVE Registered'
    <3> SUFFICES ASSUME NEW s \in Services PROVE Runs(s)' \/ svc'[s].code = None
      BY DEF Registered
    <3> QED BY <2>3, LaunchedRuns DEF Registered, Runs
  <2> QED BY <2>1, <2>2, <2>3 DEF Registered, Runs
<1>19. CASE LocalInstall
  BY <1>19 DEF LocalInstall, Registered, Runs
<1>20. ASSUME NEW c \in Commands, Begin(c) PROVE Registered'
  BY <1>20 DEF Begin, Registered, Runs
<1>21. CASE Respawn
  <2> SUFFICES ASSUME NEW s \in Services PROVE Runs(s)' \/ svc'[s].code = None
    BY DEF Registered
  <2> QED BY <1>21, RespawnRuns DEF Registered
<1>22. CASE Stop
  <2>1. PICK s \in Services : svc' = [svc EXCEPT ![s].code = None]
    BY <1>22 DEF Stop
  <2> SUFFICES ASSUME NEW r \in Services PROVE Runs(r)' \/ svc'[r].code = None
    BY DEF Registered
  <2>2. svc[r] \in Service /\ svc[s] \in Service
    BY DEF Types
  <2> QED BY <2>1, <2>2 DEF Registered, Runs, Types, Service
<1>23. CASE Dies
  BY <1>23 DEF Dies, Registered, Runs
<1> QED BY <1>1, <1>2, <1>3, <1>4, <1>5, <1>6, <1>7, <1>8, <1>9, <1>10, <1>11,
           <1>12, <1>13, <1>14, <1>15, <1>16, <1>17, <1>18, <1>19, <1>20, <1>21,
           <1>22, <1>23, Zenon DEF Next, Step

-----------------------------------------------------------------------------
(* Installations.                                                          *)

LEMMA InstalledStep ==
  ASSUME Types, Place, Registered, Installed, Next
  PROVE  Installed'
<1> USE DEF Goes, Ends, Works, Breaks, Locals
<1>1. CASE Unknown
  BY <1>1 DEF Unknown, Place, Installed, Done
<1>2. CASE Backup
  BY <1>2 DEF Backup, Place, Installed, Done
<1>3. CASE Unlist
  BY <1>3 DEF Unlist, Place, Installed, Done
<1>4. CASE Remove
  BY <1>4 DEF Remove, Removed, Place, Installed, Done
<1>5. CASE NpmInstall
  <2>1. cmd.mod \in Modules /\ cmd.kind = "install"
    BY <1>5, ModuleSets DEF NpmInstall, Place
  <2> QED BY <1>5, <2>1 DEF NpmInstall, Installed, Done, Types
<1>6. CASE List
  <2>1. cmd.mod \in Modules
    BY <1>6, ModuleSets DEF List, Place
  <2> QED BY <1>6, <2>1 DEF List, Installed, Done, Types
<1>7. CASE Start
  <2>1. cmd.mod \in Npm /\ cmd.mod \notin Tar /\ folder[cmd.mod] \in Versions
    BY <1>7, CommandFields, ModuleSets DEF Start, Place, Installed
  <2>2. folder[cmd.mod] = cmd.ver /\ listed[cmd.mod]
    BY <1>7 DEF Start, Installed
  <2>3. CASE svc' = [svc EXCEPT ![NpmService(cmd.mod)] = Started(cmd.mod)] /\ pc' \in {"watch", "idle"}
    <3>1. \A s \in ServicesOf(cmd.mod) : svc'[s] = Started(cmd.mod)
      BY <2>1, <2>3, NpmServices DEF Types
    <3>2. \A s \in ServicesOf(cmd.mod) : Runs(s)' /\ (cmd.mod \in Tar \cup NpmNamed => svc'[s].code = cmd.ver)
      BY <2>1, <2>2, <3>1, StartedType DEF Runs
    <3>3. cmd' = cmd /\ folder' = folder /\ listed' = listed
      BY <1>7 DEF Start
    <3> QED BY <2>2, <2>3, <3>2, <3>3 DEF Installed, Done, IsNew
  <2>4. CASE Ends("error")
    BY <2>4 DEF Installed, Done
  <2> QED BY <1>7, <2>3, <2>4 DEF Start, StartNpm
<1>8. CASE Watch
  <2>1. /\ UNCHANGED <<cmd, svc, folder, listed>> /\ cmd.mod \in Npm
        /\ pc' \in {"revert", "idle"}
    BY <1>8 DEF Watch, Place
  <2>2. /\ folder[cmd.mod] = cmd.ver /\ listed[cmd.mod]
        /\ \A s \in ServicesOf(cmd.mod) : Runs(s) /\ IsNew(s)
    BY <1>8 DEF Watch, Installed
  <2>3. \A s \in ServicesOf(cmd.mod) : Runs(s)' /\ IsNew(s)'
    BY <2>1, <2>2 DEF Runs, IsNew
  <2> QED BY <2>1, <2>2, <2>3 DEF Installed
<1>9. CASE Revert
  <2>1. cmd.mod \in Npm /\ cmd.mod \in Modules /\ cmd.kind = "install"
    BY <1>9, ModuleSets DEF Revert, Place
  <2> QED BY <1>9, <2>1 DEF Revert, Installed, Done, Types
<1>10. CASE Restart
  BY <1>10 DEF Restart, Place, Installed, Done
<1>11. CASE Unpack
  <2>1. cmd.mod \in Tar /\ cmd.mod \in Modules
    BY <1>11, ModuleSets DEF Unpack, Place
  <2>2. CASE Ends("error") \/ Ends("crash")
    BY <2>2 DEF Installed, Done
  <2>3. CASE Works /\ folder' = [folder EXCEPT ![cmd.mod] = cmd.ver] /\ Goes("startApps") /\ todo' = StartedAs(cmd.mod)
    <3>1. folder'[cmd.mod] = cmd.ver /\ cmd' = cmd
      BY <1>11, <2>1, <2>3 DEF Unpack, Types
    <3>2. ServicesOf(cmd.mod) \ todo' = {}
      BY <2>1, <2>3, TarServices
    <3> QED BY <2>3, <3>1, <3>2 DEF Installed, Done
  <2> QED BY <1>11, <2>2, <2>3 DEF Unpack
<1>12. CASE StartApp
  <2>1. /\ cmd.mod \in Tar /\ folder[cmd.mod] = cmd.ver /\ cmd.ver \in Versions
        /\ cmd' = cmd /\ folder' = folder
        /\ \A s \in ServicesOf(cmd.mod) \ todo : Runs(s) /\ IsNew(s)
    BY <1>12, CommandFields DEF StartApp, Place, Installed
  <2>2. ASSUME NEW s \in todo, svc' = [svc EXCEPT ![s] = Fresh(cmd.mod)], todo' = todo \ {s},
               Goes(IF todo = {s} THEN "enlist" ELSE "startApps")
        PROVE  Installed'
    <3>1. Fresh(cmd.mod).reg /\ Fresh(cmd.mod).code = cmd.ver /\ cmd.ver # None
      BY <2>1, FreshType, ModulesAssumption
    <3>2. ASSUME NEW r \in ServicesOf(cmd.mod) \ todo' PROVE Runs(r)' /\ IsNew(r)'
      <4>1. r \in Services
        BY DEF ServicesOf
      <4>2. CASE r = s
        <5>1. svc'[r] = Fresh(cmd.mod)
          BY <2>2, <4>1, <4>2 DEF Types
        <5> QED BY <2>1, <3>1, <5>1 DEF Runs, IsNew
      <4>3. CASE r # s
        <5>1. svc'[r] = svc[r] /\ Runs(r) /\ IsNew(r)
          BY <2>1, <2>2, <4>1, <4>3 DEF Types
        <5> QED BY <2>1, <5>1 DEF Runs, IsNew
      <4> QED BY <4>2, <4>3
    <3>3. pc' = "enlist" => todo' = {}
      BY <2>2
    <3>4. pc' \in {"startApps", "enlist"}
      BY <2>2
    <3> QED BY <2>1, <3>2, <3>3, <3>4 DEF Installed, Done
  <2>3. CASE Ends("error")
    BY <2>3 DEF Installed, Done
  <2> QED BY <1>12, <2>2, <2>3 DEF StartApp
<1>13. CASE Enlist
  <2>1. /\ cmd.mod \in Tar /\ cmd.mod \in Modules /\ folder[cmd.mod] = cmd.ver /\ cmd' = cmd
        /\ folder' = folder /\ svc' = svc
        /\ \A s \in ServicesOf(cmd.mod) : Runs(s) /\ IsNew(s)
    BY <1>13, ModuleSets DEF Enlist, Place, Installed
  <2>2. \A s \in ServicesOf(cmd.mod) : Runs(s)' /\ IsNew(s)'
    BY <2>1 DEF Runs, IsNew
  <2>3. listed'[cmd.mod] \/ "conf" \in failed'
    BY <1>13, <2>1 DEF Enlist, Types
  <2>4. pc' = "idle"
    BY <1>13 DEF Enlist
  <2> QED BY <2>1, <2>2, <2>3, <2>4 DEF Installed
<1>14. CASE Inspect
  BY <1>14 DEF Inspect, Place, Installed, Done
<1>15. CASE DeleteApp
  BY <1>15 DEF DeleteApp, Place, Installed, Done
<1>16. CASE Delist
  BY <1>16 DEF Delist, Removed, Place, Installed, Done
<1>17. CASE Following
  BY <1>17 DEF Following, Place, Installed, Done
<1>18. CASE Launch
  BY <1>18 DEF Launch, Place, Installed, Done
<1>19. CASE LocalInstall
  BY <1>19 DEF LocalInstall, Place, Installed, Done
<1>20. ASSUME NEW c \in Commands, Begin(c) PROVE Installed'
  <2>1. pc' = Entry(c) /\ c.kind \in {"install", "uninstall", "launch", "uninstallAll", "local"}
    BY <1>20, CommandsAssumption, CommandFields DEF Begin
  <2>2. pc' \in {"unpack", "backup", "npm", "unknown", "inspect", "unlist", "next", "launch", "local"}
    BY <2>1 DEF Entry
  <2> QED BY <2>2 DEF Installed, Done
<1>21. CASE Respawn
  <2>1. UNCHANGED <<listed, folder, pc, answer, todo, failed, cmd>>
    BY <1>21 DEF Respawn
  <2>2. ASSUME NEW s \in ServicesOf(cmd.mod), folder[cmd.mod] = cmd.ver, cmd.ver \in Versions,
               Runs(s), IsNew(s)
        PROVE  Runs(s)' /\ IsNew(s)'
    <3>1. s \in Services /\ s[1] = cmd.mod
      BY DEF ServicesOf
    <3> QED BY <1>21, <2>1, <2>2, <3>1, RespawnRuns DEF IsNew
  <2>3. pc \in {"watch", "enlist", "startApps"} \/ Done("install", "ok") => folder[cmd.mod] = cmd.ver /\ cmd.ver \in Versions
    <3>1. (pc \in {"watch", "enlist", "startApps"} \/ Done("install", "ok")) => cmd \in Command
      BY DEF Place, Done, Types
    <3> QED BY <3>1, CommandFields DEF Installed
  <2>4. /\ pc' \in {"watch", "enlist"} \/ Done("install", "ok")' =>
             \A s \in ServicesOf(cmd.mod) : Runs(s)' /\ IsNew(s)'
        /\ pc' = "startApps" => \A s \in ServicesOf(cmd.mod) \ todo : Runs(s)' /\ IsNew(s)'
    BY <2>1, <2>2, <2>3 DEF Installed, Done
  <2> QED BY <2>1, <2>4 DEF Installed, Done
<1>22. CASE Stop
  BY <1>22 DEF Stop, Place, Installed, Done
<1>23. CASE Dies
  BY <1>23 DEF Dies, Place, Installed, Done
<1> QED BY <1>1, <1>2, <1>3, <1>4, <1>5, <1>6, <1>7, <1>8, <1>9, <1>10, <1>11,
           <1>12, <1>13, <1>14, <1>15, <1>16, <1>17, <1>18, <1>19, <1>20, <1>21,
           <1>22, <1>23, Zenon DEF Next, Step

-----------------------------------------------------------------------------
(* Updates that are taken back, and the entry of a module without code.    *)

LEMMA EntrySteps ==
  ASSUME NEW c \in Commands
  PROVE  /\ c \in Command
         /\ Entry(c) \in {"unpack", "backup", "npm", "unknown", "inspect", "unlist", "next",
                          "launch", "local"}
         /\ Entry(c) = "backup" => c.kind = "install" /\ c.mod \in Npm
         /\ Entry(c) = "npm" => ~listed[c.mod]
         /\ Entry(c) = "unlist" => c.kind = "uninstall"
         /\ Entry(c) = "launch" => c.kind = "launch"
<1>1. c \in Command /\ c.mod \in Modules
      /\ c.kind \in {"install", "uninstall", "launch", "uninstallAll", "local"}
  BY CommandsAssumption, CommandFields
<1> QED BY <1>1 DEF Entry, Modules

LEMMA UpdatingStep ==
  ASSUME Types, Place, Updating, Next
  PROVE  Updating'
<1> USE DEF Goes, Ends, Works, Breaks, Locals
<1>1. CASE Unknown
  BY <1>1 DEF Unknown, Place, Updating, UpdateFailsInNpm
<1>2. CASE Backup
  BY <1>2 DEF Backup, Place, Types, Updating, UpdateFailsInNpm
<1>3. CASE Unlist
  BY <1>3 DEF Unlist, Place, Updating, UpdateFailsInNpm
<1>4. CASE Remove
  BY <1>4 DEF Remove, Removed, Place, Updating, UpdateFailsInNpm
<1>5. CASE NpmInstall
  BY <1>5 DEF NpmInstall, Place, Updating, UpdateFailsInNpm
<1>6. CASE List
  BY <1>6 DEF List, Place, Updating, UpdateFailsInNpm
<1>7. CASE Start
  BY <1>7 DEF Start, Place, Updating, UpdateFailsInNpm
<1>8. CASE Watch
  BY <1>8 DEF Watch, Place, Updating, UpdateFailsInNpm
<1>9. CASE Revert
  <2>1. cmd.mod \in Modules
    BY <1>9, ModuleSets DEF Revert, Place
  <2> QED BY <1>9, <2>1 DEF Revert, Place, Types, Updating, UpdateFailsInNpm
<1>10. CASE Restart
  BY <1>10 DEF Restart, Place, Updating, UpdateFailsInNpm
<1>11. CASE Unpack
  BY <1>11 DEF Unpack, Place, Updating, UpdateFailsInNpm
<1>12. CASE StartApp
  BY <1>12 DEF StartApp, Place, Updating, UpdateFailsInNpm
<1>13. CASE Enlist
  BY <1>13 DEF Enlist, Place, Updating, UpdateFailsInNpm
<1>14. CASE Inspect
  BY <1>14 DEF Inspect, Place, Updating, UpdateFailsInNpm
<1>15. CASE DeleteApp
  BY <1>15 DEF DeleteApp, Place, Updating, UpdateFailsInNpm
<1>16. CASE Delist
  BY <1>16 DEF Delist, Removed, Place, Updating, UpdateFailsInNpm
<1>17. CASE Following
  <2>1. cmd \in Command /\ cmd.kind = "uninstallAll" /\ cmd'.kind = "uninstallAll"
    <3>1. cmd \in Command /\ cmd.kind = "uninstallAll"
      BY <1>17 DEF Following, Place
    <3>2. cmd' = cmd \/ \E m \in FirstOf : cmd' = [cmd EXCEPT !.mod = m]
      BY <1>17 DEF Following
    <3>3. FirstOf \subseteq Modules
      BY DEF FirstOf, Types
    <3> QED BY <3>1, <3>2, <3>3, CommandFields
  <2>2. pc' \in {"idle", "unlist", "inspect"}
    BY <1>17 DEF Following
  <2> QED BY <2>1, <2>2 DEF Updating, UpdateFailsInNpm
<1>18. CASE Launch
  BY <1>18 DEF Launch, Place, Updating, UpdateFailsInNpm
<1>19. CASE LocalInstall
  BY <1>19 DEF LocalInstall, Place, Updating, UpdateFailsInNpm
<1>20. ASSUME NEW c \in Commands, Begin(c) PROVE Updating'
  <2>1. /\ pc' = Entry(c) /\ cmd' = c /\ had'.folder = folder /\ had'.listed = listed
        /\ folder' = folder
    BY <1>20 DEF Begin
  <2> QED BY <2>1, EntrySteps DEF Updating, UpdateFailsInNpm
<1>21. CASE Respawn
  BY <1>21 DEF Respawn, Place, Updating, UpdateFailsInNpm
<1>22. CASE Stop
  BY <1>22 DEF Stop, Place, Updating, UpdateFailsInNpm
<1>23. CASE Dies
  BY <1>23 DEF Dies, Place, Updating, UpdateFailsInNpm
<1> QED BY <1>1, <1>2, <1>3, <1>4, <1>5, <1>6, <1>7, <1>8, <1>9, <1>10, <1>11,
           <1>12, <1>13, <1>14, <1>15, <1>16, <1>17, <1>18, <1>19, <1>20, <1>21,
           <1>22, <1>23, Zenon DEF Next, Step

LEMMA RestoredStep ==
  ASSUME Types, Place, Updating, Restored, Next
  PROVE  Restored'
<1> USE DEF Goes, Ends, Works, Breaks, Locals
<1>1. CASE Unknown
  BY <1>1 DEF Unknown, Place, Restored, Done, UpdateFailsInNpm
<1>2. CASE Backup
  BY <1>2 DEF Backup, Place, Restored, Done, UpdateFailsInNpm
<1>3. CASE Unlist
  BY <1>3 DEF Unlist, Place, Restored, Done, UpdateFailsInNpm
<1>4. CASE Remove
  BY <1>4 DEF Remove, Removed, Place, Restored, Done, UpdateFailsInNpm
<1>5. CASE NpmInstall
  BY <1>5 DEF NpmInstall, Place, Restored, Done, UpdateFailsInNpm
<1>6. CASE List
  BY <1>6 DEF List, Place, Restored, Done, UpdateFailsInNpm
<1>7. CASE Start
  BY <1>7 DEF Start, Place, Restored, Done, UpdateFailsInNpm
<1>8. CASE Watch
  BY <1>8 DEF Watch, Place, Restored, Done, UpdateFailsInNpm
<1>9. CASE Revert
  <2> SUFFICES ASSUME Ends("error"), UpdateFailsInNpm' PROVE FALSE
    BY <1>9 DEF Revert, Restored, Done
  <2>1. backup[cmd.mod] = None
    BY <1>9 DEF Revert
  <2>2. UpdateFailsInNpm
    BY <1>9 DEF Revert, UpdateFailsInNpm
  <2>3. backup[cmd.mod] = had.folder[cmd.mod] /\ had.folder[cmd.mod] \in Versions
    BY <1>9, <2>2 DEF Revert, Updating, UpdateFailsInNpm
  <2> QED BY <2>1, <2>3, ModulesAssumption
<1>10. CASE Restart
  <2> SUFFICES ASSUME Done("install", "error")', UpdateFailsInNpm'
               PROVE  folder'[cmd'.mod] = had'.folder[cmd'.mod] /\ Runs(NpmService(cmd.mod))'
    BY DEF Restored
  <2>1. cmd' = cmd /\ had' = had /\ folder' = folder /\ cmd.mod \in Npm
    BY <1>10 DEF Restart, Place
  <2>2. UpdateFailsInNpm
    BY <1>10 DEF Restart, UpdateFailsInNpm
  <2>3. folder[cmd.mod] = had.folder[cmd.mod] /\ folder[cmd.mod] \in Versions
    BY <1>10, <2>2 DEF Restart, Updating, UpdateFailsInNpm
  <2>4. svc' = [svc EXCEPT ![NpmService(cmd.mod)] = Started(cmd.mod)]
    BY <1>10, <2>3, ModulesAssumption DEF Restart, StartNpm, Done, UpdateFailsInNpm
  <2>5. svc'[NpmService(cmd.mod)] = Started(cmd.mod)
    BY <2>1, <2>4, NpmServices DEF Types
  <2> QED BY <2>1, <2>3, <2>5, StartedType DEF Runs
<1>11. CASE Unpack
  BY <1>11, ModuleSets DEF Unpack, Place, Restored, Done, UpdateFailsInNpm
<1>12. CASE StartApp
  BY <1>12, ModuleSets DEF StartApp, Place, Restored, Done, UpdateFailsInNpm
<1>13. CASE Enlist
  BY <1>13 DEF Enlist, Place, Restored, Done, UpdateFailsInNpm
<1>14. CASE Inspect
  BY <1>14 DEF Inspect, Place, Restored, Done, UpdateFailsInNpm
<1>15. CASE DeleteApp
  BY <1>15 DEF DeleteApp, Place, Restored, Done, UpdateFailsInNpm
<1>16. CASE Delist
  BY <1>16 DEF Delist, Removed, Place, Restored, Done, UpdateFailsInNpm
<1>17. CASE Following
  <2>1. cmd \in Command /\ cmd.kind = "uninstallAll" /\ cmd'.kind = "uninstallAll"
    <3>1. cmd \in Command /\ cmd.kind = "uninstallAll"
      BY <1>17 DEF Following, Place
    <3>2. cmd' = cmd \/ \E m \in FirstOf : cmd' = [cmd EXCEPT !.mod = m]
      BY <1>17 DEF Following
    <3>3. FirstOf \subseteq Modules
      BY DEF FirstOf, Types
    <3> QED BY <3>1, <3>2, <3>3, CommandFields
  <2>2. pc' \in {"idle", "unlist", "inspect"}
    BY <1>17 DEF Following
  <2> QED BY <2>1 DEF Restored, UpdateFailsInNpm
<1>18. CASE Launch
  BY <1>18 DEF Launch, Place, Restored, Done, UpdateFailsInNpm
<1>19. CASE LocalInstall
  BY <1>19 DEF LocalInstall, Place, Restored, Done, UpdateFailsInNpm
<1>20. ASSUME NEW c \in Commands, Begin(c) PROVE Restored'
  <2>1. pc' = Entry(c)
    BY <1>20 DEF Begin
  <2> QED BY <2>1, EntrySteps DEF Restored, Done
<1>21. CASE Respawn
  <2> SUFFICES ASSUME Done("install", "error")', UpdateFailsInNpm'
               PROVE  folder'[cmd'.mod] = had'.folder[cmd'.mod] /\ Runs(NpmService(cmd.mod))'
    BY DEF Restored
  <2>1. UNCHANGED <<cmd, had, folder, failed, pc, answer>>
    BY <1>21 DEF Respawn
  <2>2. Done("install", "error") /\ UpdateFailsInNpm
    BY <2>1 DEF Done, UpdateFailsInNpm
  <2>3. /\ folder[cmd.mod] = had.folder[cmd.mod] /\ folder[cmd.mod] \in Versions
        /\ Runs(NpmService(cmd.mod)) /\ cmd.mod \in Npm
    BY <2>2 DEF Restored, UpdateFailsInNpm
  <2>4. Runs(NpmService(cmd.mod))'
    <3>1. PICK s \in Services : s = NpmService(cmd.mod) /\ s[1] = cmd.mod
      BY <2>3, NpmServices
    <3>2. Runs(s)'
      BY <1>21, <2>3, <3>1, RespawnRuns
    <3> QED BY <2>1, <3>1, <3>2 DEF Runs
  <2> QED BY <2>1, <2>3, <2>4 DEF Runs
<1>22. CASE Stop
  BY <1>22 DEF Stop, Place, Restored, Done, UpdateFailsInNpm
<1>23. CASE Dies
  BY <1>23 DEF Dies, Place, Restored, Done, UpdateFailsInNpm
<1> QED BY <1>1, <1>2, <1>3, <1>4, <1>5, <1>6, <1>7, <1>8, <1>9, <1>10, <1>11,
           <1>12, <1>13, <1>14, <1>15, <1>16, <1>17, <1>18, <1>19, <1>20, <1>21,
           <1>22, <1>23, Zenon DEF Next, Step

LEMMA UnlistedStep ==
  ASSUME Types, Place, Unlisted, Next
  PROVE  Unlisted'
<1> USE DEF Goes, Ends, Works, Breaks, Locals
<1>1. CASE Unknown
  BY <1>1 DEF Unknown, Place, Unlisted
<1>2. CASE Backup
  BY <1>2 DEF Backup, Place, Unlisted
<1>3. CASE Unlist
  <2>1. cmd.mod \in Modules
    BY <1>3, ModuleSets DEF Unlist, Place
  <2> QED BY <1>3, <2>1 DEF Unlist, Unlisted, Types
<1>4. CASE Remove
  BY <1>4 DEF Remove, Removed, Unlisted
<1>5. CASE NpmInstall
  BY <1>5 DEF NpmInstall, Place, Unlisted
<1>6. CASE List
  BY <1>6 DEF List, Place, Unlisted
<1>7. CASE Start
  BY <1>7 DEF Start, Place, Unlisted
<1>8. CASE Watch
  BY <1>8 DEF Watch, Place, Unlisted
<1>9. CASE Revert
  BY <1>9 DEF Revert, Place, Unlisted
<1>10. CASE Restart
  BY <1>10 DEF Restart, Place, Unlisted
<1>11. CASE Unpack
  BY <1>11 DEF Unpack, Place, Unlisted
<1>12. CASE StartApp
  BY <1>12 DEF StartApp, Place, Unlisted
<1>13. CASE Enlist
  BY <1>13 DEF Enlist, Place, Unlisted
<1>14. CASE Inspect
  BY <1>14 DEF Inspect, Place, Unlisted
<1>15. CASE DeleteApp
  BY <1>15 DEF DeleteApp, Place, Unlisted
<1>16. CASE Delist
  BY <1>16 DEF Delist, Removed, Unlisted
<1>17. CASE Following
  <2>1. cmd \in Command /\ cmd.kind = "uninstallAll" /\ cmd'.kind = "uninstallAll"
    <3>1. cmd \in Command /\ cmd.kind = "uninstallAll"
      BY <1>17 DEF Following, Place
    <3>2. cmd' = cmd \/ \E m \in FirstOf : cmd' = [cmd EXCEPT !.mod = m]
      BY <1>17 DEF Following
    <3>3. FirstOf \subseteq Modules
      BY DEF FirstOf, Types
    <3> QED BY <3>1, <3>2, <3>3, CommandFields
  <2>2. pc' \in {"idle", "unlist", "inspect"}
    BY <1>17 DEF Following
  <2> QED BY <2>2 DEF Unlisted
<1>18. CASE Launch
  BY <1>18 DEF Launch, Place, Unlisted
<1>19. CASE LocalInstall
  BY <1>19 DEF LocalInstall, Place, Unlisted
<1>20. ASSUME NEW c \in Commands, Begin(c) PROVE Unlisted'
  <2>1. pc' = Entry(c) /\ cmd' = c /\ listed' = listed
    BY <1>20 DEF Begin
  <2> QED BY <2>1, EntrySteps DEF Unlisted
<1>21. CASE Respawn
  BY <1>21 DEF Respawn, Place, Unlisted
<1>22. CASE Stop
  BY <1>22 DEF Stop, Place, Unlisted
<1>23. CASE Dies
  BY <1>23 DEF Dies, Place, Unlisted
<1> QED BY <1>1, <1>2, <1>3, <1>4, <1>5, <1>6, <1>7, <1>8, <1>9, <1>10, <1>11,
           <1>12, <1>13, <1>14, <1>15, <1>16, <1>17, <1>18, <1>19, <1>20, <1>21,
           <1>22, <1>23, Zenon DEF Next, Step

-----------------------------------------------------------------------------
(* Removals.                                                               *)

LEMMA RemovingStep ==
  ASSUME Types, Place, Removing, Next
  PROVE  Removing'
<1> USE DEF Goes, Ends, Works, Breaks, Locals
<1>1. CASE Unknown
  BY <1>1 DEF Unknown, Place, Removing, Removes, Done
<1>2. CASE Backup
  BY <1>2 DEF Backup, Place, Removing, Removes, Done
<1>3. CASE Unlist
  BY <1>3 DEF Unlist, Place, Removing, Removes, Done
<1>4. CASE Remove
  BY <1>4, ModuleSets DEF Remove, Removed, Place, Removing, Removes, Done
<1>5. CASE NpmInstall
  BY <1>5 DEF NpmInstall, Place, Removing, Removes, Done
<1>6. CASE List
  BY <1>6 DEF List, Place, Removing, Removes, Done
<1>7. CASE Start
  BY <1>7 DEF Start, Place, Removing, Removes, Done
<1>8. CASE Watch
  BY <1>8 DEF Watch, Place, Removing, Removes, Done
<1>9. CASE Revert
  BY <1>9 DEF Revert, Place, Removing, Removes, Done
<1>10. CASE Restart
  BY <1>10 DEF Restart, Place, Removing, Removes, Done
<1>11. CASE Unpack
  BY <1>11 DEF Unpack, Place, Removing, Removes, Done
<1>12. CASE StartApp
  BY <1>12 DEF StartApp, Place, Removing, Removes, Done
<1>13. CASE Enlist
  BY <1>13 DEF Enlist, Place, Removing, Removes, Done
<1>14. CASE Inspect
  <2>1. CASE Ends("error")
    BY <2>1 DEF Removing, Done
  <2>2. CASE Goes("deleteApps") /\ todo' = DeletedAs(cmd.mod)
    <3>1. cmd' = cmd /\ svc' = svc /\ cmd.mod \in Tar
      BY <1>14 DEF Inspect, Place
    <3>2. Removes' => ServicesOf(cmd.mod) \ todo' = {}
      BY <2>2, <3>1, TarServices, SameNames DEF Removes
    <3> QED BY <2>2, <3>1, <3>2 DEF Removing, Done
  <2> QED BY <1>14, <2>1, <2>2 DEF Inspect
<1>15. CASE DeleteApp
  <2>1. PICK s \in todo :
          /\ todo' = todo \ {s}
          /\ \/ /\ Works
                /\ svc' = IF s \in Services THEN [svc EXCEPT ![s] = NoService] ELSE svc
             \/ Breaks("delete") /\ UNCHANGED svc
          /\ Goes(IF todo = {s} THEN "delist" ELSE "deleteApps")
    BY <1>15 DEF DeleteApp
  <2>2. /\ cmd' = cmd /\ cmd.mod \in Tar /\ cmd.mod \in Modules
        /\ folder' = [folder EXCEPT ![cmd.mod] = None]
    BY <1>15, ModuleSets DEF DeleteApp, Place
  <2>3. folder'[cmd.mod] = None
    BY <2>2 DEF Types
  <2>4. ASSUME Removes', NEW r \in ServicesOf(cmd.mod) \ todo' PROVE Gone(r)'
    <3>1. failed' = {} /\ Removes
      BY <2>1, <2>2, <2>4 DEF Removes
    <3>2. svc' = IF s \in Services THEN [svc EXCEPT ![s] = NoService] ELSE svc
      BY <2>1, <3>1
    <3>3. r \in Services
      BY DEF ServicesOf
    <3>4. CASE r = s
      <4>1. svc'[r] = NoService
        BY <3>2, <3>3, <3>4 DEF Types
      <4> QED BY <4>1 DEF Gone, NoService
    <3>5. CASE r # s
      <4>1. svc'[r] = svc[r]
        BY <3>2, <3>3, <3>5 DEF Types
      <4>2. Gone(r)
        BY <1>15, <2>1, <2>4, <3>1, <3>5 DEF DeleteApp, Removing
      <4> QED BY <4>1, <4>2 DEF Gone
    <3> QED BY <3>4, <3>5
  <2>5. pc' = "delist" => todo' = {}
    BY <2>1
  <2>6. pc' \in {"delist", "deleteApps"}
    BY <2>1
  <2> QED BY <2>2, <2>3, <2>4, <2>5, <2>6 DEF Removing, Done
<1>16. CASE Delist
  <2>1. /\ cmd' = cmd /\ cmd.mod \in Tar /\ cmd.mod \in Modules /\ svc' = svc /\ folder' = folder
        /\ folder[cmd.mod] = None
        /\ cmd.kind \in {"uninstall", "uninstallAll"}
    BY <1>16, ModuleSets DEF Delist, Place, Removing
  <2>2. Removes' => Removes /\ listed' = [listed EXCEPT ![cmd.mod] = FALSE]
    BY <1>16, <2>1 DEF Delist, Removes
  <2>3. Removes => \A s \in ServicesOf(cmd.mod) : Gone(s)
    BY <1>16 DEF Delist, Removing
  <2>4. \A s \in ServicesOf(cmd.mod) : Gone(s) => Gone(s)'
    BY <2>1 DEF Gone
  <2>5. Removes' => ~listed'[cmd.mod]
    BY <2>1, <2>2 DEF Types
  <2>6. pc' \in {"idle", "next"}
    BY <1>16 DEF Delist, Removed
  <2> QED BY <2>1, <2>2, <2>3, <2>4, <2>5, <2>6 DEF Removing
<1>17. CASE Following
  <2>1. cmd \in Command /\ cmd.kind = "uninstallAll" /\ cmd'.kind = "uninstallAll"
    <3>1. cmd \in Command /\ cmd.kind = "uninstallAll"
      BY <1>17 DEF Following, Place
    <3>2. cmd' = cmd \/ \E m \in FirstOf : cmd' = [cmd EXCEPT !.mod = m]
      BY <1>17 DEF Following
    <3>3. FirstOf \subseteq Modules
      BY DEF FirstOf, Types
    <3> QED BY <3>1, <3>2, <3>3, CommandFields
  <2>2. pc' \in {"idle", "unlist", "inspect"}
    BY <1>17 DEF Following
  <2> QED BY <2>1, <2>2 DEF Removing, Removes, Done
<1>18. CASE Launch
  BY <1>18 DEF Launch, Place, Removing, Removes, Done
<1>19. CASE LocalInstall
  BY <1>19 DEF LocalInstall, Place, Removing, Removes, Done
<1>20. ASSUME NEW c \in Commands, Begin(c) PROVE Removing'
  <2>1. pc' = Entry(c)
    BY <1>20 DEF Begin
  <2> QED BY <2>1, EntrySteps DEF Removing, Done
<1>21. CASE Respawn
  <2>1. UNCHANGED <<listed, folder, pc, answer, todo, failed, cmd>>
    BY <1>21 DEF Respawn
  <2>2. \A s \in ServicesOf(cmd.mod) : Gone(s) => Gone(s)'
    BY <1>21, RespawnRuns DEF ServicesOf
  <2>3. Removes' <=> Removes
    BY <2>1 DEF Removes
  <2> QED BY <2>1, <2>2, <2>3 DEF Removing, Done
<1>22. CASE Stop
  BY <1>22 DEF Stop, Place, Removing, Removes, Done
<1>23. CASE Dies
  BY <1>23 DEF Dies, Place, Removing, Removes, Done
<1> QED BY <1>1, <1>2, <1>3, <1>4, <1>5, <1>6, <1>7, <1>8, <1>9, <1>10, <1>11,
           <1>12, <1>13, <1>14, <1>15, <1>16, <1>17, <1>18, <1>19, <1>20, <1>21,
           <1>22, <1>23, Zenon DEF Next, Step

-----------------------------------------------------------------------------
(* Launches.                                                               *)

LEMMA LaunchingStep ==
  ASSUME Types, Place, Launching, Next
  PROVE  Launching'
<1> USE DEF Goes, Ends, Works, Breaks, Locals
<1>1. CASE Unknown
  BY <1>1 DEF Unknown, Place, Launching, Done
<1>2. CASE Backup
  BY <1>2 DEF Backup, Place, Launching, Done
<1>3. CASE Unlist
  BY <1>3 DEF Unlist, Place, Launching, Done
<1>4. CASE Remove
  BY <1>4 DEF Remove, Removed, Place, Launching, Done
<1>5. CASE NpmInstall
  BY <1>5 DEF NpmInstall, Place, Launching, Done
<1>6. CASE List
  BY <1>6 DEF List, Place, Launching, Done
<1>7. CASE Start
  BY <1>7 DEF Start, Place, Launching, Done
<1>8. CASE Watch
  BY <1>8 DEF Watch, Place, Launching, Done
<1>9. CASE Revert
  BY <1>9 DEF Revert, Place, Launching, Done
<1>10. CASE Restart
  BY <1>10 DEF Restart, Place, Launching, Done
<1>11. CASE Unpack
  BY <1>11 DEF Unpack, Place, Launching, Done
<1>12. CASE StartApp
  BY <1>12 DEF StartApp, Place, Launching, Done
<1>13. CASE Enlist
  BY <1>13 DEF Enlist, Place, Launching, Done
<1>14. CASE Inspect
  BY <1>14 DEF Inspect, Place, Launching, Done
<1>15. CASE DeleteApp
  BY <1>15 DEF DeleteApp, Place, Launching, Done
<1>16. CASE Delist
  BY <1>16 DEF Delist, Removed, Place, Launching, Done
<1>17. CASE Following
  <2>1. cmd \in Command /\ cmd.kind = "uninstallAll" /\ cmd'.kind = "uninstallAll"
    <3>1. cmd \in Command /\ cmd.kind = "uninstallAll"
      BY <1>17 DEF Following, Place
    <3>2. cmd' = cmd \/ \E m \in FirstOf : cmd' = [cmd EXCEPT !.mod = m]
      BY <1>17 DEF Following
    <3>3. FirstOf \subseteq Modules
      BY DEF FirstOf, Types
    <3> QED BY <3>1, <3>2, <3>3, CommandFields
  <2>2. pc' \in {"idle", "unlist", "inspect"}
    BY <1>17 DEF Following
  <2> QED BY <2>1, <2>2 DEF Launching, Done
<1>18. CASE Launch
  <2>1. /\ UNCHANGED <<listed, folder, cmd>> /\ cmd.kind = "launch" /\ failed \subseteq failed'
        /\ pc = "launch" /\ FirstOf \subseteq Modules
    BY <1>18 DEF Launch, Place, FirstOf, Types
  <2>2. ASSUME NEW m \in Modules, listed[m], folder[m] \in Versions, m \notin failed,
               m \notin queue, NEW s \in ServicesOf(m)
        PROVE  Runs(s) /\ s \in Services /\ s[1] = m
    BY <2>1, <2>2 DEF Launching, ServicesOf
  <2>3. CASE queue = {} /\ Ends("ok") /\ Works /\ UNCHANGED <<svc, queue>>
    <3>1. \A s : Runs(s) => Runs(s)'
      BY <2>3 DEF Runs
    <3> QED BY <2>1, <2>2, <2>3, <3>1 DEF Launching
  <2>4. ASSUME NEW n \in FirstOf, queue' = queue \ {n}, folder[n] \notin Versions, UNCHANGED svc,
               Goes("launch") \/ Ends("crash")
        PROVE  Launching'
    <3>1. \A s : Runs(s) => Runs(s)'
      BY <2>4 DEF Runs
    <3>2. pc' = "launch" \/ ~Done("launch", "ok")'
      BY <2>4 DEF Done
    <3> QED BY <2>1, <2>2, <2>4, <3>1, <3>2 DEF Launching
  <2>5. ASSUME NEW n \in FirstOf, queue' = queue \ {n}, folder[n] \in Versions, Goes("launch"),
               svc' = Launched(n)
        PROVE  Launching'
    <3>1. ASSUME NEW m \in Modules, listed'[m], folder'[m] \in Versions, m \notin failed',
                 m \notin queue', NEW s \in ServicesOf(m)
          PROVE  Runs(s)'
      <4>1. s \in Services /\ s[1] = m /\ n \in Modules
        BY <2>1 DEF ServicesOf
      <4>2. CASE m = n
        BY <2>5, <4>1, <4>2, LaunchedRuns
      <4>3. CASE m # n
        <5>1. s \notin ServicesOf(n)
          BY <4>1, <4>3 DEF ServicesOf
        <5>2. svc'[s] = svc[s]
          BY <2>5, <4>1, <5>1, LaunchedRuns
        <5>3. Runs(s)
          BY <2>1, <2>2, <2>5, <3>1, <4>3
        <5> QED BY <5>2, <5>3 DEF Runs
      <4> QED BY <4>2, <4>3
    <3> QED BY <2>5, <3>1 DEF Launching, Done
  <2>6. ASSUME NEW n \in FirstOf, queue' = queue \ {n}, Goes("launch"), Breaks(n), UNCHANGED svc
        PROVE  Launching'
    <3>1. n \in failed' /\ \A s : Runs(s) => Runs(s)'
      BY <2>6 DEF Runs
    <3> QED BY <2>1, <2>2, <2>6, <3>1 DEF Launching, Done
  <2> QED BY <1>18, <2>3, <2>4, <2>5, <2>6 DEF Launch
<1>19. CASE LocalInstall
  BY <1>19 DEF LocalInstall, Place, Launching, Done
<1>20. ASSUME NEW c \in Commands, Begin(c) PROVE Launching'
  <2>1. pc' = Entry(c) /\ cmd' = c /\ listed' = listed
    BY <1>20 DEF Begin
  <2>2. pc' = "launch" => queue' = {m \in Modules : listed[m]}
    BY <1>20, <2>1, EntrySteps DEF Begin
  <2> QED BY <2>1, <2>2, EntrySteps DEF Launching, Done
<1>21. CASE Respawn
  <2>1. UNCHANGED <<listed, folder, pc, answer, failed, cmd, queue>>
    BY <1>21 DEF Respawn
  <2>2. ASSUME NEW m \in Modules, folder[m] \in Versions, NEW s \in ServicesOf(m), Runs(s)
        PROVE  Runs(s)'
    <3>1. s \in Services /\ s[1] = m
      BY DEF ServicesOf
    <3> QED BY <1>21, <2>2, <3>1, RespawnRuns
  <2> QED BY <2>1, <2>2 DEF Launching, Done
<1>22. CASE Stop
  BY <1>22 DEF Stop, Place, Launching, Done
<1>23. CASE Dies
  BY <1>23 DEF Dies, Place, Launching, Done
<1> QED BY <1>1, <1>2, <1>3, <1>4, <1>5, <1>6, <1>7, <1>8, <1>9, <1>10, <1>11,
           <1>12, <1>13, <1>14, <1>15, <1>16, <1>17, <1>18, <1>19, <1>20, <1>21,
           <1>22, <1>23, Zenon DEF Next, Step

\* A step that leaves a module with code if it is listed.
KeepsCode(m) ==
    (listed[m] => folder[m] \in Versions) /\ backup[m] # Partial /\ "conf" \notin failed'
    => (listed'[m] => folder'[m] \in Versions)

LEMMA KeepsCodeStep ==
  ASSUME NEW m \in Npm, Types, Place, Installed, Unlisted, Next
  PROVE  KeepsCode(m)
<1> USE DEF Goes, Ends, Works, Breaks, Locals
<1>1. CASE Unknown
  BY <1>1 DEF Unknown, KeepsCode
<1>2. CASE Backup
  BY <1>2 DEF Backup, KeepsCode
<1>3. CASE Unlist
  BY <1>3, ModuleSets DEF Unlist, Types, KeepsCode
<1>4. CASE Remove
  BY <1>4 DEF Remove, Types, Unlisted, KeepsCode
<1>5. CASE NpmInstall
  <2>1. cmd.ver \in Versions
    BY <1>5, CommandFields DEF NpmInstall, Place
  <2> QED BY <1>5, <2>1, ModuleSets DEF NpmInstall, Types, Unlisted, KeepsCode
<1>6. CASE List
  <2>1. cmd.ver \in Versions
    BY <1>6, CommandFields DEF List, Place
  <2> QED BY <1>6, <2>1, ModuleSets DEF List, Types, Installed, KeepsCode
<1>7. CASE Start
  BY <1>7 DEF Start, KeepsCode
<1>8. CASE Watch
  BY <1>8 DEF Watch, KeepsCode
<1>9. CASE Revert
  BY <1>9, ModuleSets DEF Revert, Types, KeepsCode
<1>10. CASE Restart
  BY <1>10 DEF Restart, KeepsCode
<1>11. CASE Unpack
  BY <1>11, ModuleSets DEF Unpack, Place, Types, KeepsCode
<1>12. CASE StartApp
  BY <1>12 DEF StartApp, KeepsCode
<1>13. CASE Enlist
  BY <1>13, ModuleSets DEF Enlist, Place, Types, KeepsCode
<1>14. CASE Inspect
  BY <1>14 DEF Inspect, KeepsCode
<1>15. CASE DeleteApp
  BY <1>15, ModuleSets DEF DeleteApp, Place, Types, KeepsCode
<1>16. CASE Delist
  BY <1>16, ModuleSets DEF Delist, Place, Types, KeepsCode
<1>17. CASE Following
  BY <1>17 DEF Following, KeepsCode
<1>18. CASE Launch
  BY <1>18 DEF Launch, KeepsCode
<1>19. CASE LocalInstall
  BY <1>19 DEF LocalInstall, KeepsCode
<1>20. ASSUME NEW c \in Commands, Begin(c) PROVE KeepsCode(m)
  BY <1>20 DEF Begin, KeepsCode
<1>21. CASE Respawn
  BY <1>21 DEF Respawn, KeepsCode
<1>22. CASE Stop
  BY <1>22 DEF Stop, KeepsCode
<1>23. CASE Dies
  BY <1>23 DEF Dies, KeepsCode
<1> QED BY <1>1, <1>2, <1>3, <1>4, <1>5, <1>6, <1>7, <1>8, <1>9, <1>10, <1>11,
           <1>12, <1>13, <1>14, <1>15, <1>16, <1>17, <1>18, <1>19, <1>20, <1>21,
           <1>22, <1>23, Zenon DEF Next, Step

-----------------------------------------------------------------------------
(* The theorems.                                                           *)

LEMMA InitOK == Init => IInv
<1> SUFFICES ASSUME Init PROVE IInv
  OBVIOUS
<1>1. pc = "idle" /\ answer = "none" /\ ops = 0 /\ faults = 0
  BY DEF Init
<1>2. TypeOK
  BY <1>1, CommandsAssumption DEF Init, TypeOK, NoService
<1>3. Registered
  BY DEF Init, Registered, NoService
<1> QED BY <1>1, <1>2, <1>3 DEF IInv, Place, Installed, Updating, Restored,
           Unlisted, Removing, Launching, Done

LEMMA Inductive == IInv /\ [Next]_vars => IInv'
<1> SUFFICES ASSUME IInv, [Next]_vars PROVE IInv'
  OBVIOUS
<1>1. Types
  BY DEF IInv, TypeOK, Types, Steps, Service
<1>2. CASE UNCHANGED vars
  BY <1>2 DEF vars, IInv, TypeOK, Place, Registered, Runs, Installed, IsNew, Done, Updating,
              UpdateFailsInNpm, Restored, Unlisted, Removing, Removes, Gone, Launching
<1>3. CASE Next
  <2>1. ops' \in 0..MaxOps /\ faults' \in 0..MaxFaults
    BY <1>3, CountsStep DEF IInv
  <2>2. Types'
    BY <1>1, <1>3, TypesStep DEF IInv
  <2>3. TypeOK'
    BY <2>1, <2>2 DEF TypeOK, Types, Steps, Service
  <2> QED BY <1>1, <1>3, <2>3, PlaceStep, RegisteredStep, InstalledStep, UpdatingStep,
             RestoredStep, UnlistedStep, RemovingStep, LaunchingStep DEF IInv
<1> QED BY <1>2, <1>3

\* The inductive invariant holds of every run.
THEOREM Invariant == Spec => []IInv
  BY InitOK, Inductive, PTL DEF Spec

\* What an installation, an update, a removal and a launch report is so.
THEOREM AsReported == Spec => []ModulesAsReported
<1>1. IInv => ModulesAsReported
  <2> SUFFICES ASSUME IInv PROVE ModulesAsReported
    OBVIOUS
  <2>1. InstallIsComplete
    BY DEF IInv, Installed, Runs, InstallIsComplete
  <2>2. UpdateIsInService
    BY DEF IInv, Installed, IsNew, UpdateIsInService, Done
  <2>3. FailedUpdateKeepsCode
    <3> SUFFICES ASSUME Done("install", "error"), cmd.mod \in Npm, failed \subseteq {"npm"},
                        had.listed[cmd.mod], had.folder[cmd.mod] \in Versions
                 PROVE  folder[cmd.mod] = had.folder[cmd.mod] /\ Runs(NpmService(cmd.mod))
      BY Zenon DEF FailedUpdateKeepsCode, Runs
    <3>1. UpdateFailsInNpm
      BY DEF UpdateFailsInNpm, Done
    <3> QED BY <3>1 DEF IInv, Restored
  <2>4. TarballIsGone
    BY DEF IInv, Removing, Removes, OwnNames, Gone, Done, TarballIsGone
  <2>5. LaunchGoesOn
    BY DEF IInv, Launching, Runs, Done, LaunchGoesOn
  <2> QED BY <2>1, <2>2, <2>3, <2>4, <2>5 DEF IInv, ModulesAsReported
<1> QED BY <1>1, Invariant, PTL

\* No death and no failure takes the code of a module that is listed.
THEOREM CodeStays == Spec => ListedHasCode
<1> DEFINE Kept == \A m \in Npm :
       (listed[m] => folder[m] \in Versions) /\ backup[m] # Partial /\ "conf" \notin failed'
       => (listed'[m] => folder'[m] \in Versions)
<1>1. IInv /\ [Next]_vars => [Kept]_vars
  <2>1. ASSUME IInv, Next PROVE Kept
    <3> SUFFICES ASSUME NEW m \in Npm PROVE KeepsCode(m)
      BY DEF KeepsCode
    <3>1. Types
      BY <2>1 DEF IInv, TypeOK, Types, Steps, Service
    <3> QED BY <2>1, <3>1, KeepsCodeStep DEF IInv
  <2> QED BY <2>1
<1> QED BY <1>1, Invariant, PTL DEF Spec, ListedHasCode

-----------------------------------------------------------------------------
(* The configuration of modules (ModuleConf), whose processes and file are *)
(* its own: for any number of processes, modules, keys, values and         *)
(* commands.                                                               *)

ConfSteps == {"idle", "create", "check", "read", "open", "fill", "restart"}
ConfTypes ==
    /\ file \in Conf!Conf \cup {None, Torn}
    /\ env \in [Sections -> Conf!Objects]
    /\ confPc \in [Writers -> ConfSteps]
    /\ op \in [Writers -> Requests \cup {None}]
    /\ left \in [Writers -> Seq(SoundEdit)]
    /\ buf \in [Writers -> Conf!Conf \cup {None}]
    /\ confAnswer \in [Writers -> {"none", "ok", "error", "crash"}]
    /\ before \in [Writers -> Conf!Conf \cup {None, Torn}]
    /\ alone \in [Writers -> BOOLEAN]
    /\ deaf \in [Writers -> BOOLEAN]

\* Where a command is, it has what it needs there.
ConfPlace ==
    \A p \in Writers :
        /\ Conf!Busy(p) \/ alone[p] => op[p] \in Requests
        /\ confPc[p] \in {"create", "check", "read"} /\ op[p].kind # "all" => left[p] # <<>>
        /\ confPc[p] = "check" => op[p].kind = "default"
        /\ confPc[p] \in {"open", "fill"} => buf[p] \in Conf!Conf
        /\ confPc[p] = "restart" => op[p].kind \in {"set", "multiset"}
        /\ Conf!Busy(p) => confAnswer[p] = "none"

\* A command that nobody overlapped, step by step, from the file it found.
Result(o, c) == IF o.kind = "all" THEN Conf!NoModules ELSE Conf!Edited(c, o.edits[1])
Yields(p) == op[p].kind = "default" /\ Conf!Present(before[p], op[p].edits[1])
Finished(p) == confPc[p] = "idle" /\ confAnswer[p] = "ok"
Follows(p) ==
    /\ confPc[p] \in {"create", "check", "read"} => left[p] = op[p].edits
    /\ confPc[p] = "create" => before[p] = Conf!NoModules
    /\ confPc[p] \in {"check", "read", "open"} => file = before[p]
    /\ confPc[p] \in {"open", "fill"} => left[p] = <<>> /\ buf[p] = Result(op[p], before[p])
    /\ confPc[p] = "fill" => file = Torn
    /\ confPc[p] \in {"open", "fill", "restart"} \/ Finished(p) => before[p] \in Conf!Conf
    /\ confPc[p] \in {"read", "open", "fill"} /\ before[p] \in Conf!Conf => ~Yields(p)
    /\ confPc[p] = "restart" => file = Result(op[p], before[p])
    /\ Finished(p) => file = IF Yields(p) THEN before[p] ELSE Result(op[p], before[p])
    /\ Finished(p) /\ op[p].kind = "set" /\ op[p].edits[1].key # None /\ ~deaf[p] =>
          env[op[p].edits[1].mod] = Conf!Level(file[op[p].edits[1].mod])
Solo ==
    \A p \in Writers : alone[p] =>
        /\ \A q \in Writers \ {p} : ~Conf!Busy(q)
        /\ op[p].kind # "multiset" => Follows(p)

ConfInv == ConfTypes /\ ConfPlace /\ Solo

-----------------------------------------------------------------------------
LEMMA Afresh == Conf!NoModules \in Conf!Conf /\ Conf!NoKeys \in Conf!Objects
  BY DEF Conf!NoModules, Conf!Conf, Conf!NoKeys, Conf!Objects

LEMMA LevelIsObject == \A x : Conf!Level(x) \in Conf!Objects
  BY Afresh DEF Conf!Level

\* What an edit makes of a file, and what it leaves alone.
LEMMA EditStays ==
  ASSUME NEW c \in Conf!Conf, NEW e \in SoundEdit
  PROVE  /\ Conf!Edited(c, e) \in Conf!Conf
         /\ e.mod \in Sections /\ e.key \in Keys \cup {None}
         /\ \A m \in Sections \ {e.mod} : Conf!Edited(c, e)[m] = c[m]
         /\ e.key = None => Conf!Edited(c, e)[e.mod] = e.val
         /\ e.key # None =>
               /\ Conf!Edited(c, e)[e.mod] \in Conf!Objects
               /\ Conf!Edited(c, e)[e.mod][e.key] = e.val
               /\ \A k \in Keys \ {e.key} : Conf!Edited(c, e)[e.mod][k] = Conf!Level(c[e.mod])[k]
<1>1. /\ e.mod \in Sections /\ e.key \in Keys \cup {None} /\ e.val \in Vals \cup Conf!Objects \cup {None}
      /\ e.key # None => e.val \in Vals \cup {None}
  BY DEF SoundEdit, Conf!Edit
<1>2. CASE e.key = None
  <2>1. Conf!Edited(c, e) = [c EXCEPT ![e.mod] = e.val]
    BY <1>2 DEF Conf!Edited
  <2> QED BY <1>1, <1>2, <2>1 DEF Conf!Conf
<1>3. CASE e.key # None
  <2> DEFINE l == Conf!Level(c[e.mod])
             o == [l EXCEPT ![e.key] = e.val]
  <2>1. l \in Conf!Objects /\ e.key \in Keys
    BY <1>1, <1>3, LevelIsObject
  <2>2. o \in Conf!Objects /\ o[e.key] = e.val /\ \A k \in Keys \ {e.key} : o[k] = l[k]
    BY <1>1, <1>3, <2>1 DEF Conf!Objects
  <2>3. Conf!Edited(c, e) = [c EXCEPT ![e.mod] = o]
    BY <1>1, <1>3, SMT DEF Conf!Edited
  <2> HIDE DEF l, o
  <2>4. Conf!Edited(c, e) \in Conf!Conf /\ Conf!Edited(c, e)[e.mod] = o
        /\ \A m \in Sections \ {e.mod} : Conf!Edited(c, e)[m] = c[m]
    BY <1>1, <2>2, <2>3 DEF Conf!Conf
  <2> QED BY <1>1, <1>3, <2>2, <2>4 DEF l
<1> QED BY <1>2, <1>3

LEMMA RequestParts ==
  ASSUME SoundRequests, NEW r \in Requests
  PROVE  /\ r.kind \in {"set", "unset", "multiset", "default", "all"} /\ r.edits \in Seq(SoundEdit)
         /\ r.kind # "all" => r.edits # <<>>
  BY DEF SoundRequests

LEMMA SequenceParts ==
  ASSUME NEW s \in Seq(SoundEdit), s # <<>>
  PROVE  Head(s) \in SoundEdit /\ Head(s) = s[1] /\ Tail(s) \in Seq(SoundEdit)
  OBVIOUS

LEMMA ResultIsConf ==
  ASSUME SoundRequests, NEW r \in Requests, NEW c \in Conf!Conf
  PROVE  Result(r, c) \in Conf!Conf
  BY RequestParts, SequenceParts, EditStays, Afresh DEF Result

LEMMA ConfInit ==
  ASSUME SoundMarks, Conf!Init
  PROVE  ConfInv
<1>1. ConfTypes
  BY Afresh DEF Conf!Init, ConfTypes, ConfSteps
<1>2. ConfPlace /\ Solo
  BY DEF Conf!Init, ConfPlace, Solo, Conf!Busy
<1> QED BY <1>1, <1>2 DEF ConfInv

-----------------------------------------------------------------------------
(* Every step of a command.  While it runs, nobody else is alone.          *)

\* What a step of p may do to the locals: only its own change.
Local(p) ==
    /\ \A q \in Writers \ {p} : /\ confPc'[q] = confPc[q] /\ left'[q] = left[q]
                               /\ buf'[q] = buf[q] /\ confAnswer'[q] = confAnswer[q]
    /\ UNCHANGED <<op, before, alone>>

LEMMA NobodyElse ==
  ASSUME ConfTypes, ConfPlace, Solo, NEW p \in Writers, Conf!Busy(p), Local(p),
         alone[p] /\ op[p].kind # "multiset" => Follows(p)'
  PROVE  Solo'
<1> SUFFICES ASSUME NEW q \in Writers, alone'[q]
             PROVE  /\ \A r \in Writers \ {q} : ~Conf!Busy(r)'
                    /\ op'[q].kind # "multiset" => Follows(q)'
  BY Zenon DEF Solo
<1>1. alone[q] /\ op' = op
  BY DEF Local
<1>2. q = p
  BY <1>1 DEF Solo
<1>3. \A r \in Writers \ {p} : ~Conf!Busy(r)'
  BY <1>1, <1>2 DEF Solo, Local, Conf!Busy
<1> QED BY <1>1, <1>2, <1>3

LEMMA Elsewhere ==
  ASSUME ConfPlace, NEW p \in Writers, Conf!Busy(p), Local(p),
         /\ confPc'[p] \in {"create", "check", "read"} /\ op[p].kind # "all" => left'[p] # <<>>
         /\ confPc'[p] = "check" => op[p].kind = "default"
         /\ confPc'[p] \in {"open", "fill"} => buf'[p] \in Conf!Conf
         /\ confPc'[p] = "restart" => op[p].kind \in {"set", "multiset"}
         /\ confPc'[p] # "idle" => confAnswer'[p] = confAnswer[p]
  PROVE  ConfPlace'
  BY DEF ConfPlace, Local, Conf!Busy

LEMMA LocalTypes ==
  ASSUME ConfTypes, NEW p \in Writers, NEW l \in ConfSteps, NEW a \in {"ok", "error", "crash"},
         \/ Conf!Ends(p, a)
         \/ Conf!Goto(p, l) /\ UNCHANGED <<left, buf, confAnswer>>
  PROVE  /\ confPc' \in [Writers -> ConfSteps]
         /\ left' \in [Writers -> Seq(SoundEdit)]
         /\ buf' \in [Writers -> Conf!Conf \cup {None}]
         /\ confAnswer' \in [Writers -> {"none", "ok", "error", "crash"}]
         /\ op' = op /\ before' = before /\ alone' = alone => Local(p)
         /\ Conf!Ends(p, a) => confPc'[p] = "idle" /\ confAnswer'[p] = a
<1>1. <<>> \in Seq(SoundEdit)
  OBVIOUS
<1>2. CASE Conf!Ends(p, a)
  BY <1>1, <1>2, SMT DEF ConfTypes, Conf!Ends, Conf!Goto, Local, ConfSteps
<1>3. CASE Conf!Goto(p, l) /\ UNCHANGED <<left, buf, confAnswer>> /\ ~Conf!Ends(p, a)
  BY <1>3, SMT DEF ConfTypes, Conf!Goto, Local, ConfSteps
<1> QED BY <1>2, <1>3

\* A command that fails or dies.
LEMMA Fails ==
  ASSUME ConfTypes, ConfPlace, Solo, NEW p \in Writers, Conf!Busy(p),
         NEW a \in {"error", "crash"}, Conf!Ends(p, a), UNCHANGED <<file, env, op, before, alone, deaf>>
  PROVE  ConfInv'
<1>1. /\ confPc'[p] = "idle" /\ confAnswer'[p] = a /\ Local(p)
  BY LocalTypes, "idle" \in ConfSteps DEF ConfSteps
<1>2. ConfTypes'
  BY LocalTypes, "idle" \in ConfSteps DEF ConfSteps, ConfTypes
<1>3. ConfPlace'
  BY <1>1, Elsewhere
<1>4. Follows(p)'
  BY <1>1 DEF Follows, Finished
<1> QED BY <1>1, <1>2, <1>3, <1>4, NobodyElse DEF ConfInv

\* A new command, which nobody else is alone with.
LEMMA Begins ==
  ASSUME SoundRequests, SoundMarks, ConfInv, NEW p \in Writers, Conf!Begin(p)
  PROVE  ConfInv'
<1>0. ConfTypes /\ ConfPlace
  BY DEF ConfInv
<1>1. PICK r \in Requests :
        /\ op' = [op EXCEPT ![p] = r] /\ left' = [left EXCEPT ![p] = r.edits]
        /\ confPc' = [confPc EXCEPT ![p] = IF file = None THEN "create"
                        ELSE IF r.kind = "default" THEN "check" ELSE "read"]
  BY Zenon DEF Conf!Begin, Conf!Goto
<1>2. /\ confAnswer' = [confAnswer EXCEPT ![p] = "none"]
      /\ before' = [before EXCEPT ![p] = IF file = None THEN Conf!NoModules ELSE file]
      /\ alone' = [q \in Writers |-> q = p /\ \A o \in Writers \ {p} : ~Conf!Busy(o)]
      /\ deaf' = [deaf EXCEPT ![p] = FALSE]
      /\ UNCHANGED <<file, env, buf>> /\ ~Conf!Busy(p)
  BY Zenon DEF Conf!Begin
<1>3. r.edits \in Seq(SoundEdit) /\ (r.kind # "all" => r.edits # <<>>) /\ r \in Requests
  BY RequestParts
<1>4. confPc'[p] \in ConfSteps \ {"idle", "open", "fill", "restart"}
  BY <1>0, <1>1, SMT DEF ConfTypes, ConfSteps
<1>5. ConfTypes'
  <2>1. confPc' \in [Writers -> ConfSteps]
    BY <1>0, <1>1, SMT DEF ConfTypes, ConfSteps
  <2>2. op' \in [Writers -> Requests \cup {None}] /\ left' \in [Writers -> Seq(SoundEdit)]
    BY <1>0, <1>1, <1>3, SMT DEF ConfTypes
  <2>3. confAnswer' \in [Writers -> {"none", "ok", "error", "crash"}]
    BY <1>0, <1>2, SMT DEF ConfTypes
  <2>4. before' \in [Writers -> Conf!Conf \cup {None, Torn}]
    BY <1>0, <1>2, Afresh, SMT DEF ConfTypes
  <2>5. alone' \in [Writers -> BOOLEAN] /\ deaf' \in [Writers -> BOOLEAN]
    <3>1. alone' \in [Writers -> BOOLEAN]
      BY <1>2, Zenon
    <3>2. deaf' \in [Writers -> BOOLEAN]
      BY <1>0, <1>2, Zenon DEF ConfTypes
    <3> QED BY <3>1, <3>2
  <2> QED BY <1>0, <1>2, <2>1, <2>2, <2>3, <2>4, <2>5, Zenon DEF ConfTypes
<1>6. \A q \in Writers : alone'[q] => q = p /\ \A o \in Writers \ {p} : ~Conf!Busy(o)
  BY <1>2, Zenon
<1>7. ConfPlace'
  <2> SUFFICES ASSUME NEW q \in Writers
               PROVE  /\ Conf!Busy(q)' \/ alone'[q] => op'[q] \in Requests
                      /\ confPc'[q] \in {"create", "check", "read"} /\ op'[q].kind # "all" => left'[q] # <<>>
                      /\ confPc'[q] = "check" => op'[q].kind = "default"
                      /\ confPc'[q] \in {"open", "fill"} => buf'[q] \in Conf!Conf
                      /\ confPc'[q] = "restart" => op'[q].kind \in {"set", "multiset"}
                      /\ Conf!Busy(q)' => confAnswer'[q] = "none"
    BY Zenon DEF ConfPlace
  <2>1. CASE q = p
    BY <1>0, <1>1, <1>2, <1>3, <1>4, <2>1, SMT DEF ConfTypes, Conf!Busy
  <2>2. CASE q # p
    BY <1>0, <1>1, <1>2, <1>6, <2>2, SMT DEF ConfTypes, ConfPlace, Conf!Busy
  <2> QED BY <2>1, <2>2
<1>8. Follows(p)'
  <2>1. /\ confPc'[p] = (IF file = None THEN "create"
                         ELSE IF r.kind = "default" THEN "check" ELSE "read")
        /\ op'[p] = r /\ left'[p] = r.edits
        /\ before'[p] = IF file = None THEN Conf!NoModules ELSE file
        /\ file' = file
    BY <1>0, <1>1, <1>2, SMT DEF ConfTypes
  <2> QED BY <1>4, <2>1, SMT DEF Follows, Finished, Yields
<1>9. \A o \in Writers \ {p} : confPc'[o] = confPc[o]
  BY <1>0, <1>1, SMT DEF ConfTypes
<1>10. Solo'
  BY <1>6, <1>8, <1>9, SMT DEF Solo, Conf!Busy
<1> QED BY <1>5, <1>7, <1>10 DEF ConfInv

\* initFileStructure.
LEMMA Creates ==
  ASSUME ConfInv, NEW p \in Writers, Conf!Create(p)
  PROVE  ConfInv'
<1>0. ConfTypes /\ ConfPlace /\ Solo
  BY DEF ConfInv
<1>1. /\ confPc[p] = "create" /\ Conf!Busy(p) /\ file' = Conf!NoModules
      /\ UNCHANGED <<env, op, left, buf, confAnswer, before, alone, deaf>>
  BY DEF Conf!Create, Conf!ghosts, Conf!Busy
<1>2. PICK l \in {"check", "read"} :
        Conf!Goto(p, l) /\ l = (IF op[p].kind = "default" THEN "check" ELSE "read")
  BY Zenon DEF Conf!Create
<1>3. /\ ConfTypes' /\ Local(p) /\ confPc'[p] = l
  BY <1>0, <1>1, <1>2, Afresh, SMT DEF ConfTypes, ConfSteps, Conf!Goto, Local
<1>4. ConfPlace'
  BY <1>0, <1>1, <1>2, <1>3, Elsewhere DEF ConfPlace
<1>5. ASSUME alone[p], op[p].kind # "multiset"
      PROVE  Follows(p)'
  <2>1. Follows(p)
    BY <1>0, <1>5 DEF Solo
  <2> QED BY <1>1, <1>2, <1>3, <2>1, SMT DEF Follows, Finished, Yields
<1> QED BY <1>0, <1>1, <1>3, <1>4, <1>5, NobodyElse DEF ConfInv

\* setSyncIfNotExist leaves what is there.
LEMMA Checks ==
  ASSUME SoundRequests, SoundMarks, ConfInv, NEW p \in Writers, Conf!Check(p)
  PROVE  ConfInv'
<1>0. ConfTypes /\ ConfPlace /\ Solo
  BY DEF ConfInv
<1>1. /\ confPc[p] = "check" /\ Conf!Busy(p) /\ op[p] \in Requests /\ op[p].kind = "default"
      /\ UNCHANGED <<file, env, op, before, alone, deaf>>
  BY <1>0, SMT DEF Conf!Check, Conf!ghosts, Conf!Busy, ConfPlace
<1>2. left[p] # <<>> /\ left[p] \in Seq(SoundEdit)
  BY <1>0, <1>1, SMT DEF ConfPlace, ConfTypes
<1>3. CASE file \in {None, Torn}
  BY <1>0, <1>1, <1>3, Fails, Zenon DEF Conf!Check
<1>4. CASE file \notin {None, Torn} /\ Conf!Present(file, Head(left[p]))
  <2>1. Conf!Ends(p, "ok")
    BY <1>4, Zenon DEF Conf!Check
  <2>2. /\ ConfTypes' /\ Local(p) /\ confPc'[p] = "idle" /\ confAnswer'[p] = "ok"
    BY <1>0, <1>1, <2>1, LocalTypes, "idle" \in ConfSteps DEF ConfSteps, ConfTypes
  <2>3. ConfPlace'
    BY <1>0, <1>1, <2>2, Elsewhere
  <2>4. ASSUME alone[p], op[p].kind # "multiset"
        PROVE  Follows(p)'
    <3>1. file = before[p] /\ left[p] = op[p].edits /\ before[p] \in Conf!Conf
      BY <1>0, <1>1, <1>4, <2>4, SMT DEF Solo, Follows, ConfTypes
    <3>2. Yields(p) /\ Yields(p)'
      BY <1>1, <1>2, <1>4, <3>1, SequenceParts, Zenon DEF Yields
    <3> QED BY <1>1, <2>2, <3>1, <3>2, SMT DEF Follows, Finished
  <2> QED BY <1>0, <1>1, <2>2, <2>3, <2>4, NobodyElse DEF ConfInv
<1>5. CASE file \notin {None, Torn} /\ ~Conf!Present(file, Head(left[p]))
  <2>1. Conf!Goto(p, "read") /\ UNCHANGED <<left, buf, confAnswer>>
    BY <1>5, Zenon DEF Conf!Check, Conf!Goes
  <2>2. /\ ConfTypes' /\ Local(p) /\ confPc'[p] = "read"
    BY <1>0, <1>1, <2>1, SMT DEF ConfTypes, ConfSteps, Conf!Goto, Local
  <2>3. ConfPlace'
    BY <1>0, <1>1, <1>2, <2>1, <2>2, Elsewhere
  <2>4. ASSUME alone[p], op[p].kind # "multiset"
        PROVE  Follows(p)'
    <3>1. file = before[p] /\ left[p] = op[p].edits
      BY <1>0, <1>1, <2>4, SMT DEF Solo, Follows
    <3>2. ~Yields(p) /\ ~Yields(p)'
      BY <1>1, <1>2, <1>5, <3>1, SequenceParts, Zenon DEF Yields
    <3> QED BY <1>1, <2>1, <2>2, <3>1, <3>2, SMT DEF Follows, Finished
  <2> QED BY <1>0, <1>1, <2>2, <2>3, <2>4, NobodyElse DEF ConfInv
<1> QED BY <1>3, <1>4, <1>5

\* The read, which ends the process where the file does not parse.
LEMMA Reads ==
  ASSUME SoundRequests, SoundMarks, ConfInv, NEW p \in Writers, Conf!Read(p)
  PROVE  ConfInv'
<1>0. ConfTypes /\ ConfPlace /\ Solo
  BY DEF ConfInv
<1>1. /\ confPc[p] = "read" /\ Conf!Busy(p) /\ op[p] \in Requests
      /\ UNCHANGED <<file, env, op, before, alone, deaf>>
  BY <1>0, SMT DEF Conf!Read, Conf!ghosts, Conf!Busy, ConfPlace
<1>2. op[p].kind # "all" => left[p] # <<>>
  BY <1>0, <1>1, SMT DEF ConfPlace
<1>3. CASE file = None
  BY <1>0, <1>1, <1>3, Fails, Zenon DEF Conf!Read
<1>4. CASE file = Torn
  BY <1>0, <1>1, <1>4, Fails, Zenon DEF Conf!Read, SoundMarks
<1>5. CASE file \notin {None, Torn}
  <2>1. /\ buf' = [buf EXCEPT ![p] = Conf!Copy(p, file)]
        /\ left' = [left EXCEPT ![p] = IF left[p] = <<>> THEN left[p] ELSE Tail(left[p])]
        /\ Conf!Goto(p, "open") /\ confAnswer' = confAnswer
    BY <1>5, Zenon DEF Conf!Read, Conf!Goes
  <2>2. file \in Conf!Conf /\ left[p] \in Seq(SoundEdit)
    BY <1>0, <1>5, SMT DEF ConfTypes
  <2>3. Conf!Copy(p, file) \in Conf!Conf
    BY <1>2, <2>2, Afresh, EditStays, SequenceParts DEF Conf!Copy
  <2>4. left'[p] \in Seq(SoundEdit) /\ left' \in [Writers -> Seq(SoundEdit)]
    <3>1. (IF left[p] = <<>> THEN left[p] ELSE Tail(left[p])) \in Seq(SoundEdit)
      BY <2>2, SequenceParts
    <3> QED BY <1>0, <2>1, <3>1, SMT DEF ConfTypes
  <2>5. /\ confPc' \in [Writers -> ConfSteps] /\ confPc'[p] = "open"
        /\ buf' \in [Writers -> Conf!Conf \cup {None}] /\ buf'[p] = Conf!Copy(p, file)
    BY <1>0, <2>1, <2>3, SMT DEF ConfTypes, ConfSteps, Conf!Goto
  <2>6. Local(p)
    BY <1>0, <1>1, <2>1, SMT DEF ConfTypes, Conf!Goto, Local
  <2>7. ConfTypes'
    BY <1>0, <1>1, <2>1, <2>4, <2>5, Zenon DEF ConfTypes
  <2>8. ConfPlace'
    BY <1>0, <1>1, <2>1, <2>3, <2>5, <2>6, Elsewhere
  <2>9. ASSUME alone[p], op[p].kind # "multiset"
        PROVE  Follows(p)'
    <3>1. file = before[p] /\ left[p] = op[p].edits /\ ~Yields(p)
      BY <1>0, <1>1, <2>2, <2>9, SMT DEF Solo, Follows
    <3>2. left'[p] = <<>>
      <4>1. left[p] = <<>> \/ Tail(left[p]) = <<>>
        <5>1. op[p].kind \in {"set", "unset", "default", "all"}
          BY <1>1, <2>9, RequestParts
        <5> QED BY <1>1, <3>1, <5>1 DEF SoundRequests
      <4> QED BY <1>0, <2>1, <4>1, SMT DEF ConfTypes
    <3>3. Conf!Copy(p, file) = Result(op[p], before[p])
      BY <1>2, <2>2, <3>1, SequenceParts, Zenon DEF Conf!Copy, Result
    <3>4. ~Yields(p)'
      BY <1>1, <3>1, Zenon DEF Yields
    <3> QED BY <1>1, <2>2, <2>5, <3>1, <3>2, <3>3, <3>4, SMT DEF Follows, Finished, Result
  <2> QED BY <1>0, <1>1, <2>6, <2>7, <2>8, <2>9, NobodyElse DEF ConfInv
<1> QED BY <1>3, <1>4, <1>5

\* The truncation.
LEMMA Opens ==
  ASSUME ConfInv, NEW p \in Writers, Conf!Open(p)
  PROVE  ConfInv'
<1>0. ConfTypes /\ ConfPlace /\ Solo
  BY DEF ConfInv
<1>1. /\ confPc[p] = "open" /\ Conf!Busy(p) /\ file' = Torn /\ Conf!Goto(p, "fill")
      /\ UNCHANGED <<env, op, left, buf, confAnswer, before, alone, deaf>>
  BY SMT DEF Conf!Open, Conf!ghosts, Conf!Busy
<1>2. /\ ConfTypes' /\ Local(p) /\ confPc'[p] = "fill"
  BY <1>0, <1>1, SMT DEF ConfTypes, ConfSteps, Conf!Goto, Local
<1>3. ConfPlace'
  BY <1>0, <1>1, <1>2, Elsewhere DEF ConfPlace
<1>4. ASSUME alone[p], op[p].kind # "multiset"
      PROVE  Follows(p)'
  <2>1. Follows(p)
    BY <1>0, <1>4 DEF Solo
  <2>2. Yields(p)' <=> Yields(p)
    BY <1>1, Zenon DEF Yields
  <2> QED BY <1>1, <1>2, <2>1, <2>2, SMT DEF Follows, Finished, Result
<1> QED BY <1>0, <1>1, <1>2, <1>3, <1>4, NobodyElse DEF ConfInv

\* The write, and what follows it.
LEMMA Fills ==
  ASSUME SoundRequests, SoundMarks, ConfInv, NEW p \in Writers, Conf!Fill(p)
  PROVE  ConfInv'
<1>0. ConfTypes /\ ConfPlace /\ Solo
  BY DEF ConfInv
<1>1. /\ confPc[p] = "fill" /\ Conf!Busy(p) /\ op[p] \in Requests
      /\ file' \in (IF file = Torn THEN {buf[p]} ELSE {buf[p], Torn})
      /\ UNCHANGED <<env, op, before, alone, deaf>>
  BY <1>0, SMT DEF Conf!Fill, Conf!ghosts, Conf!Busy, ConfPlace
<1>2. buf[p] \in Conf!Conf /\ file' \in Conf!Conf \cup {None, Torn}
  BY <1>0, <1>1, SMT DEF ConfPlace
<1>3. ASSUME alone[p], op[p].kind # "multiset"
      PROVE  /\ left[p] = <<>> /\ file' = Result(op[p], before[p]) /\ before[p] \in Conf!Conf
             /\ ~Yields(p)
  BY <1>0, <1>1, <1>3, SMT DEF Solo, Follows
<1>4. Yields(p)' <=> Yields(p)
  BY <1>1, Zenon DEF Yields
<1>5. CASE left[p] # <<>>
  <2>1. /\ Conf!Goto(p, "read") /\ UNCHANGED <<confAnswer, left>> /\ buf' = [buf EXCEPT ![p] = None]
    BY <1>5, Zenon DEF Conf!Fill, Conf!Goes
  <2>2. /\ ConfTypes' /\ Local(p) /\ confPc'[p] = "read"
    BY <1>0, <1>1, <1>2, <2>1, SMT DEF ConfTypes, ConfSteps, Conf!Goto, Local
  <2>3. ConfPlace'
    BY <1>0, <1>1, <1>5, <2>1, <2>2, Elsewhere
  <2> QED BY <1>0, <1>1, <1>3, <1>5, <2>2, <2>3, NobodyElse DEF ConfInv
<1>6. CASE left[p] = <<>> /\ op[p].kind \in {"set", "multiset"} /\ op[p].edits[1].key # None
  <2>1. /\ Conf!Goto(p, "restart") /\ UNCHANGED <<confAnswer, left>> /\ buf' = [buf EXCEPT ![p] = None]
    BY <1>6, Zenon DEF Conf!Fill, Conf!AfterLast, Conf!Goes
  <2>2. /\ ConfTypes' /\ Local(p) /\ confPc'[p] = "restart"
    BY <1>0, <1>1, <1>2, <2>1, SMT DEF ConfTypes, ConfSteps, Conf!Goto, Local
  <2>3. ConfPlace'
    BY <1>0, <1>1, <1>6, <2>1, <2>2, Elsewhere
  <2>4. ASSUME alone[p], op[p].kind # "multiset"
        PROVE  Follows(p)'
    BY <1>1, <1>3, <2>2, <2>4, SMT DEF Follows, Finished, Result
  <2> QED BY <1>0, <1>1, <2>2, <2>3, <2>4, NobodyElse DEF ConfInv
<1>7. CASE left[p] = <<>> /\ ~(op[p].kind \in {"set", "multiset"} /\ op[p].edits[1].key # None)
  <2>1. Conf!Ends(p, "ok")
    BY <1>7, Zenon DEF Conf!Fill, Conf!AfterLast
  <2>2. /\ ConfTypes' /\ Local(p) /\ confPc'[p] = "idle" /\ confAnswer'[p] = "ok"
    BY <1>0, <1>1, <1>2, <2>1, LocalTypes, "idle" \in ConfSteps DEF ConfSteps, ConfTypes
  <2>3. ConfPlace'
    BY <1>0, <1>1, <2>2, Elsewhere
  <2>4. ASSUME alone[p], op[p].kind # "multiset"
        PROVE  Follows(p)'
    BY <1>1, <1>3, <1>4, <1>7, <2>2, <2>4, SMT DEF Follows, Finished, Result
  <2> QED BY <1>0, <1>1, <2>2, <2>3, <2>4, NobodyElse DEF ConfInv
<1> QED BY <1>5, <1>6, <1>7

\* The module is restarted with what is in the file.
LEMMA Restarts ==
  ASSUME SoundRequests, SoundMarks, ConfInv, NEW p \in Writers, Conf!Restart(p)
  PROVE  ConfInv'
<1>0. ConfTypes /\ ConfPlace /\ Solo
  BY DEF ConfInv
<1> DEFINE m == op[p].edits[1].mod
           got == Conf!Handed(m)
<1>1. /\ confPc[p] = "restart" /\ Conf!Busy(p) /\ op[p] \in Requests /\ Conf!Ends(p, "ok")
      /\ UNCHANGED <<file, op, before, alone>>
  BY <1>0, SMT DEF Conf!Restart, Conf!Busy, ConfPlace
<1>7. \/ env' = [env EXCEPT ![m] = got] /\ deaf' = deaf
      \/ deaf' = [deaf EXCEPT ![p] = TRUE] /\ env' = env
  BY Zenon DEF Conf!Restart
<1>2. got \in Conf!Objects
  BY Afresh, LevelIsObject DEF Conf!Handed
<1> HIDE DEF m, got
<1>3. env' \in [Sections -> Conf!Objects] /\ deaf' \in [Writers -> BOOLEAN]
  <2>1. env \in [Sections -> Conf!Objects] /\ deaf \in [Writers -> BOOLEAN]
    BY <1>0 DEF ConfTypes
  <2>2. env' \in [Sections -> Conf!Objects]
    BY <1>2, <1>7, <2>1
  <2>3. deaf' \in [Writers -> BOOLEAN]
    BY <1>7, <2>1, Zenon
  <2> QED BY <2>2, <2>3
<1>4. /\ ConfTypes' /\ Local(p) /\ confPc'[p] = "idle" /\ confAnswer'[p] = "ok"
  BY <1>0, <1>1, <1>3, LocalTypes, "idle" \in ConfSteps DEF ConfSteps, ConfTypes
<1>5. ConfPlace'
  BY <1>0, <1>1, <1>4, Elsewhere
<1>6. ASSUME alone[p], op[p].kind # "multiset"
      PROVE  Follows(p)'
  <2>1. Follows(p)
    BY <1>0, <1>6 DEF Solo
  <2>2. before[p] \in Conf!Conf /\ file = Result(op[p], before[p]) /\ file \in Conf!Conf
    BY <1>1, <2>1, ResultIsConf DEF Follows
  <2>3. op[p].kind = "set" /\ ~deaf'[p] => env'[m] = Conf!Level(file[m])
    <3>1. op[p].kind = "set" => m \in Sections
      BY <1>1, RequestParts, SequenceParts, EditStays, <2>2 DEF m
    <3>2. got = Conf!Level(file[m])
      BY <2>2 DEF got, Conf!Handed, SoundMarks
    <3>3. deaf'[p] \/ env' = [env EXCEPT ![m] = got]
      <4>1. deaf \in [Writers -> BOOLEAN]
        BY <1>0 DEF ConfTypes
      <4> QED BY <1>7, <4>1, Zenon
    <3> QED BY <1>0, <3>1, <3>2, <3>3, SMT DEF ConfTypes
  <2>4. ~Yields(p)'
    <3>1. op[p].kind # "default"
      BY <1>0, <1>1 DEF ConfPlace
    <3> QED BY <1>1, <3>1 DEF Yields
  <2> QED BY <1>1, <1>4, <2>2, <2>3, <2>4, SMT DEF Follows, Finished, Result, m
<1> QED BY <1>0, <1>1, <1>4, <1>5, <1>6, NobodyElse DEF ConfInv

LEMMA ConfStep ==
  ASSUME SoundRequests, SoundMarks, ConfInv, Conf!Next
  PROVE  ConfInv'
<1>1. PICK p \in Writers : Conf!Begin(p) \/ Conf!Step(p) \/ Conf!WriteFails(p) \/ Conf!Dies(p)
  BY Zenon DEF Conf!Next
<1>2. CASE Conf!Begin(p)
  BY <1>2, Begins
<1>3. CASE Conf!Step(p)
  BY <1>3, Creates, Checks, Reads, Opens, Fills, Restarts, Zenon DEF Conf!Step
<1>4. CASE Conf!WriteFails(p) \/ Conf!Dies(p)
  <2>1. Conf!Busy(p) /\ UNCHANGED <<file, env, op, before, alone, deaf>>
    BY <1>4, SMT DEF Conf!WriteFails, Conf!Dies, Conf!Busy, Conf!ghosts
  <2>2. Conf!Ends(p, "error") \/ Conf!Ends(p, "crash")
    BY <1>4, Zenon DEF Conf!WriteFails, Conf!Dies
  <2> QED BY <2>1, <2>2, Fails DEF ConfInv
<1> QED BY <1>1, <1>2, <1>3, <1>4

LEMMA ConfStays ==
  ASSUME ConfInv, UNCHANGED Conf!vars
  PROVE  ConfInv'
<1>1. UNCHANGED <<file, env, confPc, op, left, buf, confAnswer, before, alone, deaf>>
  BY DEF Conf!vars
<1>2. ConfTypes' /\ ConfPlace'
  BY <1>1 DEF ConfInv, ConfTypes, ConfPlace, Conf!Busy
<1>3. ASSUME NEW p \in Writers, Follows(p)
      PROVE  Follows(p)'
  <2>1. (Yields(p)' <=> Yields(p)) /\ (Finished(p)' <=> Finished(p))
    BY <1>1, Zenon DEF Yields, Finished
  <2>2. Result(op[p], before[p])' = Result(op[p], before[p])
    BY <1>1, Zenon
  <2>3. Conf!Level(file[op[p].edits[1].mod])' = Conf!Level(file[op[p].edits[1].mod])
    BY <1>1, Zenon
  <2> QED BY <1>1, <1>3, <2>1, <2>2, <2>3, SMT DEF Follows
<1>4. Solo'
  BY <1>1, <1>3 DEF ConfInv, Solo, Conf!Busy
<1> QED BY <1>2, <1>4 DEF ConfInv

\* Commands that nobody overlaps are followed from the file they find to their
\* answer.
THEOREM ConfInvariant == Conf!Spec => []ConfInv
<1>1. ConfInv /\ [Conf!Next]_(Conf!vars) => ConfInv'
  BY ConfStep, ConfStays, SettingsAssumption
<1>2. Conf!Init => ConfInv
  BY ConfInit, SettingsAssumption
<1> QED BY <1>1, <1>2, PTL DEF Conf!Spec

\* A set, an unset and a default that report success have done to the file what
\* was asked and nothing else, and a module that could be restarted with a setting
\* has it (Configuration.set, unset, setSyncIfNotExist; CLI.set, which does not
\* report that the restart failed).
THEOREM SettingsStored ==
  Conf!Spec => [](Conf!SetIsStored /\ Conf!UnsetIsGone /\ Conf!DefaultsYield
                  /\ Conf!ModuleSeesSetting)
<1> USE SettingsAssumption
<1>1. ASSUME ConfInv, NEW p \in Writers, NEW kinds, Conf!Done(p, kinds), op[p].kind # "multiset"
      PROVE  /\ op[p] \in Requests /\ before[p] \in Conf!Conf /\ Finished(p)
             /\ op[p].kind # "all" => op[p].edits[1] \in SoundEdit
             /\ file = IF Yields(p) THEN before[p] ELSE Result(op[p], before[p])
             /\ op[p].kind = "set" /\ op[p].edits[1].key # None /\ ~deaf[p] =>
                  env[op[p].edits[1].mod] = Conf!Level(file[op[p].edits[1].mod])
  <2>1. alone[p] /\ confAnswer[p] = "ok" /\ op[p] \in Requests
    BY <1>1 DEF Conf!Done, ConfInv, ConfPlace
  <2>2. Follows(p)
    BY <1>1, <2>1 DEF ConfInv, Solo
  <2>3. confPc[p] = "idle"
    BY <1>1, <2>1 DEF ConfInv, ConfPlace, Conf!Busy
  <2>4. op[p].kind # "all" => op[p].edits[1] \in SoundEdit
    BY <2>1, RequestParts, SequenceParts
  <2> QED BY <2>1, <2>2, <2>3, <2>4 DEF Follows, Finished
<1>2. ASSUME ConfInv, NEW p \in Writers, NEW kinds, Conf!Done(p, kinds),
             op[p].kind \in {"set", "unset"}, NEW e, e = op[p].edits[1]
      PROVE  file = Conf!Edited(before[p], e) /\ before[p] \in Conf!Conf /\ e \in SoundEdit
  BY <1>1, <1>2 DEF Yields, Result
<1>3. ConfInv => Conf!SetIsStored
  <2> SUFFICES ASSUME ConfInv, NEW p \in Writers, Conf!Done(p, {"set"}), NEW e, e = op[p].edits[1]
               PROVE  /\ file \in Conf!Conf
                      /\ IF e.key = None THEN file[e.mod] = e.val
                         ELSE /\ file[e.mod] \in Conf!Objects /\ file[e.mod][e.key] = e.val
                              /\ before[p][e.mod] \in Conf!Objects =>
                                    \A k \in Keys \ {e.key} : file[e.mod][k] = before[p][e.mod][k]
                      /\ \A m \in Sections \ {e.mod} : file[m] = before[p][m]
    BY Zenon DEF Conf!SetIsStored
  <2>1. op[p].kind = "set"
    BY DEF Conf!Done
  <2>2. file = Conf!Edited(before[p], e) /\ before[p] \in Conf!Conf /\ e \in SoundEdit
    BY <1>2, <2>1
  <2>3. before[p][e.mod] \in Conf!Objects => Conf!Level(before[p][e.mod]) = before[p][e.mod]
    BY DEF Conf!Level
  <2>4. CASE e.key = None
    BY <2>2, <2>4, EditStays, Zenon
  <2>5. CASE e.key # None
    <3>1. /\ file \in Conf!Conf /\ \A m \in Sections \ {e.mod} : file[m] = before[p][m]
          /\ file[e.mod] \in Conf!Objects /\ file[e.mod][e.key] = e.val
          /\ \A k \in Keys \ {e.key} : file[e.mod][k] = Conf!Level(before[p][e.mod])[k]
      BY <2>2, <2>5, EditStays
    <3> QED BY <2>3, <2>5, <3>1, Zenon
  <2> QED BY <2>4, <2>5
<1>4. ConfInv => Conf!UnsetIsGone
  <2>1. ASSUME ConfInv, NEW p \in Writers, Conf!Done(p, {"all"})
        PROVE  file = Conf!NoModules
    <3>1. op[p].kind = "all"
      BY <2>1 DEF Conf!Done
    <3> QED BY <1>1, <2>1, <3>1 DEF Yields, Result
  <2>2. ASSUME ConfInv, NEW p \in Writers, Conf!Done(p, {"unset"}), NEW e, e = op[p].edits[1]
        PROVE  /\ IF e.key = None THEN file[e.mod] = None
                   ELSE file[e.mod] \in Conf!Objects /\ file[e.mod][e.key] = None
               /\ \A m \in Sections \ {e.mod} : file[m] = before[p][m]
    <3>1. op[p].kind = "unset" /\ op[p] \in Requests
      BY <1>1, <2>2 DEF Conf!Done
    <3>2. file = Conf!Edited(before[p], e) /\ before[p] \in Conf!Conf /\ e \in SoundEdit
      BY <1>2, <2>2, <3>1
    <3>3. e.val = None
      BY <2>2, <3>1 DEF SoundRequests
    <3> QED BY <3>2, <3>3, EditStays
  <2> QED BY <2>1, <2>2, Zenon DEF Conf!UnsetIsGone
<1>5. ConfInv => Conf!DefaultsYield
  <2> SUFFICES ASSUME ConfInv, NEW p \in Writers, Conf!Done(p, {"default"}),
                      Conf!Level(before[p][op[p].edits[1].mod])[op[p].edits[1].key] # None
               PROVE  file = before[p]
    BY Zenon DEF Conf!DefaultsYield
  <2>1. op[p].kind = "default"
    BY DEF Conf!Done
  <2>2. Yields(p)
    BY <2>1 DEF Yields, Conf!Present
  <2> QED BY <1>1, <2>1, <2>2
<1>6. ConfInv => Conf!ModuleSeesSetting
  <2> SUFFICES ASSUME ConfInv, NEW p \in Writers, Conf!Done(p, {"set"}), op[p].edits[1].key # None,
                      ~deaf[p], NEW e, e = op[p].edits[1]
               PROVE  env[e.mod] = file[e.mod] /\ env[e.mod][e.key] = e.val
    BY Zenon DEF Conf!ModuleSeesSetting
  <2>1. op[p].kind = "set"
    BY DEF Conf!Done
  <2>2. file = Conf!Edited(before[p], e) /\ before[p] \in Conf!Conf /\ e \in SoundEdit
    BY <1>2, <2>1
  <2>3. env[e.mod] = Conf!Level(file[e.mod])
    BY <1>1, <2>1
  <2>4. file[e.mod] \in Conf!Objects /\ file[e.mod][e.key] = e.val
    BY <2>2, EditStays
  <2>5. Conf!Level(file[e.mod]) = file[e.mod]
    BY <2>4 DEF Conf!Level
  <2> QED BY <2>3, <2>4, <2>5
<1> QED BY <1>3, <1>4, <1>5, <1>6, ConfInvariant, PTL

\* A file left in pieces stays as it is until somebody repairs it (KeepsTorn;
\* Configuration.js does not guard its JSON.parse where it changes the file).
THEOREM TornStays == Conf!Spec => [][Conf!KeepsTorn]_(Conf!vars)
<1> USE SettingsAssumption
<1>1. ASSUME ConfInv, Conf!Next, file = Torn, Conf!NoWriter
      PROVE  file' = Torn /\ Conf!NoWriter'
  <2>1. PICK p \in Writers : Conf!Begin(p) \/ Conf!Step(p) \/ Conf!WriteFails(p) \/ Conf!Dies(p)
    BY <1>1, Zenon DEF Conf!Next
  <2>2. confPc[p] \notin {"create", "open", "fill"} /\ file # None
    BY <1>1 DEF Conf!NoWriter, SoundMarks
  <2>3. \E l \in {"idle", "check", "read"} : confPc' = [confPc EXCEPT ![p] = l]
    <3>1. CASE Conf!Begin(p)
      BY <2>2, <3>1, Zenon DEF Conf!Begin, Conf!Goto
    <3>2. CASE Conf!Step(p)
      BY <1>1, <2>2, <3>2, Zenon DEF Conf!Step, Conf!Create, Conf!Check, Conf!Read,
         Conf!Open, Conf!Fill, Conf!Restart, Conf!Ends, Conf!Goto
    <3>3. CASE Conf!WriteFails(p) \/ Conf!Dies(p)
      BY <3>3, Zenon DEF Conf!WriteFails, Conf!Dies, Conf!Ends, Conf!Goto
    <3> QED BY <2>1, <3>1, <3>2, <3>3
  <2>4. file' = file
    BY <2>1, <2>2, SMT DEF Conf!Begin, Conf!Step, Conf!Create, Conf!Check,
       Conf!Read, Conf!Open, Conf!Fill, Conf!Restart, Conf!WriteFails, Conf!Dies
  <2> QED BY <1>1, <2>3, <2>4, SMT DEF Conf!NoWriter, ConfInv, ConfTypes
<1>2. ConfInv /\ Conf!Next => Conf!KeepsTorn
  BY <1>1 DEF Conf!KeepsTorn
<1> QED BY <1>2, ConfInvariant, PTL DEF Conf!Spec
-----------------------------------------------------------------------------
(* Modules and their configuration, in steps that come in any order.       *)

LEMMA HostSteps ==
  HostSpec => Spec /\ Conf!Spec
<1>1. [ModuleSteps \/ SettingSteps]_<<vars, confVars>> => [Next]_vars /\ [Conf!Next]_(Conf!vars)
  BY DEF ModuleSteps, SettingSteps, confVars, Conf!vars
<1> QED BY <1>1, PTL DEF HostSpec, Spec, Conf!Spec

\* How often they are run, and fail.
ConfCounts == confOps \in [Writers -> 0..ConfOps] /\ confFaults \in 0..ConfFaults

LEMMA ConfCountsStep ==
  ASSUME ConfCounts, [Conf!Next]_(Conf!vars)
  PROVE  ConfCounts'
<1> USE SettingsAssumption DEF ConfCounts
<1>1. ASSUME NEW p \in Writers, Conf!Begin(p) PROVE ConfCounts'
  BY <1>1 DEF Conf!Begin
<1>2. ASSUME NEW p \in Writers, Conf!Step(p) PROVE ConfCounts'
  BY <1>2 DEF Conf!Step, Conf!Create, Conf!Check, Conf!Read, Conf!Open, Conf!Fill, Conf!Restart
<1>3. ASSUME NEW p \in Writers, Conf!WriteFails(p) \/ Conf!Dies(p) PROVE ConfCounts'
  BY <1>3 DEF Conf!WriteFails, Conf!Dies
<1>4. CASE UNCHANGED Conf!vars
  BY <1>4 DEF Conf!vars
<1> QED BY <1>1, <1>2, <1>3, <1>4 DEF Conf!Next

\* What a change of the configuration reports is in the file, and in the module
\* if its restart did not fail, and its parts are of their types, whatever
\* modules are installed and removed meanwhile (SettingsAsReported).
THEOREM SettingsReported == HostSpec => []SettingsAsReported
<1>1. Conf!Init => ConfCounts
  BY SettingsAssumption DEF Conf!Init, ConfCounts
<1>2. ConfCounts /\ [Conf!Next]_(Conf!vars) => ConfCounts'
  BY ConfCountsStep
<1>3. ConfInv /\ ConfCounts => Conf!TypeOK
  <2> SUFFICES ASSUME ConfInv, ConfCounts PROVE Conf!TypeOK
    OBVIOUS
  <2>1. left \in [Writers -> Seq(Conf!Edit)]
    <3>1. SoundEdit \subseteq Conf!Edit
      BY DEF SoundEdit
    <3>2. Seq(SoundEdit) \subseteq Seq(Conf!Edit)
      BY <3>1
    <3> QED BY <3>2 DEF ConfInv, ConfTypes
  <2> QED BY <2>1 DEF ConfInv, ConfTypes, ConfSteps, ConfCounts, Conf!TypeOK
<1> QED BY <1>1, <1>2, <1>3, HostSteps, ConfInvariant, SettingsStored, PTL
        DEF SettingsAsReported, Conf!Spec

\* Neither the code of a listed module nor a configuration in pieces is lost to a
\* death between two steps of either (DeathsAreSurvived).
THEOREM SurvivesDeaths == HostSpec => DeathsAreSurvived
<1>1. [Conf!KeepsTorn]_(Conf!vars) => [Conf!KeepsTorn]_confVars
  BY DEF confVars, Conf!vars
<1> QED BY <1>1, HostSteps, CodeStays, TornStays, PTL DEF DeathsAreSurvived, TornIsKept
=============================================================================
