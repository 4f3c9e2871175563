------------------------------- MODULE Modules -------------------------------
(***************************************************************************)
(* Installation, update, launch and removal of modules:                    *)
(* src/lib/API/Modules/ (Modularizer, NPM, TAR and LOCAL) and deleteModule *)
(* of its index.js.                                                        *)
(*                                                                         *)
(* A module is an entry of module_conf.json, a folder of code, a copy of   *)
(* that folder in the temporary directory made before an update, and one   *)
(* or more services.  The commands change these one after the other; each  *)
(* change may fail and the process may die between any two.                *)
(***************************************************************************)
EXTENDS Integers, Sequences, FiniteSets

CONSTANTS
    Npm,       \* modules installed by npm
    NpmNamed,  \* those whose package names its app like itself
    Tar,       \* modules installed from tarballs
    TarApps,   \* names of the apps of each: like the module, unlike it, or longer
    TarField,  \* the attribute that declares them: "apps" or "pm2"
    Deps,      \* dependencies of an internal module (typescript)
    Versions,  \* versions of the code of a module
    Unstable,  \* those that crash again and again
    None, Partial,  \* no folder, and one of an interrupted installation
    MaxOps,    \* bound: commands
    MaxFaults  \* bound: calls that fail, deaths and stops by hand

VARIABLES
    listed,   \* the entry in module_conf.json
    folder,   \* ~/.zm2/modules/<module>
    backup,   \* its copy in the temporary directory
    svc,      \* service: whether it is registered, and the code it runs
    pc, cmd, answer,
    todo,     \* services or dependencies the command still goes through
    queue,    \* modules that "all" still goes through
    failed,   \* what has failed in this command
    had,      \* ghost: folder, services and entries when it began
    ops, faults

vars == <<listed, folder, backup, svc, pc, cmd, answer, todo, queue, failed, had, ops, faults>>
Locals == <<cmd, queue, had, ops>>

Modules == Npm \cup Tar
Names == {"self", "other", "second", "longer"}

ASSUME ModulesAssumption ==
    /\ NpmNamed \subseteq Npm /\ Npm \cap Tar = {} /\ Unstable \subseteq Versions
    /\ TarApps \in [Tar -> (SUBSET Names) \ {{}}] /\ TarField \in [Tar -> {"apps", "pm2"}]
    /\ None \notin Versions /\ Partial \notin Versions /\ None # Partial

-----------------------------------------------------------------------------
(* Names of services: <<module, whether "<module>:" comes first, app>>.    *)

NpmService(m) == <<m, FALSE, "self">>
HasModuleName(n) == n \in {"self", "longer"}

\* needPrefix, and _startJson, which adds no prefix that is already in the name.
NeedPrefix(t) == TarApps[t] # {"self"}
StartedAs(t) == {<<t, NeedPrefix(t) /\ ~HasModuleName(n), n>> : n \in TarApps[t]}

\* The names uninstall works out for itself.
DeletedAs(t) ==
    {<<t, Cardinality(TarApps[t]) > 1 \/ n # "self", n>> : n \in TarApps[t]}

\* needPrefix takes the length of "apps", which a package with one app under
\* "pm2" does not have.
PrefixThrows(t) == TarField[t] = "pm2" /\ Cardinality(TarApps[t]) = 1

Services == {NpmService(m) : m \in Npm} \cup UNION {StartedAs(t) : t \in Tar}
ServicesOf(m) == {s \in Services : s[1] = m}
NoService == [reg |-> FALSE, code |-> None]

Command ==
    [kind : {"install", "uninstall", "launch", "uninstallAll", "local"},
     mod : Modules, ver : Versions, safe : BOOLEAN]

-----------------------------------------------------------------------------
Init ==
    /\ listed = [m \in Modules |-> FALSE]
    /\ folder = [m \in Modules |-> None]
    /\ backup = [m \in Npm |-> None]
    /\ svc = [s \in Services |-> NoService]
    /\ pc = "idle" /\ cmd = None /\ answer = "none" /\ todo = {} /\ queue = {} /\ failed = {}
    /\ had = [folder |-> folder, svc |-> svc, listed |-> listed]
    /\ ops = 0 /\ faults = 0

Goes(l) == pc' = l /\ UNCHANGED answer
Ends(a) == pc' = "idle" /\ answer' = a

\* A call that succeeds, or one that fails and is recorded.
Works == UNCHANGED <<failed, faults>>
Breaks(what) == faults < MaxFaults /\ faults' = faults + 1 /\ failed' = failed \cup {what}

\* Where a command begins (Modularizer.install, uninstall and launchModules).
Entry(c) ==
    CASE c.kind = "install" -> IF c.mod \in Tar THEN "unpack"
                               ELSE IF listed[c.mod] THEN "backup" ELSE "npm"
      [] c.kind = "uninstall" -> IF ~listed[c.mod] THEN "unknown"
                                 ELSE IF c.mod \in Tar THEN "inspect" ELSE "unlist"
      [] c.kind = "uninstallAll" -> "next"
      [] OTHER -> c.kind

\* "zm2 install" and the others; the list of modules is read here.
Begin(c) ==
    /\ pc = "idle" /\ ops < MaxOps /\ ops' = ops + 1
    /\ cmd' = c /\ Goes(Entry(c)) /\ failed' = {}
    /\ todo' = IF c.kind = "local" THEN Deps ELSE {}
    /\ queue' = IF c.kind \in {"launch", "uninstallAll"} THEN {m \in Modules : listed[m]} ELSE {}
    /\ had' = [folder |-> folder, svc |-> svc, listed |-> listed]
    /\ UNCHANGED <<listed, folder, backup, svc, faults>>

\* "Unknown module": exit code 1.
Unknown ==
    /\ pc = "unknown" /\ Ends("error")
    /\ UNCHANGED <<listed, folder, backup, svc, todo, failed, faults, Locals>>

-----------------------------------------------------------------------------
(* npm modules.                                                            *)

\* The backup made only after the folder is gone.
BackupTooLate ==
    /\ pc = "backup" /\ Goes("unlist")
    /\ UNCHANGED <<listed, folder, svc, todo, failed, faults, backup, Locals>>

\* Rollback.backup copies over what an earlier update left there; a folder that
\* is missing throws.
Backup ==
    /\ pc = "backup"
    /\ IF folder[cmd.mod] = None
       THEN Ends("crash") /\ UNCHANGED backup
       ELSE Goes("unlist") /\ backup' = [backup EXCEPT ![cmd.mod] = folder[cmd.mod]]
    /\ UNCHANGED <<listed, folder, svc, todo, failed, faults, Locals>>

\* The folder before its entry.
UnlistLate ==
    /\ pc = "unlist" /\ Goes("remove")
    /\ folder' = [folder EXCEPT ![cmd.mod] = None]
    /\ UNCHANGED <<listed, backup, svc, todo, failed, faults, Locals>>

\* uninstall: the entry first.  unsetSync that fails says nothing.
Unlist ==
    /\ pc = "unlist" /\ Goes("remove")
    /\ \/ listed' = [listed EXCEPT ![cmd.mod] = FALSE] /\ Works
       \/ Breaks("conf") /\ UNCHANGED listed
    /\ UNCHANGED <<folder, backup, svc, todo, Locals>>

\* One module is gone, or could not be; "uninstall all" goes on.
Removed(a) == IF cmd.kind = "uninstallAll" THEN Goes("next") ELSE Ends(a)

\* deleteModule looks for a process marked pmx_module, which no entry of the
\* process list is, and deletes none; then the folder goes.  An update goes on
\* whatever has happened.
Remove ==
    /\ pc = "remove"
    /\ folder' = [folder EXCEPT ![cmd.mod] = None]
    /\ \/ Works /\ (IF cmd.kind = "install" THEN Goes("npm") ELSE Removed("ok"))
          /\ UNCHANGED queue
       \/ /\ Breaks("list")
          /\ IF cmd.kind = "install" THEN Goes("npm") /\ UNCHANGED queue
             ELSE Removed("error") /\ queue' = queue \ Npm
    /\ UNCHANGED <<listed, backup, svc, todo, cmd, had, ops>>

\* npm install: the new code, or a failure that leaves something or nothing.
NpmInstall ==
    /\ pc = "npm"
    /\ \/ folder' = [folder EXCEPT ![cmd.mod] = cmd.ver] /\ Goes("list") /\ Works
       \/ /\ Breaks("npm") /\ Goes("revert")
          /\ \E left \in {Partial, folder[cmd.mod]} : folder' = [folder EXCEPT ![cmd.mod] = left]
    /\ UNCHANGED <<listed, backup, svc, todo, Locals>>

\* The entry of the module, with its user and group.
List ==
    /\ pc = "list"
    /\ \/ listed' = [listed EXCEPT ![cmd.mod] = TRUE] /\ Goes("start") /\ Works
       \/ Ends("error") /\ Breaks("conf") /\ UNCHANGED listed
    /\ UNCHANGED <<folder, backup, svc, todo, Locals>>

\* CLI.start of the package: an app that is found by its name is restarted; any
\* other is prepared, and 'systemctl start' leaves alone what runs.  The name
\* that is looked for is the one the package gives, force_name comes later.
Started(m) ==
    LET s == svc[NpmService(m)] IN
    [reg |-> TRUE,
     code |-> IF (m \in NpmNamed /\ s.reg) \/ s.code = None THEN folder[m] ELSE s.code]

StartNpm(m) == svc' = [svc EXCEPT ![NpmService(m)] = Started(m)]

Start ==
    /\ pc = "start"
    /\ \/ StartNpm(cmd.mod) /\ Works /\ (IF cmd.safe THEN Goes("watch") ELSE Ends("ok"))
       \/ Breaks("start") /\ Ends("error") /\ UNCHANGED svc
    /\ UNCHANGED <<listed, folder, backup, todo, Locals>>

\* --safe: after some seconds the restarts of the service are counted.
Watch ==
    /\ pc = "watch"
    /\ IF svc[NpmService(cmd.mod)].code \in Unstable THEN Goes("revert") ELSE Ends("ok")
    /\ UNCHANGED <<listed, folder, backup, svc, todo, failed, faults, Locals>>

\* Rollback.revert: the backup is copied over what is there, whichever update it
\* was made for; without one nothing is restored.
Revert ==
    /\ pc = "revert"
    /\ IF backup[cmd.mod] = None
       THEN Ends("error") /\ UNCHANGED folder
       ELSE folder' = [folder EXCEPT ![cmd.mod] = backup[cmd.mod]] /\ Goes("restart")
    /\ UNCHANGED <<listed, backup, svc, todo, failed, faults, Locals>>

\* The restored package is started; the installation has failed all the same.
Restart ==
    /\ pc = "restart"
    /\ IF folder[cmd.mod] = Partial
       THEN Ends("crash") /\ UNCHANGED svc /\ Works
       ELSE /\ Ends("error")
            /\ \/ StartNpm(cmd.mod) /\ Works
               \/ Breaks("start") /\ UNCHANGED svc
    /\ UNCHANGED <<listed, folder, backup, todo, Locals>>

-----------------------------------------------------------------------------
(* Modules from tarballs.                                                  *)

\* Download, the name from package.json, and tar; then runInstall.
Unpack ==
    /\ pc = "unpack"
    /\ \/ Breaks("fetch") /\ Ends("error") /\ UNCHANGED <<folder, todo>>
       \/ /\ Breaks("tar") /\ Ends("error") /\ UNCHANGED todo
          /\ folder' = [folder EXCEPT ![cmd.mod] = Partial]
       \/ /\ Works /\ folder' = [folder EXCEPT ![cmd.mod] = cmd.ver]
          /\ IF PrefixThrows(cmd.mod) THEN Ends("crash") /\ UNCHANGED todo
             ELSE Goes("startApps") /\ todo' = StartedAs(cmd.mod)
    /\ UNCHANGED <<listed, backup, svc, Locals>>

Fresh(t) == [reg |-> TRUE, code |-> folder[t]]

\* _startJson: the apps that are registered are restarted, then the missing ones
\* are prepared; the first failure is the last step.
StartApp ==
    /\ pc = "startApps"
    /\ \E s \in IF \E x \in todo : svc[x].reg THEN {x \in todo : svc[x].reg} ELSE todo :
          \/ /\ Works /\ svc' = [svc EXCEPT ![s] = Fresh(cmd.mod)]
             /\ todo' = todo \ {s}
             /\ Goes(IF todo = {s} THEN "enlist" ELSE "startApps")
          \/ Breaks("start") /\ Ends("error") /\ UNCHANGED <<svc, todo>>
    /\ UNCHANGED <<listed, folder, backup, Locals>>

\* The entry, last; setSync that fails says nothing.
Enlist ==
    /\ pc = "enlist" /\ Ends("ok")
    /\ \/ listed' = [listed EXCEPT ![cmd.mod] = TRUE] /\ Works
       \/ Breaks("conf") /\ UNCHANGED listed
    /\ UNCHANGED <<folder, backup, svc, todo, Locals>>

\* uninstall reads the names of the apps from package.json ...
Inspect ==
    /\ pc = "inspect"
    /\ IF folder[cmd.mod] \in Versions
       THEN Goes("deleteApps") /\ todo' = DeletedAs(cmd.mod)
       ELSE Ends("error") /\ UNCHANGED todo
    /\ UNCHANGED <<listed, folder, backup, svc, failed, faults, Locals>>

\* ... deletes each, and the folder after each, found or not, deleted or not ...
DeleteApp ==
    /\ pc = "deleteApps"
    /\ \E s \in todo :
          /\ todo' = todo \ {s}
          /\ \/ /\ Works
                /\ svc' = IF s \in Services THEN [svc EXCEPT ![s] = NoService] ELSE svc
             \/ Breaks("delete") /\ UNCHANGED svc
          /\ Goes(IF todo = {s} THEN "delist" ELSE "deleteApps")
    /\ folder' = [folder EXCEPT ![cmd.mod] = None]
    /\ UNCHANGED <<listed, backup, Locals>>

\* ... and then the entry.
Delist ==
    /\ pc = "delist" /\ Removed("ok")
    /\ \/ listed' = [listed EXCEPT ![cmd.mod] = FALSE] /\ Works
       \/ Breaks("conf") /\ UNCHANGED listed
    /\ UNCHANGED <<folder, backup, svc, todo, Locals>>

-----------------------------------------------------------------------------
(* All modules, and the internal ones.                                     *)

\* The npm modules come first.
FirstOf == IF queue \cap Npm # {} THEN queue \cap Npm ELSE queue

\* uninstall all: one module after the other.  After a failure no other npm
\* module is removed; one of a tarball ends it.
Following ==
    /\ pc = "next"
    /\ \/ queue = {} /\ Ends("ok") /\ UNCHANGED <<cmd, queue>>
       \/ \E m \in FirstOf :
             /\ cmd' = [cmd EXCEPT !.mod = m] /\ queue' = queue \ {m}
             /\ Goes(IF m \in Npm THEN "unlist" ELSE "inspect")
    /\ UNCHANGED <<listed, folder, backup, svc, todo, failed, faults, had, ops>>

\* Everything of one module at once, as NPM.start or TAR.start brings it up.
Launched(m) ==
    IF m \in Npm THEN [svc EXCEPT ![NpmService(m)] = Started(m)]
    ELSE [s \in Services |-> IF s \in StartedAs(m) THEN Fresh(m) ELSE svc[s]]

\* launchModules: a module that cannot be started is reported and the next one
\* follows.  NPM.start does not guard the require of package.json, TAR.start
\* passes over a module without one.
Launch ==
    /\ pc = "launch"
    /\ \/ queue = {} /\ Ends("ok") /\ Works /\ UNCHANGED <<svc, queue>>
       \/ \E m \in FirstOf :
             /\ queue' = queue \ {m}
             /\ IF folder[m] \notin Versions
                THEN (IF m \in Npm THEN Ends("crash") ELSE Goes("launch")) /\ Works /\ UNCHANGED svc
                ELSE /\ Goes("launch")
                     /\ (Works /\ svc' = Launched(m)) \/ (Breaks(m) /\ UNCHANGED svc)
    /\ UNCHANGED <<listed, folder, backup, todo, cmd, had, ops>>

\* installMultipleModules: the dependencies in parallel.  The callback has one
\* parameter too many, so the error of a dependency is in another variable.
LocalInstall ==
    /\ pc = "local"
    /\ \/ todo = {} /\ UNCHANGED todo /\ Works
          /\ Ends(IF Cardinality(Deps) = 1 /\ failed # {} THEN "error" ELSE "ok")
       \/ \E d \in todo : todo' = todo \ {d} /\ Goes("local") /\ (Works \/ Breaks(d))
    /\ UNCHANGED <<listed, folder, backup, svc, Locals>>

-----------------------------------------------------------------------------
\* systemd starts a service that crashes again, from the folder as it is now.
Respawn ==
    /\ \E s \in Services :
          /\ svc[s].code \in Unstable /\ folder[s[1]] # svc[s].code
          /\ svc' = [svc EXCEPT ![s].code = IF folder[s[1]] \in Versions THEN folder[s[1]] ELSE None]
    /\ UNCHANGED <<listed, folder, backup, pc, answer, todo, failed, faults, Locals>>

\* "zm2 stop" of a module.
Stop ==
    /\ pc = "idle" /\ faults < MaxFaults /\ faults' = faults + 1 /\ answer' = "none"
    /\ \E s \in Services : svc[s].code # None /\ svc' = [svc EXCEPT ![s].code = None]
    /\ UNCHANGED <<listed, folder, backup, pc, todo, failed, Locals>>

Dies ==
    /\ pc # "idle" /\ Breaks("death") /\ Ends("crash")
    /\ UNCHANGED <<listed, folder, backup, svc, todo, Locals>>

Step ==
    \/ Unknown \/ Backup \/ Unlist \/ Remove \/ NpmInstall \/ List \/ Start \/ Watch
    \/ Revert \/ Restart \/ Unpack \/ StartApp \/ Enlist \/ Inspect \/ DeleteApp \/ Delist
    \/ Following \/ Launch \/ LocalInstall

CONSTANT Commands  \* the commands that are given
ASSUME CommandsAssumption ==
    Commands \subseteq Command /\ MaxOps \in Nat /\ MaxFaults \in Nat

Next == (\E c \in Commands : Begin(c)) \/ Step \/ Respawn \/ Stop \/ Dies
Spec == Init /\ [][Next]_vars
-----------------------------------------------------------------------------
(* Properties.                                                             *)

TypeOK ==
    /\ listed \in [Modules -> BOOLEAN]
    /\ folder \in [Modules -> Versions \cup {None, Partial}]
    /\ backup \in [Npm -> Versions \cup {None, Partial}]
    /\ svc \in [Services -> [reg : BOOLEAN, code : Versions \cup {None}]]
    /\ pc \in {"idle", "unknown", "backup", "unlist", "remove", "npm", "list", "start", "watch",
             "revert", "restart", "unpack", "startApps", "enlist", "inspect", "deleteApps",
             "delist", "next", "launch", "local"}
    /\ cmd \in Command \cup {None}
    /\ answer \in {"none", "ok", "error", "crash"}
    /\ queue \subseteq Modules /\ faults \in 0..MaxFaults /\ ops \in 0..MaxOps

Done(kind, a) == pc = "idle" /\ answer = a /\ cmd # None /\ cmd.kind = kind

\* An installation that reports success has the code that was asked for, the
\* services of the module run, and npm modules are listed (NPM.install,
\* TAR.install; setSync of a tarball's entry may fail unnoticed).
InstallIsComplete ==
    Done("install", "ok") =>
        /\ folder[cmd.mod] = cmd.ver
        /\ listed[cmd.mod] \/ (cmd.mod \in Tar /\ "conf" \in failed)
        /\ \A s \in ServicesOf(cmd.mod) : svc[s].reg /\ svc[s].code # None

\* Whatever dies or fails, an npm module that is listed has code: launchModules
\* requires its package.json without a guard and would end there, with all the
\* modules after it (the entry is removed before the folder and written after
\* it; an entry that could not be removed is the exception, and what an update
\* that was interrupted after it left behind and the next one backed up).
ListedHasCode ==
    [][\A m \in Npm :
          (listed[m] => folder[m] \in Versions) /\ backup[m] # Partial /\ "conf" \notin failed'
          => (listed'[m] => folder'[m] \in Versions)]_vars

\* An update that fails in npm, or whose new version turns out to crash, leaves
\* the former code in the folder and, if it ran, something that runs; the service
\* is still registered (Rollback).
FailedUpdateKeepsCode ==
    Done("install", "error") /\ cmd.mod \in Npm /\ failed \subseteq {"npm"}
      /\ had.listed[cmd.mod] /\ had.folder[cmd.mod] \in Versions =>
        /\ folder[cmd.mod] = had.folder[cmd.mod]
        /\ LET s == NpmService(cmd.mod) IN
           had.svc[s].reg => svc[s].reg /\ (had.svc[s].code # None => svc[s].code # None)

\* A module of a tarball that is reported as uninstalled is gone, unless a name
\* of its apps contains its own.
TarballIsGone ==
    Done("uninstall", "ok") /\ cmd.mod \in Tar /\ failed = {}
      /\ (TarApps[cmd.mod] = {"self"} \/ \A n \in TarApps[cmd.mod] : ~HasModuleName(n)) =>
        /\ ~listed[cmd.mod] /\ folder[cmd.mod] = None
        /\ \A s \in ServicesOf(cmd.mod) : ~svc[s].reg

\* A module that cannot be started does not keep the others from starting.
LaunchGoesOn ==
    Done("launch", "ok") =>
        \A m \in Modules : listed[m] /\ folder[m] \in Versions /\ m \notin failed =>
            \A s \in ServicesOf(m) : svc[s].reg /\ svc[s].code # None

\* An update puts the new code of a tarball, or of a package that names its app
\* like itself, into service.
UpdateIsInService ==
    Done("install", "ok") /\ cmd.mod \in Tar \cup NpmNamed =>
        \A s \in ServicesOf(cmd.mod) :
            svc[s].code = cmd.ver \/ cmd.ver \in Unstable

\* What an installation, an update, a removal and a launch report is so,
\* whatever failed before or in between (NPM.js, TAR.js, Modularizer.js).
ModulesAsReported ==
    /\ TypeOK
    /\ InstallIsComplete /\ FailedUpdateKeepsCode /\ UpdateIsInService
    /\ TarballIsGone /\ LaunchGoesOn

-----------------------------------------------------------------------------
(* What documents and messages say, and the code does not do.              *)

\* "Module already installed. Updating." and "Module successfully installed and
\* launched" (src/lib/API/Modules/NPM.js:168 and 272): after it the new code runs.
UpdatedModuleRuns ==
    Done("install", "ok") /\ cmd.mod \in Npm /\ ~cmd.safe /\ cmd.ver \notin Unstable =>
        svc[NpmService(cmd.mod)].code = cmd.ver

\* "stop and uninstall a module" (src/lib/binaries/CLI.js:444).
UninstallStops ==
    Done("uninstall", "ok") /\ cmd.mod \in Npm /\ failed = {} =>
        svc[NpmService(cmd.mod)].code = None

\* "Retrieve from module package.json the name of each application, delete
\* process and delete folder" (src/lib/API/Modules/TAR.js:205-206).
UninstallDeletesApps ==
    Done("uninstall", "ok") /\ cmd.mod \in Tar /\ failed = {} =>
        \A s \in ServicesOf(cmd.mod) : ~svc[s].reg

\* "Installation failed via NPM, module has been restored to prev version"
\* (src/lib/API/Modules/NPM.js:231): it is still a module that can be uninstalled.
RestoredIsListed ==
    Done("install", "error") /\ failed = {"npm"} /\ had.listed[cmd.mod] => listed[cmd.mod]

\* "a package.json must be present with attribute "name", "version" and "pm2" to
\* declare apps to run" (src/lib/API/Modules/TAR.js:31): such a package installs.
Pm2AttributeInstalls == Done("install", "crash") => "death" \in failed \/ cmd.mod \notin Tar

\* "installation has FAILED" (src/lib/API/Modules/LOCAL.js:85): an internal module
\* whose dependency could not be installed is not reported as enabled.
LocalFailureShows == Done("local", "ok") => failed = {}

=============================================================================
