----------------------------- MODULE Lifecycle ------------------------------
(***************************************************************************)
(* What the commands of zm2 do to systemd: src/lib/SystemdClient.js and    *)
(* src/lib/Systemd.js.                                                     *)
(*                                                                         *)
(* A command is a sequence of calls on one service: files written under    *)
(* /etc/systemd/system and /etc/zm2/env, systemctl invocations, and last   *)
(* (or, for delete, after everything else) a change of the metadata store. *)
(* There is no transaction around them: a call may fail, which ends the    *)
(* command with an error and leaves what the calls before it did, the zm2  *)
(* process may die between two calls, and the commands of several zm2      *)
(* processes interleave call by call.  Meanwhile systemd restarts          *)
(* services, fires cron timers and reboots.                                *)
(*                                                                         *)
(* The store is a set here, changed in one step: module StateStore and its *)
(* refinement of Registry say why that is enough.  systemd itself is an    *)
(* environment, modelled by the effects the code counts on.                *)
(***************************************************************************)
EXTENDS Integers, Sequences, FiniteSets

CONSTANTS
    Procs,     \* slots in which zm2 processes run, one at a time in each
    Services,  \* unit names, as UnitGenerator.serviceName makes them
    Timed,     \* those whose apps may be given a cron pattern
    Confs,     \* app configurations: [ver, cron, autostart]
    None,      \* no file, no process, no configuration
    Torn,      \* what a write that did not finish leaves in a file
    Kinds,     \* the commands that are run
    MaxOps,    \* bound: commands started in one slot
    MaxFaults  \* bound: failed calls, dead zm2 processes and reboots

VARIABLES
    disk,        \* the files of each service, by the configuration they were made from
    loaded,      \* the unit definition systemd holds in memory
    run,         \* the definition each running service was started from
    enabled,     \* services started at boot
    armed,       \* what the cron timer of each service is: active, enabled
    fired,       \* services whose cron trigger has been started but not yet run
    registered,  \* services with an entry in state.json
    todo,        \* the calls each process has yet to make
    op,          \* the command each process performs or performed last
    answer,      \* how that command ended: "none" while it runs, or if it died
    unopposed,   \* no command that may undo it ran at the same time or since
    ops, faults  \* counters for the bounds

world == <<disk, loaded, run, enabled, armed, fired, registered>>
vars == <<world, todo, op, answer, unopposed, ops, faults>>

-----------------------------------------------------------------------------
(* Files and commands.                                                     *)

Files == {"unit", "env", "timer", "cron"}
NoFiles == [f \in Files |-> None]
Unlinks == [unit |-> "unlink_unit", env |-> "unlink_env",
            timer |-> "unlink_timer", cron |-> "unlink_cron"]

Op == [kind : {"prepare", "start", "httpstart", "restart", "reload", "stop",
               "delete", "killall"},
       svcs : SUBSET Services, conf : Confs \cup {None}]

ASSUME LifecycleAssumption ==
    /\ IsFiniteSet(Services) /\ Timed \subseteq Services
    /\ \A c \in Confs : c.cron \in BOOLEAN /\ c.autostart \in BOOLEAN
    /\ None \notin Confs /\ Torn \notin Confs /\ None # Torn /\ None \notin Op
    /\ MaxOps \in Nat /\ MaxFaults \in Nat

\* The same service for every call.
On(s, calls) == [i \in DOMAIN calls |-> [do |-> calls[i], svc |-> s]]

\* The entry written before anything of the service is in place.
PrepareRegisterFirst(c) ==
    <<"register", "env", "unit", "reload", "enable", "start">>
    \o (IF c.cron THEN <<"timer", "cron", "reload", "arm">> ELSE <<>>)
    \o <<"show">>

\* The boot link forgotten.
PrepareNotEnabled(c) ==
    <<"env", "unit", "reload", "start">>
    \o (IF c.cron THEN <<"timer", "cron", "reload", "arm">> ELSE <<>>)
    \o <<"register", "show">>

\* _prepare
PrepareCalls(c) ==
    <<"env", "unit", "reload", "enable", "start">>
    \o (IF c.cron THEN <<"timer", "cron", "reload", "arm">> ELSE <<>>)
    \o <<"register", "show">>

\* _restartProcess, with the environment of --update-env if there is one.
RestartCalls(c) == (IF c = None THEN <<>> ELSE <<"env">>) \o <<"restart", "show">>

\* _startProcess: "Preserve start-on-existing-app restart behavior" for the
\* command line, a plain start for the HTTP API.
StartCalls(c, start) ==
    (IF c = None THEN <<>> ELSE <<"env">>) \o <<"enable", start, "show">>

\* A stopped service that still comes back at boot.
StopNotDisabled == <<"stop">>

\* _stopProcess
StopCalls == <<"stop", "disable">>

\* Removal that leaves the boot link.
RemoveNotDisabled(s) ==
    (IF disk[s].timer # None THEN <<"stop_timer", "disable_timer">> ELSE <<>>)
    \o <<"stop", "unlink_timer", "unlink_cron", "unlink_unit", "unlink_env", "reload">>

\* Removal that does not look for a cron timer.
RemoveIgnoringTimer(s) ==
    StopCalls
    \o <<"unlink_timer", "unlink_cron", "unlink_unit", "unlink_env", "reload">>

\* Removal of the files first.
RemoveFilesFirst(s) ==
    <<"unlink_timer", "unlink_cron", "unlink_unit", "unlink_env", "reload">> \o StopCalls

\* removeUnit: "no files are deleted until they all succeed".
RemoveCalls(s) ==
    (IF disk[s].timer # None THEN <<"stop_timer", "disable_timer">> ELSE <<>>)
    \o StopCalls
    \o <<"unlink_timer", "unlink_cron", "unlink_unit", "unlink_env", "reload">>

\* The entry dropped before the service is gone.
DeleteForgetsFirst(s) == <<"unregister">> \o RemoveCalls(s)

\* _deleteProcess
DeleteCalls(s) == RemoveCalls(s) \o <<"unregister">>

Orders(S) == {f \in [1..Cardinality(S) -> S] : \A s \in S : \E i \in DOMAIN f : f[i] = s}

\* The calls a command is made of; _killAll takes the entries in file order.
Programs(o) ==
    CASE o.kind = "killall" ->
             {[i \in DOMAIN f |-> [do |-> "stop", svc |-> f[i]]] : f \in Orders(o.svcs)}
      [] OTHER -> LET s == CHOOSE t \in Services : o.svcs = {t} IN
             {On(s, CASE o.kind = "prepare" -> PrepareCalls(o.conf)
                      [] o.kind = "start" -> StartCalls(o.conf, "restart")
                      [] o.kind = "httpstart" -> StartCalls(o.conf, "start")
                      [] o.kind \in {"restart", "reload"} -> RestartCalls(o.conf)
                      [] o.kind = "stop" -> StopCalls
                      [] o.kind = "delete" -> DeleteCalls(s))}

\* _resolveEntry finds an entry of the store, or a unit file without one.
Resolvable == {s \in Services : s \in registered \/ disk[s].unit # None}

\* What may be asked for in this state.
Commands ==
    {o \in [kind : {"prepare"}, svcs : {{s} : s \in Services}, conf : Confs] :
        o.conf.cron => o.svcs \subseteq Timed}
    \cup [kind : {"start", "httpstart", "restart"}, svcs : {{s} : s \in Resolvable},
          conf : Confs \cup {None}]
    \cup [kind : {"reload", "stop", "delete"}, svcs : {{s} : s \in Resolvable},
          conf : {None}]
    \cup [kind : {"killall"}, svcs : {registered} \ {{}}, conf : {None}]

-----------------------------------------------------------------------------
Init ==
    /\ disk = [s \in Services |-> NoFiles]
    /\ loaded = [s \in Services |-> None]
    /\ run = [s \in Services |-> None]
    /\ enabled = {}
    /\ armed = [s \in Services |-> {}]
    /\ fired = {}
    /\ registered = {}
    /\ todo = [p \in Procs |-> <<>>]
    /\ op = [p \in Procs |-> None]
    /\ answer = [p \in Procs |-> "none"]
    /\ unopposed = [p \in Procs |-> FALSE]
    /\ ops = [p \in Procs |-> 0]
    /\ faults = 0

Busy(p) == todo[p] # <<>>
Fault == faults < MaxFaults /\ faults' = faults + 1

Starters == {"prepare", "start", "httpstart", "restart", "reload"}

\* r may undo, while it runs, what o did.
MayUndo(r, o) ==
    /\ r.svcs \cap o.svcs # {}
    /\ IF o.kind \in Starters THEN r.kind \notin Starters \/ r.conf # None
                              ELSE r.kind \in Starters

Begin(p, o) ==
    /\ ~Busy(p)
    /\ \E calls \in Programs(o) : todo' = [todo EXCEPT ![p] = calls]
    /\ op' = [op EXCEPT ![p] = o]
    /\ unopposed' = [q \in Procs |->
                        IF q = p
                        THEN \A r \in Procs : Busy(r) => ~MayUndo(op[r], o)
                        ELSE unopposed[q] /\ ~MayUndo(o, op[q])]
    /\ answer' = [answer EXCEPT ![p] = "none"]
    /\ ops[p] < MaxOps /\ ops' = [ops EXCEPT ![p] = @ + 1]
    /\ UNCHANGED <<world, faults>>

\* The next call of p is do, on service s.
Calling(p, do, s) == Busy(p) /\ Head(todo[p]) = [do |-> do, svc |-> s]

\* The call returns and the command goes on to the next one, or is done.
Returns(p) ==
    /\ todo' = [todo EXCEPT ![p] = Tail(@)]
    /\ answer' = [answer EXCEPT ![p] = IF Tail(todo[p]) = <<>> THEN "ok" ELSE "none"]
    /\ UNCHANGED <<op, unopposed, ops, faults>>

\* The call throws, or the process dies: the command ends and nothing is undone.
Ends(p, a) ==
    /\ todo' = [todo EXCEPT ![p] = <<>>]
    /\ answer' = [answer EXCEPT ![p] = a]
    /\ UNCHANGED <<op, unopposed, ops>>

Put(s, f, c) == disk' = [disk EXCEPT ![s][f] = c]

\* A unit cut short, started.
UsableTorn(s) == {loaded[s], disk[s].unit} \ {None}

\* The definitions systemd may start s from: the one it holds, or the file if
\* it has dropped the service from memory.
Usable(s) == {loaded[s], disk[s].unit} \ {None, Torn}

\* daemon-reload, which enable and disable end with.
Reread == loaded' = [s \in Services |-> disk'[s].unit]

-----------------------------------------------------------------------------
(* The calls that write and remove files.                                  *)

\* writeEnvFile, installUnit, installTimer.
WriteFile(p) ==
    /\ \E s \in Services, f \in Files : Calling(p, f, s) /\ Put(s, f, op[p].conf)
    /\ Returns(p)
    /\ UNCHANGED <<loaded, run, enabled, armed, fired, registered>>

\* unlinkIfExists
Unlink(p) ==
    /\ \E s \in Services, f \in Files : Calling(p, Unlinks[f], s) /\ Put(s, f, None)
    /\ Returns(p)
    /\ UNCHANGED <<loaded, run, enabled, armed, fired, registered>>

-----------------------------------------------------------------------------
(* The calls to systemctl.                                                 *)

DaemonReload(p) ==
    /\ \E s \in Services : Calling(p, "reload", s)
    /\ UNCHANGED disk /\ Reread
    /\ Returns(p)
    /\ UNCHANGED <<run, enabled, armed, fired, registered>>

Enable(p) ==
    /\ \E s \in Services :
          /\ Calling(p, "enable", s)
          /\ disk[s].unit \notin {None, Torn}
          /\ enabled' = enabled \cup {s}
    /\ UNCHANGED disk /\ Reread
    /\ Returns(p)
    /\ UNCHANGED <<run, armed, fired, registered>>

Disable(p) ==
    /\ \E s \in Services :
          /\ Calling(p, "disable", s)
          /\ s \in enabled \/ disk[s].unit # None
          /\ enabled' = enabled \ {s}
    /\ UNCHANGED disk /\ Reread
    /\ Returns(p)
    /\ UNCHANGED <<run, armed, fired, registered>>

\* Starting a service that runs does nothing.
Start(p) ==
    /\ \E s \in Services :
          /\ Calling(p, "start", s)
          /\ \/ run[s] # None /\ UNCHANGED <<run, loaded>>
             \/ /\ run[s] = None
                /\ \E d \in Usable(s) :
                      /\ run' = [run EXCEPT ![s] = d]
                      /\ loaded' = [loaded EXCEPT ![s] = d]
    /\ Returns(p)
    /\ UNCHANGED <<disk, enabled, armed, fired, registered>>

\* restart and reload-or-restart (a generated unit has no ExecReload) start a
\* service that is stopped.
Restarted(s) ==
    \E d \in Usable(s) :
        /\ run' = [run EXCEPT ![s] = d]
        /\ loaded' = [loaded EXCEPT ![s] = d]

Restart(p) ==
    /\ \E s \in Services : Calling(p, "restart", s) /\ Restarted(s)
    /\ Returns(p)
    /\ UNCHANGED <<disk, enabled, armed, fired, registered>>

Stop(p) ==
    /\ \E s \in Services :
          /\ Calling(p, "stop", s)
          /\ run[s] # None \/ Usable(s) # {}
          /\ run' = [run EXCEPT ![s] = None]
    /\ Returns(p)
    /\ UNCHANGED <<disk, loaded, enabled, armed, fired, registered>>

\* enable --now of the timer
Arm(p) ==
    /\ \E s \in Services :
          /\ Calling(p, "arm", s)
          /\ disk[s].timer \notin {None, Torn}
          /\ armed' = [armed EXCEPT ![s] = {"active", "enabled"}]
    /\ UNCHANGED disk /\ Reread
    /\ Returns(p)
    /\ UNCHANGED <<run, enabled, fired, registered>>

\* stopDisableCronTimer
StopTimer(p) ==
    /\ \E s \in Services :
          /\ Calling(p, "stop_timer", s)
          /\ "active" \in armed[s] \/ disk[s].timer \notin {None, Torn}
          /\ armed' = [armed EXCEPT ![s] = @ \ {"active"}]
    /\ Returns(p)
    /\ UNCHANGED <<disk, loaded, run, enabled, fired, registered>>

DisableTimer(p) ==
    /\ \E s \in Services :
          /\ Calling(p, "disable_timer", s)
          /\ "enabled" \in armed[s] \/ disk[s].timer # None
          /\ armed' = [armed EXCEPT ![s] = @ \ {"enabled"}]
    /\ UNCHANGED disk /\ Reread
    /\ Returns(p)
    /\ UNCHANGED <<run, enabled, fired, registered>>

\* getStatus, for the answer only.
Show(p) ==
    /\ \E s \in Services : Calling(p, "show", s)
    /\ Returns(p)
    /\ UNCHANGED world

-----------------------------------------------------------------------------
(* The store.                                                              *)

Register(p) ==
    /\ \E s \in Services : Calling(p, "register", s) /\ registered' = registered \cup {s}
    /\ Returns(p)
    /\ UNCHANGED <<disk, loaded, run, enabled, armed, fired>>

Unregister(p) ==
    /\ \E s \in Services : Calling(p, "unregister", s) /\ registered' = registered \ {s}
    /\ Returns(p)
    /\ UNCHANGED <<disk, loaded, run, enabled, armed, fired>>

-----------------------------------------------------------------------------
(* What goes wrong.                                                        *)

\* systemctl refuses what the files do not allow; that is no fault of the machine.
Refused(p) ==
    /\ \E s \in Services :
          \/ /\ \E do \in {"start", "restart", "stop"} : Calling(p, do, s)
             /\ run[s] = None /\ disk[s].unit \in {None, Torn}
          \/ Calling(p, "restart", s) /\ disk[s].unit \in {None, Torn}
          \/ Calling(p, "enable", s) /\ disk[s].unit \in {None, Torn}
          \/ Calling(p, "disable", s) /\ s \notin enabled /\ disk[s].unit = None
          \/ Calling(p, "arm", s) /\ disk[s].timer \in {None, Torn}
          \/ Calling(p, "stop_timer", s) /\ disk[s].timer \in {None, Torn}
          \/ Calling(p, "disable_timer", s) /\ disk[s].timer = None
    /\ Ends(p, "error")
    /\ UNCHANGED <<world, faults>>

\* A write that does not finish leaves the file as it was, or torn.
Interrupted(p) ==
    \/ UNCHANGED disk
    \/ \E s \in Services, f \in Files : Calling(p, f, s) /\ Put(s, f, Torn)

\* Any call may fail; a store change whose unlock fails has happened.
Fails(p) ==
    /\ Busy(p) /\ Fault
    /\ Interrupted(p)
    /\ \/ UNCHANGED registered
       \/ \E s \in Services :
             \/ Calling(p, "register", s) /\ registered' = registered \cup {s}
             \/ Calling(p, "unregister", s) /\ registered' = registered \ {s}
    /\ Ends(p, "error")
    /\ UNCHANGED <<loaded, run, enabled, armed, fired>>

\* The zm2 process dies between two calls or in the middle of a write.
Dies(p) ==
    /\ Busy(p) /\ Fault
    /\ Interrupted(p)
    /\ Ends(p, "none")
    /\ UNCHANGED <<loaded, run, enabled, armed, fired, registered>>

-----------------------------------------------------------------------------
(* systemd on its own.                                                     *)

\* A service exits, and is restarted if it failed (Restart=on-failure).
Exits(s) ==
    /\ run[s] # None
    /\ \E d \in {None} \cup ({loaded[s]} \ {Torn}) : run' = [run EXCEPT ![s] = d]
    /\ UNCHANGED <<disk, loaded, enabled, armed, fired, registered,
                   todo, op, answer, unopposed, ops, faults>>

\* The timer elapses: its oneshot service is started ...
CronFires(s) ==
    /\ "active" \in armed[s] /\ disk[s].cron \notin {None, Torn}
    /\ fired' = fired \cup {s}
    /\ UNCHANGED <<disk, loaded, run, enabled, armed, registered,
                   todo, op, answer, unopposed, ops, faults>>

\* ... and runs "systemctl restart", whatever happened in between.
CronRestarts(s) ==
    /\ s \in fired /\ fired' = fired \ {s}
    /\ IF Usable(s) = {} THEN UNCHANGED <<run, loaded>> ELSE Restarted(s)
    /\ UNCHANGED <<disk, enabled, armed, registered,
                   todo, op, answer, unopposed, ops, faults>>

\* The machine goes down and comes back with what is enabled.
Reboot ==
    /\ Fault
    /\ UNCHANGED disk /\ Reread
    /\ run' = [s \in Services |->
                 IF s \in enabled /\ disk[s].unit # Torn THEN disk[s].unit ELSE None]
    /\ armed' = [s \in Services |->
                   IF "enabled" \in armed[s] /\ disk[s].timer \notin {None, Torn}
                   THEN {"active", "enabled"} ELSE armed[s] \ {"active"}]
    /\ fired' = {}
    /\ todo' = [p \in Procs |-> <<>>]
    /\ UNCHANGED <<enabled, registered, op, answer, unopposed, ops>>

-----------------------------------------------------------------------------
Step(p) ==
    \/ WriteFile(p) \/ Unlink(p)
    \/ DaemonReload(p) \/ Enable(p) \/ Disable(p) \/ Start(p) \/ Restart(p)
    \/ Stop(p) \/ Arm(p) \/ StopTimer(p) \/ DisableTimer(p) \/ Show(p)
    \/ Register(p) \/ Unregister(p)

\* What goes on when no command is being started.
Goes ==
    \/ \E p \in Procs : Step(p) \/ Refused(p) \/ Fails(p) \/ Dies(p)
    \/ \E s \in Services : Exits(s) \/ CronFires(s) \/ CronRestarts(s)
    \/ Reboot

Next ==
    \/ \E p \in Procs, o \in Commands : o.kind \in Kinds /\ Begin(p, o)
    \/ Goes

Spec == Init /\ [][Next]_vars

-----------------------------------------------------------------------------
(* Properties.                                                             *)

Calls == {"reload", "enable", "disable", "start", "restart", "stop", "arm",
          "stop_timer", "disable_timer", "show", "register", "unregister"}
         \cup Files \cup {Unlinks[f] : f \in Files}
Content == Confs \cup {None, Torn}

\* Every variable has its type; an answer is given only when a command is over.
TypeOK ==
    /\ disk \in [Services -> [Files -> Content]]
    /\ loaded \in [Services -> Content]
    /\ run \in [Services -> Confs \cup {None}]
    /\ enabled \subseteq Services /\ fired \subseteq Services
    /\ armed \in [Services -> SUBSET {"active", "enabled"}]
    /\ registered \subseteq Services
    /\ todo \in [Procs -> Seq([do : Calls, svc : Services])]
    /\ op \in [Procs -> Op \cup {None}]
    /\ answer \in [Procs -> {"none", "ok", "error"}]
    /\ unopposed \in [Procs -> BOOLEAN]
    /\ ops \in [Procs -> 0..MaxOps] /\ faults \in 0..MaxFaults

\* p was told that its command succeeded, and nobody worked against it.
Done(p, kinds) == answer[p] = "ok" /\ unopposed[p] /\ op[p].kind \in kinds

\* The step is one of p.
Steps(p) == todo'[p] # todo[p]

\* An app reported to be started is there for good: its files are those of the
\* configuration it was started with, it comes back at boot, its cron timer
\* runs and it is in the store (_prepare), whatever failed before that command.
StartedIsComplete ==
    \A p \in Procs : Done(p, {"prepare"}) => \A s \in op[p].svcs :
        /\ disk[s].unit = op[p].conf /\ disk[s].env = op[p].conf
        /\ s \in enabled /\ s \in registered
        /\ op[p].conf.cron => /\ disk[s].timer = op[p].conf
                              /\ disk[s].cron = op[p].conf
                              /\ armed[s] = {"active", "enabled"}

\* An app that was reported to be stopped stays stopped, across reboots, until
\* somebody asks for it again (_stopProcess), or its cron timer does.
StopSticks ==
    \A p \in Procs : Done(p, {"stop"}) =>
        \A s \in op[p].svcs : s \notin enabled /\ (s \notin Timed => run[s] = None)

\* An app reported to be deleted has left nothing behind: no file, no boot
\* link, no cron timer, no entry (removeUnit, _deleteProcess).
DeletedIsGone ==
    \A p \in Procs : Done(p, {"delete"}) => \A s \in op[p].svcs :
        /\ disk[s] = NoFiles /\ s \notin enabled
        /\ armed[s] = {} /\ s \notin registered

\* An app gets its entry last, when its files, boot link and timer are there
\* (_prepare; no entry is left for an app that was never started).
RegisteredLast ==
    [][\A p \in Procs, s \in Services :
          Steps(p) /\ unopposed[p] /\ s \in registered' \ registered =>
              /\ disk[s].unit = op[p].conf /\ disk[s].env = op[p].conf
              /\ s \in enabled
              /\ op[p].conf.cron => armed[s] = {"active", "enabled"}]_vars

\* An app is forgotten last, when nothing else of it is left: a delete that
\* fails half way keeps the app in the list (_deleteProcess).
ForgottenLast ==
    [][\A p \in Procs, s \in Services :
          Steps(p) /\ unopposed[p] /\ s \in registered \ registered' =>
              disk[s] = NoFiles /\ s \notin enabled /\ armed[s] = {}]_vars

\* Whatever runs can be named in a command: no sequence of commands, failures
\* and deaths of one zm2 process leaves a service running that has neither an
\* entry nor a unit file (the order of removeUnit and of _prepare), if no cron
\* trigger may start it in between.
Manageable ==
    \/ \E p, q \in Procs : ops[p] > 0 /\ ops[q] > 0 /\ p # q
    \/ \A s \in Services \ Timed : run[s] # None => s \in Resolvable

\* A cron timer that is on has a unit file to restart (the order of removeUnit
\* and of _prepare).
TimerHasTarget == \A s \in Services : armed[s] # {} => disk[s].unit # None

-----------------------------------------------------------------------------
(* What is said of the program and does not hold.                          *)

\* "Stop the optional cron timer first, so it cannot restart a service during
\* removal" (stopDisableCronTimer): no file is deleted under a running service.
NotRestartedDuringRemoval ==
    [][\A p \in Procs, s \in Services :
          Steps(p) /\ unopposed[p] /\ disk[s].unit # None /\ disk'[s].unit = None => run[s] = None]_vars

\* "Return its files for deletion only after all stops/disables have succeeded"
\* (stopDisableCronTimer): a cron timer that is on has its file, so that a later
\* delete finds it.
TimerHasFile == \A s \in Services : armed[s] # {} => disk[s].timer # None

\* "Start an app without enabling it on boot: --no-autostart" (README).
NoAutostartStaysOff ==
    \A p \in Procs : Done(p, {"prepare"}) /\ ~op[p].conf.autostart =>
        op[p].svcs \cap enabled = {}

\* "Script already launched, add -f option to force re-execution" (_startScript):
\* what runs after a prepare is what was prepared.
ForceReexecutes ==
    \A p \in Procs : Done(p, {"prepare"}) => \A s \in op[p].svcs :
        run[s] \in {None, op[p].conf}

=============================================================================
