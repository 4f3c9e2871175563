# TLA+ model of ZM2

ZM2 is a process manager for Node.js applications on Linux. It keeps the command
line of PM2 and replaces its daemon by systemd: every application is a systemd
unit, and every `zm2` command is a short-lived process of its own that writes
files, calls `systemctl` and leaves. Nothing runs in between but systemd and,
optionally, the `zm2-api` HTTP server, which performs the same commands.

That makes the interesting behaviour of the program the behaviour of *several
processes without a coordinator*: they share `~/.zm2/state.json`, unit files,
environment files, cron timers and a few lock and configuration files, any of
them may die between two system calls, and systemd acts on its own meanwhile.

## Inventory

| Part | Source | State it keeps | Operations | What must be right |
|---|---|---|---|---|
| Metadata store | `lib/Systemd/StateStore.js` | `state.json` (service → metadata, `next_id`), `state.json.lock`, the copy each instance loaded | load and the getters; register, replace, unregister, clear, save | one writer at a time; no lost commit; ids unique and not reused; a corrupt file is never overwritten; nobody waits forever |
| Service lifecycle | `lib/SystemdClient.js`, `lib/Systemd.js` | unit, environment, cron timer files; boot links; running services | prepare, start, restart, reload, stop, delete, killAll, listing | what a command reports is true; an interrupted command leaves something that can be named and repaired |
| Instance policy | `lib/Systemd/InstancePolicy.js` | none | normalize, assertSingle | a legacy multi-instance unit is never activated |
| Unit generation | `lib/Systemd/UnitGenerator.js` | none | serviceName, generate, generateEnvFile, cronToCalendar | the unit does what the options ask |
| update-node | `lib/Systemd/NodeRuntimeUpdater.js`, `lib/API/UpdateNode.js` | the report; the original files and metadata of each app | preflight, install, validate, update one app after the other, roll back | every app ends on the new runtime or back on its own; the report says which; the exit code agrees |
| Runtime configuration | `lib/Systemd/RuntimeConfig.js` | unit and env file contents read before the change | inspect, plan, apply, restore | only what was read is overwritten; nothing but the runtime changes |
| Runtime verifier | `lib/Systemd/RuntimeVerifier.js` | previous sample | verify | a restarting service is not called stable |
| nvm | `lib/tools/Nvm.js` | the default alias | prepare | the alias is what it was; "ok" means a working runtime |
| Command layer | `lib/API.js` | none | start, stop, restart, reload, scale, delete, reset, kill on names, namespaces, ids, paths, patterns, files, `all` | the services the words meant are the ones acted on; one failing app is not hidden behind another |
| Reload lock | `lib/Common.js` | a time stamp in a file | lockReload, unlockReload | nobody is kept out for nothing, or forever |
| Module configuration | `lib/Configuration.js`, `lib/API/Configuration.js` | `module_conf.json` | set, unset, multiset, defaults | what is reported is stored; a torn file is not overwritten |
| Modules | `lib/API/Modules/` | entries of `module_conf.json`, code folders, backups, services | install, update, uninstall, launch | a failed update leaves something that runs; what is listed has code |
| HTTP API | `lib/API/HttpApi.js`, `HttpApiServer.js`, `API.api` | the key file, the unit of `zm2-api`, its requests | start, stop, restart, status, remove; the routes | one key; requests answered once and truly, also during a shutdown |
| Startup, dump, resurrect | `lib/API/Startup.js`, `lib/API.js` | boot links; `dump.pm2` and its backup | startup, unstartup, dump, clearDump, resurrect | what was saved can be brought back; "ok" means all of it |
| Migration | `lib/API/Migrate.js` | PM2's processes and dump, the store | migrate | nothing that ran is lost, nothing runs twice |
| Configuration and validation | `lib/Common.js`, `lib/tools/Config.js`, `passwd.js` | none | verifyConfs, validateJSON, prepareAppConf | options reach the unit as asked; a refused file starts nothing |
| Logs, monitoring, extras, front ends | `lib/API/Log.js`, `UX/`, `Extra.js`, `lib/binaries` | none of their own | presentation, external commands | not modelled, see below |

**Interaction.** The command line and the HTTP API call the command layer, which
resolves a target to ids (a read of the store and of `systemctl list-units`) and
calls `SystemdClient.executeRemote` once per id. That reads the store again to
find the service, then performs file writes, `systemctl` calls and a store
change, synchronously, one after the other. update-node does the same through
`RuntimeConfig`, `RuntimeVerifier` and `StateStore.replace`; modules and the API
server are services like any other with files of their own beside them. The
processes share only files and systemd.

**What is hard.** Interleavings of two processes at any system call; a process
that dies holding a lock or in the middle of a command; a call of several that
fails after others took effect; a copy of the state that is stale when it is
written back, or an id that is stale when it is used; a timer that fires while
its service is being removed; a reboot, which brings back what is enabled and
nothing else. `PROJECT.json` lists these as hazards, each at its line, with the
properties that cover it.

## Modules

| Module | What it is | Composed in |
|---|---|---|
| `Registry` | What the store promises: a map from services to metadata in which every accepted operation takes effect at one instant. Abstract: no files, no locks. | `StateStore` (refinement) |
| `StateStore` | The store itself, one action per observable system call. | `MCStateStore`, `MCProgress` |
| `StateStoreProofs` | Theorems about `StateStore`, checked by TLAPS. | |
| `Lifecycle` | The commands of `SystemdClient` as sequences of calls, with systemd as their environment. | `MCLifecycle` |
| `LifecycleProofs` | Theorems about `Lifecycle`. | |
| `NodeRuntimeUpdater` | `zm2 update-node`: selection, the transaction of each application, rollback, report; `RuntimeVerifier` sample by sample. | `UpdateNode`, `MCNodeRuntimeUpdater`, `MCProgress` |
| `RuntimeChange` | What update-node promises: one application after the other is opened, changed and closed, and rows and exit code are true. Abstract: no calls, restarts or samples. | `NodeRuntimeUpdater` (refinement) |
| `Nvm` | The runtime update-node asks nvm for, and the user's default alias. | `UpdateNode` |
| `UpdateNode` | update-node beside the installations of runtimes it asks nvm for. | `MCUpdateNode` |
| `NodeRuntimeUpdaterProofs` | Theorems about the last four. | |
| `RuntimeFiles` | `RuntimeConfig.inspect`, `plan` and `apply` over the lines of unit and environment file. | `Apps` |
| `AppConfig` | From the options of an application to the directives of its unit. | `Apps` |
| `Apps` | The two side by side. | `MCApps` |
| `AppConfigProofs` | Theorems about the three. | |
| `ReloadLock` | The lock file of reload. | `Cli` |
| `CommandLayer` | From the words of a command line to the acts on services. | `Cli` |
| `Cli` | The two side by side. | `MCCommands` |
| `ReloadLockProofs` | Theorems about the three. | |
| `Modules`, `ModuleConf` | Installation and removal of modules; the file of their configuration. | `ModuleSettings` |
| `ModuleSettings` | The two side by side. | `MCModules` |
| `ModulesProofs` | Theorems about the three. | |
| `Snapshot`, `Migrate` | dump, resurrect, startup, unstartup; the migration from PM2. | `Boot` |
| `Boot` | The two side by side. | `MCBoot` |
| `SnapshotProofs` | Theorems about the three. | |
| `ApiService`, `HttpServer` | The service of the HTTP API and its key; its requests. | `Api` |
| `Api` | The two side by side. | `MCApi` |
| `ApiServiceProofs` | Theorems about the three. | |

An MC module puts the modules of one area side by side in *scenes*: a behaviour
stays in the scene it begins in, so that one run answers the questions of an
area without multiplying state spaces that do not meet. Where components do
meet, one module holds the shared state. Six modules (`UpdateNode`, `Apps`, `Cli`,
`ModuleSettings`, `Boot`, `Api`) put two components of one zm2 side by side; their
`HostSpec` is the interleaving of both, which the theorems are about.

### StateStore

`Procs` are slots for zm2 processes. `pc[p]` follows `_withLock`:

    idle -> acquire -> created -> locked -> commit -> release -> idle

`acquire` is the loop of `_acquireLock` (`Acquire`, `Retry`, `Timeout`), `created`
the moment between the exclusive `open` and the write of the pid, `locked` the
operation before its strict read, `commit` the state between the computed new
content and the `rename` of `_writeAtomic`, `release` the moment before the
`unlink`. `file` is `state.json`: absent, corrupt (unreadable or malformed) or
valid. `lock` is free, owned, or the orphan of a dead process. `data` and `base`
are `this.data` and `this._base*` of the instance; `mem` is the changed copy.
`Stage` is the read under the lock together with the mutation, since nothing
another process does can come between them but changes of the file, which need
the lock. The temporary file has a unique name and is not seen by anybody, so
all of `_writeAtomic` before the rename is one step that may fail
(`CommitFails`).

Metadata other than the id are one value. `replace` is enabled with metadata
read before (`ReplaceRequests`), as `update-node` calls it; `save` with a loaded
and changed copy. Every process may die in every state (`Crash`), every system
call may fail; the lock of a dead process stays until the operator removes it,
which the timeout message allows only while no zm2 process runs
(`RemoveOrphan`).

`ImplementsRegistry` maps this to `Registry`: the effect of an operation is at
its `rename`; an operation whose unlock fails reports an error although its
effect took place, which `Registry.Return` allows and the code documents.

### Lifecycle

A command is a sequence of calls (`PrepareCalls`, `StopCalls`, `RemoveCalls`,
…), fixed when it begins because the code decides on it then. `todo[p]` is what
process `p` has yet to call; each call is an action with the guard systemd puts
on it. `disk` holds the four files of a service by the configuration they were
made from (or `Torn`, after a write that did not finish), `loaded` systemd's copy
of the unit, `run` the definition the main process was started from, `enabled`
the boot links, `armed` the cron timer, `fired` a cron trigger that systemd has
started and that has not run its `systemctl restart` yet. `registered` is the
store, in one step: `StateStore` and its refinement justify that.

What goes wrong: a call throws (`Fails`; `Refused` when systemd will not work on
a missing or torn unit), the zm2 process dies (`Dies`), services exit and are
restarted, timers fire, the machine reboots.

Properties that speak of a command that succeeded (`Done`) hold as long as
nobody works against it: `unopposed[p]` is true while no command that may undo
it overlapped with it or came after it. `Timed` are the services whose
configuration may have a cron timer. `Manageable`, and the part of `StopSticks`
that says the service does not run, are claimed of the others: a trigger already
running undoes both (see Divergences).

### NodeRuntimeUpdater, Nvm and RuntimeFiles

`unit`, `env`, `loaded`, `proc` and `meta` are the five places an application's
runtime lives: the `ExecStart` of the unit file, the head of `PATH` in the
environment file, systemd's copy of the unit, the process, and
`exec_interpreter` in `state.json`. `pc` is where the run is; the phases
`"rb_..."` are `_rollback`. `ctx[a]` is the frozen snapshot of an application,
`tx` the locals of the transaction, `rows` the report. Each action is one call
with its outcomes: done, failed without effect, and, where the call is more than
one system call, failed after its effect (a store that commits and cannot unlock,
a `systemctl` killed by its 30 s timeout). `daemon-reload` takes in the units of
*all* applications, as systemd does. The verifier takes `Window + 1` samples;
`steady` stands for "`MainPID` and `NRestarts` are those of the baseline".

Around the run, applications end and are restarted (`Die`, `Respawn`), cron
timers start stopped ones (`Trigger`), and the command may be killed and run
again (`Kill`, `Run`). Other administrators do not act: the documentation
excludes changes by others during the command. `before` is a ghost: files and
entries at the beginning of the run, against which the report is judged. With
rollback the entry is committed after the restart was verified, so that a failed
start restores an entry that never changed; with `--no-rollback` it is committed
before, so that what is kept after a failed start agrees with itself.

`ImplementsPromise` maps the run to `RuntimeChange`. Its `conf` is unit file, `PATH`
and entry of an application, `live` systemd's copy, `was` the ghost `before`. An
application is `open` from the first write of its transaction to the call that
writes its final row; the provisional `failed_restore` of a rollback and the
`not_updated` of an application still waiting are no verdict yet. Inspection,
preparation, restarts and samples are stutters; a killed run abandons its open
application as it stands. `Rewrite` is what a reader should look at: only the open
application changes, only to parts of what it had or is to have, and systemd takes
in all units or none.

`RuntimeFiles` opens what the updater takes as one step, "the files name the new
runtime". A file is a sequence of lines. The environment file has three readers
with grammars of their own: `generateEnvFile` writes it, `RuntimeConfig` reads it
line by line, and for systemd a quoted value may go on over several lines
(`Read`). Between updates, `zm2 start` regenerates the file and administrators
edit it, the unit and a drop-in. `Update` is atomic here (its steps, failures and
rollback are the updater's) and is offered for templates too, which the updater
skips before.

`Nvm` is `prepare` of `tools/Nvm.js`: find the runtime, save the default alias,
let `nvm install` run, put the alias back, verify. Its environment is the user's
own nvm, a second process, failures and deaths; a broken runtime or an alias that
is a link may be there at first.

### AppConfig

One start command: all configurations are verified (`Verify`) before any is
started (`Start`), then the file `-w` wrote is started again (`StartWritten`).
A value keeps its JavaScript type, since the code tests truth, type and `isNaN`,
and a string is a number followed by text. Users and groups are tables; names
that differ only in replaced characters share a unit (`Sanitized`).

### CommandLayer and ReloadLock

A command is `[do, on, file, force, to]`: what to do and the words or the apps of
a file. A process goes from target to target: it looks services up by name,
namespace, path, pattern or id, keeps their ids, and resolves each id again when
it acts (`Lookup`, `Act`, `Acted`, which is `_operate` with its retry by
namespace). A list may miss services that do not run (`Lists`); each call may
fail before, or half way through, its effect. `wanted` and `failed` are ghosts:
the services the words meant when the command began, and whether any part of it
failed. What an act does inside is `Lifecycle`'s. Apps of a file are taken one
after the other, although the code works on two at a time
(`CONCURRENT_ACTIONS`), and an application named by a number appears only with
one user: an id and such a name can be confused (see Known hazards).

`ReloadLock` is a file with a time stamp. Time is the age of that stamp; reading
it and writing one's own are two steps of the code and of the model. The ghost
`since` is how long ago a reload last went to work, so that `KeptOutBriefly` can
say by whom somebody is refused: an attempt that is refused, dies or fails to
write must not make the stamp younger. Nothing is assumed of time; that a stamp
left behind ends after 30 seconds is arithmetic, that nobody renews it is not.

### Modules and ModuleConf

`Modules` follows one command at a time through the steps of `NPM.js`, `TAR.js`,
`LOCAL.js` and `Modularizer.js`: back up the folder, drop the entry, remove the
folder, install, list, start, watch (`--safe`), revert. The apps of a tarball are
described by their names relative to the module's, because start and removal
compute the name of a process in two different ways (`StartedAs`, `DeletedAs`).
`ModuleConf` is the file: every change reads the whole of it, edits the copy,
truncates the file and fills it, without a lock. `set` then restarts the module it
was for; the restart may fail, the module keeps what it had, and the answer is
success all the same (`deaf`, a ghost, marks it).

### Snapshot and Migrate

`Snapshot` has the dump file and its backup, each absent, torn or a list, the
boot links, the units and what runs. `dump` lists, copies, truncates and writes;
`resurrect` loads and goes from app to app; `startup` and `unstartup` make one
`systemctl` call per service. Users stop, start and delete apps, the machine
reboots, the store may be lost, which is when `resurrect` is needed.

`Migrate` is the loop of `migrate`, one action per effect: look, install unit and
environment (merged: nobody else reads them), enable the timer, register, stop
PM2's process, enable, start. Its list comes from the daemon or from the first
dump file that parses. Entries may share a name (instances) or a unit. Every step
may fail or be the last of its process; `hurt` remembers which step that was for
which name, and `broke` which commands had a failing step, so that the properties
can except precisely what the code leaves undone: down after PM2 was stopped,
started twice where PM2 was not.

### ApiService and HttpServer

`ApiService` is `API.api` with its subcommands by several processes, and the
server as an actor of its own that loads the key, serves, fails and is started
again by systemd. Whoever finds no key file creates one, in two steps.
`HttpServer` is the server's requests: routed, refused without the key, answered
in one go or after their body was read, while services come and go and SIGTERM
asks it to finish what is open. A body is what it turns out to be. `answers` is what
the server writes and `heard` what reaches the client: after `req.destroy()`, and
after the client has gone, they differ.

## Runs

| Run | Question | Scenes and bounds | States |
|---|---|---|---|
| `store_mutate` | Do the operations of the store exclude each other, lose nothing, keep ids unique and implement `Registry`? | 2 processes, 1 fault, one retry; mutations: 2 services, 2 operations each; saves: 1 service in 2 versions, 3 operations each; three initial files: none, an old one whose counter is behind, a corrupt one | 790 000 |
| `progress` | Does every store operation end, and every update-node report? | store: 2 processes, 2 retries, 1 fault; updater: 3 applications (one legacy, one internal), 2 faults, 1 kill; no symmetry | 59 000 |
| `lifecycle` | What do failures, deaths, timers, reboots and a second process leave of a service? | failures and cron: 1 process, 4 commands, 2 faults, 2 configurations; concurrent: 2 processes, 2 services, 2 commands each, 1 fault | 335 000 |
| `update_transaction` | Is nothing started or committed that should not be? | 1 application in 20 conditions, 2 runtimes, 1 run, 4 faults, 3 samples, 1 kill | 52 000 |
| `update_rerun` | Are report and exit code true after killed and failed runs, and `RuntimeChange` implemented; is the user's nvm left as it was? | update: 2 applications, 3 runs, 2 faults, 1 kill, 2 samples; nvm: 2 processes, 2 versions, 2 installations, 2 faults, 1 act of the user | 970 000 |
| `modules` | Does what installation, update, removal and `set` report agree with folders, entries and services? | npm: 2 modules, 2 versions, 4 commands; tar: 3 modules, 3 commands; 2 faults; conf: 1 process, 4 changes; writers: 2 processes, 2 changes each | 1 140 000 |
| `commands` | Do the words of a command reach what they mean, does its exit code say so, and how long does the lock of reload keep others out? | lock: 3 processes, 3 reloads, 2 faults; words: 1 user, every form of a target, 2 commands, 1 fault, apps and a stray unit to start with or a stray unit alone; race: 2 processes, 3 commands, 1 fault | 446 000 |
| `boot` | Is what was saved, started at boot or migrated really there? | dumps: 2 processes, 3 commands, 2 faults, 1 act of a user; boot: 1 command at a time, 1 fault, 2 acts; apps: 2 migrations at once; twins: one after the other, 1 fault | 732 000 |
| `api` | Is the API up, listed, and are its answers true? | service: 2 processes, 3 commands, 2 faults; requests: 2 connections, 1 act of others, 1 fault | 193 000 |
| `apps` | Does a unit do what the options ask, and does update-node change nothing but the runtime? | start: every pair of 12 options with up to 7 values each, pairs of 9 kinds of applications; runtime: 5 units, 13 environments, 3 updates, 2 edits | 37 000 |
| `api_key` | Finding: the key printed is not the key served. | 1 process and the server, no faults | |
| `apps_lines` | Finding: a line of a value taken for PATH. | environments with a value of several lines | |

**Bounds.** Two processes and three operations are enough for the races of the
store, which are between the read of one and the rename of another; three
versions of the file make the staleness of a copy visible. One fault reaches
every state an orphan lock or a half-done operation leaves, and the operations
after it show what becomes of it; where the next command has to find what is left
*and* fail itself, there are two. A rollback needs one fault to begin and one for
each of its steps to fail, hence four in `update_transaction`; two applications
are what it takes for one's `daemon-reload` to touch the other. In the race scene
of the command layer a lookup, a removal and a registration are three commands.
Symmetry is used over processes, services and applications that are
interchangeable, and in no run with a liveness property. Deadlock is not checked
because processes that have done their operations stop: a zm2 process ends.

**Fairness.** A zm2 process inside an operation takes its next step
(`WF_vars(Step(p))`): the code is synchronous and its waits have timeouts. The
updater's own step likewise, and of the API server `ServerRestarts`, which is
systemd's `Restart=on-failure`, and the loading of its key. No fairness is assumed
of the start of operations, of faults, of users or of the operator. `OperationsEnd`
follows from the bound on the retries; weak fairness on `Acquire` would not be
enough, since a lock may stay forever.

## Findings

Two runs expect a violation:

- `api_key`: *README.md:144*, the key "is auto-generated on first run … It is
  printed on `zm2 api` and `zm2 api status`". `zm2 api` and the server it has just
  started both call `loadOrCreateApiKey` (`HttpApi.js:133`); each may find no
  file and make its own key, so the key printed is refused by the server.
- `apps_lines`: *README.md:335*, "only the absolute executable path in
  `ExecStart` is replaced, and the runtime's `bin` directory is prepended to the
  application `PATH`". An environment value of several lines, one of which begins
  with `PATH=`, is taken for the assignment (`RuntimeConfig.js` reads line by
  line, systemd does not): that value is changed and PATH is not.

## Divergences

The modules state further properties that a comment, a test, a description or the
documentation claims and the code does not keep. They are not runs of their own;
adding the property to the run's `.cfg`, with the constants given, makes TLC show
the behaviour.

Lifecycle.cfg (`NotRestartedDuringRemoval` as PROPERTY, the others as INVARIANTS):

| Property | Scenes | Said | Done |
|---|---|---|---|
| `NotRestartedDuringRemoval` | `{"removal"}` | Systemd.js:88 "Stop the optional cron timer first, so it cannot restart a service during removal" | a trigger that is already running still can |
| `TimerHasFile` | `{"race"}` | Systemd.js:89 "Return its files for deletion only after all stops/disables have succeeded" | removal asks once, before its first call, whether there is a timer (Systemd.js:93): one that another process sets up meanwhile stays on without its file |
| `NoAutostartStaysOff` | `{"autostart"}` | README.md:251 "Start an app without enabling it on boot" | `_prepare` always enables (SystemdClient.js:362) |
| `ForceReexecutes` | `{"force"}` | API.js:744 "add -f option to force re-execution" | `systemctl start` does nothing to a running service |

Modules.cfg (as INVARIANTS):

| Property | With | Said | Done |
|---|---|---|---|
| `UpdatedModuleRuns` | `Scenes = {"npm"}` | NPM.js:168, 272 "Updating.", "installed and launched" | the former code runs on |
| `UninstallStops` | `{"npm"}` | CLI.js:444 "stop and uninstall a module" | the service stays registered and runs: nothing sets `pmx_module` |
| `RestoredIsListed` | `{"npm"}` | NPM.js:231 "module has been restored to prev version" | its entry is not written back |
| `LocalFailureShows` | `{"tar"}` | LOCAL.js:85 "installation has FAILED" | the error is received as another parameter (LOCAL.js:55) |
| `UninstallDeletesApps` | `{"tar"}`, `TarApps <- LongerApps` | TAR.js:205 "delete process and delete folder" | an app whose name contains the module's is not found |
| `Pm2AttributeInstalls` | `{"tar"}`, `TarField <- FieldPm2` | TAR.js:31 attribute "pm2" declares the apps | `needPrefix` throws for one app (TAR.js:359) |

Commands.cfg (`OneReload` as INVARIANT with `Forms = {"plain"}`, the others as
PROPERTIES):

| Property | Said | Done |
|---|---|---|
| `DeleteAllSparesModules` | API.js:1312 "When using shortcuts like 'all', do not delete modules" | `getAllProcessIdWithoutModules` returns every id (SystemdClient.js:688) |
| `KillOnlyStops` | CLI.js:782 "stop all zm2 managed services" | kill deletes units and entries |
| `ScaleScales` | CLI.js:334 "scale up/down a process" | `duplicateProcessId` is refused and the refusal ignored (API.js:1613) |
| `OneReload` | test/programmatic/reload-locker.mocha.js:43 "should trigger one reload and forbid the second" | two reloads may both find the file free (Common.js:88) |

Boot.cfg (the first three as PROPERTIES, the others as INVARIANTS):

| Property | Said | Done |
|---|---|---|
| `FallsBackOnBackup` | test/e2e/cli/resurrect.sh:20, 27 "should resurrect from backup" | the backup is never read (API.js:1938) |
| `ResurrectAgain` | test/e2e/cli/resurrect.sh:13 "should resurrect from dump" | an app that runs counts as a failure (API.js:743) |
| `UnstartupIsComplete` | Startup.js:90 "Disable all zm2-managed services" | failures are messages (Startup.js:139) |
| `DryRunIsTrue` | CLI.js:534 "show what would be migrated" | entries that share a unit are all counted (Migrate.js:276) |
| `FreedFirst` | Migrate.js:318 "Stop the PM2 process first to free ports/resources" | the timer is started before (Migrate.js:299) |
| `SkippedIsMigrated` | Migrate.js:268 "Check if already migrated" | an entry left by a failed migration is enough (Migrate.js:269) |
| `MigratesRunning` | README.md:283 "your running PM2 processes" | stopped ones are started too (Migrate.js:200) |

Api.cfg: `PortIsTaken` as INVARIANT with `Ports = {n1, n2}`: README.md:142 "override
with --port"; a running API keeps its port and the command reports success
(API.js:1762).

Apps.cfg (as INVARIANTS, with `Commands <- StatedCommands`, `Scenes = {"start"}`):

| Property | Said | Done |
|---|---|---|
| `SignalAsAsked` | README.md:271 `kill_signal` | not in schema.json, dropped |
| `CodesAsAsked` | README.md:272 `stop_exit_codes` | a list of one code becomes a number and is ignored (Config.js:174) |
| `GroupAsAsked` | README.md:274 `gid` | root is 0, taken for none (UnitGenerator.js:148) |
| `MemoryIsPositive` | types/index.d.ts:464 "'K' for kilobytes" | below 512 K the limit is 0M (UnitGenerator.js:28) |
| `RightsOfUid` | CLI.js:45 "with <uid> rights" | the group of the file's user stays (API.js:905) |
| `ArgsAsAsked` | types/index.d.ts:421 | arguments are joined unquoted (UnitGenerator.js:100) |
| `NameFindsIt` | types/index.d.ts:411 | names that share a unit replace each other (UnitGenerator.js:113) |

## Proofs

TLC checks a small instance; the theorems below hold for every value of the
constants that the named assumptions admit: any number of processes, services,
applications, modules, commands, failures and reboots. The bounds of the runs
(`MaxOps`, `MaxFaults` and their like) are constants of the proofs too. The
assumptions say that bounds are numbers, that the marks for "nothing" and "torn"
differ from the data beside them, and that the services or applications the code
takes one by one are finitely many. Some say more, as the code or the deployment
does:

| Assumption | What it says of the world |
|---|---|
| `StoreAssumption` | the file of the beginning has unique ids: only an editor writes another, and loading does not ask |
| `LifecycleAssumption` | the services which may have a timer are services |
| `CommandsAssumption` | modules are given the commands that exist |
| `SettingsAssumption` | settings name modules, keys and values that exist (`SoundRequests`) |
| `BootAssumption` | PM2's lists are sequences of entries, and a name has one unit (`SoundLists`) |
| `AppConfigAssumption` | users and groups are tables with unique names and ids, whose root has group 0 and whose users have groups that exist; limits are no arrays, users are given by text or number, and root by uid not together with another user; a command line is given where bash is the usual interpreter; the applications of a file have names of their own |

Every inductive invariant was checked by TLC, as an invariant of the run of its
module, before it was proved:

| Module | TLC on its inductive invariant, distinct states |
|---|---|
| `StateStoreProofs` (`IInv`) | 790 000 |
| `LifecycleProofs` (`IInv`, `JInv`) | 335 000 |
| `NodeRuntimeUpdaterProofs` (`IInv`) | 52 000 with four faults, 973 000 with three runs |
| `SnapshotProofs` (`IInv`) | 255 000 |
| `SnapshotProofs` (`MigInv`, `ApartInv`) | 732 000 |
| `ApiServiceProofs` (`IInv`, `HttpInv`) | 193 000 |
| `AppConfigProofs` (`IInv` but for membership in sets of all configurations) | 7 100 |
| `AppConfigProofs` (`FilesInv`) | 30 000 |
| `ModulesProofs` (`IInv`) | 666 000 |
| `ModulesProofs` (`ConfInv`) | 1 140 000, the modules beside it |
| `ReloadLockProofs` (`CmdInv`, `DoneInv`) | 387 000, no app being named by a number |
| `ReloadLockProofs` (`HeldByWorker`, `StampIsOld`) | 446 000 |

**Two components of one zm2.** Where a run has two components side by side, each has
its invariant for its own specification, and the theorem about the run's property
is one of their interleaving, the `HostSpec` of the composing module: each step of
it is a step of one component and a stutter of the other, so both specifications
follow from `HostSpec`, and with them what was proved of each alone.

| Theorem | About | States |
|---|---|---|
| `SafeRuntimes` | `UpdateNode` | `HostSpec => []RuntimesAreSafe` |
| `SettingsReported` | `ModuleSettings` | `HostSpec => []SettingsAsReported` |
| `SurvivesDeaths` | `ModuleSettings` | `HostSpec => DeathsAreSurvived` |
| `NothingLost` | `Boot` | `HostSpec /\ []Apart => []NothingIsLost` |
| `ActAsAsked` | `Cli` | `HostSpec => ActsAsAsked` |
| `RequestsAnswered` | `Api` | `HostSpec => []RequestsAsAnswered` |
| `RuntimeOnly` | `Apps` | `HostSpec => OnlyRuntimeChanges` |

**StateStore.** `TypeCorrect`, `Exclusion`, `IdsStayUnique` and `CommitsAreFresh`
are the invariants of `store_mutate`, `LockStays` and `CorruptKept` its action
properties, and `Refinement` is `Spec => ImplementsRegistry`. None of the
invariants is inductive alone. `IInv` joins them with `Performing` (a process past
`acquire` has an operation, what it is about to commit has unique ids, a `save`
has a copy) and `CopiesSound` (every loaded copy has unique ids and a counter
above them, and a copy whose base is the present file differs from it in values
only). `NoLostCommit` is the heart: the file changes only at a `Commit`, whose
process owns the lock (`LockExclusion`), so between `Stage` and `Commit` of one
process no other changes the file. `ApartKeepsFresh` states that once for every
step of another process. The refinement lemmas show one concrete step each to be
the abstract step with the same caller; `RefineCommit` splits on the kind of
operation, and needs `NoLostCommit` to know that the committed state was computed
from the *present* map, and `Normalize` to know that the next id is above every
id ever used.

**ReloadLock.** `TypeCorrect` and `LockHeldByWorker` (`Spec => []HeldByWorker`).
The stamp and its ghost `holder` change together, and a holder leaves `work` and
`unlock` only by emptying the file. `RefusedBriefly` is `Spec => KeptOutBriefly`: the
stamp is never younger than the last reload that went to work (`StampIsOld`, inductive
with the types), because whoever writes it goes to work with the same step.

**CommandLayer.** Commands hold nothing, so what a lookup found may be gone when the
command acts on it. `CmdInv` says what survives: ids differ and are below `next`
(`IdsDiffer`), so that an id a command still holds is its service's or nobody's
(`AllLooked`), and what went wrong is noted in the command before it goes on
(`AllNoted`). From the first comes `TouchesMatches`, from the second `TruthAtEnd`.
`SoundWords` is assumed: ids, units and names are different strings, no app being
named by a number (see Known hazards). `SoundStart`: what is installed at first is a
sequence of names.

The third part of `ActsAsAsked`, `EndsDone`, is about a command that nobody works
beside and whose lists were whole. Its invariant is `DoneInv`: for each service that
the words meant, the command has something ahead of it that leads there (`Pending`),
be it a word that still means it (`Sought`), the id by which it will be found
(`Held`), or its place among the apps to start; or it is in the state asked for
already, or an error is noted. `Staged` says what each step relies on, so that the
words mean later what they meant at first, and `Alone` that two commands which both
believe themselves alone are one. An act fulfils what is asked of one service and
disturbs no other, because the id of another leads to that one (`EntryOf`); and a
lookup which finds nothing by name has only a namespace or a number before it
(`LookupFinds`, `SpaceFinds`). `DoneAtEnd` reads it off the last step. Two more
hypotheses: `SoundCommands`, what is typed are sequences of words and files of apps,
and kill takes no file; `OneMeaning`, no app is named like a namespace, a script, a
shortcut or a pattern. Without `OneMeaning` a word may mean one thing as its command
begins and another when it is looked up: `start b.js x`, where the script starts an
app x and x is also a namespace, starts that app and then nothing of the namespace.

The proof changed the property. `EndsDone` asked that the command was alone and its
lists whole *before* its last step, and was false: `kill` counts the services in the
step in which it ends, and where systemctl fails there and the only service is a
unit without an entry, it finds nothing to kill and ends with success (Systemd.js:412,
API.js:548). No start of the run had such a host; one has now, and the property
counts the last list among those that must be whole.

**Lifecycle.** What a command has yet to do is a sequence, so the invariant must
speak of the *rest of a program*. `Planned`: the calls left are in the order of
the plan and about the services of the command. `Lasting`: everything an unopposed
command must leave behind (a unit and environment, a boot link, a timer, an entry,
or the absence of each) is there already or is still among its calls. `Unopposed`:
nobody busy may undo an unopposed command. With the shapes of commands and answers
these are `IInv`; a command that has ended has no call left, so that all of it is
there: `Started`, `DeletedAnyway`; `Registers` follows from the order of the calls.
`JInv` adds timers and processes, in two kinds. *Of services without a timer* for
any number of processes: nothing arms them, so what was stopped stays stopped
(`StopsForGood`). *Where one process has been at work* (`OneAtWork`): a timer has
its unit (`TimersHaveTargets`), what runs can be named (`Manages`). `Deleted` and
`Forgets` speak of the timer as well and need either no timer or one process: a
removal does not ask again whether there is one (Divergences, `TimerHasFile`). The
properties of the run are these theorems within the scenes of the run; the guard of
a theorem is the scene.

**NodeRuntimeUpdater.** `IInv` says where the run is and what its loops have still
to take (`Control`), that what inspection kept of an application is what it was
(`Remembers`), that the row of every settled application tells the truth
(`Reported`), what the locals of the transaction are good for (`Underway`) and what
it has made of its application so far (`World`). All five are needed: `Reported` of
the application in the transaction follows only from `World` at the phase where
the row is written, and `World` across a rollback needs `Remembers`. From it
`TrueReport`, `CompleteZero` and `VerifiedRuns`, and, step by step,
`StaysStopped` and `StartsWhole`. The interference of
systemd — an application ends, is respawned, is started by its timer at any
moment, or a `daemon-reload` takes in everybody's unit — is in the invariant by
saying of a running process only which of the loaded units it was made from.

`KeepsPromise` is `Spec => ImplementsPromise`, with one more invariant (`Closing`: an
error of the whole run ends it, and nothing is prepared for nobody). `EachCall`
shows every call of a transaction to be a `Rewrite` of its own application that
goes on or closes; that what it closes with is true is `Reported` in the state
after it. `Leaves` does the same for rows of applications that are not touched,
and `Finishes` for the exit code: a run that fails as a whole has an application
without verdict. `PromiseSuffices` is about the abstract specification alone, its
variables unopened: rows stay true while others are changed, and exit code 0
finds every application on the requested runtime but those set aside.

**Nvm.** `Undisturbed` is the argument: while nothing is excused, nobody else
installs, whoever installs holds the alias of the user's choice, and the alias in
place is the user's unless its owner is about to put it back; `Asked` says which
runtime a process is after. What is excused is named in `AliasIsKept`: an overlap of
two installations, a death in one, the user's own nvm beside one, and a restoration
that failed and was reported (see Known hazards). `OkIsVerified` has no exception.
`AliasKept`, `OkVerified`, and, of update-node beside its installations,
`SafeRuntimes`. Composing the two asked for what `Nvm` alone never said, that the
marks for a torn alias and for a link are no versions (`HostAssumption`).

**Snapshot.** `IInv` is the types, what each command relies on at each of its steps
(`Underway`), `OneDump`, and `Copied`: how many of the two files hold a list at
each step of a dump and after which failures. `GoodCopy`, `BootsRight`, `Typed`.

**Migrate.** `MigInv`: an owner of a unit that PM2 still runs is about to be stopped
there (`Once`), who is in the store runs and starts at boot or is about to
(`Brought`), legacy templates and what PM2 runs under their names are left alone
(`Spared`), who is asked for is in the store or yet to come (`MigReports`), each
owner is an application of its unit (`Owners`), and what each step relies on
(`MigPlace`). What a failure or a death leaves depends on the step it comes at, so
`hurt` keeps the name together with the step, and each property excepts the steps it
must: `RunsSomewhere` those after PM2 was stopped (enable, start), where the
application is down but in the store and installed; `RunsOnce` a stop by PM2 that
failed, a death before it, and a timer enabled before the registration that then
failed; `SuccessIsComplete` an entry that an *earlier* migration left when it failed
(`SkippedIsMigrated`). `Migrated` follows. `GoesOnRunning` needs `ApartInv`, which
adds that an application between PM2 and its unit is claimed by one migration
(`Claims`), and the hypothesis `Apart`: two names that share a unit are not migrated
at the same time (the second would replace the unit of the first). The list is
filtered before it is walked (`Kept`, a recursive function): that what is kept is a
sequence of entries is `KeptEntries`, shown by a least counterexample (`Least`),
since the library's induction theorems cannot be used. `NothingLost` joins the parts
under the run's property; `Apart` is its hypothesis because `RunsSomewhere` is part
of it, and the run's scenes (`apps`, `twins`) are the two ways to keep it.

**ApiService.** Unit file and entry are one fact in two places. `Underway` says in
which steps they are apart, `Alone` and `Stopped` what holds while no two commands
overlap, `Given` that whoever writes the key found none. `Managed` and `KeyKept`.

**HttpServer.** `AllServed` follows a request from its first byte to its only answer
and says who hears it, `Drained` what SIGTERM leaves open. `Answered`,
`AnsweredTruly` and `Drains` are the parts of `RequestsAnswered`.

**Modules.** `Place` says which commands reach a step, the other parts what holds
there of an installation, an update that is to be taken back, a removal and a
launch. `AsReported` (`Spec => []ModulesAsReported`) and `CodeStays` (`Spec =>
ListedHasCode`, the larger part of `DeathsAreSurvived`). The proof of the second
failed on the property as it was first stated, and rightly: when an entry cannot
be removed, npm then fails and zm2 dies, the half-installed folder stays listed;
the next update backs *it* up, and `--safe` puts it back. That takes three faults,
one more than the run has. `ListedHasCode` now excepts a backup of an interrupted
update.

**ModuleConf.** Changes read the whole file, edit the copy and write it back, without a
lock. `ConfInv` follows a command nobody overlapped from the file it found to its
answer (`Follows`), and to what its module was handed, if the restart did not fail.
`SettingsStored` and `TornStays` are about the file alone;
`SettingsReported` and `SurvivesDeaths` about the file beside the modules.

**AppConfig.** `AsAsked` is `Spec => []UnitAsAsked`: whatever options are combined,
a command that succeeds leaves units with the limits, the restarts and the rights
that were asked for, of programs that are there, a command line given as script
being one argument (other arguments are `ArgsAsAsked`'s, see Divergences), and
starting what `-w` wrote makes the same units again. The verifier is a function of
data, so the lemmas follow one option at a time through it: what a limit is
afterwards (`LimitIs`), a switch (`ToggleIs`), and that verifying what was verified
changes nothing (`Twice`, `VerifiedAgain`: the reason that a written file can be
read). `ResolveUser` turns names into ids; `StandsAsAsked` says that the user and
group of the unit are those of the names, `StandsAgain` that ids resolve to
themselves. `UnitLimits`, `UnitRestart` and `UnitRights` are the parts of the
property for one unit, and `IInv` says from which configuration each unit comes
(`WorldSoFar`): the last whose program is there and whose name is that service's.
Hypothesis `SoundGroups`: nobody asks for root's group who is not in it, nor root
for another one; without it the property is false, as `GroupAsAsked` shows
(Divergences). The proof also failed once on the property itself: a limit of `"0"`,
given as text, is true for JavaScript, verified to 0, and then left out of the unit.
`LimitsAsAsked` now says that no limit, or a limit of zero, leaves the directive
out, and `"0"` and `"0K"` are among the values of the run.

**RuntimeFiles.** `RuntimeOnly` follows the line of PATH. `Follows` says of a file that
it is another with that line rewritten or added, and under it systemd reads the same:
the same lines lie inside a longer value (`SameInside`), the same assignments start
(`SameStarts`), every other key ends on the same line (`OthersFinal`) with the same
lines after it (`SameGoesOn`), and PATH is the line that was written (`PathIsM`). That
`buildEnvContent` makes such a file is `Builds`. What becomes of the entries is
`KeptFacts`, again by a least prefix: what stays is in order and not the runtime's, and
one entry fewer means that the first was the only one of the runtime, which is the
test by which the code knows that it has nothing to do (`SettledOnce`). `FilesInv`
joins what makes the step repeatable: no value is open at the end of the file, the
last line that looks like a PATH is no part of a value, and files last written for a
runtime are settled for it (`WrittenFor`), so that they are not written again.
Two hypotheses. `SoundFiles` asks of what users write that the last line that looks
like a PATH is one: without it the property is false, which is what run `apps_lines`
shows. `OwnDirectories`: DEFAULT_PATH does not hold the bin directory of the runtime;
it is appended unfiltered (RuntimeConfig.js:602, 650), and would name it twice.

**Only model-checked.** Liveness (`OperationsEnd`, `Resolves`, `ApiComesUp`): the
prover has no fairness reasoning.

## Known hazards without a property

- `_persistInterpreter` reads an entry without the lock and replaces it whole
  (NodeRuntimeUpdater.js:764): a register in between is undone. The documentation
  excludes other administrators, and so does the model.
- A process that still runs the old Node under a configuration that is current is
  skipped with exit code 0 (NodeRuntimeUpdater.js:1072); `ExitZeroIsComplete`
  speaks of configuration only.
- A store change that fails at the end of a delete leaves an entry without unit
  (SystemdClient.js:553). An app prepared again without `cron_restart` keeps its
  former timer (SystemdClient.js:366).
- An id that is free again equals the numeric name of an app
  (SystemdClient.js:417).
- A word that names a namespace at first may name an app when it is looked up
  (API.js:1367): see `OneMeaning` under Proofs.
- Two reloads may pass the lock (Common.js:88; `OneReload` shows it).
- The user's default alias is lost when two installations overlap (the second takes
  what the first made default for the user's and puts that back, Nvm.js:204, 219)
  and when a zm2 dies between `nvm install` and the restoration (Nvm.js:211 to
  219); `AliasIsKept` excuses both.
- An application whose enable or start fails in a migration, after PM2 was told to
  stop it, is down (Migrate.js:318 to 331). It is in the store and installed, and
  PM2 is not asked to start it again. One that PM2 could not stop runs twice, and
  the error is ignored (Migrate.js:325); `NothingIsLost` names both.
- `set` and `multiset` answer success although the module they are for could not be
  restarted and goes on with its old configuration (API/Configuration.js:83 to 93,
  121 to 130); `SettingsAsReported` speaks of restarts that did not fail.
- The client of a body over 64 KB sees its connection reset and never the 400: the
  socket is destroyed before the answer is written (HttpApi.js:168 to 172).
- A server that reads the key file between its creation and its filling serves an
  empty key (HttpApi.js:138). A body whose chunks split a character is decoded in
  halves (HttpApi.js:167).
- The backup of a module stays in the temporary directory (NPM.js:443).

## Not modelled

- Logs, monitoring, listing and the wording of messages: presentation.
  `Extra.js`, deployment, static file serving, Docker: external commands without
  state. The front ends: option parsing and dispatch.
- In `Lifecycle`: legacy templates, signals and `reset-failed`. In the command
  layer: options that only change the configuration of an app (`--env`,
  `--update-env`, `--write`), actions sent to a pipe. In `AppConfig`: `env_*`
  sections, log paths, the formats of configuration files, a group for root. In
  `UnitGenerator`: cron to calendar, escapes inside values. In `Modules`:
  packaging, publishing, the generator of samples, development mode. Reading
  commands of the module configuration and its interactive editor.
- Owners and modes of files; `fsync` and loss of power: a rename is taken to be
  durable.
- A failing `_prepare` is one outcome in every module but `Lifecycle`, which has
  its steps.

## Plan

1. `cronToCalendar` against the meaning of a pattern.
2. Legacy templates in `Lifecycle`.
