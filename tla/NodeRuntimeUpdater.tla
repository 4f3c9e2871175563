-------------------------- MODULE NodeRuntimeUpdater -------------------------
(***************************************************************************)
(* zm2 update-node: src/lib/Systemd/NodeRuntimeUpdater.js with the         *)
(* RuntimeConfig.js and RuntimeVerifier.js it drives.                      *)
(*                                                                         *)
(* A run inspects every registered application, prepares one Node runtime  *)
(* and then takes the eligible applications one after the other through a  *)
(* transaction over things no transaction covers: the unit file, the       *)
(* environment file, the configuration systemd holds, the running process  *)
(* and the entry in state.json.  Each of its calls may fail, the           *)
(* application may die or be started by systemd at any moment, and the     *)
(* command may be killed between two calls and be run again.               *)
(*                                                                         *)
(* Files and runtimes are the data, so a unit or environment file is the   *)
(* runtime it names.  An application is one service: assertSingle rejects  *)
(* the legacy templates before anything is read, so the loops over         *)
(* instances go round once.                                                *)
(***************************************************************************)
EXTENDS Integers, FiniteSets

CONSTANTS
    Apps,       \* registered applications
    Legacy,     \* those with a multi-instance entry or unit template
    Internal,   \* the HTTP API service of zm2 itself
    Triggered,  \* those that something outside zm2 starts: a cron timer
    Runtimes,   \* Node executables, each with its bin directory
    None,       \* no file, no application
    InitHosts,  \* what an application may look like before the first run
    Window,     \* samples the verifier takes after its baseline
    MaxRuns,    \* bound: runs of the command
    MaxFaults,  \* bound: failed calls and deaths of applications
    MaxKills    \* bound: runs that are killed

VARIABLES
    \* the machine
    unit,    \* runtime that ExecStart names in the unit file
    env,     \* runtime whose bin directory leads PATH in the environment file
    loaded,  \* runtime of the unit definition systemd holds in memory
    proc,    \* the service process: its state and the executable it runs
    meta,    \* exec_interpreter of the entry in state.json
    \* the run
    pc, target, rollback,
    left,         \* applications the current loop has still to take
    cur,          \* application in the transaction
    ctx,          \* what inspection found of each prepared application
    rows,         \* the report
    globalError,  \* report.globalError is set
    tx,           \* locals of the transaction
    steady,       \* MainPID and NRestarts are those of the verifier's baseline
    \* ghosts and bounds
    before,  \* files and entry of each application when the run began
    runs, faults, kills

files == <<unit, env, loaded, meta>>
locals == <<target, rollback, ctx, globalError>>
bounds == <<before, runs, kills>>
updater == <<pc, target, rollback, left, cur, ctx, rows, globalError, tx>>
vars == <<files, proc, updater, steady, bounds, faults>>

-----------------------------------------------------------------------------
(* Data.                                                                   *)

\* exec_interpreter: node, node@version, a path to Node, or something else.
Node == [kind |-> "node"]
Other == [kind |-> "other"]
Pin(r) == [kind |-> "pin", runtime |-> r]
Path(r) == [kind |-> "path", runtime |-> r]
Interpreters == {Node, Other} \cup {Pin(r) : r \in Runtimes}
                              \cup {Path(r) : r \in Runtimes}

\* ActiveState/SubState: active/running, inactive/dead, failed/failed,
\* activating/auto-restart, and a job that has not finished.
Unstarted == {"dead", "failed", "auto", "job"}
Running(r) == [state |-> "running", exec |-> r]
Down(s) == [state |-> s, exec |-> None]
Processes == {Running(r) : r \in Runtimes} \cup {Down(s) : s \in Unstarted}

Statuses == {"none", "not_updated", "skipped", "updated", "failed_unchanged",
             "failed_restored", "failed_restore", "failed_no_rollback"}
Row(status, verified) == [status |-> status, verified |-> verified]
NoRows == [a \in Apps |-> Row("none", FALSE)]

Hosts == [unit : Runtimes, env : Runtimes \cup {None}, proc : Processes,
          meta : Interpreters]
Contexts == [active : BOOLEAN, unit : Runtimes, env : Runtimes \cup {None},
             meta : Interpreters]
NoContext == [a \in Apps |-> None]

NoTx == [config |-> FALSE, meta |-> None, errors |-> FALSE, restored |-> TRUE,
         sample |-> 0]

ASSUME UpdaterAssumption ==
    /\ IsFiniteSet(Apps) /\ Legacy \subseteq Apps /\ Internal \subseteq Apps
    /\ Triggered \subseteq Apps
    /\ None \notin Runtimes /\ None \notin Apps /\ None \notin Contexts
    /\ InitHosts \subseteq Hosts
    /\ Window \in Nat \ {0} /\ MaxRuns \in Nat /\ MaxFaults \in Nat
    /\ MaxKills \in Nat

Phases == {"idle", "done", "inspect", "prepare", "update", "unit", "env", "reload",
           "commit", "restart", "verify", "rb_unit", "rb_env", "rb_reload",
           "rb_meta", "rb_start", "rb_again", "rb_verify", "rb_stopped", "rb_end"}

TypeOK ==
    /\ unit \in [Apps -> Runtimes] /\ loaded \in [Apps -> Runtimes]
    /\ env \in [Apps -> Runtimes \cup {None}]
    /\ proc \in [Apps -> Processes] /\ meta \in [Apps -> Interpreters]
    /\ pc \in Phases /\ target \in Runtimes /\ rollback \in BOOLEAN
    /\ left \subseteq Apps /\ cur \in Apps \cup {None}
    /\ ctx \in [Apps -> Contexts \cup {None}]
    /\ rows \in [Apps -> [status : Statuses, verified : BOOLEAN]]
    /\ globalError \in BOOLEAN /\ steady \in BOOLEAN
    /\ tx \in [config : BOOLEAN, meta : Interpreters \cup {None}, errors : BOOLEAN,
               restored : BOOLEAN, sample : 0 .. Window]
    /\ before \in [unit : [Apps -> Runtimes], env : [Apps -> Runtimes \cup {None}],
                   meta : [Apps -> Interpreters]]
    /\ runs \in 0 .. MaxRuns /\ faults \in 0 .. MaxFaults /\ kills \in 0 .. MaxKills

Fault == faults < MaxFaults /\ faults' = faults + 1
NoFault == UNCHANGED faults

\* finalizeReport
Failures == {"failed_unchanged", "failed_restored", "failed_restore",
             "failed_no_rollback"}
ExitCode == IF globalError \/ \E a \in Apps : rows[a].status \in Failures \cup {"not_updated"}
            THEN 1 ELSE 0

Init ==
    /\ \E h \in [Apps -> InitHosts] :
          /\ unit = [a \in Apps |-> h[a].unit]
          /\ loaded = [a \in Apps |-> h[a].unit]
          /\ env = [a \in Apps |-> h[a].env]
          /\ proc = [a \in Apps |-> h[a].proc]
          /\ meta = [a \in Apps |-> h[a].meta]
    /\ pc = "idle" /\ target \in Runtimes /\ rollback = TRUE
    /\ left = {} /\ cur = None /\ ctx = NoContext /\ rows = NoRows
    /\ globalError = FALSE /\ tx = NoTx /\ steady = FALSE
    /\ before = [unit |-> unit, env |-> env, meta |-> meta]
    /\ runs = 0 /\ faults = 0 /\ kills = 0

-----------------------------------------------------------------------------
(* Selection: run and the first half of _execute.                          *)

\* updateNode(version, {rollback}): a new updater, a new report.
Run ==
    /\ pc \in {"idle", "done"} /\ runs < MaxRuns
    /\ \E v \in Runtimes, rb \in BOOLEAN :
          target' = v /\ rollback' = rb
    /\ pc' = "inspect" /\ left' = Apps /\ cur' = None
    /\ ctx' = NoContext /\ rows' = NoRows /\ globalError' = FALSE /\ tx' = NoTx
    /\ before' = [unit |-> unit, env |-> env, meta |-> meta]
    /\ runs' = runs + 1
    /\ UNCHANGED <<files, proc, steady, kills>> /\ NoFault

\* An invalid version, no systemd, an ambiguous sudo or an unreadable
\* state.json: the report holds the error and no row.
Refuse ==
    /\ pc = "inspect" /\ left = Apps /\ rows = NoRows /\ Fault
    /\ globalError' = TRUE /\ pc' = "done" /\ left' = {}
    /\ UNCHANGED <<files, proc, target, rollback, cur, ctx, rows, tx, steady, bounds>>

\* The metadata naming a path or an exact version that the unit does not run.
MetadataMatches(a, versionKnown) ==
    /\ meta[a].kind = "path" => meta[a].runtime = unit[a]
    /\ meta[a].kind = "pin" /\ versionKnown => meta[a].runtime = unit[a]

\* What the manager holds taken on trust.
InspectableBlind(a, versionKnown) ==
    /\ MetadataMatches(a, versionKnown)
    /\ proc[a].state \in {"running", "dead"}

\* RuntimeConfig.inspect compares the effective ExecStart with the unit file;
\* _readInstances accepts active/running and inactive/dead.
Inspectable(a, versionKnown) ==
    /\ unit[a] = loaded[a]
    /\ MetadataMatches(a, versionKnown)
    /\ proc[a].state \in {"running", "dead"}

Snapshot(a) == [active |-> proc[a].state = "running", unit |-> unit[a],
                env |-> env[a], meta |-> meta[a]]

\* The row that selection gives an application, and its context if it stays.
Inspected(a, row, c) ==
    /\ rows' = [rows EXCEPT ![a] = Row(row, FALSE)]
    /\ ctx' = [ctx EXCEPT ![a] = c]
    /\ left' = left \ {a}
    /\ UNCHANGED <<files, proc, pc, target, rollback, cur, globalError, tx, steady, bounds>>

\* An entry that activates several instances, before it is classified.
InspectLegacy(a) ==
    a \in Legacy /\ Inspected(a, "failed_unchanged", None) /\ NoFault

Eligible(a) == a \notin Internal /\ meta[a].kind # "other"

\* _classify
InspectOther(a) ==
    a \notin Legacy /\ ~Eligible(a) /\ Inspected(a, "skipped", None) /\ NoFault

\* _inspectEntry; the old executable may refuse to tell its version.
InspectNode(a) ==
    /\ a \notin Legacy /\ Eligible(a)
    /\ \E versionKnown \in BOOLEAN :
          /\ IF versionKnown THEN NoFault ELSE Fault
          /\ IF Inspectable(a, versionKnown)
             THEN Inspected(a, "not_updated", Snapshot(a))
             ELSE Inspected(a, "failed_unchanged", None)

\* A unit that cannot be parsed, drop-ins, a query that fails.
InspectFails(a) ==
    /\ a \notin Legacy /\ Eligible(a)
    /\ Inspected(a, "failed_unchanged", None) /\ Fault

Inspect ==
    /\ pc = "inspect"
    /\ \E a \in left : InspectLegacy(a) \/ InspectOther(a) \/ InspectNode(a) \/ InspectFails(a)

Prepared == {a \in Apps : ctx[a] # None}

EndOfInspection ==
    /\ pc = "inspect" /\ left = {} /\ NoFault
    /\ pc' = IF Prepared = {} THEN "done" ELSE "prepare"
    /\ UNCHANGED <<files, proc, locals, left, cur, rows, tx, steady, bounds>>

\* nvm.prepare and _validateRuntime
Prepare ==
    /\ pc = "prepare" /\ NoFault
    /\ pc' = "update" /\ left' = Prepared
    /\ UNCHANGED <<files, proc, locals, cur, rows, tx, steady, bounds>>

\* The preflight of the directories or nvm fails: _markNotUpdated.
PrepareFails ==
    /\ pc = "prepare" /\ Fault
    /\ globalError' = TRUE /\ pc' = "done"
    /\ rows' = [a \in Apps |-> IF a \in Prepared THEN Row("not_updated", FALSE) ELSE rows[a]]
    /\ UNCHANGED <<files, proc, target, rollback, left, cur, ctx, tx, steady, bounds>>

-----------------------------------------------------------------------------
(* The transaction of one application: _updatePrepared.                    *)

old == ctx[cur]
On == cur # None

\* The row settled, the loop goes on.
Settle(status, verified) ==
    /\ rows' = [rows EXCEPT ![cur] = Row(status, verified)]
    /\ pc' = "update" /\ cur' = None /\ tx' = NoTx
    /\ steady' = FALSE

\* Reads only: the next call of the transaction.
Proceed(phase) == pc' = phase /\ UNCHANGED <<cur, rows, tx>>

\* _rollback: the row is failed_restore until everything is back.
Rollback ==
    /\ rows' = [rows EXCEPT ![cur] = Row("failed_restore", FALSE)]
    /\ pc' = IF tx.config THEN "rb_unit" ELSE "rb_meta"
    /\ UNCHANGED <<cur, tx>>

\* PATH forgotten.
ChangedUnit(c) == c.unit # target

\* plan: ExecStart or the head of PATH differs.
Changed(c) == c.unit # target \/ c.env # target

TakeNext ==
    /\ pc = "update" /\ cur = None
    /\ \E a \in left : cur' = a /\ left' = left \ {a}
    /\ UNCHANGED <<files, proc, pc, locals, rows, tx, steady, bounds>> /\ NoFault

\* The runtime is configured and the entry, as enumerated, names it.
AlreadyCurrent ==
    /\ pc = "update" /\ On /\ NoFault
    /\ ~Changed(old) /\ old.meta = Path(target)
    /\ Settle("skipped", FALSE)
    /\ UNCHANGED <<files, proc, locals, left, bounds>>

\* The entry not kept for the rollback.
RememberedNoMeta == [NoTx EXCEPT !.config = Changed(old)]
Remembered == [NoTx EXCEPT !.config = Changed(old), !.meta = meta[cur]]

\* plan and _rememberRollback, which reads the entry from the store.
Begin ==
    /\ pc = "update" /\ On /\ NoFault
    /\ Changed(old) \/ old.meta # Path(target)
    /\ tx' = Remembered
    /\ pc' = IF Changed(old) THEN "unit" ELSE "commit"
    /\ UNCHANGED <<files, proc, locals, left, cur, rows, steady, bounds>>

\* Nothing has been written yet.
BeginFails ==
    /\ pc = "update" /\ On /\ Fault
    /\ Settle("failed_unchanged", FALSE)
    /\ UNCHANGED <<files, proc, locals, left, bounds>>

\* apply: each file that changes is written beside and renamed, or is as before.
WriteUnit ==
    /\ pc = "unit"
    /\ \/ /\ unit' = [unit EXCEPT ![cur] = target]
          /\ Proceed("env") /\ NoFault
       \/ /\ old.unit # target /\ Fault
          /\ Rollback /\ UNCHANGED unit
    /\ UNCHANGED <<env, loaded, meta, proc, locals, left, steady, bounds>>

WriteEnv ==
    /\ pc = "env"
    /\ \/ /\ env' = [env EXCEPT ![cur] = target]
          /\ Proceed("reload") /\ NoFault
       \/ /\ old.env # target /\ Fault
          /\ Rollback /\ UNCHANGED env
    /\ UNCHANGED <<unit, loaded, meta, proc, locals, left, steady, bounds>>

\* daemon-reload reads the unit files of every service.  systemctl that is
\* interrupted or times out may have had its effect.
Reloads == loaded' = unit
ReloadFails == loaded' \in {loaded, unit} /\ Fault

\* Stopped applications started along with the others.
AfterReloadAll == IF rollback THEN "restart" ELSE "commit"

\* The restart taken for done.
AfterReloadUnrestarted == "commit"

\* The restart tried before the metadata are kept.
AfterReloadEager == IF old.active THEN "restart" ELSE "commit"

\* Where the transaction goes when the configuration is in force.
AfterReload == IF ~rollback THEN "commit" ELSE IF old.active THEN "restart" ELSE "commit"

Reload ==
    /\ pc = "reload"
    /\ \/ Reloads /\ Proceed(AfterReload) /\ NoFault
       \/ ReloadFails /\ Rollback
    /\ UNCHANGED <<unit, env, meta, proc, locals, left, steady, bounds>>

\* _persistInterpreter.  After the restart if a failed start is to be rolled
\* back, before it with --no-rollback.  An error may follow the commit.
Committed ==
    IF ~tx.config THEN Settle("updated", FALSE)
    ELSE IF rollback \/ ~old.active THEN Settle("updated", old.active)
    ELSE Proceed("restart") /\ UNCHANGED steady

Commit ==
    /\ pc = "commit"
    /\ \/ meta' = [meta EXCEPT ![cur] = Path(target)] /\ Committed /\ NoFault
       \/ /\ meta' \in {meta, [meta EXCEPT ![cur] = Path(target)]} /\ Fault
          /\ Rollback /\ UNCHANGED steady
    /\ UNCHANGED <<unit, env, loaded, proc, locals, left, bounds>>

-----------------------------------------------------------------------------
(* Restarting and verifying, for the update and for the recovery.          *)

\* systemctl restart returns once the process runs; what it leaves when it
\* fails depends on how far the job got, or it is still on its way.
Restarts == proc' = [proc EXCEPT ![cur] = Running(loaded[cur])]
RestartFails ==
    /\ Fault
    /\ proc' \in {proc} \cup {[proc EXCEPT ![cur] = Down(s)] : s \in {"failed", "auto", "job"}}

StartFailed == IF rollback THEN Rollback /\ UNCHANGED steady
               ELSE Settle("failed_no_rollback", FALSE)

Restart ==
    /\ pc = "restart"
    /\ \/ Restarts /\ Proceed("verify") /\ NoFault /\ UNCHANGED steady
       \/ RestartFails /\ StartFailed
    /\ UNCHANGED <<files, locals, left, bounds>>

\* active/running, the expected executable, and after the baseline the same
\* MainPID and NRestarts.
SampleIsGood(expected) ==
    proc[cur] = Running(expected) /\ (tx.sample > 0 => steady)

\* A loop that forgets the time, and one that does not.
NextSampleStuck == tx.sample
NextSample == tx.sample + 1

\* One turn of the loop of RuntimeVerifier.verify.
Sample(expected, phase, pass, fail) ==
    /\ pc = phase
    /\ \/ /\ SampleIsGood(expected) /\ NoFault
          /\ IF tx.sample = Window THEN pass
             ELSE /\ tx' = [tx EXCEPT !.sample = NextSample] /\ steady' = TRUE
                  /\ UNCHANGED <<pc, cur, rows>>
       \/ ~SampleIsGood(expected) /\ fail /\ NoFault
       \/ fail /\ Fault
    /\ UNCHANGED <<files, proc, locals, left, bounds>>

Verified ==
    IF rollback THEN /\ pc' = "commit" /\ steady' = FALSE
                     /\ tx' = [tx EXCEPT !.sample = 0] /\ UNCHANGED <<cur, rows>>
    ELSE Settle("updated", TRUE)

VerifyFails ==
    IF rollback THEN /\ rows' = [rows EXCEPT ![cur] = Row("failed_restore", FALSE)]
                     /\ pc' = "rb_unit" /\ steady' = FALSE
                     /\ tx' = [tx EXCEPT !.sample = 0] /\ UNCHANGED cur
    ELSE Settle("failed_no_rollback", FALSE)

Verify == Sample(target, "verify", Verified, VerifyFails)

-----------------------------------------------------------------------------
(* _rollback: every step is tried, what goes wrong is kept in errors.      *)

Errs == tx' = [tx EXCEPT !.errors = TRUE]
Lost == tx' = [tx EXCEPT !.errors = TRUE, !.restored = FALSE]
Next1(phase) == pc' = phase /\ UNCHANGED <<cur, rows, steady>>

RestoreUnit ==
    /\ pc = "rb_unit" /\ Next1("rb_env")
    /\ \/ unit' = [unit EXCEPT ![cur] = old.unit] /\ UNCHANGED tx /\ NoFault
       \/ Lost /\ Fault /\ UNCHANGED unit
    /\ UNCHANGED <<env, loaded, meta, proc, locals, left, bounds>>

\* The second file is restored even if the first was not.
RestoreEnv ==
    /\ pc = "rb_env"
    /\ \/ /\ env' = [env EXCEPT ![cur] = old.env] /\ UNCHANGED tx /\ NoFault
          /\ Next1(IF tx.restored THEN "rb_reload" ELSE "rb_meta")
       \/ Lost /\ Fault /\ UNCHANGED env /\ Next1("rb_meta")
    /\ UNCHANGED <<unit, loaded, meta, proc, locals, left, bounds>>

ReloadRestored ==
    /\ pc = "rb_reload" /\ Next1("rb_meta")
    /\ \/ Reloads /\ UNCHANGED tx /\ NoFault
       \/ ReloadFails /\ Lost
    /\ UNCHANGED <<unit, env, meta, proc, locals, left, bounds>>

\* Recovery although the configuration may not be the restored one.
AfterMetadataBlind ==
    IF ~tx.config THEN "rb_end"
    ELSE IF old.active THEN "rb_start" ELSE "rb_stopped"

\* "Solo reiniciar instancias con una configuracion restaurada comprobada."
AfterMetadata ==
    IF ~tx.config \/ ~tx.restored THEN "rb_end"
    ELSE IF old.active THEN "rb_start" ELSE "rb_stopped"

\* _restoreMetadata replaces the whole entry.
RestoreMeta ==
    /\ pc = "rb_meta" /\ Next1(AfterMetadata)
    /\ \/ meta' = [meta EXCEPT ![cur] = tx.meta] /\ UNCHANGED tx /\ NoFault
       \/ Errs /\ Fault /\ meta' \in {meta, [meta EXCEPT ![cur] = tx.meta]}
    /\ UNCHANGED <<unit, env, loaded, proc, locals, left, bounds>>

\* _restartForRecovery: once more, after reset-failed, if the failure is the
\* start limit or the service is failed or in auto-restart.
RecoverStart ==
    /\ pc = "rb_start"
    /\ \/ Restarts /\ NoFault /\ UNCHANGED tx /\ Next1("rb_verify")
       \/ /\ RestartFails
          /\ \/ proc'[cur].state \in {"failed", "auto"} /\ UNCHANGED tx /\ Next1("rb_again")
             \/ Errs /\ Next1("rb_end")
    /\ UNCHANGED <<files, locals, left, bounds>>

RecoverAgain ==
    /\ pc = "rb_again"
    /\ \/ Restarts /\ NoFault /\ UNCHANGED tx /\ Next1("rb_verify")
       \/ RestartFails /\ Errs /\ Next1("rb_end")
    /\ UNCHANGED <<files, locals, left, bounds>>

Recovered == pc' = "rb_end" /\ steady' = FALSE /\ UNCHANGED <<cur, rows, tx>>
RecoveryFails == Errs /\ pc' = "rb_end" /\ steady' = FALSE /\ UNCHANGED <<cur, rows>>
RecoverVerify == Sample(old.unit, "rb_verify", Recovered, RecoveryFails)

\* _verifyInactiveInstance: what runs now is stopped, the rest must be dead.
VerifyStopped ==
    /\ pc = "rb_stopped" /\ Next1("rb_end")
    /\ \/ /\ proc[cur].state = "running" /\ NoFault /\ UNCHANGED tx
          /\ proc' = [proc EXCEPT ![cur] = Down("dead")]
       \/ /\ proc[cur].state = "running" /\ Fault /\ Errs
          /\ \E s \in {"failed", "job"} : proc' = [proc EXCEPT ![cur] = Down(s)]
       \/ proc[cur].state = "dead" /\ NoFault /\ UNCHANGED <<proc, tx>>
       \/ proc[cur].state \notin {"running", "dead"} /\ NoFault /\ Errs /\ UNCHANGED proc
       \/ Fault /\ Errs /\ UNCHANGED proc
    /\ UNCHANGED <<files, locals, left, bounds>>

\* An error in the metadata overlooked.
RollbackStatusOfFiles == IF tx.restored THEN "failed_restored" ELSE "failed_restore"
RollbackStatus == IF tx.errors THEN "failed_restore" ELSE "failed_restored"

RollbackEnds ==
    /\ pc = "rb_end" /\ NoFault
    /\ Settle(RollbackStatus, ~tx.errors /\ tx.config /\ old.active)
    /\ UNCHANGED <<files, proc, locals, left, bounds>>

RunEnds ==
    /\ pc = "update" /\ cur = None /\ left = {} /\ NoFault
    /\ pc' = "done"
    /\ UNCHANGED <<files, proc, locals, left, cur, rows, tx, steady, bounds>>

-----------------------------------------------------------------------------
(* Everything else that moves.                                             *)

\* The process that a does not have any more is not the verifier's baseline.
Changes(a, p) ==
    /\ proc' = [proc EXCEPT ![a] = p]
    /\ steady' = (steady /\ a # cur)
    /\ UNCHANGED <<files, updater, bounds>>

\* The application ends, or fails and is restarted or not.
Die(a) ==
    /\ proc[a].state = "running" /\ Fault
    /\ \E s \in {"dead", "failed", "auto"} : Changes(a, Down(s))

\* auto-restart, and a job that outlived the systemctl that asked for it.
Respawn(a) ==
    /\ proc[a].state \in {"auto", "job"} /\ NoFault
    /\ \/ Changes(a, Running(loaded[a]))
       \/ Changes(a, Down("failed"))

\* A cron timer restarts the service, stopped or not.
Trigger(a) == a \in Triggered /\ Fault /\ Changes(a, Running(loaded[a]))

Machine == \E a \in Apps : Die(a) \/ Respawn(a) \/ Trigger(a)

\* SIGKILL, or the terminal closed: "There is no transactional recovery if
\* the command is interrupted abruptly".
Kill ==
    /\ pc \notin {"idle", "done"} /\ kills < MaxKills
    /\ kills' = kills + 1 /\ pc' = "idle"
    /\ left' = {} /\ cur' = None /\ ctx' = NoContext /\ rows' = NoRows
    /\ globalError' = FALSE /\ tx' = NoTx /\ steady' = FALSE
    /\ UNCHANGED <<files, proc, target, rollback, before, runs>> /\ NoFault

Forward == Begin \/ BeginFails \/ WriteUnit \/ WriteEnv \/ Reload \/ Commit
           \/ Restart \/ Verify
Backward == RestoreUnit \/ RestoreEnv \/ ReloadRestored \/ RestoreMeta \/ RecoverStart
            \/ RecoverAgain \/ RecoverVerify \/ VerifyStopped \/ RollbackEnds
Step == Refuse \/ Inspect \/ EndOfInspection \/ Prepare \/ PrepareFails
        \/ TakeNext \/ AlreadyCurrent \/ Forward \/ Backward \/ RunEnds

Next == Run \/ Step \/ Machine \/ Kill

Spec == Init /\ [][Next]_vars

\* The command goes on as long as the processor runs it: every call it makes
\* is synchronous and systemctl is killed after 30 seconds.
Fairness == WF_vars(Step)
FairSpec == Spec /\ Fairness

-----------------------------------------------------------------------------
(* Properties.                                                             *)

\* Everything of a names runtime r.
Configured(a, r) ==
    unit[a] = r /\ loaded[a] = r /\ env[a] = r /\ meta[a] = Path(r)

\* The files and the entry of a are what they were when the run began.
Unchanged(a) ==
    unit[a] = before.unit[a] /\ env[a] = before.env[a] /\ meta[a] = before.meta[a]

\* What a row says of an application is so until the run ends, whatever the
\* transactions of the others do: updated, restored in files, entry and the
\* manager's memory, or never touched.  A rollback that lost something is the
\* only row that promises nothing (rows of NodeRuntimeUpdater.run).
ReportIsTrue ==
    \A a \in Apps :
        /\ rows[a].status \in {"updated", "failed_no_rollback"} => Configured(a, target)
        /\ rows[a].status \in {"failed_unchanged", "skipped"} => Unchanged(a)
        /\ rows[a].status = "not_updated" /\ a # cur => Unchanged(a)
        /\ rows[a].status = "failed_restored" =>
              Unchanged(a) /\ loaded[a] = before.unit[a]

\* Exit code 0 means that every application of Node is on the requested
\* runtime in its unit, in systemd, in its PATH and in its entry, also when
\* earlier runs were killed half way: "It is `0` only when there were no global
\* errors and all eligible applications were updated, already current, or
\* intentionally skipped" (README.md:356, finalizeReport).
ExitZeroIsComplete ==
    pc = "done" /\ ExitCode = 0 =>
        \A a \in Apps \ Internal : meta[a].kind # "other" => Configured(a, target)

\* An application whose start the report calls verified does not run another
\* Node than the row names, then or after systemd has restarted it
\* (_restartAndVerify, _recoverInstances).
VerifiedRunsIt ==
    \A a \in Apps :
        rows[a].verified /\ proc[a].state = "running" =>
            proc[a].exec = IF rows[a].status = "updated" THEN target ELSE before.unit[a]

\* The command starts nothing that it found stopped: "Stopped single-service
\* applications receive the new configuration but are not started"
\* (README.md:337).  Steps of the machine leave the run as it is.
StoppedStaysStopped ==
    [][\A a \in Prepared :
          ~ctx[a].active /\ proc'[a].state = "running" /\ proc'[a] # proc[a]
              => UNCHANGED updater]_vars

\* An application is started on one configuration, whole.  By a rollback only
\* if its files and loaded unit are the old ones again (_rollback: "unable to
\* safely recover instances"); with --no-rollback only if files, systemd and
\* entry all have the new runtime: "commit metadata before attempting any
\* restart" (NodeRuntimeUpdater.js:1024).
Recovers(a) == Backward /\ a = cur /\ proc'[a].state = "running" /\ proc'[a] # proc[a]
RestartsWhole ==
    [][\A a \in Apps :
          /\ Recovers(a) => /\ unit[a] = before.unit[a] /\ env[a] = before.env[a]
                            /\ proc'[a].exec = before.unit[a]
          /\ Restart /\ ~rollback /\ a = cur => Configured(a, target)]_vars

\* A run comes to a report, whatever fails: "run(version) always resolves with
\* an UpdateNodeReport" (NodeRuntimeUpdater.js:181).
Resolves == pc = "inspect" ~> pc \in {"done", "idle"}

-----------------------------------------------------------------------------
(* What update-node promises, and where in it the run is.                  *)

confBar == [a \in Apps |-> [unit |-> unit[a], env |-> env[a], meta |-> meta[a]]]
wasBar == [a \in Apps |-> [unit |-> before.unit[a], env |-> before.env[a],
                           meta |-> before.meta[a]]]
onBar == pc \notin {"idle", "done"}
openBar == IF pc \in {"idle", "done", "inspect", "prepare", "update"} THEN None ELSE cur
verdictBar == [a \in Apps |-> IF a = openBar \/ rows[a].status = "not_updated"
                              THEN "none" ELSE rows[a].status]
exitBar == IF pc # "done" THEN "none" ELSE IF ExitCode = 0 THEN "zero" ELSE "one"

Promise == INSTANCE RuntimeChange WITH
    conf <- confBar, live <- loaded, on <- onBar, goal <- target, was <- wasBar,
    open <- openBar, verdict <- verdictBar, exit <- exitBar

\* Whatever fails, dies or is killed, the configuration of an application
\* changes only in its own transaction, to parts of the old and the new one,
\* and the row and the exit code written at the end of it are true.
ImplementsPromise == Promise!Spec

=============================================================================
