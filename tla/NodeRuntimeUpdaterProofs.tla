---------------------- MODULE NodeRuntimeUpdaterProofs ----------------------
(***************************************************************************)
(* What update-node promises, for any number of applications and runtimes, *)
(* any host to begin with, any number of runs, failures and killed runs.   *)
(*                                                                         *)
(* The properties speak of the report and of the machine; to be inductive  *)
(* they need what lies between: where the run is (Control), what it keeps  *)
(* of the machine it found (Remembers), what a row says while others are   *)
(* in their transaction (Reported), and what is written, in force and lost *)
(* at each step of the transaction itself (Underway, World).               *)
(***************************************************************************)
EXTENDS UpdateNode, TLAPS

-----------------------------------------------------------------------------
(* The inductive invariant.                                                *)

Early == {"idle", "done", "inspect", "prepare"}
Forth == {"unit", "env", "reload", "commit", "restart", "verify"}
Back == {"rb_unit", "rb_env", "rb_reload", "rb_meta", "rb_start", "rb_again",
         "rb_verify", "rb_stopped", "rb_end"}

\* Where the run is, what its loops have still to take, and which rows those
\* applications and the one in the transaction have.
Control ==
    /\ pc \in Early => cur = None
    /\ pc \in Forth \cup Back => cur \in Apps
    /\ cur # None => ctx[cur] # None /\ cur \notin left
    /\ pc = "idle" => rows = NoRows
    /\ pc # "inspect" => left \subseteq Prepared
    /\ pc = "inspect" => \A a \in left : rows[a] = Row("none", FALSE) /\ ctx[a] = None
    /\ pc # "inspect" => \A a \in left : rows[a] = Row("not_updated", FALSE)
    /\ pc \in {"inspect", "prepare"} => \A a \in Prepared : rows[a] = Row("not_updated", FALSE)
    /\ \A a \in Apps : rows[a].status = "none" /\ pc # "idle" =>
          (pc = "inspect" /\ a \in left) \/ (pc = "done" /\ globalError)
    /\ cur # None =>
          rows[cur] = Row(IF pc \in Back THEN "failed_restore" ELSE "not_updated", FALSE)

\* What inspection keeps of an application is what it was when the run began.
Remembers ==
    \A a \in Prepared : /\ ctx[a].unit = before.unit[a] /\ ctx[a].env = before.env[a]
                        /\ ctx[a].meta = before.meta[a]

RunsLoaded(a) == proc[a].state = "running" => proc[a].exec = loaded[a]
InForce(a) == unit[a] = target /\ env[a] = target /\ loaded[a] = target
RestoredFiles(a) == unit[a] = before.unit[a] /\ env[a] = before.env[a]

\* What the row of an application says of it.
Quiet == {"none", "not_updated", "skipped", "failed_unchanged"}
Settled(a) ==
    /\ rows[a].status \in Quiet => Unchanged(a)
    /\ rows[a].status = "not_updated" => loaded[a] = unit[a]
    /\ rows[a].status = "skipped" =>
          a \in Internal \/ meta[a].kind = "other" \/ Configured(a, target)
    /\ rows[a].status \in {"updated", "failed_no_rollback"} => Configured(a, target)
    /\ rows[a].status = "failed_restored" => Unchanged(a) /\ loaded[a] = before.unit[a]
    /\ rows[a].verified =>
          rows[a].status \in {"updated", "failed_restored"} /\ RunsLoaded(a)
Reported == pc # "idle" => \A a \in Apps : a # cur \/ pc = "update" => Settled(a)

\* The locals of the transaction.
Transaction ==
    /\ tx.config = Changed(old) /\ tx.meta = before.meta[cur]
    /\ ~tx.restored => tx.errors
    /\ pc \in Forth => ~tx.errors
    /\ pc \notin {"commit", "rb_meta", "rb_end"} => tx.config
    /\ pc \in {"restart", "verify", "rb_start", "rb_again", "rb_verify"} => old.active
    /\ pc \in {"rb_reload", "rb_start", "rb_again", "rb_verify", "rb_stopped"} => tx.restored
Underway == pc \in Forth \cup Back => Transaction

\* What the transaction has made of its application, step by step.
World ==
    /\ pc = "env" => unit[cur] = target
    /\ pc = "reload" => unit[cur] = target /\ env[cur] = target
    /\ pc \in {"commit", "restart", "verify"} => InForce(cur)
    /\ pc \in {"restart", "verify"} /\ ~rollback => meta[cur] = Path(target)
    /\ pc = "commit" /\ tx.config /\ rollback /\ old.active => RunsLoaded(cur)
    /\ pc = "rb_env" /\ tx.restored => unit[cur] = before.unit[cur]
    /\ pc = "rb_reload" => RestoredFiles(cur)
    /\ pc \in {"rb_meta", "rb_start", "rb_again", "rb_verify", "rb_stopped", "rb_end"} /\ tx.restored
         => RestoredFiles(cur) /\ loaded[cur] = before.unit[cur]
    /\ pc \in {"rb_start", "rb_again", "rb_verify", "rb_stopped", "rb_end"} /\ ~tx.errors
         => meta[cur] = before.meta[cur]
    /\ pc = "rb_end" /\ ~tx.errors /\ tx.config /\ old.active => RunsLoaded(cur)

\* The types, a group of variables at a time.
Rows == [status : Statuses, verified : BOOLEAN]
Txs == [config : BOOLEAN, meta : Interpreters \cup {None}, errors : BOOLEAN,
        restored : BOOLEAN, sample : 0 .. Window]
FilesOK ==
    /\ unit \in [Apps -> Runtimes] /\ loaded \in [Apps -> Runtimes]
    /\ env \in [Apps -> Runtimes \cup {None}] /\ meta \in [Apps -> Interpreters]
    /\ proc \in [Apps -> Processes]
RunOK ==
    /\ pc \in Phases /\ target \in Runtimes /\ rollback \in BOOLEAN
    /\ left \subseteq Apps /\ cur \in Apps \cup {None}
    /\ ctx \in [Apps -> Contexts \cup {None}]
    /\ globalError \in BOOLEAN /\ steady \in BOOLEAN
RowsOK == rows \in [Apps -> Rows]
TxOK == tx \in Txs
BeforeOK ==
    before \in [unit : [Apps -> Runtimes], env : [Apps -> Runtimes \cup {None}],
                meta : [Apps -> Interpreters]]
CountsOK == runs \in 0 .. MaxRuns /\ faults \in 0 .. MaxFaults /\ kills \in 0 .. MaxKills
Types == FilesOK /\ RunOK /\ RowsOK /\ TxOK /\ BeforeOK /\ CountsOK

IInv == Types /\ Control /\ Remembers /\ Reported /\ Underway /\ World

LEMMA TypeParts == TypeOK <=> Types
BY DEF Types, TypeOK, FilesOK, RunOK, RowsOK, TxOK, BeforeOK, CountsOK, Rows, Txs

-----------------------------------------------------------------------------
(* The data.                                                               *)

LEMMA DataTypes ==
  /\ NoTx \in Txs /\ NoRows \in [Apps -> Rows]
  /\ NoContext \in [Apps -> Contexts \cup {None}]
  /\ \A r \in Runtimes : Path(r) \in Interpreters /\ Running(r) \in Processes
  /\ \A s \in Unstarted : Down(s) \in Processes
<1>1. NoTx \in Txs
  BY UpdaterAssumption DEF UpdaterAssumption, NoTx, Txs
<1>2. NoRows \in [Apps -> Rows]
  BY DEF NoRows, Row, Rows, Statuses
<1>3. NoContext \in [Apps -> Contexts \cup {None}]
  BY DEF NoContext
<1>4. \A r \in Runtimes : Path(r) \in Interpreters /\ Running(r) \in Processes
  BY DEF Interpreters, Processes
<1>5. \A s \in Unstarted : Down(s) \in Processes
  BY DEF Processes
<1> QED BY <1>1, <1>2, <1>3, <1>4, <1>5

LEMMA RowTypes == \A s \in Statuses, v \in BOOLEAN : [status |-> s, verified |-> v] \in Rows
BY DEF Rows

\* What the transaction does to its locals.
LEMMA TxUpdates ==
  ASSUME NEW t \in Txs
  PROVE  /\ [t EXCEPT !.errors = TRUE] \in Txs
         /\ [t EXCEPT !.errors = TRUE, !.restored = FALSE] \in Txs
         /\ [t EXCEPT !.sample = 0] \in Txs
         /\ t.sample # Window => [t EXCEPT !.sample = t.sample + 1] \in Txs
         /\ \A b \in BOOLEAN, m \in Interpreters : [t EXCEPT !.config = b, !.meta = m] \in Txs
<1>1. [t EXCEPT !.errors = TRUE] \in Txs /\ [t EXCEPT !.errors = TRUE, !.restored = FALSE] \in Txs
  BY DEF Txs
<1>2. \A x \in 0 .. Window : [t EXCEPT !.sample = x] \in Txs
  BY Zenon DEF Txs
<1>3. 0 \in 0 .. Window /\ (t.sample # Window => t.sample + 1 \in 0 .. Window)
  <2>1. t.sample \in 0 .. Window
    BY DEF Txs
  <2> QED BY <2>1, UpdaterAssumption DEF UpdaterAssumption
<1>4. \A b \in BOOLEAN, m \in Interpreters : [t EXCEPT !.config = b, !.meta = m] \in Txs
  BY Zenon DEF Txs
<1> QED BY <1>1, <1>2, <1>3, <1>4, Zenon

\* The application in the transaction has a context, of the types and with the
\* values it was inspected with.
Current ==
    /\ On /\ cur \in Apps /\ cur # None /\ ctx[cur] # None
    /\ ctx[cur] \in Contexts /\ old \in Contexts
    /\ old.unit = before.unit[cur] /\ old.env = before.env[cur]
    /\ old.meta = before.meta[cur]

LEMMA InTransaction ==
  ASSUME RunOK, Control, Remembers, AlreadyCurrent \/ Forward \/ Backward
  PROVE  Current
<1>1. On \/ pc \in Forth \cup Back
  BY Zenon DEF AlreadyCurrent, Forward, Backward, Begin, BeginFails, WriteUnit, WriteEnv,
     Reload, Commit, Restart, Verify, Sample, RestoreUnit, RestoreEnv, ReloadRestored,
     RestoreMeta, RecoverStart, RecoverAgain, RecoverVerify, VerifyStopped, RollbackEnds,
     Forth, Back
<1>2. cur \in Apps /\ cur # None
  BY <1>1, UpdaterAssumption, Zenon DEF UpdaterAssumption, RunOK, Control, On
<1>3. ctx[cur] # None /\ ctx[cur] \in Contexts
  BY <1>2 DEF RunOK, Control
<1> QED BY <1>2, <1>3, Zenon DEF Current, Remembers, Prepared, On, old

\* What the inspection of one application does.
LEMMA InspectCases ==
  ASSUME FilesOK, RunOK, Inspect
  PROVE  /\ pc = "inspect"
         /\ \E a \in left, row \in {"failed_unchanged", "skipped", "not_updated"},
               c \in Contexts \cup {None} :
               /\ Inspected(a, row, c)
               /\ row = "skipped" => ~Eligible(a)
               /\ row = "not_updated" => c = Snapshot(a) /\ unit[a] = loaded[a]
               /\ row # "not_updated" => c = None
<1>1. PICK a \in left : InspectLegacy(a) \/ InspectOther(a) \/ InspectNode(a) \/ InspectFails(a)
  BY DEF Inspect
<1>2. a \in Apps /\ Snapshot(a) \in Contexts
  BY DEF FilesOK, RunOK, Snapshot, Contexts
<1>3. pc = "inspect"
  BY DEF Inspect
<1>4. CASE InspectLegacy(a)
  BY <1>3, <1>4 DEF InspectLegacy
<1>5. CASE InspectOther(a)
  BY <1>3, <1>5 DEF InspectOther
<1>6. CASE InspectNode(a)
  BY <1>2, <1>3, <1>6 DEF InspectNode, Inspectable
<1>7. CASE InspectFails(a)
  BY <1>3, <1>7 DEF InspectFails
<1> QED BY <1>1, <1>4, <1>5, <1>6, <1>7

\* What the machine does by itself.
LEMMA MachineCases ==
  ASSUME FilesOK, Machine
  PROVE  /\ UNCHANGED <<files, updater, bounds>>
         /\ steady' \in BOOLEAN
         /\ \E a \in Apps, p \in Processes :
               /\ proc' = [proc EXCEPT ![a] = p]
               /\ p.state = "running" => p.exec = loaded[a]
<1>1. PICK a \in Apps : Die(a) \/ Respawn(a) \/ Trigger(a)
  BY DEF Machine
<1>2. PICK p : Changes(a, p) /\ (p = Running(loaded[a]) \/ \E s \in {"dead", "failed", "auto"} : p = Down(s))
  BY <1>1, Zenon DEF Die, Respawn, Trigger
<1>3. loaded[a] \in Runtimes
  BY DEF FilesOK
<1>4. p \in Processes
  BY <1>2, <1>3, DataTypes, Zenon DEF Unstarted
<1>5. p.state = "running" => p.exec = loaded[a]
  BY <1>2 DEF Running, Down
<1>6. steady' \in BOOLEAN
  BY <1>2, Zenon DEF Changes
<1> QED BY <1>2, <1>4, <1>5, <1>6, Zenon DEF Changes

-----------------------------------------------------------------------------
(* The types.                                                              *)

LEMMA CountsStep ==
  ASSUME CountsOK, FilesOK, RunOK, Next
  PROVE  CountsOK'
<1>1. ASSUME Step PROVE UNCHANGED <<runs, kills>> /\ (Fault \/ NoFault)
  BY <1>1, Zenon DEF Step, Forward, Backward, Inspect, InspectLegacy,
     InspectOther, InspectNode, InspectFails, Inspected, Refuse,
     EndOfInspection, Prepare, Prepared, PrepareFails, TakeNext, RunEnds,
     AlreadyCurrent, Begin, Remembered, On, BeginFails, WriteUnit, Rollback,
     Proceed, WriteEnv, Reload, Reloads, ReloadFails, AfterReload, Commit,
     Committed, Restart, Restarts, RestartFails, StartFailed, Verify, Sample,
     NextSample, Verified, VerifyFails, RestoreUnit, Lost, Next1, RestoreEnv,
     ReloadRestored, RestoreMeta, AfterMetadata, Errs, RecoverStart,
     RecoverAgain, RecoverVerify, Recovered, RecoveryFails, VerifyStopped,
     RollbackEnds, RollbackStatus, locals, bounds
<1>2. ASSUME Machine PROVE UNCHANGED <<runs, kills>> /\ (Fault \/ NoFault)
  BY <1>2, Zenon DEF Machine, Die, Respawn, Trigger, Changes, bounds
<1>3. CASE Run
  BY <1>3, UpdaterAssumption, SMT DEF Run, CountsOK, NoFault, UpdaterAssumption, bounds
<1>4. CASE Kill
  BY <1>4, UpdaterAssumption, SMT DEF Kill, CountsOK, NoFault, UpdaterAssumption
<1>5. ASSUME UNCHANGED <<runs, kills>>, Fault \/ NoFault PROVE CountsOK'
  BY <1>5, UpdaterAssumption, SMT DEF CountsOK, Fault, NoFault, UpdaterAssumption
<1> QED BY <1>1, <1>2, <1>3, <1>4, <1>5 DEF Next

LEMMA BeforeStep ==
  ASSUME FilesOK, BeforeOK, Next
  PROVE  BeforeOK'
<1>1. ASSUME Step PROVE UNCHANGED before
  BY <1>1, Zenon DEF Step, Forward, Backward, Inspect, InspectLegacy,
     InspectOther, InspectNode, InspectFails, Inspected, Refuse,
     EndOfInspection, Prepare, Prepared, PrepareFails, TakeNext, RunEnds,
     AlreadyCurrent, Begin, Remembered, On, BeginFails, WriteUnit, Rollback,
     Proceed, WriteEnv, Reload, Reloads, ReloadFails, AfterReload, Commit,
     Committed, Restart, Restarts, RestartFails, StartFailed, Verify, Sample,
     NextSample, Verified, VerifyFails, RestoreUnit, Lost, Next1, RestoreEnv,
     ReloadRestored, RestoreMeta, AfterMetadata, Errs, RecoverStart,
     RecoverAgain, RecoverVerify, Recovered, RecoveryFails, VerifyStopped,
     RollbackEnds, RollbackStatus, locals, bounds
<1>2. ASSUME Machine \/ Kill PROVE UNCHANGED before
  BY <1>2, Zenon DEF Machine, Die, Respawn, Trigger, Changes, bounds, Kill
<1>3. CASE Run
  BY <1>3, Zenon DEF Run, FilesOK, BeforeOK
<1> QED BY <1>1, <1>2, <1>3, Zenon DEF Next, BeforeOK

LEMMA RunStep ==
  ASSUME FilesOK, RunOK, Current \/ ~(AlreadyCurrent \/ Forward \/ Backward), Next
  PROVE  RunOK'
<1> USE DEF RunOK, Phases, locals, bounds, updater, Settle
<1>1. CASE Run \/ Kill
  BY <1>1, DataTypes, Zenon DEF Run, Kill
<1>2. CASE Inspect
  <2>1. PICK a \in left, row \in {"failed_unchanged", "skipped", "not_updated"},
              c \in Contexts \cup {None} : Inspected(a, row, c)
    BY <1>2, InspectCases, Zenon
  <2> QED BY <2>1, Zenon DEF Inspected
<1>3. CASE Refuse \/ EndOfInspection \/ Prepare \/ PrepareFails \/ TakeNext \/ RunEnds
  BY <1>3, Zenon DEF Refuse, EndOfInspection, Prepare, Prepared, PrepareFails,
     TakeNext, RunEnds
<1>4. CASE AlreadyCurrent \/ Forward
  BY <1>4, Zenon DEF Forward, AlreadyCurrent, Begin, Remembered, On,
     BeginFails, WriteUnit, Rollback, Proceed, WriteEnv, Reload, Reloads,
     ReloadFails, AfterReload, Commit, Committed, Restart, Restarts,
     RestartFails, StartFailed, Verify, Sample, NextSample, Verified,
     VerifyFails
<1>5. CASE Backward
  BY <1>5, Zenon DEF Backward, RestoreUnit, Lost, Next1, RestoreEnv,
     ReloadRestored, Reloads, ReloadFails, RestoreMeta, AfterMetadata, Errs,
     RecoverStart, Restarts, RestartFails, RecoverAgain, RecoverVerify,
     Sample, NextSample, Recovered, RecoveryFails, VerifyStopped,
     RollbackEnds, RollbackStatus
<1>6. CASE Machine
  BY <1>6, MachineCases, Zenon
<1> QED BY <1>1, <1>2, <1>3, <1>4, <1>5, <1>6, Zenon DEF Next, Step

\* A transaction writes the row of its application.
LEMMA RowsStep ==
  ASSUME FilesOK, RunOK, RowsOK, TxOK, Next,
         AlreadyCurrent \/ Forward \/ Backward => Current
  PROVE  RowsOK'
<1>1. CASE Run \/ Kill
  BY <1>1, DataTypes, Zenon DEF RowsOK, Run, Kill
<1>2. CASE Inspect
  <2>1. PICK a \in left, row \in {"failed_unchanged", "skipped", "not_updated"} :
           rows' = [rows EXCEPT ![a] = [status |-> row, verified |-> FALSE]]
    BY <1>2, InspectCases, Zenon DEF Inspected, Row
  <2>2. [status |-> row, verified |-> FALSE] \in Rows
    BY RowTypes, Zenon DEF Statuses
  <2> QED BY <2>1, <2>2, Zenon DEF RowsOK
<1>3. CASE PrepareFails
  <2>1. [status |-> "not_updated", verified |-> FALSE] \in Rows
    BY RowTypes, Zenon DEF Statuses
  <2> QED BY <1>3, <2>1, Zenon DEF RowsOK, PrepareFails, Row
<1>4. CASE Refuse \/ EndOfInspection \/ Prepare \/ TakeNext \/ RunEnds
  BY <1>4, Zenon DEF RowsOK, Refuse, EndOfInspection, Prepare, Prepared,
     TakeNext, RunEnds
<1>5. CASE Machine
  BY <1>5, MachineCases, Zenon DEF RowsOK, updater
<1>6. ASSUME NEW s \in Statuses, NEW v \in BOOLEAN,
             rows' = [rows EXCEPT ![cur] = [status |-> s, verified |-> v]]
      PROVE  RowsOK'
  BY <1>6, RowTypes, Zenon DEF RowsOK
<1>7. CASE Rollback
  BY <1>6, <1>7, Zenon DEF Rollback, Row, Statuses
<1>8. ASSUME NEW s \in {"skipped", "updated", "failed_unchanged", "failed_no_rollback",
                       "failed_restore", "failed_restored"},
             NEW v \in BOOLEAN, Settle(s, v)
      PROVE  RowsOK'
  BY <1>6, <1>8, Zenon DEF Settle, Row, Statuses
<1>9. CASE AlreadyCurrent \/ BeginFails
  BY <1>8, <1>9, Zenon DEF AlreadyCurrent, BeginFails
<1>10. CASE Begin \/ WriteUnit \/ WriteEnv \/ Reload
  BY <1>7, <1>10, Zenon DEF RowsOK, Begin, WriteUnit, WriteEnv, Reload, Proceed
<1>11. CASE Commit
  <2>1. Current
    BY <1>11, Zenon DEF Forward
  <2>2. old.active \in BOOLEAN
    BY <2>1, Zenon DEF Current, Contexts
  <2> QED BY <1>7, <1>8, <1>11, <2>2, Zenon DEF RowsOK, Commit, Committed, Proceed
<1>12. CASE Restart
  BY <1>7, <1>8, <1>12, Zenon DEF RowsOK, Restart, StartFailed, Proceed
<1>13. CASE Verify
  BY <1>6, <1>8, <1>13, Zenon DEF RowsOK, Verify, Sample, Verified, VerifyFails,
     Row, Statuses
<1>14. CASE RollbackEnds
  <2>1. Current
    BY <1>14, Zenon DEF Backward
  <2>2. (~tx.errors /\ tx.config /\ old.active) \in BOOLEAN
    OBVIOUS
  <2> QED BY <1>8, <1>14, <2>2, Zenon DEF RollbackEnds, RollbackStatus
<1>15. CASE Backward /\ ~RollbackEnds
  BY <1>15, Zenon DEF RowsOK, Backward, RestoreUnit, Lost, Next1, RestoreEnv,
     ReloadRestored, Reloads, ReloadFails, RestoreMeta, AfterMetadata, Errs,
     RecoverStart, Restarts, RestartFails, RecoverAgain, RecoverVerify,
     Sample, NextSample, Recovered, RecoveryFails, VerifyStopped
<1> QED
  BY <1>1, <1>2, <1>3, <1>4, <1>5, <1>9, <1>10, <1>11, <1>12, <1>13, <1>14, <1>15, Zenon
     DEF Next, Step, Forward

\* tx takes the values the transaction gives it.
LEMMA TxStep ==
  ASSUME FilesOK, RunOK, TxOK, Next, AlreadyCurrent \/ Forward \/ Backward => Current
  PROVE  TxOK'
<1>1. ASSUME \/ tx' \in {tx, NoTx, [tx EXCEPT !.errors = TRUE],
                        [tx EXCEPT !.errors = TRUE, !.restored = FALSE],
                        [tx EXCEPT !.sample = 0]}
             \/ tx.sample # Window /\ tx' = [tx EXCEPT !.sample = tx.sample + 1]
      PROVE  TxOK'
  BY <1>1, TxUpdates, DataTypes DEF TxOK
<1>2. CASE Run \/ Kill
  BY <1>1, <1>2, Zenon DEF Run, Kill
<1>3. CASE Inspect
  BY <1>1, <1>3, InspectCases, Zenon DEF Inspected
<1>4. CASE Machine
  BY <1>1, <1>4, MachineCases, Zenon DEF updater
<1>5. CASE Refuse \/ EndOfInspection \/ Prepare \/ PrepareFails \/ TakeNext \/ RunEnds
  BY <1>1, <1>5, Zenon DEF Refuse, EndOfInspection, Prepare, Prepared,
     PrepareFails, TakeNext, RunEnds
<1>6. CASE Begin
  <2>1. meta[cur] \in Interpreters /\ Changed(old) \in BOOLEAN
    BY <1>6, Zenon DEF Forward, Current, FilesOK, Changed
  <2>2. tx' = [NoTx EXCEPT !.config = Changed(old), !.meta = meta[cur]]
    BY <1>6, Zenon DEF Begin, Remembered
  <2> QED BY <2>1, <2>2, DataTypes, TxUpdates, Zenon DEF TxOK
<1>7. CASE AlreadyCurrent \/ BeginFails \/ WriteUnit \/ WriteEnv \/ Reload
  BY <1>1, <1>7, Zenon DEF AlreadyCurrent, BeginFails, WriteUnit, Rollback,
     Proceed, WriteEnv, Reload, Reloads, ReloadFails, AfterReload, Settle
<1>8. CASE Commit \/ Restart \/ Verify
  BY <1>1, <1>8, Zenon DEF Commit, Committed, Rollback, Proceed, Restart,
     Restarts, RestartFails, StartFailed, Verify, Sample, NextSample,
     Verified, VerifyFails, Settle
<1>9. CASE Backward
  BY <1>1, <1>9, Zenon DEF Backward, RestoreUnit, Lost, Next1, RestoreEnv,
     ReloadRestored, Reloads, ReloadFails, RestoreMeta, AfterMetadata, Errs,
     RecoverStart, Restarts, RestartFails, RecoverAgain, RecoverVerify,
     Sample, NextSample, Recovered, RecoveryFails, VerifyStopped,
     RollbackEnds, RollbackStatus, Settle
<1> QED BY <1>2, <1>3, <1>4, <1>5, <1>6, <1>7, <1>8, <1>9, Zenon DEF Next, Step, Forward

\* Each call writes a runtime where a runtime was.
LEMMA FilesStep ==
  ASSUME FilesOK, RunOK, TxOK, BeforeOK, Underway, Next,
         AlreadyCurrent \/ Forward \/ Backward => Current
  PROVE  FilesOK'
<1> USE DEF FilesOK, files
<1>1. CASE Run \/ Kill \/ Refuse \/ EndOfInspection \/ Prepare \/ PrepareFails \/ TakeNext \/ RunEnds
  BY <1>1, Zenon DEF Run, Kill, Refuse, EndOfInspection, Prepare, Prepared,
     PrepareFails, TakeNext, RunEnds
<1>2. CASE Inspect
  BY <1>2, InspectCases, Zenon DEF Inspected
<1>3. CASE Machine
  BY <1>3, MachineCases, Zenon
<1>4. CASE AlreadyCurrent \/ Begin \/ BeginFails \/ Verify \/ RecoverVerify \/ RollbackEnds
  BY <1>4, Zenon DEF AlreadyCurrent, Begin, Remembered, On, BeginFails,
     Verify, Sample, NextSample, Verified, VerifyFails, RecoverVerify,
     Recovered, RecoveryFails, Errs, RollbackEnds, RollbackStatus
<1>5. CASE WriteUnit \/ WriteEnv \/ Reload
  BY <1>5, Zenon DEF RunOK, WriteUnit, Rollback, Proceed, WriteEnv, Reload,
     Reloads, ReloadFails, AfterReload
<1>6. CASE Commit
  BY <1>6, DataTypes, Zenon DEF RunOK, Commit
<1>7. CASE Restart \/ RecoverStart \/ RecoverAgain
  <2>1. Current
    BY <1>7, Zenon DEF Forward, Backward
  <2>2. loaded[cur] \in Runtimes
    BY <2>1, Zenon DEF Current
  <2>3. Running(loaded[cur]) \in Processes
    BY <2>2, DataTypes, Zenon
  <2>4. \A s \in {"failed", "auto", "job"} : Down(s) \in Processes
    BY DataTypes, Zenon DEF Unstarted
  <2>5. proc' \in [Apps -> Processes]
    BY <1>7, <2>1, <2>3, <2>4, Zenon DEF Restart, RecoverStart, RecoverAgain,
       Restarts, RestartFails
  <2> QED BY <1>7, <2>5, Zenon DEF Restart, RecoverStart, RecoverAgain
<1>8. CASE RestoreUnit \/ RestoreEnv
  <2>1. old \in Contexts
    BY <1>8, Zenon DEF Current, Backward
  <2>2. old.unit \in Runtimes /\ old.env \in Runtimes \cup {None}
    BY <2>1 DEF Contexts
  <2> QED BY <1>8, <2>2, Zenon DEF RestoreUnit, RestoreEnv
<1>9. CASE ReloadRestored
  BY <1>9, Zenon DEF ReloadRestored, Reloads, ReloadFails
<1>10. CASE RestoreMeta
  <2>1. tx.meta = before.meta[cur] /\ cur \in Apps
    BY <1>10, Zenon DEF RestoreMeta, Underway, Transaction, Back, Backward, Current
  <2>2. tx.meta \in Interpreters
    BY <2>1 DEF BeforeOK
  <2> QED BY <1>10, <2>2, Zenon DEF RestoreMeta
<1>11. CASE VerifyStopped
  <2>1. \A s \in {"dead", "failed", "job"} : Down(s) \in Processes
    BY DataTypes, Zenon DEF Unstarted
  <2> QED BY <1>11, <2>1, Zenon DEF VerifyStopped
<1> QED
  BY <1>1, <1>2, <1>3, <1>4, <1>5, <1>6, <1>7, <1>8, <1>9, <1>10, <1>11, Zenon
     DEF Next, Step, Forward, Backward

LEMMA TypesStep ==
  ASSUME IInv, Next
  PROVE  Types'
<1>1. FilesOK /\ RunOK /\ RowsOK /\ TxOK /\ BeforeOK /\ CountsOK
  BY DEF IInv, Types
<1>2. Control /\ Remembers /\ Underway
  BY DEF IInv
<1>3. AlreadyCurrent \/ Forward \/ Backward => Current
  BY <1>1, <1>2, InTransaction
<1>4. FilesOK'
  BY <1>1, <1>2, <1>3, FilesStep
<1>5. RunOK' /\ RowsOK' /\ TxOK' /\ BeforeOK' /\ CountsOK'
  BY <1>1, <1>3, RunStep, RowsStep, TxStep, BeforeStep, CountsStep
<1> QED BY <1>4, <1>5 DEF Types

-----------------------------------------------------------------------------
(* Where the run is.                                                       *)

\* Steps of a transaction that go on, turn back, or settle the row.
LEMMA ControlInTransaction ==
  ASSUME RunOK, RowsOK, Control, Current, pc \in Forth, UNCHANGED <<left, ctx, globalError>>,
         \/ Rollback
         \/ (pc' \in Forth /\ rows' = rows /\ cur' = cur)
         \/ /\ pc' \in Back /\ UNCHANGED cur
            /\ rows' = [rows EXCEPT ![cur] = [status |-> "failed_restore", verified |-> FALSE]]
         \/ \E s \in Statuses \ {"none", "not_updated"}, v \in BOOLEAN : Settle(s, v)
  PROVE  Control'
<1> USE DEF Control, Early, Forth, Back, RunOK, RowsOK, Prepared, NoRows, Current, Row
<1>1. CASE Rollback
  BY <1>1, Zenon DEF Rollback
<1>2. CASE (pc' \in Forth /\ rows' = rows /\ cur' = cur)
  BY <1>2, Zenon
<1>3. CASE /\ pc' \in Back /\ UNCHANGED cur
           /\ rows' = [rows EXCEPT ![cur] = [status |-> "failed_restore", verified |-> FALSE]]
  BY <1>3, Zenon
<1>4. ASSUME NEW s \in Statuses \ {"none", "not_updated"}, NEW v \in BOOLEAN, Settle(s, v)
      PROVE  Control'
  BY <1>4, Zenon DEF Settle
<1> QED BY <1>1, <1>2, <1>3, <1>4

LEMMA ControlStep ==
  ASSUME IInv, Next
  PROVE  Control'
<1>a. FilesOK /\ RunOK /\ RowsOK /\ TxOK /\ Control /\ Remembers
  BY DEF IInv, Types
<1>b. AlreadyCurrent \/ Forward \/ Backward => Current
  BY <1>a, InTransaction
<1>1. CASE Run
  BY <1>1, <1>a, Zenon DEF Run, Control, Early, Forth, Back, RunOK, RowsOK,
     Prepared, Current, Row, Settle, NoRows, NoContext, bounds, files
<1>2. CASE Inspect
  <2>1. PICK a \in left, row \in {"failed_unchanged", "skipped", "not_updated"},
             c \in Contexts \cup {None} :
           /\ pc = "inspect" /\ Inspected(a, row, c)
           /\ row = "not_updated" \/ c = None
    BY <1>a, <1>2, InspectCases, Zenon
  <2> QED BY <1>a, <2>1, Zenon DEF Inspected, Control, Early, Forth, Back, RunOK, RowsOK,
          Prepared, Row
<1>3. CASE Refuse
  BY <1>3, <1>a, Zenon DEF Refuse, Control, Early, Forth, Back, RunOK, RowsOK,
     Prepared, Current, Row, Settle, NoRows, files, locals, bounds
<1>4. CASE EndOfInspection
  BY <1>4, <1>a, Zenon DEF EndOfInspection, Control, Early, Forth, Back,
     RunOK, RowsOK, Prepared, Current, Row, Settle, NoRows, files, locals,
     bounds
<1>5. CASE Prepare
  BY <1>5, <1>a, Zenon DEF Prepare, Prepared, Control, Early, Forth, Back,
     RunOK, RowsOK, Current, Row, Settle, NoRows, files, locals, bounds
<1>6. CASE PrepareFails
  BY <1>6, <1>a, Zenon DEF PrepareFails, Control, Early, Forth, Back, RunOK,
     RowsOK, Prepared, Current, Row, Settle, NoRows, files, locals, bounds
<1>7. CASE TakeNext
  BY <1>7, <1>a, UpdaterAssumption, Zenon DEF TakeNext, UpdaterAssumption,
     locals, Control, Early, Forth, Back, RunOK, RowsOK, Prepared, Current,
     Row, Settle, NoRows
<1>8. CASE RunEnds
  BY <1>8, <1>a, Zenon DEF RunEnds, Control, Early, Forth, Back, RunOK,
     RowsOK, Prepared, Current, Row, Settle, NoRows, files, locals, bounds
<1>9. CASE Kill
  BY <1>9, <1>a, Zenon DEF Kill, Control, Early, Forth, Back, RunOK, RowsOK,
     Prepared, Current, Row, Settle, NoRows, files, locals, bounds
<1>10. CASE Machine
  <2>1. UNCHANGED <<pc, left, cur, ctx, rows, globalError>>
    BY <1>a, <1>10, MachineCases, Zenon DEF updater
  <2> QED BY <1>a, <2>1, Zenon DEF Control, Prepared
<1>11. CASE AlreadyCurrent
  BY <1>11, <1>a, <1>b, Zenon DEF AlreadyCurrent, Forward, locals, bounds,
     Control, Early, Forth, Back, RunOK, RowsOK, Prepared, Current, Row,
     Settle, NoRows
<1>12. CASE Begin
  BY <1>12, <1>a, <1>b, Zenon DEF Begin, Remembered, On, Forward, locals,
     bounds, Control, Early, Forth, Back, RunOK, RowsOK, Prepared, Current,
     Row, Settle, NoRows
<1>13. CASE BeginFails
  BY <1>13, <1>a, <1>b, Zenon DEF BeginFails, Forward, locals, bounds,
     Control, Early, Forth, Back, RunOK, RowsOK, Prepared, Current, Row,
     Settle, NoRows
<1>14. CASE WriteUnit \/ WriteEnv
  <2>1. pc \in Forth /\ (Rollback \/ (pc' \in Forth /\ rows' = rows /\ cur' = cur))
    BY <1>14, Zenon DEF WriteUnit, WriteEnv, Proceed, Forth
  <2>2. Current /\ UNCHANGED <<left, ctx, globalError>>
    BY <1>b, <1>14, Zenon DEF Forward, WriteUnit, WriteEnv, locals
  <2> QED BY <1>a, <2>1, <2>2, ControlInTransaction
<1>15. CASE Reload
  <2>1. AfterReload \in Forth
    BY Zenon DEF AfterReload, Forth
  <2>2. pc \in Forth /\ (Rollback \/ (pc' \in Forth /\ rows' = rows /\ cur' = cur))
    BY <1>15, <2>1, Zenon DEF Reload, Proceed, Forth
  <2>3. Current /\ UNCHANGED <<left, ctx, globalError>>
    BY <1>b, <1>15, Zenon DEF Forward, Reload, locals
  <2> QED BY <1>a, <2>2, <2>3, ControlInTransaction
<1>16. CASE Commit
  <2>1. Current /\ UNCHANGED <<left, ctx, globalError>>
    BY <1>b, <1>16, Zenon DEF Forward, Commit, locals
  <2>2. old.active \in BOOLEAN
    BY <2>1, Zenon DEF Current, Contexts
  <2>3. /\ pc \in Forth
        /\ Rollback \/ Settle("updated", FALSE) \/ Settle("updated", old.active)
           \/ (pc' \in Forth /\ rows' = rows /\ cur' = cur)
    <3>1. Committed => \/ Settle("updated", FALSE) \/ Settle("updated", old.active)
                        \/ (pc' = "restart" /\ rows' = rows /\ cur' = cur)
      BY Zenon DEF Committed, Proceed
    <3> QED BY <1>16, <3>1, Zenon DEF Commit, Forth
  <2>4. "updated" \in Statuses \ {"none", "not_updated"}
    BY Zenon DEF Statuses
  <2> QED BY <1>a, <2>1, <2>2, <2>3, <2>4, ControlInTransaction
<1>17. CASE Restart
  <2>1. Current /\ UNCHANGED <<left, ctx, globalError>>
    BY <1>b, <1>17, Zenon DEF Forward, Restart, locals
  <2>2. /\ pc \in Forth
        /\ Rollback \/ Settle("failed_no_rollback", FALSE)
           \/ (pc' \in Forth /\ rows' = rows /\ cur' = cur)
    <3>1. StartFailed => Rollback \/ Settle("failed_no_rollback", FALSE)
      BY Zenon DEF StartFailed
    <3> QED BY <1>17, <3>1, Zenon DEF Restart, Proceed, Forth
  <2>3. "failed_no_rollback" \in Statuses \ {"none", "not_updated"}
    BY Zenon DEF Statuses
  <2> QED BY <1>a, <2>1, <2>2, <2>3, ControlInTransaction
<1>18. CASE Verify
  <2>1. Current /\ UNCHANGED <<left, ctx, globalError>>
    BY <1>b, <1>18, Zenon DEF Forward, Verify, Sample, locals
  <2>2. /\ pc \in Forth
        /\ \/ Settle("failed_no_rollback", FALSE) \/ Settle("updated", TRUE)
           \/ (pc' \in Forth /\ rows' = rows /\ cur' = cur)
           \/ /\ pc' \in Back /\ UNCHANGED cur
              /\ rows' = [rows EXCEPT ![cur] = [status |-> "failed_restore", verified |-> FALSE]]
    BY <1>18, Zenon DEF Verify, Sample, Verified, VerifyFails, Forth, Back, Row
  <2>3. {"failed_no_rollback", "updated"} \subseteq Statuses \ {"none", "not_updated"}
    BY Zenon DEF Statuses
  <2> QED BY <1>a, <2>1, <2>2, <2>3, ControlInTransaction
<1>19. CASE RestoreUnit
  BY <1>19, <1>a, <1>b, Zenon DEF RestoreUnit, Lost, Next1, Backward, locals,
     bounds, Control, Early, Forth, Back, RunOK, RowsOK, Prepared, Current,
     Row, Settle, NoRows
<1>20. CASE RestoreEnv
  BY <1>20, <1>a, <1>b, Zenon DEF RestoreEnv, Lost, Next1, Backward, locals,
     bounds, Control, Early, Forth, Back, RunOK, RowsOK, Prepared, Current,
     Row, Settle, NoRows
<1>21. CASE ReloadRestored
  BY <1>21, <1>a, <1>b, Zenon DEF ReloadRestored, Reloads, ReloadFails, Lost,
     Next1, Backward, locals, bounds, Control, Early, Forth, Back, RunOK,
     RowsOK, Prepared, Current, Row, Settle, NoRows
<1>22. CASE RestoreMeta
  BY <1>22, <1>a, <1>b, Zenon DEF RestoreMeta, AfterMetadata, Errs, Next1,
     Backward, locals, bounds, Control, Early, Forth, Back, RunOK, RowsOK,
     Prepared, Current, Row, Settle, NoRows
<1>23. CASE RecoverStart
  BY <1>23, <1>a, <1>b, Zenon DEF RecoverStart, Restarts, RestartFails, Errs,
     Next1, Backward, locals, bounds, Control, Early, Forth, Back, RunOK,
     RowsOK, Prepared, Current, Row, Settle, NoRows
<1>24. CASE RecoverAgain
  BY <1>24, <1>a, <1>b, Zenon DEF RecoverAgain, Restarts, RestartFails, Errs,
     Next1, Backward, locals, bounds, Control, Early, Forth, Back, RunOK,
     RowsOK, Prepared, Current, Row, Settle, NoRows
<1>25. CASE RecoverVerify
  BY <1>25, <1>a, <1>b, Zenon DEF RecoverVerify, Sample, NextSample,
     Recovered, RecoveryFails, Errs, Backward, locals, bounds, Control, Early,
     Forth, Back, RunOK, RowsOK, Prepared, Current, Row, Settle, NoRows
<1>26. CASE VerifyStopped
  BY <1>26, <1>a, <1>b, Zenon DEF VerifyStopped, Errs, Next1, Backward,
     locals, bounds, Control, Early, Forth, Back, RunOK, RowsOK, Prepared,
     Current, Row, Settle, NoRows
<1>27. CASE RollbackEnds
  BY <1>27, <1>a, <1>b, Zenon DEF RollbackEnds, RollbackStatus, Backward,
     locals, bounds, Control, Early, Forth, Back, RunOK, RowsOK, Prepared,
     Current, Row, Settle, NoRows
<1> QED
  BY <1>1, <1>2, <1>3, <1>4, <1>5, <1>6, <1>7, <1>8, <1>9, <1>10, <1>11, <1>12, <1>13,
     <1>14, <1>15, <1>16, <1>17, <1>18, <1>19, <1>20, <1>21, <1>22, <1>23, <1>24, <1>25,
     <1>26, <1>27, Zenon DEF Next, Step, Forward, Backward

LEMMA RemembersStep ==
  ASSUME IInv, Next
  PROVE  Remembers'
<1>a. FilesOK /\ RunOK /\ Control /\ Remembers /\ Reported
  BY DEF IInv, Types
<1>1. CASE Run \/ Kill
  BY <1>1, Zenon DEF Run, Kill, Remembers, Prepared, NoContext
<1>2. CASE Inspect
  <2>1. PICK a \in left, row \in {"failed_unchanged", "skipped", "not_updated"},
             c \in Contexts \cup {None} :
           /\ pc = "inspect" /\ Inspected(a, row, c)
           /\ c = Snapshot(a) \/ c = None
    BY <1>a, <1>2, InspectCases, Zenon
  <2>2. a \in Apps /\ rows[a].status = "none" /\ cur = None /\ a # cur
    BY <1>a, <2>1, UpdaterAssumption, SMT DEF UpdaterAssumption, RunOK, Control, Early, Row
  <2>4. Unchanged(a)
    BY <1>a, <2>1, <2>2 DEF Reported, Settled, Quiet
  <2>3. c # None => c.unit = before.unit[a] /\ c.env = before.env[a] /\ c.meta = before.meta[a]
    BY <2>1, <2>4 DEF Snapshot, Unchanged
  <2> QED BY <1>a, <2>1, <2>2, <2>3, Zenon DEF Remembers, Prepared, RunOK, Inspected, bounds
<1>3. CASE Machine
  BY <1>a, <1>3, MachineCases, Zenon DEF Remembers, Prepared, updater, bounds
<1>4. ASSUME Step, ~Inspect PROVE UNCHANGED <<ctx, before>>
  BY <1>4, Zenon DEF Step, Forward, Backward, Refuse, EndOfInspection,
     Prepare, Prepared, PrepareFails, TakeNext, RunEnds, AlreadyCurrent,
     Begin, Remembered, On, BeginFails, WriteUnit, Rollback, Proceed,
     WriteEnv, Reload, Reloads, ReloadFails, AfterReload, Commit, Committed,
     Restart, Restarts, RestartFails, StartFailed, Verify, Sample, NextSample,
     Verified, VerifyFails, RestoreUnit, Lost, Next1, RestoreEnv,
     ReloadRestored, RestoreMeta, AfterMetadata, Errs, RecoverStart,
     RecoverAgain, RecoverVerify, Recovered, RecoveryFails, VerifyStopped,
     RollbackEnds, RollbackStatus, locals, bounds
<1> QED BY <1>a, <1>1, <1>2, <1>3, <1>4, Zenon DEF Next, Remembers, Prepared

-----------------------------------------------------------------------------
(* What the rows say.                                                      *)

\* Another application's transaction leaves a alone, except that systemd may
\* read its unit file again.
Kept(a) ==
    /\ unit'[a] = unit[a] /\ env'[a] = env[a] /\ meta'[a] = meta[a]
    /\ loaded'[a] \in {loaded[a], unit[a]}
    /\ proc'[a] = proc[a] /\ rows'[a] = rows[a]
    /\ before' = before /\ target' = target
OthersKept == \A a \in Apps \ {cur} : Kept(a)

LEMMA KeptSettled == \A a \in Apps : Kept(a) /\ Settled(a) => Settled(a)'
BY SMT DEF Kept, Settled, Quiet, Unchanged, Configured, RunsLoaded

\* A transaction touches no application but its own.
LEMMA TransactionKeepsOthers ==
  ASSUME FilesOK, RunOK, RowsOK, Current, AlreadyCurrent \/ Forward \/ Backward
  PROVE  OthersKept
<1> USE DEF OthersKept, Kept, FilesOK, RunOK, RowsOK, Current, files, locals, bounds
<1>1. CASE AlreadyCurrent
  BY <1>1, Zenon DEF AlreadyCurrent, Settle, Row
<1>2. CASE Begin
  BY <1>2, Zenon DEF Begin, Remembered, On
<1>3. CASE BeginFails
  BY <1>3, Zenon DEF BeginFails, Settle, Row
<1>4. CASE WriteUnit
  BY <1>4, Zenon DEF WriteUnit, Rollback, Proceed, Row
<1>5. CASE WriteEnv
  BY <1>5, Zenon DEF WriteEnv, Rollback, Proceed, Row
<1>6. CASE Reload
  BY <1>6, Zenon DEF Reload, Reloads, ReloadFails, AfterReload, Rollback,
     Proceed, Row
<1>7. CASE Commit
  BY <1>7, Zenon DEF Commit, Committed, Rollback, Proceed, Settle, Row
<1>8. CASE Restart
  BY <1>8, Zenon DEF Restart, Restarts, RestartFails, StartFailed, Rollback,
     Proceed, Settle, Row
<1>9. CASE Verify
  BY <1>9, Zenon DEF Verify, Sample, NextSample, Verified, VerifyFails,
     Settle, Row
<1>10. CASE RestoreUnit
  BY <1>10, Zenon DEF RestoreUnit, Lost, Next1
<1>11. CASE RestoreEnv
  BY <1>11, Zenon DEF RestoreEnv, Lost, Next1
<1>12. CASE ReloadRestored
  BY <1>12, Zenon DEF ReloadRestored, Reloads, ReloadFails, Lost, Next1
<1>13. CASE RestoreMeta
  BY <1>13, Zenon DEF RestoreMeta, AfterMetadata, Errs, Next1
<1>14. CASE RecoverStart
  BY <1>14, Zenon DEF RecoverStart, Restarts, RestartFails, Errs, Next1
<1>15. CASE RecoverAgain
  BY <1>15, Zenon DEF RecoverAgain, Restarts, RestartFails, Errs, Next1
<1>16. CASE RecoverVerify
  BY <1>16, Zenon DEF RecoverVerify, Sample, NextSample, Recovered,
     RecoveryFails, Errs
<1>17. CASE VerifyStopped
  BY <1>17, Zenon DEF VerifyStopped, Errs, Next1
<1>18. CASE RollbackEnds
  BY <1>18, Zenon DEF RollbackEnds, RollbackStatus, Settle, Row
<1> QED
  BY <1>1, <1>2, <1>3, <1>4, <1>5, <1>6, <1>7, <1>8, <1>9, <1>10, <1>11,
     <1>12, <1>13, <1>14, <1>15, <1>16, <1>17, <1>18, Zenon DEF Forward,
     Backward

LEMMA ReportedStep ==
  ASSUME IInv, Next
  PROVE  Reported'
<1>a. /\ FilesOK /\ RunOK /\ RowsOK /\ TxOK /\ BeforeOK
      /\ Control /\ Remembers /\ Reported /\ Underway /\ World
  BY DEF IInv, Types
<1>b. AlreadyCurrent \/ Forward \/ Backward => Current /\ OthersKept /\ pc # "idle"
  <2>1. AlreadyCurrent \/ Forward \/ Backward => Current
    BY <1>a, InTransaction
  <2>2. Current => pc # "idle"
    BY <1>a, Zenon DEF Current, Control, Early
  <2> QED BY <1>a, <2>1, <2>2, TransactionKeepsOthers
\* Steps that settle no row, and steps that settle the one of the transaction.
<1>c. ASSUME OthersKept, pc # "idle", cur' = cur, pc' # "update" PROVE Reported'
  BY <1>a, <1>c, KeptSettled, Zenon DEF Reported, OthersKept
<1>d. ASSUME OthersKept, pc # "idle", \A a \in Apps : a = cur => Settled(a)' PROVE Reported'
  BY <1>a, <1>d, KeptSettled, SMT DEF Reported, OthersKept
<1>e. Current /\ pc = "update" => Settled(cur) /\ rows[cur] = Row("not_updated", FALSE)
  BY <1>a, Zenon DEF Current, Reported, Control, Back
<1>1. CASE Run
  BY <1>a, <1>1, Zenon DEF Run, Reported, Control, Early, FilesOK, RunOK, RowsOK,
     Settled, Quiet, Unchanged, Configured, RunsLoaded, files, locals, bounds,
     NoRows, Row
<1>2. CASE Inspect
  <2>1. PICK a \in left, row \in {"failed_unchanged", "skipped", "not_updated"},
             c \in Contexts \cup {None} :
           /\ pc = "inspect" /\ Inspected(a, row, c)
           /\ row = "skipped" => ~Eligible(a)
           /\ row = "not_updated" => unit[a] = loaded[a]
    BY <1>a, <1>2, InspectCases, Zenon
  <2> QED
    BY <1>a, <2>1, SMT DEF Inspected, Eligible, Row, Reported, Control, Early,
       FilesOK, RunOK, RowsOK, Settled, Quiet, Unchanged, Configured,
       RunsLoaded, files, locals, bounds
<1>3. CASE Refuse
  BY <1>a, <1>3, Zenon DEF Refuse, Reported, Control, Early, FilesOK, RunOK,
     RowsOK, Settled, Quiet, Unchanged, Configured, RunsLoaded, files, locals,
     bounds
<1>4. CASE EndOfInspection
  BY <1>a, <1>4, Zenon DEF EndOfInspection, Reported, Control, Early, FilesOK,
     RunOK, RowsOK, Settled, Quiet, Unchanged, Configured, RunsLoaded, files,
     locals, bounds
<1>5. CASE Prepare
  <2>1. /\ pc = "prepare" /\ cur = None /\ cur' = None
        /\ UNCHANGED <<unit, env, loaded, meta, proc, target, rows, before>>
    BY <1>a, <1>5, Zenon DEF Prepare, Control, Early, files, locals, bounds
  <2>2. \A a \in Apps : Settled(a)
    BY <1>a, <2>1, UpdaterAssumption, Zenon DEF UpdaterAssumption, Reported
  <2> QED BY <2>1, <2>2, Zenon DEF Reported, Settled, Quiet, Unchanged, Configured,
             RunsLoaded
<1>6. CASE PrepareFails
  BY <1>a, <1>6, SMT DEF PrepareFails, Reported, Control, Early, FilesOK, RunOK,
     RowsOK, Settled, Quiet, Unchanged, Configured, RunsLoaded, files, locals,
     bounds, Prepared, Row
<1>7. CASE TakeNext
  BY <1>a, <1>7, Zenon DEF TakeNext, Reported, Control, Early, FilesOK, RunOK,
     RowsOK, Settled, Quiet, Unchanged, Configured, RunsLoaded, files, locals,
     bounds
<1>8. CASE RunEnds
  BY <1>a, <1>8, Zenon DEF RunEnds, Reported, Control, Early, FilesOK, RunOK,
     RowsOK, Settled, Quiet, Unchanged, Configured, RunsLoaded, files, locals,
     bounds
<1>9. CASE Kill
  BY <1>a, <1>9, Zenon DEF Kill, Reported, Control, Early, FilesOK, RunOK,
     RowsOK, Settled, Quiet, Unchanged, Configured, RunsLoaded, files, locals,
     bounds
<1>10. CASE Machine
  <2>1. UNCHANGED <<files, updater, bounds>>
    BY <1>a, <1>10, MachineCases, Zenon
  <2>2. PICK a \in Apps, p \in Processes :
          /\ proc' = [proc EXCEPT ![a] = p]
          /\ p.state = "running" => p.exec = loaded[a]
    BY <1>a, <1>10, MachineCases, Zenon
  <2>3. \A b \in Apps : proc'[b] = IF b = a THEN p ELSE proc[b]
    BY <1>a, <2>2, Zenon DEF FilesOK
  <2>4. ASSUME NEW b \in Apps, Settled(b) PROVE Settled(b)'
    BY <2>1, <2>2, <2>3, <2>4, Zenon
       DEF files, updater, bounds, Settled, Quiet, Unchanged, Configured, RunsLoaded
  <2> QED BY <1>a, <2>1, <2>4, Zenon DEF Reported, updater
<1>11. CASE AlreadyCurrent
  <2>1. Current /\ Settled(cur) /\ pc = "update"
    BY <1>b, <1>e, <1>11, Zenon DEF AlreadyCurrent
  <2>2. /\ unit[cur] = target /\ env[cur] = target /\ meta[cur] = Path(target)
        /\ loaded[cur] = target /\ Unchanged(cur)
    BY <1>e, <1>11, <2>1, SMT
       DEF AlreadyCurrent, Changed, Current, Settled, Quiet, Unchanged, Row
  <2>3. ASSUME NEW a \in Apps, a = cur PROVE Settled(a)'
    BY <1>a, <1>11, <2>1, <2>2, <2>3, Zenon DEF AlreadyCurrent, RowsOK, Row, Settle,
       files, locals, bounds, Settled, Quiet, Unchanged, Configured, RunsLoaded
  <2> QED BY <1>b, <1>d, <1>11, <2>3
<1>12. CASE Begin \/ WriteUnit \/ WriteEnv \/ Reload
  <2>1. cur' = cur /\ pc' # "update"
    BY <1>12, Zenon DEF Begin, WriteUnit, WriteEnv, Reload, AfterReload, Proceed, Rollback
  <2> QED BY <1>b, <1>c, <1>12, <2>1, Zenon DEF Forward
<1>13. CASE BeginFails
  <2>1. Current /\ Settled(cur) /\ rows[cur].status = "not_updated"
    BY <1>b, <1>e, <1>13, SMT DEF BeginFails, Forward, Row
  <2>2. ASSUME NEW a \in Apps, a = cur PROVE Settled(a)'
    BY <1>a, <1>13, <2>1, <2>2, SMT DEF BeginFails, RowsOK, Row, Settle, files,
       locals, bounds, Settled, Quiet, Unchanged, Configured, RunsLoaded
  <2> QED BY <1>b, <1>d, <1>13, <2>2, Zenon DEF Forward
<1>14. CASE Commit
  <2>1. Current /\ OthersKept /\ pc # "idle" /\ pc = "commit"
    BY <1>b, <1>14, Zenon DEF Commit, Forward
  <2>2. InForce(cur) /\ (tx.config /\ rollback /\ old.active => RunsLoaded(cur))
    BY <1>a, <2>1, Zenon DEF World
  <2>3. CASE cur' = cur /\ pc' # "update"
    BY <1>c, <2>1, <2>3
  <2>4. ASSUME NEW v \in BOOLEAN, v => tx.config /\ rollback /\ old.active,
               Settle("updated", v), meta' = [meta EXCEPT ![cur] = Path(target)]
        PROVE  Reported'
    <3>1. UNCHANGED <<unit, env, loaded, proc, locals>>
      BY <1>14, Zenon DEF Commit
    <3>2. ASSUME NEW a \in Apps, a = cur PROVE Settled(a)'
      BY <1>a, <2>2, <2>4, <3>1, <3>2, SMTT(30) DEF FilesOK, InForce, RowsOK, Row,
         Settle, files, locals, bounds, Settled, Quiet, Unchanged, Configured,
         RunsLoaded
    <3> QED BY <1>d, <2>1, <3>2
  <2>5. old.active \in BOOLEAN
    BY <2>1, Zenon DEF Current, Contexts
  <2>6. CASE Committed /\ meta' = [meta EXCEPT ![cur] = Path(target)]
    <3>1. CASE ~tx.config
      BY <2>4, <2>6, <3>1, Zenon DEF Committed
    <3>2. CASE tx.config /\ (rollback \/ ~old.active)
      BY <2>4, <2>5, <2>6, <3>2, Zenon DEF Committed
    <3>3. CASE tx.config /\ ~(rollback \/ ~old.active)
      BY <2>3, <2>6, <3>3, Zenon DEF Committed, Proceed
    <3> QED BY <3>1, <3>2, <3>3
  <2>7. CASE Rollback
    BY <2>3, <2>7, Zenon DEF Rollback
  <2> QED BY <1>14, <2>6, <2>7, Zenon DEF Commit
<1>15. CASE Restart
  <2>1. Current /\ OthersKept /\ pc # "idle" /\ pc = "restart"
    BY <1>b, <1>15, Zenon DEF Restart, Forward
  <2>2. CASE cur' = cur /\ pc' # "update"
    BY <1>c, <2>1, <2>2
  <2>3. CASE Settle("failed_no_rollback", FALSE) /\ ~rollback
    <3>1. InForce(cur) /\ meta[cur] = Path(target) /\ UNCHANGED <<files, locals, bounds>>
      BY <1>a, <1>15, <2>1, <2>3, Zenon DEF World, Restart
    <3>2. ASSUME NEW a \in Apps, a = cur PROVE Settled(a)'
      BY <1>a, <2>3, <3>1, <3>2, SMT DEF InForce, RowsOK, Row, Settle, files,
         locals, bounds, Settled, Quiet, Unchanged, Configured, RunsLoaded
    <3> QED BY <1>d, <2>1, <3>2
  <2>4. CASE StartFailed
    BY <2>2, <2>3, <2>4, Zenon DEF StartFailed, Rollback
  <2>5. CASE Proceed("verify")
    BY <2>2, <2>5, Zenon DEF Proceed
  <2> QED BY <1>15, <2>4, <2>5, Zenon DEF Restart
<1>16. CASE Verify
  <2>1. /\ Current /\ OthersKept /\ pc # "idle" /\ pc = "verify"
        /\ UNCHANGED <<files, proc, locals, bounds>>
    BY <1>b, <1>16, Zenon DEF Verify, Sample, Forward
  <2>2. CASE cur' = cur /\ pc' # "update"
    BY <1>c, <2>1, <2>2
  <2>3. InForce(cur) /\ (~rollback => meta[cur] = Path(target))
    BY <1>a, <2>1, Zenon DEF World
  <2>4. CASE Settle("failed_no_rollback", FALSE) /\ ~rollback
    <3>1. ASSUME NEW a \in Apps, a = cur PROVE Settled(a)'
      BY <1>a, <2>1, <2>3, <2>4, <3>1, SMT DEF InForce, RowsOK, Row, Settle, files,
         locals, bounds, Settled, Quiet, Unchanged, Configured, RunsLoaded
    <3> QED BY <1>d, <2>1, <3>1
  <2>5. CASE Settle("updated", TRUE) /\ ~rollback /\ SampleIsGood(target)
    <3>1. ASSUME NEW a \in Apps, a = cur PROVE Settled(a)'
      BY <1>a, <2>1, <2>3, <2>5, <3>1, SMT DEF InForce, SampleIsGood, Running,
         RowsOK, Row, Settle, files, locals, bounds, Settled, Quiet, Unchanged,
         Configured, RunsLoaded
    <3> QED BY <1>d, <2>1, <3>1
  <2>6. CASE VerifyFails
    BY <2>2, <2>4, <2>6, Zenon DEF VerifyFails
  <2>7. CASE Verified /\ SampleIsGood(target)
    BY <2>2, <2>5, <2>7, Zenon DEF Verified
  <2>8. CASE UNCHANGED <<pc, cur, rows>>
    BY <2>1, <2>2, <2>8, Zenon
  <2> QED BY <1>16, <2>6, <2>7, <2>8, Zenon DEF Verify, Sample
<1>17. CASE Backward /\ ~RollbackEnds
  <2>1. cur' = cur /\ pc' # "update"
    BY <1>17, Zenon DEF Backward, RestoreUnit, Lost, Next1, RestoreEnv,
       ReloadRestored, Reloads, ReloadFails, RestoreMeta, AfterMetadata, Errs,
       RecoverStart, Restarts, RestartFails, RecoverAgain, RecoverVerify,
       Sample, NextSample, Recovered, RecoveryFails, VerifyStopped
  <2> QED BY <1>b, <1>c, <1>17, <2>1
<1>18. CASE RollbackEnds
  <2>1. Current /\ OthersKept /\ pc # "idle" /\ pc = "rb_end" /\ Transaction /\ World
    BY <1>a, <1>b, <1>18, Zenon DEF RollbackEnds, Backward, Underway, Back
  <2>2. UNCHANGED <<unit, env, loaded, meta, proc, target, before>>
    BY <1>18, Zenon DEF RollbackEnds, files, locals, bounds
  <2>3. CASE tx.errors
    <3>1. rows' = [rows EXCEPT ![cur] = [status |-> "failed_restore", verified |-> FALSE]]
      BY <1>18, <2>3, Zenon DEF RollbackEnds, RollbackStatus, Settle, Row
    <3>2. ASSUME NEW a \in Apps, a = cur PROVE Settled(a)'
      BY <1>a, <2>2, <3>1, <3>2, SMT DEF RowsOK, Settled, Quiet, Unchanged,
         Configured, RunsLoaded
    <3> QED BY <1>d, <2>1, <3>2
  <2>4. CASE ~tx.errors
    <3>1. /\ Unchanged(cur) /\ loaded[cur] = before.unit[cur]
          /\ tx.config /\ old.active => RunsLoaded(cur)
      BY <2>1, <2>4, SMT DEF World, Transaction, RestoredFiles, Unchanged
    <3>2. PICK v \in BOOLEAN : Settle("failed_restored", v) /\ (v => tx.config /\ old.active)
      <4>1. tx.config \in BOOLEAN /\ old.active \in BOOLEAN
        BY <1>a, <2>1 DEF TxOK, Txs, Current, Contexts
      <4>2. Settle("failed_restored", tx.config /\ old.active)
        BY <1>18, <2>4, Zenon DEF RollbackEnds, RollbackStatus, Settle, Row
      <4> QED BY <4>1, <4>2, Zenon
    <3>3. ASSUME NEW a \in Apps, a = cur PROVE Settled(a)'
      BY <1>a, <2>2, <3>1, <3>2, <3>3, SMT DEF RowsOK, Row, Settle, Settled, Quiet,
         Unchanged, Configured, RunsLoaded
    <3> QED BY <1>d, <2>1, <3>3
  <2> QED BY <2>3, <2>4
<1> QED
  BY <1>1, <1>2, <1>3, <1>4, <1>5, <1>6, <1>7, <1>8, <1>9, <1>10, <1>11,
     <1>12, <1>13, <1>14, <1>15, <1>16, <1>17, <1>18, Zenon DEF Next, Step,
     Forward

-----------------------------------------------------------------------------
(* The transaction.                                                        *)

LEMMA UnderwayStep ==
  ASSUME IInv, Next
  PROVE  Underway'
<1>a. /\ FilesOK /\ RunOK /\ RowsOK /\ TxOK /\ BeforeOK
      /\ Control /\ Remembers /\ Reported /\ Underway /\ World
  BY DEF IInv, Types
<1>b. AlreadyCurrent \/ Forward \/ Backward => Current
  BY <1>a, InTransaction
<1>c. ASSUME pc' \in Early \cup {"update"} PROVE Underway'
  BY <1>c DEF Underway, Early, Forth, Back
<1>1. CASE Run \/ Refuse \/ EndOfInspection \/ Prepare \/ PrepareFails \/ RunEnds \/ Kill
  <2>1. pc' \in Early \cup {"update"}
    BY <1>a, <1>1, Zenon DEF Early, Control, Run, Refuse, EndOfInspection,
       Prepare, Prepared, PrepareFails, RunEnds, Kill
  <2> QED BY <1>c, <2>1
<1>2. CASE Inspect
  <2>1. pc' = "inspect"
    BY <1>a, <1>2, InspectCases, Zenon DEF Inspected
  <2> QED BY <1>c, <2>1, Zenon DEF Early
<1>3. CASE TakeNext
  <2>1. pc' = "update"
    BY <1>3, Zenon DEF TakeNext
  <2> QED BY <1>c, <2>1, Zenon
<1>4. CASE AlreadyCurrent \/ BeginFails \/ RollbackEnds
  <2>1. pc' = "update"
    BY <1>4, Zenon DEF AlreadyCurrent, BeginFails, RollbackEnds, Settle
  <2> QED BY <1>c, <2>1, Zenon
<1>5. CASE Begin
  <2>1. Current /\ Settled(cur) /\ rows[cur].status = "not_updated"
    BY <1>a, <1>b, <1>5, SMT DEF Begin, Forward, Current, Reported, Control, Back, Row
  <2>2. Unchanged(cur)
    BY <2>1, SMT DEF Settled, Quiet
  <2> QED
    BY <2>1, <2>2, <1>5, Zenon DEF Begin, Remembered, NoTx, Unchanged, Underway,
       Transaction, Forth, Back, Current, World, RunOK, TxOK, Txs, old,
       Changed, files, locals, bounds, updater
<1>6. CASE WriteUnit
  BY <1>a, <1>b, <1>6, Zenon DEF WriteUnit, Rollback, Proceed, Underway,
     Transaction, Forth, Back, Current, World, RunOK, TxOK, Txs, old, Changed,
     files, locals, bounds, updater, Forward, Backward
<1>7. CASE WriteEnv
  BY <1>a, <1>b, <1>7, Zenon DEF WriteEnv, Rollback, Proceed, Underway,
     Transaction, Forth, Back, Current, World, RunOK, TxOK, Txs, old, Changed,
     files, locals, bounds, updater, Forward, Backward
<1>8. CASE Reload
  BY <1>a, <1>b, <1>8, Zenon DEF Reload, Reloads, ReloadFails, AfterReload,
     Rollback, Proceed, Underway, Transaction, Forth, Back, Current, World,
     RunOK, TxOK, Txs, old, Changed, files, locals, bounds, updater, Forward,
     Backward
<1>9. CASE Commit
  BY <1>a, <1>b, <1>9, Zenon DEF Commit, Committed, Rollback, Proceed, Underway,
     Transaction, Forth, Back, Current, World, RunOK, TxOK, Txs, old, Changed,
     files, locals, bounds, updater, Settle, Row, Forward, Backward
<1>10. CASE Restart
  BY <1>a, <1>b, <1>10, Zenon DEF Restart, Restarts, RestartFails, StartFailed,
     Rollback, Proceed, Underway, Transaction, Forth, Back, Current, World,
     RunOK, TxOK, Txs, old, Changed, files, locals, bounds, updater, Settle,
     Row, Forward, Backward
<1>11. CASE Verify
  BY <1>a, <1>b, <1>11, Zenon DEF Verify, Sample, Verified, VerifyFails, Underway,
     Transaction, Forth, Back, Current, World, RunOK, TxOK, Txs, old, Changed,
     files, locals, bounds, updater, Settle, Row, Forward, Backward
<1>12. CASE RestoreUnit
  BY <1>a, <1>b, <1>12, Zenon DEF RestoreUnit, Lost, Next1, Underway, Transaction,
     Forth, Back, Current, World, RunOK, TxOK, Txs, old, Changed, files,
     locals, bounds, updater, Forward, Backward
<1>13. CASE RestoreEnv
  BY <1>a, <1>b, <1>13, Zenon DEF RestoreEnv, Lost, Next1, Underway, Transaction,
     Forth, Back, Current, World, RunOK, TxOK, Txs, old, Changed, files,
     locals, bounds, updater, Forward, Backward
<1>14. CASE ReloadRestored
  BY <1>a, <1>b, <1>14, Zenon DEF ReloadRestored, Reloads, ReloadFails, Lost,
     Next1, Underway, Transaction, Forth, Back, Current, World, RunOK, TxOK,
     Txs, old, Changed, files, locals, bounds, updater, Forward, Backward
<1>15. CASE RestoreMeta
  BY <1>a, <1>b, <1>15, Zenon DEF RestoreMeta, AfterMetadata, Errs, Next1,
     Underway, Transaction, Forth, Back, Current, World, RunOK, TxOK, Txs,
     old, Changed, files, locals, bounds, updater, Forward, Backward
<1>16. CASE RecoverStart
  BY <1>a, <1>b, <1>16, Zenon DEF RecoverStart, Restarts, RestartFails, Errs,
     Next1, Underway, Transaction, Forth, Back, Current, World, RunOK, TxOK,
     Txs, old, Changed, files, locals, bounds, updater, Forward, Backward
<1>17. CASE RecoverAgain
  BY <1>a, <1>b, <1>17, Zenon DEF RecoverAgain, Restarts, RestartFails, Errs,
     Next1, Underway, Transaction, Forth, Back, Current, World, RunOK, TxOK,
     Txs, old, Changed, files, locals, bounds, updater, Forward, Backward
<1>18. CASE RecoverVerify
  BY <1>a, <1>b, <1>18, Zenon DEF RecoverVerify, Sample, Recovered, RecoveryFails,
     Errs, Underway, Transaction, Forth, Back, Current, World, RunOK, TxOK,
     Txs, old, Changed, files, locals, bounds, updater, Forward, Backward
<1>19. CASE VerifyStopped
  BY <1>a, <1>b, <1>19, Zenon DEF VerifyStopped, Errs, Next1, Underway,
     Transaction, Forth, Back, Current, World, RunOK, TxOK, Txs, old, Changed,
     files, locals, bounds, updater, Forward, Backward
<1>20. CASE Machine
  <2>1. UNCHANGED <<files, updater, bounds>>
    BY <1>a, <1>20, MachineCases, Zenon
  <2> QED BY <1>a, <2>1, Zenon DEF Underway, Transaction, old, Changed, updater, bounds
<1> QED
  BY <1>1, <1>2, <1>3, <1>4, <1>5, <1>6, <1>7, <1>8, <1>9, <1>10, <1>11,
     <1>12, <1>13, <1>14, <1>15, <1>16, <1>17, <1>18, <1>19, <1>20, Zenon DEF
     Next, Step, Forward, Backward

LEMMA WorldStep ==
  ASSUME IInv, Next
  PROVE  World'
<1>a. /\ FilesOK /\ RunOK /\ RowsOK /\ TxOK /\ BeforeOK
      /\ Control /\ Remembers /\ Reported /\ Underway /\ World
  BY DEF IInv, Types
<1>b. AlreadyCurrent \/ Forward \/ Backward => Current
  BY <1>a, InTransaction
<1>c. ASSUME pc' \in Early \cup {"update", "unit"} PROVE World'
  BY <1>c, Zenon DEF World, Early
<1>1. CASE Run \/ Refuse \/ EndOfInspection \/ Prepare \/ PrepareFails \/ RunEnds \/ Kill
  <2>1. pc' \in Early \cup {"update"}
    BY <1>a, <1>1, Zenon DEF Early, Control, Run, Refuse, EndOfInspection,
       Prepare, Prepared, PrepareFails, RunEnds, Kill
  <2> QED BY <1>c, <2>1
<1>2. CASE Inspect
  <2>1. pc' = "inspect"
    BY <1>a, <1>2, InspectCases, Zenon DEF Inspected
  <2> QED BY <1>c, <2>1, Zenon DEF Early
<1>3. CASE TakeNext
  <2>1. pc' = "update"
    BY <1>3, Zenon DEF TakeNext
  <2> QED BY <1>c, <2>1, Zenon
<1>4. CASE AlreadyCurrent \/ BeginFails \/ RollbackEnds
  <2>1. pc' = "update"
    BY <1>4, Zenon DEF AlreadyCurrent, BeginFails, RollbackEnds, Settle
  <2> QED BY <1>c, <2>1, Zenon
<1>5. CASE Begin
  <2>1. Current /\ Settled(cur) /\ rows[cur].status = "not_updated"
    BY <1>a, <1>b, <1>5, SMT DEF Begin, Forward, Current, Reported, Control, Back, Row
  <2>2. Unchanged(cur) /\ loaded[cur] = unit[cur]
    BY <2>1, SMT DEF Settled, Quiet
  <2> QED
    BY <2>1, <2>2, <1>5, Zenon DEF Begin, Remembered, NoTx, Unchanged, World,
       Current, old, Changed, InForce, files, locals, bounds, updater
<1>6. CASE WriteUnit
  BY <1>a, <1>b, <1>6, SMT DEF WriteUnit, Rollback, Proceed, Forward, Backward,
     Settle, Row, Underway, Transaction, Forth, Back, Current, World, RunOK,
     FilesOK, TxOK, Txs, old, Changed, InForce, RestoredFiles, RunsLoaded,
     files, locals, bounds, updater
<1>7. CASE WriteEnv
  BY <1>a, <1>b, <1>7, SMT DEF WriteEnv, Rollback, Proceed, Forward, Backward,
     Settle, Row, Underway, Transaction, Forth, Back, Current, World, RunOK,
     FilesOK, TxOK, Txs, old, Changed, InForce, RestoredFiles, RunsLoaded,
     files, locals, bounds, updater
<1>8. CASE Reload
  BY <1>a, <1>b, <1>8, Zenon DEF Reload, Reloads, ReloadFails, AfterReload,
     Rollback, Proceed, Forward, Backward, Underway, Transaction, Forth, Back,
     Current, World, RunOK, FilesOK, TxOK, Txs, old, Changed, InForce,
     RestoredFiles, RunsLoaded, files, locals, bounds, updater
<1>9. CASE Commit
  BY <1>a, <1>b, <1>9, SMT DEF Commit, Committed, Rollback, Proceed, Forward,
     Backward, Settle, Row, Underway, Transaction, Forth, Back, Current,
     World, RunOK, FilesOK, TxOK, Txs, old, Changed, InForce, RestoredFiles,
     RunsLoaded, files, locals, bounds, updater
<1>10. CASE Restart
  BY <1>a, <1>b, <1>10, Zenon DEF Restart, Restarts, RestartFails, StartFailed,
     Rollback, Proceed, Forward, Backward, Settle, Row, Running, Down,
     Underway, Transaction, Forth, Back, Current, World, RunOK, FilesOK, TxOK,
     Txs, old, Changed, InForce, RestoredFiles, RunsLoaded, files, locals,
     bounds, updater
<1>11. CASE Verify
  BY <1>a, <1>b, <1>11, SMT DEF Verify, Sample, Verified, VerifyFails, Forward,
     Backward, Settle, Row, SampleIsGood, Running, Underway, Transaction,
     Forth, Back, Current, World, RunOK, FilesOK, TxOK, Txs, old, Changed,
     InForce, RestoredFiles, RunsLoaded, files, locals, bounds, updater
<1>12. CASE RestoreUnit
  BY <1>a, <1>b, <1>12, Zenon DEF RestoreUnit, Lost, Next1, Forward, Backward,
     Underway, Transaction, Forth, Back, Current, World, RunOK, FilesOK, TxOK,
     Txs, old, Changed, InForce, RestoredFiles, RunsLoaded, files, locals,
     bounds, updater
<1>13. CASE RestoreEnv
  BY <1>a, <1>b, <1>13, Zenon DEF RestoreEnv, Lost, Next1, Forward, Backward,
     Underway, Transaction, Forth, Back, Current, World, RunOK, FilesOK, TxOK,
     Txs, old, Changed, InForce, RestoredFiles, RunsLoaded, files, locals,
     bounds, updater
<1>14. CASE ReloadRestored
  BY <1>a, <1>b, <1>14, Zenon DEF ReloadRestored, Reloads, ReloadFails, Lost,
     Next1, Forward, Backward, Underway, Transaction, Forth, Back, Current,
     World, RunOK, FilesOK, TxOK, Txs, old, Changed, InForce, RestoredFiles,
     RunsLoaded, files, locals, bounds, updater
<1>15. CASE RestoreMeta
  BY <1>a, <1>b, <1>15, Zenon DEF RestoreMeta, AfterMetadata, Errs, Next1,
     Forward, Backward, Underway, Transaction, Forth, Back, Current, World,
     RunOK, FilesOK, TxOK, Txs, old, Changed, InForce, RestoredFiles,
     RunsLoaded, files, locals, bounds, updater
<1>16. CASE RecoverStart
  BY <1>a, <1>b, <1>16, Zenon DEF RecoverStart, Restarts, RestartFails, Errs,
     Next1, Forward, Backward, Running, Down, Underway, Transaction, Forth,
     Back, Current, World, RunOK, FilesOK, TxOK, Txs, old, Changed, InForce,
     RestoredFiles, RunsLoaded, files, locals, bounds, updater
<1>17. CASE RecoverAgain
  BY <1>a, <1>b, <1>17, Zenon DEF RecoverAgain, Restarts, RestartFails, Errs,
     Next1, Forward, Backward, Running, Down, Underway, Transaction, Forth,
     Back, Current, World, RunOK, FilesOK, TxOK, Txs, old, Changed, InForce,
     RestoredFiles, RunsLoaded, files, locals, bounds, updater
<1>18. CASE RecoverVerify
  BY <1>a, <1>b, <1>18, SMT DEF RecoverVerify, Sample, Recovered, RecoveryFails,
     Errs, Forward, Backward, SampleIsGood, Running, Underway, Transaction,
     Forth, Back, Current, World, RunOK, FilesOK, TxOK, Txs, old, Changed,
     InForce, RestoredFiles, RunsLoaded, files, locals, bounds, updater
<1>19. CASE VerifyStopped
  BY <1>a, <1>b, <1>19, SMT DEF VerifyStopped, Errs, Next1, Forward, Backward,
     Down, Underway, Transaction, Forth, Back, Current, World, RunOK, FilesOK,
     TxOK, Txs, old, Changed, InForce, RestoredFiles, RunsLoaded, files,
     locals, bounds, updater
<1>20. CASE Machine
  <2>1. UNCHANGED <<files, updater, bounds>>
    BY <1>a, <1>20, MachineCases, Zenon
  <2>2. PICK a \in Apps, p \in Processes :
          /\ proc' = [proc EXCEPT ![a] = p]
          /\ p.state = "running" => p.exec = loaded[a]
    BY <1>a, <1>20, MachineCases, Zenon
  <2>3. \A b \in Apps : RunsLoaded(b) => RunsLoaded(b)'
    BY <1>a, <2>1, <2>2, SMT DEF FilesOK, RunsLoaded, files
  <2>4. pc \in {"commit", "rb_end"} => cur \in Apps
    BY <1>a, Zenon DEF Control, Forth, Back
  <2> QED
    BY <1>a, <2>1, <2>3, <2>4, SMT
       DEF World, InForce, RestoredFiles, old, files, updater, bounds
<1> QED
  BY <1>1, <1>2, <1>3, <1>4, <1>5, <1>6, <1>7, <1>8, <1>9, <1>10, <1>11,
     <1>12, <1>13, <1>14, <1>15, <1>16, <1>17, <1>18, <1>19, <1>20, Zenon DEF
     Next, Step, Forward, Backward

-----------------------------------------------------------------------------
(* The invariant.                                                          *)

LEMMA InitTypes == Init => Types
<1> SUFFICES ASSUME Init PROVE Types
  OBVIOUS
<1>1. PICK h \in [Apps -> InitHosts] :
        /\ unit = [a \in Apps |-> h[a].unit] /\ loaded = [a \in Apps |-> h[a].unit]
        /\ env = [a \in Apps |-> h[a].env] /\ proc = [a \in Apps |-> h[a].proc]
        /\ meta = [a \in Apps |-> h[a].meta]
  BY DEF Init
<1>2. \A a \in Apps : h[a] \in Hosts
  BY UpdaterAssumption DEF UpdaterAssumption
<1>3. FilesOK
  <2>1. \A a \in Apps : /\ h[a].unit \in Runtimes /\ h[a].env \in Runtimes \cup {None}
                        /\ h[a].proc \in Processes /\ h[a].meta \in Interpreters
    BY <1>2 DEF Hosts
  <2> QED BY <1>1, <2>1, Zenon DEF FilesOK
<1>4. RunOK
  BY DataTypes DEF Init, RunOK, Phases
<1>5. RowsOK /\ TxOK
  BY DataTypes DEF Init, RowsOK, TxOK
<1>6. BeforeOK
  BY <1>3 DEF Init, FilesOK, BeforeOK
<1>7. CountsOK
  BY UpdaterAssumption DEF UpdaterAssumption, Init, CountsOK
<1> QED BY <1>3, <1>4, <1>5, <1>6, <1>7 DEF Types

LEMMA InitInvariant == Init => IInv
<1> SUFFICES ASSUME Init PROVE IInv
  OBVIOUS
<1>1. Types
  BY InitTypes
<1>2. Control
  BY Zenon DEF Init, Control, Early, Forth, Back, Prepared, NoContext, NoRows
<1>3. Remembers
  BY Zenon DEF Init, Remembers, Prepared, NoContext
<1>4. Reported /\ Underway /\ World
  BY DEF Init, Reported, Underway, World, Forth, Back
<1> QED BY <1>1, <1>2, <1>3, <1>4 DEF IInv

LEMMA StepInvariant == IInv /\ [Next]_vars => IInv'
<1>1. ASSUME IInv, Next PROVE IInv'
  <2>1. Types'
    BY <1>1, TypesStep DEF IInv
  <2> QED BY <1>1, <2>1, ControlStep, RemembersStep, ReportedStep, UnderwayStep, WorldStep
         DEF IInv
<1>2. ASSUME IInv, UNCHANGED vars PROVE IInv'
  <2> USE <1>2 DEF vars, files, updater, bounds
  <2>1. Types'
    BY DEF IInv, Types, FilesOK, RunOK, RowsOK, TxOK, BeforeOK, CountsOK
  <2>2. Control' /\ Remembers'
    BY Zenon DEF IInv, Control, Remembers, Prepared
  <2>3. Reported'
    BY Zenon DEF IInv, Reported, Settled, Unchanged, Configured, RunsLoaded
  <2>4. Underway'
    BY Zenon DEF IInv, Underway, Transaction, old, Changed
  <2>5. World'
    BY Zenon DEF IInv, World, InForce, RestoredFiles, RunsLoaded, old
  <2> QED BY <2>1, <2>2, <2>3, <2>4, <2>5 DEF IInv
<1> QED BY <1>1, <1>2

\* The invariant holds in every state a run can reach, with whatever failed,
\* died or was killed on the way.
THEOREM Invariant == Spec => []IInv
<1>1. Init => IInv
  BY InitInvariant
<1>2. IInv /\ [Next]_vars => IInv'
  BY StepInvariant
<1> QED BY <1>1, <1>2, PTL DEF Spec

-----------------------------------------------------------------------------
(* What follows from it.                                                   *)

\* Every variable keeps its type: no phase, row or context that _updatePrepared
\* does not know.
THEOREM Typed == Spec => []TypeOK
<1>1. IInv => TypeOK
  BY TypeParts DEF IInv
<1> QED BY <1>1, Invariant, PTL

LEMMA ReportOfInvariant == IInv => ReportIsTrue
<1> SUFFICES ASSUME IInv, NEW a \in Apps
             PROVE  /\ rows[a].status \in {"updated", "failed_no_rollback"} => Configured(a, target)
                    /\ rows[a].status \in {"failed_unchanged", "skipped"} => Unchanged(a)
                    /\ rows[a].status = "not_updated" /\ a # cur => Unchanged(a)
                    /\ rows[a].status = "failed_restored" =>
                          Unchanged(a) /\ loaded[a] = before.unit[a]
  BY Zenon DEF ReportIsTrue
<1>1. CASE pc = "idle"
  <2>1. rows[a].status = "none"
    BY <1>1 DEF IInv, Control, NoRows, Row
  <2> QED BY <2>1
<1>2. CASE pc # "idle" /\ (a # cur \/ pc = "update")
  BY <1>2, SMT DEF IInv, Reported, Settled, Quiet
<1>3. CASE pc # "idle" /\ a = cur /\ pc # "update"
  <2>1. rows[a].status \in {"failed_restore", "not_updated"}
    <3>1. cur # None
      BY <1>3, UpdaterAssumption DEF UpdaterAssumption
    <3> QED BY <1>3, <3>1, SMT DEF IInv, Control, Row
  <2> QED BY <1>3, <2>1
<1> QED BY <1>1, <1>2, <1>3

\* What the report says of an application is so, whatever happened to the
\* others and to the machine since its row was written (NodeRuntimeUpdater.run).
THEOREM TrueReport == Spec => []ReportIsTrue
BY ReportOfInvariant, Invariant, PTL

LEMMA ZeroOfInvariant == IInv => ExitZeroIsComplete
<1> SUFFICES ASSUME IInv, pc = "done", ExitCode = 0, NEW a \in Apps \ Internal,
                    meta[a].kind # "other"
             PROVE  Configured(a, target)
  BY Zenon DEF ExitZeroIsComplete
<1>1. ~globalError /\ rows[a].status \notin Failures \cup {"not_updated"}
  BY DEF ExitCode
<1>2. rows[a].status # "none"
  BY <1>1 DEF IInv, Control
<1>3. rows[a].status \in {"skipped", "updated"}
  BY <1>1, <1>2 DEF IInv, Types, RowsOK, Rows, Statuses, Failures
<1>4. cur = None
  BY DEF IInv, Control, Early
<1>5. Settled(a)
  BY <1>4, UpdaterAssumption DEF UpdaterAssumption, IInv, Reported
<1> QED BY <1>3, <1>5, SMT DEF Settled

\* Exit code 0 is the promise of README.md:356, after any history of failed and
\* killed runs (finalizeReport).
THEOREM CompleteZero == Spec => []ExitZeroIsComplete
BY ZeroOfInvariant, Invariant, PTL

LEMMA VerifiedOfInvariant == IInv => VerifiedRunsIt
<1> SUFFICES ASSUME IInv, NEW a \in Apps, rows[a].verified, proc[a].state = "running"
             PROVE  proc[a].exec = IF rows[a].status = "updated" THEN target
                                                                 ELSE before.unit[a]
  BY Zenon DEF VerifiedRunsIt
<1>1. pc # "idle"
  BY SMT DEF IInv, Control, NoRows, Row
<1>2. a # cur \/ pc = "update"
  <2>1. cur = a => cur # None
    BY UpdaterAssumption DEF UpdaterAssumption
  <2> QED BY <2>1, SMT DEF IInv, Control, Row
<1>3. Settled(a)
  BY <1>1, <1>2, Zenon DEF IInv, Reported
<1> QED BY <1>3, SMT DEF Settled, RunsLoaded, Configured

\* A start that the report calls verified is of the runtime its row names, then
\* and whenever systemd starts the service again (_restartAndVerify).
THEOREM VerifiedRuns == Spec => []VerifiedRunsIt
BY VerifiedOfInvariant, Invariant, PTL

-----------------------------------------------------------------------------
(* What a step may never do.                                               *)

LEMMA StartsTheRunning ==
  ASSUME IInv, [Next]_vars, NEW a \in Prepared, ~ctx[a].active,
         proc'[a].state = "running", proc'[a] # proc[a]
  PROVE  UNCHANGED updater
<1>a. /\ FilesOK /\ RunOK /\ Control /\ Remembers /\ Underway
      /\ a \in Apps
  BY DEF IInv, Types, Prepared
<1>1. CASE proc' = proc
  BY <1>1
<1>2. CASE Machine
  BY <1>2, <1>a, MachineCases, Zenon
<1>3. CASE Restart \/ RecoverStart \/ RecoverAgain
  <2>1. Current /\ old.active
    BY <1>3, <1>a, InTransaction, Zenon DEF Forward, Backward, Underway, Transaction, Forth,
       Back, Restart, RecoverStart, RecoverAgain
  <2>2. \A b \in Apps : b # cur => proc'[b] = proc[b]
    BY <1>3, <1>a, <2>1, Zenon DEF Restart, RecoverStart, RecoverAgain, Restarts,
       RestartFails, FilesOK
  <2> QED BY <1>a, <2>1, <2>2 DEF old
<1>4. CASE VerifyStopped
  <2>1. Current
    BY <1>4, <1>a, InTransaction, Zenon DEF Backward
  <2>2. proc'[a] = proc[a] \/ \E s \in {"dead", "failed", "job"} : proc'[a] = Down(s)
    BY <1>4, <1>a, <2>1, Zenon DEF VerifyStopped, FilesOK
  <2> QED BY <2>2, SMT DEF Down
<1>5. Next /\ proc' # proc => Machine \/ Restart \/ RecoverStart \/ RecoverAgain \/ VerifyStopped
  BY <1>a, InspectCases, Zenon DEF Next, Step, Forward, Backward, Run, Refuse, Inspected,
     EndOfInspection, Prepare, PrepareFails, TakeNext, AlreadyCurrent, Begin, BeginFails,
     WriteUnit, WriteEnv, Reload, Commit, Verify, Sample, RestoreUnit, RestoreEnv,
     ReloadRestored, RestoreMeta, RecoverVerify, RollbackEnds, RunEnds, Kill, files, locals
<1>6. UNCHANGED vars => proc' = proc
  BY DEF vars
<1> QED BY <1>1, <1>2, <1>3, <1>4, <1>5, <1>6, Zenon

\* "Stopped single-service applications receive the new configuration but are
\* not started" (README.md:337): only systemd ever starts one.
THEOREM StaysStopped == Spec => StoppedStaysStopped
<1>1. IInv /\ [Next]_vars =>
        [\A a \in Prepared :
           ~ctx[a].active /\ proc'[a].state = "running" /\ proc'[a] # proc[a]
              => UNCHANGED updater]_vars
  BY StartsTheRunning, Zenon
<1> QED BY <1>1, Invariant, PTL DEF Spec, StoppedStaysStopped

LEMMA RecoversTheRestored ==
  ASSUME IInv, Backward, cur \in Apps, proc'[cur].state = "running", proc'[cur] # proc[cur]
  PROVE  /\ unit[cur] = before.unit[cur] /\ env[cur] = before.env[cur]
         /\ proc'[cur].exec = before.unit[cur]
<1>a. /\ FilesOK /\ RunOK /\ Control /\ Remembers /\ Underway /\ World
  BY DEF IInv, Types
<1>1. CASE RecoverStart \/ RecoverAgain
  <2>1. RestoredFiles(cur) /\ loaded[cur] = before.unit[cur]
    BY <1>1, <1>a, Zenon DEF RecoverStart, RecoverAgain, Underway, Transaction, World, Back
  <2>2. \/ proc'[cur] = Running(loaded[cur]) \/ proc'[cur] = proc[cur]
        \/ \E s \in {"failed", "auto", "job"} : proc'[cur] = Down(s)
    BY <1>1, <1>a, Zenon DEF RecoverStart, RecoverAgain, Restarts, RestartFails, FilesOK
  <2> QED BY <2>1, <2>2, SMT DEF Running, Down, RestoredFiles
<1>2. CASE VerifyStopped
  <2>1. proc'[cur] = proc[cur] \/ \E s \in {"dead", "failed", "job"} : proc'[cur] = Down(s)
    BY <1>2, <1>a, Zenon DEF VerifyStopped, FilesOK
  <2> QED BY <2>1, SMT DEF Down
<1>3. Backward /\ proc' # proc => RecoverStart \/ RecoverAgain \/ VerifyStopped
  BY Zenon DEF Backward, Sample, RestoreUnit, RestoreEnv, ReloadRestored, RestoreMeta,
     RecoverVerify, RollbackEnds
<1> QED BY <1>1, <1>2, <1>3, Zenon

\* A rollback starts an application on its old runtime, with its old files, or
\* not at all ("unable to safely recover instances"); without rollback, "commit
\* metadata before attempting any restart" (NodeRuntimeUpdater.js:1024).
THEOREM StartsWhole == Spec => RestartsWhole
<1>1. IInv /\ [Next]_vars =>
        [\A a \in Apps :
           Recovers(a) => /\ unit[a] = before.unit[a] /\ env[a] = before.env[a]
                          /\ proc'[a].exec = before.unit[a]]_vars
  BY RecoversTheRestored, Zenon DEF Recovers
<1>2. IInv /\ [Next]_vars =>
        [\A a \in Apps : Restart /\ ~rollback /\ a = cur => Configured(a, target)]_vars
  BY Zenon DEF IInv, World, InForce, Restart, Configured
<1>3. IInv /\ [Next]_vars =>
        [\A a \in Apps :
           /\ Recovers(a) => /\ unit[a] = before.unit[a] /\ env[a] = before.env[a]
                             /\ proc'[a].exec = before.unit[a]
           /\ Restart /\ ~rollback /\ a = cur => Configured(a, target)]_vars
  BY <1>1, <1>2, Zenon
<1> QED BY <1>3, Invariant, PTL DEF Spec, RestartsWhole

-----------------------------------------------------------------------------
(* Refinement: update-node keeps RuntimeChange.                            *)

\* An error of the whole run ends it, and nothing is prepared for nobody.
Closing == (globalError => pc = "done") /\ (pc = "prepare" => Prepared # {})

\* It stays so with every step.
LEMMA ClosingStep ==
  ASSUME IInv, Closing, Next
  PROVE  Closing'
<1> USE DEF Closing
<1>a. FilesOK /\ RunOK
  BY DEF IInv, Types
<1>1. CASE Run \/ Kill \/ Refuse \/ PrepareFails
  BY <1>1, Zenon DEF Run, Kill, Refuse, PrepareFails
<1>2. CASE Inspect
  <2>1. PICK a \in left, row \in Statuses, c \in Contexts \cup {None} : Inspected(a, row, c)
    BY <1>2, <1>a, InspectCases DEF Statuses
  <2>2. pc = "inspect" /\ pc' = "inspect" /\ globalError' = globalError
    BY <1>2, <2>1 DEF Inspect, Inspected
  <2> QED BY <2>1, <2>2
<1>3. CASE EndOfInspection
  BY <1>3, Zenon DEF EndOfInspection, Prepared, locals
<1>4. CASE Machine
  <2>1. UNCHANGED <<pc, ctx, globalError>>
    BY <1>4, <1>a, MachineCases DEF updater
  <2> QED BY <2>1 DEF Prepared
<1>5. CASE Prepare \/ TakeNext \/ AlreadyCurrent \/ RunEnds
  <2>1. pc # "done" /\ pc' # "prepare" /\ UNCHANGED globalError
    BY <1>5, Zenon DEF Prepare, TakeNext, AlreadyCurrent, RunEnds, Settle, locals
  <2> QED BY <2>1
<1>6. CASE Forward
  <2>1. pc # "done" /\ pc' \notin {"done", "prepare"} /\ UNCHANGED globalError
    BY <1>6, Zenon DEF Forward, Begin, BeginFails, WriteUnit, WriteEnv, Reload,
       Commit, Restart, Verify, Sample, Verified, VerifyFails, Settle, Rollback,
       Proceed, AfterReload, Committed, StartFailed, locals, On
  <2> QED BY <2>1
<1>7. CASE Backward
  <2>1. pc # "done" /\ pc' \notin {"done", "prepare"} /\ UNCHANGED globalError
    BY <1>7, Zenon DEF Backward, RestoreUnit, RestoreEnv, ReloadRestored, RestoreMeta,
       RecoverStart, RecoverAgain, RecoverVerify, VerifyStopped, RollbackEnds, Sample,
       Recovered, RecoveryFails, Settle, Next1, AfterMetadata, locals
  <2> QED BY <2>1
<1> QED BY <1>1, <1>2, <1>3, <1>4, <1>5, <1>6, <1>7 DEF Next, Step

\* It is so at first and stays so.
THEOREM ClosingInvariant == Spec => []Closing
<1>1. Init => Closing
  BY DEF Init, Closing
<1>2. IInv /\ Closing /\ [Next]_vars => Closing'
  <2>1. UNCHANGED vars /\ Closing => Closing'
    BY DEF vars, updater, Closing, Prepared
  <2> QED BY <2>1, ClosingStep
<1> QED BY <1>1, <1>2, Invariant, PTL DEF Spec

\* What a settled row says is what the promise says of it.
LEMMA SettledHolds ==
  ASSUME FilesOK, BeforeOK, NEW a \in Apps, Settled(a)
  PROVE  Promise!Holds(a, rows[a].status)
<1>1. Unchanged(a) => confBar[a] = wasBar[a]
  BY DEF Unchanged, confBar, wasBar
<1>2. Configured(a, target) => Promise!Runs(a, target)
  BY DEF Configured, Promise!Runs, confBar, Promise!Path, Path
<1>3. confBar[a].meta = meta[a] /\ wasBar[a].unit = before.unit[a]
  BY DEF confBar, wasBar
<1> QED BY <1>1, <1>2, <1>3, Zenon DEF Settled, Quiet, Promise!Holds

\* A part of the configuration of the application in the transaction.
Moves ==
    /\ \A b \in Apps \ {cur} : unit'[b] = unit[b] /\ env'[b] = env[b] /\ meta'[b] = meta[b]
    /\ unit'[cur] \in {unit[cur], before.unit[cur], target}
    /\ env'[cur] \in {env[cur], before.env[cur], target}
    /\ meta'[cur] \in {meta[cur], before.meta[cur], Path(target)}
    /\ loaded' \in {loaded, unit'}
    /\ \A b \in Apps \ {cur} : rows'[b] = rows[b]
    /\ UNCHANGED <<before, target>>

\* Such a step is a rewriting of the promise.
LEMMA MovesRewrite ==
  ASSUME FilesOK, FilesOK', cur \in Apps, Moves, UNCHANGED <<onBar, exitBar>>
  PROVE  Promise!Rewrite(cur)
<1>1. \A b \in Apps \ {cur} : confBar'[b] = confBar[b]
  BY DEF confBar, Moves
<1>2. /\ confBar'[cur].unit = unit'[cur] /\ confBar[cur].unit = unit[cur]
      /\ confBar'[cur].env = env'[cur] /\ confBar[cur].env = env[cur]
      /\ confBar'[cur].meta = meta'[cur] /\ confBar[cur].meta = meta[cur]
  BY DEF confBar
<1>3. /\ wasBar[cur].unit = before.unit[cur] /\ wasBar[cur].env = before.env[cur]
      /\ wasBar[cur].meta = before.meta[cur]
  BY DEF wasBar
<1>4. unit' = [b \in Apps |-> confBar'[b].unit]
  BY DEF FilesOK, confBar
<1>5. UNCHANGED wasBar
  BY DEF wasBar, Moves
<1> QED BY <1>1, <1>2, <1>3, <1>4, <1>5 DEF Promise!Rewrite, Moves, Promise!Path, Path

\* A transaction has begun to write.
InTheMiddle == pc \in Forth \cup Back

\* A call that is not the last.
LEMMA GoesOn ==
  ASSUME IInv, FilesOK', Moves, InTheMiddle, InTheMiddle', cur' = cur
  PROVE  Promise!Change(cur)
<1>1. cur \in Apps /\ FilesOK
  BY DEF IInv, Types, Control, InTheMiddle
<1>2. /\ openBar = cur /\ openBar' = cur /\ onBar = TRUE /\ onBar' = TRUE
      /\ exitBar = "none" /\ exitBar' = "none"
  BY DEF InTheMiddle, Forth, Back, openBar, onBar, exitBar
<1>3. verdictBar' = verdictBar
  BY <1>2 DEF verdictBar, Moves
<1> QED BY <1>1, <1>2, <1>3, MovesRewrite DEF Promise!Change

\* The last call of a transaction, which writes the row.
LEMMA Closes ==
  ASSUME IInv, IInv', Moves, InTheMiddle, NEW a \in Apps, a = cur,
         NEW s \in Promise!Closings, NEW v, Settle(s, v)
  PROVE  Promise!Close(a, s)
<1>1. FilesOK /\ FilesOK' /\ BeforeOK' /\ rows \in [Apps -> Rows]
  BY DEF IInv, Types, RowsOK
<1>2. /\ openBar = a /\ openBar' = None /\ onBar = TRUE /\ onBar' = TRUE
      /\ exitBar = "none" /\ exitBar' = "none"
  BY DEF InTheMiddle, Forth, Back, openBar, onBar, exitBar, Settle
<1>3. rows'[a].status = s /\ \A b \in Apps \ {a} : rows'[b] = rows[b]
  BY <1>1 DEF Settle, Row
<1>4. verdictBar' = [verdictBar EXCEPT ![a] = s]
  <2>1. None \notin Apps /\ s # "not_updated"
    BY UpdaterAssumption DEF UpdaterAssumption, Promise!Closings
  <2> QED BY <1>1, <1>2, <1>3, <2>1 DEF verdictBar
<1>5. Promise!Holds(a, s)'
  <2>1. Settled(a)'
    BY DEF IInv, Reported, Settle
  <2>2. Unchanged(a)' => confBar'[a] = wasBar'[a]
    BY DEF Unchanged, confBar, wasBar
  <2>3. Configured(a, target)' => Promise!Runs(a, target)'
    BY DEF Configured, Promise!Runs, confBar, Promise!Path, Path
  <2>4. wasBar'[a].unit = before'.unit[a]
    BY DEF wasBar
  <2> QED BY <1>3, <2>1, <2>2, <2>3, <2>4, SMT DEF Settled, Quiet, Promise!Holds, Promise!Closings
<1> QED BY <1>1, <1>2, <1>4, <1>5, MovesRewrite DEF Promise!Close

\* Each call of a transaction writes a part of what its application had or is
\* to have, and goes on or closes.
LEMMA EachCall ==
  ASSUME IInv, Forward \/ Backward, InTheMiddle
  PROVE  /\ Moves
         /\ \/ InTheMiddle' /\ cur' = cur
            \/ \E s \in Promise!Closings, v \in BOOLEAN : Settle(s, v)
<1>a. /\ FilesOK /\ RunOK /\ RowsOK /\ Control /\ Remembers
  BY DEF IInv, Types
<1>b. Current /\ Transaction
  BY <1>a, InTransaction DEF IInv, Underway, InTheMiddle
<1>c. /\ \A b \in Apps \ {cur} : Kept(b)
      /\ cur \in Apps /\ old.unit = before.unit[cur] /\ old.env = before.env[cur]
      /\ tx.meta = before.meta[cur] /\ old.active \in BOOLEAN
  BY <1>a, <1>b, TransactionKeepsOthers DEF OthersKept, Current, Transaction, Contexts
<1>d. /\ \A b \in Apps \ {cur} : unit'[b] = unit[b] /\ env'[b] = env[b] /\ meta'[b] = meta[b]
      /\ \A b \in Apps \ {cur} : rows'[b] = rows[b]
  BY <1>c DEF Kept
<1>e. UNCHANGED <<before, target>>
  BY Zenon DEF Forward, Backward, Begin, BeginFails, WriteUnit, WriteEnv,
     Reload, Commit, Restart, Verify, Sample, RestoreUnit, RestoreEnv, ReloadRestored,
     RestoreMeta, RecoverStart, RecoverAgain, RecoverVerify, VerifyStopped, RollbackEnds,
     bounds, locals
<1>f. ~Begin /\ ~BeginFails
  BY DEF Begin, BeginFails, InTheMiddle, Forth, Back
<1>1. Moves
  <2>1. CASE UNCHANGED files
    BY <1>d, <1>e, <2>1 DEF Moves, files
  <2>2. CASE WriteUnit \/ RestoreUnit
    <3>1. /\ UNCHANGED <<env, loaded, meta>>
          /\ \/ unit' = [unit EXCEPT ![cur] = target]
             \/ unit' = [unit EXCEPT ![cur] = old.unit] \/ unit' = unit
      BY <2>2, Zenon DEF WriteUnit, RestoreUnit
    <3>2. unit'[cur] \in {unit[cur], before.unit[cur], target}
      BY <1>a, <1>c, <3>1 DEF FilesOK
    <3>3. env' = env /\ meta' = meta /\ loaded' = loaded
      BY <3>1
    <3> QED BY <1>d, <1>e, <3>2, <3>3 DEF Moves
  <2>3. CASE WriteEnv \/ RestoreEnv
    <3>1. /\ UNCHANGED <<unit, loaded, meta>>
          /\ \/ env' = [env EXCEPT ![cur] = target]
             \/ env' = [env EXCEPT ![cur] = old.env] \/ env' = env
      BY <2>3, Zenon DEF WriteEnv, RestoreEnv
    <3>2. env'[cur] \in {env[cur], before.env[cur], target}
      BY <1>a, <1>c, <3>1 DEF FilesOK
    <3>3. unit' = unit /\ meta' = meta /\ loaded' = loaded
      BY <3>1
    <3> QED BY <1>d, <1>e, <3>2, <3>3 DEF Moves
  <2>4. CASE Reload \/ ReloadRestored
    <3>1. UNCHANGED <<unit, env, meta>> /\ (loaded' = unit \/ loaded' = loaded)
      BY <2>4, Zenon DEF Reload, ReloadRestored, Reloads, ReloadFails
    <3> QED BY <1>c, <1>d, <1>e, <3>1 DEF Moves, FilesOK
  <2>5. CASE Commit \/ RestoreMeta
    <3>1. /\ UNCHANGED <<unit, env, loaded>>
          /\ \/ meta' = [meta EXCEPT ![cur] = Path(target)]
             \/ meta' = [meta EXCEPT ![cur] = tx.meta] \/ meta' = meta
      BY <2>5, Zenon DEF Commit, RestoreMeta
    <3>2. meta'[cur] \in {meta[cur], before.meta[cur], Path(target)}
      BY <1>a, <1>c, <3>1 DEF FilesOK
    <3>3. unit' = unit /\ env' = env /\ loaded' = loaded
      BY <3>1
    <3> QED BY <1>d, <1>e, <3>2, <3>3 DEF Moves
  <2>6. Restart \/ Verify \/ RecoverStart \/ RecoverAgain \/ RecoverVerify
        \/ VerifyStopped \/ RollbackEnds => UNCHANGED files
    BY Zenon DEF Restart, Verify, RecoverStart, RecoverAgain, RecoverVerify,
       VerifyStopped, RollbackEnds, Sample
  <2> QED BY <1>f, <2>1, <2>2, <2>3, <2>4, <2>5, <2>6, Zenon DEF Forward, Backward
<1>2. \/ InTheMiddle' /\ cur' = cur
      \/ \E s \in Promise!Closings, v \in BOOLEAN : Settle(s, v)
  <2> USE DEF InTheMiddle, Forth, Back
  <2>1. Rollback => InTheMiddle' /\ cur' = cur
    BY Zenon DEF Rollback
  <2>2. \A s \in Promise!Closings, v \in BOOLEAN : Settle(s, v) =>
           \E t \in Promise!Closings, w \in BOOLEAN : Settle(t, w)
    BY Zenon
  <2>3. /\ {"updated", "failed_restored", "failed_restore", "failed_no_rollback"}
             \subseteq Promise!Closings
        /\ RollbackStatus \in Promise!Closings /\ tx \in Txs
    BY DEF Promise!Closings, RollbackStatus, IInv, Types, TxOK
  <2>4. CASE WriteUnit \/ WriteEnv
    BY <2>1, <2>4, Zenon DEF WriteUnit, WriteEnv, Proceed
  <2>5. CASE Reload
    BY <2>1, <2>5, Zenon DEF Reload, Proceed, AfterReload
  <2>6. CASE Commit
    BY <1>c, <2>1, <2>3, <2>6, Zenon DEF Commit, Committed, Proceed
  <2>7. CASE Restart
    BY <2>1, <2>3, <2>7, Zenon DEF Restart, Proceed, StartFailed
  <2>8. CASE Verify
    BY <2>3, <2>8, Zenon DEF Verify, Sample, Verified, VerifyFails
  <2>9. CASE RestoreUnit \/ RestoreEnv \/ ReloadRestored \/ RestoreMeta
    BY <2>9, Zenon DEF RestoreUnit, RestoreEnv, ReloadRestored, RestoreMeta, Next1,
       AfterMetadata
  <2>10. CASE RecoverStart \/ RecoverAgain \/ RecoverVerify \/ VerifyStopped
    BY <2>10, Zenon DEF RecoverStart, RecoverAgain, RecoverVerify, VerifyStopped, Next1,
       Sample, Recovered, RecoveryFails
  <2>11. CASE RollbackEnds
    <3>1. (~tx.errors /\ tx.config /\ old.active) \in BOOLEAN
      OBVIOUS
    <3> QED BY <2>3, <2>11, <3>1, Zenon DEF RollbackEnds
  <2> QED BY <1>f, <2>4, <2>5, <2>6, <2>7, <2>8, <2>9, <2>10, <2>11, Zenon
          DEF Forward, Backward
<1> QED BY <1>1, <1>2

\* An application that is not touched.
LEMMA Leaves ==
  ASSUME IInv, IInv', NEW a \in Apps, a # cur \/ pc = "update", pc \in {"inspect", "update"},
         NEW row \in {"skipped", "failed_unchanged"},
         rows[a].status \in {"none", "not_updated"},
         rows'[a].status = row, \A b \in Apps \ {a} : rows'[b] = rows[b],
         UNCHANGED <<files, before, target, pc>>, cur' = None
  PROVE  Promise!Leave(a, row)
<1>1. FilesOK /\ BeforeOK /\ rows \in [Apps -> Rows] /\ None \notin Apps
  BY UpdaterAssumption DEF UpdaterAssumption, IInv, Types, RowsOK
<1>2. /\ openBar = None /\ openBar' = None /\ onBar = TRUE /\ onBar' = TRUE
      /\ exitBar = "none" /\ exitBar' = "none"
  BY DEF openBar, onBar, exitBar
<1>4. verdictBar[a] = "none" /\ verdictBar' = [verdictBar EXCEPT ![a] = row]
  BY <1>1, <1>2 DEF verdictBar
<1>5. UNCHANGED <<confBar, wasBar, loaded>>
  BY DEF confBar, wasBar, files
<1>6. Promise!Holds(a, row)
  <2>1. Settled(a)'
    BY <1>1 DEF IInv, Reported
  <2>2. Unchanged(a)' => confBar[a] = wasBar[a]
    BY DEF Unchanged, confBar, wasBar, files
  <2>3. Configured(a, target)' => Promise!Runs(a, target)
    BY DEF Configured, Promise!Runs, confBar, Promise!Path, Path, files
  <2>4. confBar[a].meta = meta'[a]
    BY DEF confBar, files
  <2>5. CASE row = "skipped"
    <3>1. a \in Internal \/ meta'[a].kind = "other" \/ Configured(a, target)'
      BY <2>1, <2>5 DEF Settled, Quiet
    <3>2. Unchanged(a)'
      BY <2>1, <2>5 DEF Settled, Quiet
    <3>3. a \in Internal \/ confBar[a].meta.kind = "other" \/ Promise!Runs(a, target)
      BY <2>3, <2>4, <3>1
    <3> QED BY <2>2, <2>5, <3>2, <3>3 DEF Promise!Holds
  <2>6. CASE row = "failed_unchanged"
    <3>1. Unchanged(a)'
      BY <2>1, <2>6 DEF Settled, Quiet
    <3> QED BY <2>2, <2>6, <3>1 DEF Promise!Holds
  <2> QED BY <2>5, <2>6
<1> QED BY <1>2, <1>4, <1>5, <1>6 DEF Promise!Leave

\* The run is at its end, and so is the promise.
LEMMA Finishes ==
  ASSUME IInv', pc \in {"inspect", "prepare", "update"}, pc' = "done",
         UNCHANGED <<files, before, target, verdictBar>>,
         globalError' => Apps = {} \/ \E a \in Apps : rows'[a].status \in {"none", "not_updated"}
  PROVE  Promise!Finish
<1>1. rows' \in [Apps -> Rows] /\ None \notin Apps /\ globalError' \in BOOLEAN
  BY UpdaterAssumption DEF UpdaterAssumption, IInv, Types, RowsOK, RunOK
<1>2. openBar = None /\ openBar' = None /\ onBar = TRUE /\ onBar' = FALSE
  BY DEF openBar, onBar
<1>3. UNCHANGED <<confBar, wasBar, loaded>>
  BY DEF confBar, wasBar, files
<1>4. \A a \in Apps : verdictBar'[a] = IF rows'[a].status = "not_updated" THEN "none"
                                       ELSE rows'[a].status
  BY <1>1, <1>2 DEF verdictBar
<1>5. CASE ExitCode' = 0
  <2>1. ~globalError'
        /\ \A a \in Apps : rows'[a].status \notin Failures \cup {"not_updated"}
    BY <1>5 DEF ExitCode
  <2>2. \A a \in Apps : rows'[a].status # "none"
    BY <2>1 DEF IInv, Control
  <2>3. \A a \in Apps : rows'[a].status \in Promise!Successes
    BY <1>1, <2>1, <2>2 DEF Rows, Statuses, Failures, Promise!Successes
  <2>4. exitBar' = "zero"
    BY <1>5 DEF exitBar
  <2>5. \A a \in Apps : verdictBar[a] \in Promise!Successes
    BY <1>4, <2>1, <2>3
  <2> QED BY <1>2, <1>3, <2>4, <2>5 DEF Promise!Finish
<1>6. CASE ExitCode' # 0
  <2>1. globalError' \/ \E a \in Apps : rows'[a].status \in Failures \cup {"not_updated"}
    BY <1>6 DEF ExitCode
  <2>2. Apps = {} \/ \E a \in Apps : rows'[a].status \in Failures \cup {"none", "not_updated"}
    BY <2>1
  <2>3. Apps = {} \/ \E a \in Apps : verdictBar[a] \notin Promise!Successes
    BY <1>4, <2>2 DEF Failures, Promise!Successes
  <2>4. exitBar' = "one"
    BY <1>6 DEF exitBar
  <2> QED BY <1>2, <1>3, <2>3, <2>4 DEF Promise!Finish
<1> QED BY <1>5, <1>6

\* What the promise does not tell from nothing.
LEMMA Stutters ==
  ASSUME UNCHANGED <<files, before, target, openBar, verdictBar, onBar, exitBar>>
  PROVE  UNCHANGED Promise!vars
BY DEF Promise!vars, confBar, wasBar, files

\* From the command to the first transaction: a start, rows of what is left alone,
\* or the end.
LEMMA SelectionKeeps ==
  ASSUME IInv, IInv', Closing, Closing',
         Run \/ Refuse \/ Inspect \/ EndOfInspection \/ Prepare \/ PrepareFails
  PROVE  [Promise!Next]_(Promise!vars)
<1>a. /\ FilesOK /\ RunOK /\ RowsOK /\ Control /\ RowsOK' /\ Control' /\ BeforeOK /\ BeforeOK'
      /\ None \notin Apps
  BY UpdaterAssumption DEF UpdaterAssumption, IInv, Types
<1>1. CASE Run
  <2>1. /\ pc \in {"idle", "done"} /\ pc' = "inspect" /\ UNCHANGED files /\ target' \in Runtimes
        /\ before' = [unit |-> unit, env |-> env, meta |-> meta] /\ rows' = NoRows
    BY <1>1 DEF Run
  <2>2. onBar = FALSE /\ onBar' = TRUE /\ openBar' = None /\ exitBar' = "none"
    BY <2>1 DEF onBar, openBar, exitBar
  <2>3. verdictBar' = Promise!NoVerdict
    BY <1>a, <2>1, <2>2 DEF verdictBar, Promise!NoVerdict, NoRows, Row
  <2>4. wasBar' = confBar /\ confBar' = confBar
    BY <2>1 DEF wasBar, confBar, files
  <2> QED BY <2>1, <2>2, <2>3, <2>4 DEF Promise!Start, Promise!Next, files
<1>2. CASE Refuse
  <2>1. /\ pc = "inspect" /\ pc' = "done" /\ rows = NoRows /\ UNCHANGED <<rows, files, before, target>>
    BY <1>2 DEF Refuse, bounds
  <2>2. UNCHANGED verdictBar
    BY <2>1 DEF verdictBar, openBar
  <2>3. \A a \in Apps : rows'[a].status = "none"
    BY <2>1 DEF NoRows, Row
  <2> QED BY <2>1, <2>2, <2>3, Finishes DEF Promise!Next
<1>3. CASE Inspect
  <2>1. PICK a \in left, row \in {"failed_unchanged", "skipped", "not_updated"},
              c \in Contexts \cup {None} : Inspected(a, row, c)
    BY <1>3, <1>a, InspectCases
  <2>2. /\ pc = "inspect" /\ pc' = "inspect" /\ a \in Apps /\ cur = None /\ cur' = None
        /\ UNCHANGED <<files, before, target, pc>>
    BY <1>3, <1>a, <2>1 DEF Inspect, Inspected, RunOK, Control, Early, bounds
  <2>3. rows[a].status = "none"
    BY <1>a, <2>2 DEF Control, Row
  <2>4. rows'[a].status = row /\ \A b \in Apps \ {a} : rows'[b] = rows[b]
    BY <1>a, <2>1, <2>2 DEF Inspected, Row, RowsOK
  <2>5. CASE row \in {"failed_unchanged", "skipped"}
    BY <1>a, <2>2, <2>3, <2>4, <2>5, Leaves DEF Promise!Next
  <2>6. CASE row = "not_updated"
    <3>1. UNCHANGED <<openBar, onBar, exitBar>>
      BY <2>2 DEF openBar, onBar, exitBar
    <3>2. UNCHANGED verdictBar
      BY <1>a, <2>2, <2>3, <2>4, <2>6, <3>1 DEF verdictBar
    <3> QED BY <2>2, <3>1, <3>2, Stutters
  <2> QED BY <2>1, <2>5, <2>6
<1>4. CASE EndOfInspection \/ Prepare
  <2>1. /\ pc \in {"inspect", "prepare"} /\ pc' \in {"prepare", "update", "done"}
        /\ UNCHANGED <<rows, files, before, target, globalError>>
    BY <1>4, Zenon DEF EndOfInspection, Prepare, bounds, locals
  <2>2. UNCHANGED <<openBar, verdictBar, onBar>> \/ pc' = "done"
    BY <2>1 DEF openBar, verdictBar, onBar
  <2>3. UNCHANGED verdictBar /\ ~globalError'
    BY <2>1 DEF verdictBar, openBar, Closing
  <2>4. pc' # "done" => UNCHANGED exitBar
    BY <2>1 DEF exitBar
  <2> QED BY <2>1, <2>2, <2>3, <2>4, Finishes, Stutters DEF Promise!Next
<1>5. CASE PrepareFails
  <2>1. /\ pc = "prepare" /\ pc' = "done" /\ UNCHANGED <<files, before, target>>
        /\ \A a \in Apps : rows'[a] = IF a \in Prepared THEN Row("not_updated", FALSE) ELSE rows[a]
    BY <1>5 DEF PrepareFails, bounds
  <2>2. PICK a \in Apps : a \in Prepared
    BY <2>1 DEF Closing, Prepared
  <2>3. rows'[a].status = "not_updated"
    BY <2>1, <2>2 DEF Row
  <2>4. \A b \in Apps : rows'[b].status = rows[b].status
    BY <1>a, <2>1 DEF Row, Control
  <2>5. UNCHANGED verdictBar
    BY <2>1, <2>4 DEF verdictBar, openBar
  <2> QED BY <2>1, <2>2, <2>3, <2>5, Finishes DEF Promise!Next
<1> QED BY <1>1, <1>2, <1>3, <1>4, <1>5

\* Between transactions, around them, and when the run is killed.
LEMMA LoopKeeps ==
  ASSUME IInv, IInv', Closing, Closing',
         TakeNext \/ AlreadyCurrent \/ Begin \/ BeginFails \/ RunEnds \/ Machine \/ Kill
  PROVE  [Promise!Next]_(Promise!vars)
<1>a. /\ FilesOK /\ RunOK /\ RowsOK /\ Control /\ RowsOK' /\ Control'
      /\ None \notin Apps
  BY UpdaterAssumption DEF UpdaterAssumption, IInv, Types
<1>1. CASE TakeNext
  <2>1. /\ pc = "update" /\ pc' = "update" /\ UNCHANGED <<rows, files, before, target>>
    BY <1>1 DEF TakeNext, bounds, locals
  <2> QED BY <2>1, Stutters DEF openBar, verdictBar, onBar, exitBar
<1>2. CASE AlreadyCurrent \/ BeginFails
  <2>1. PICK row \in {"skipped", "failed_unchanged"} : Settle(row, FALSE)
    BY <1>2, Zenon DEF AlreadyCurrent, BeginFails
  <2>2. /\ pc = "update" /\ cur \in Apps /\ UNCHANGED <<files, before, target>>
    BY <1>2, <1>a DEF AlreadyCurrent, BeginFails, On, RunOK, bounds, locals
  <2>3. PICK a \in Apps : a = cur
    BY <2>2
  <2>4. rows[a].status = "not_updated"
    BY <1>a, <2>2, <2>3 DEF Control, Back, Row
  <2>5. rows'[a].status = row /\ \A b \in Apps \ {a} : rows'[b] = rows[b]
    BY <1>a, <2>1, <2>3 DEF Settle, RowsOK, Row
  <2>6. pc' = pc /\ cur' = None
    BY <2>1, <2>2 DEF Settle
  <2>7. Promise!Leave(a, row)
    BY <2>2, <2>4, <2>5, <2>6, Leaves
  <2> QED BY <2>7 DEF Promise!Next
<1>3. CASE Begin
  <2>1. /\ pc = "update" /\ pc' \in {"unit", "commit"} /\ cur \in Apps
        /\ UNCHANGED <<files, before, target, rows, cur>>
    BY <1>3, <1>a DEF Begin, On, RunOK, bounds, locals
  <2>2. PICK a \in Apps : a = cur
    BY <2>1
  <2>3. rows[a].status = "not_updated"
    BY <1>a, <2>1, <2>2 DEF Control, Back, Row
  <2>4. /\ openBar = None /\ openBar' = a /\ onBar = TRUE /\ onBar' = TRUE
        /\ exitBar = "none" /\ exitBar' = "none"
    BY <2>1, <2>2 DEF openBar, onBar, exitBar
  <2>5. UNCHANGED verdictBar /\ verdictBar[a] = "none"
    BY <1>a, <2>1, <2>2, <2>3, <2>4 DEF verdictBar
  <2>6. UNCHANGED <<confBar, wasBar>>
    BY <2>1 DEF confBar, wasBar, files
  <2>7. Promise!Open(a)
    BY <2>1, <2>4, <2>5, <2>6 DEF Promise!Open, files
  <2> QED BY <2>7 DEF Promise!Next
<1>4. CASE RunEnds
  <2>1. /\ pc = "update" /\ pc' = "done" /\ UNCHANGED <<rows, files, before, target, globalError>>
    BY <1>4 DEF RunEnds, bounds, locals
  <2>2. UNCHANGED verdictBar /\ ~globalError'
    BY <2>1 DEF verdictBar, openBar, Closing
  <2> QED BY <2>1, <2>2, Finishes DEF Promise!Next
<1>5. CASE Machine
  <2>1. UNCHANGED <<files, updater, before>>
    BY <1>5, <1>a, MachineCases DEF bounds
  <2>2. UNCHANGED <<pc, target, cur, rows, globalError>>
    BY <2>1 DEF updater
  <2>3. UNCHANGED ExitCode
    BY <2>2 DEF ExitCode
  <2>4. UNCHANGED <<openBar, onBar, exitBar>>
    BY <2>2, <2>3 DEF openBar, onBar, exitBar
  <2>5. UNCHANGED verdictBar
    BY <2>2, <2>4 DEF verdictBar
  <2> QED BY <2>1, <2>2, <2>4, <2>5, Stutters
<1>6. CASE Kill
  <2>1. /\ pc \notin {"idle", "done"} /\ pc' = "idle" /\ rows' = NoRows
        /\ UNCHANGED <<files, before, target>>
    BY <1>6 DEF Kill
  <2>2. /\ onBar = TRUE /\ onBar' = FALSE /\ openBar' = None
        /\ exitBar = "none" /\ exitBar' = "none"
    BY <2>1 DEF openBar, onBar, exitBar
  <2>3. verdictBar' = Promise!NoVerdict
    BY <1>a, <2>1, <2>2 DEF verdictBar, Promise!NoVerdict, NoRows, Row
  <2>4. UNCHANGED <<confBar, wasBar>>
    BY <2>1 DEF confBar, wasBar, files
  <2> QED BY <2>1, <2>2, <2>3, <2>4 DEF Promise!Abandon, Promise!Next, files
<1> QED BY <1>1, <1>2, <1>3, <1>4, <1>5, <1>6

\* Within a transaction.
LEMMA TransactionKeeps ==
  ASSUME IInv, IInv', Forward \/ Backward, InTheMiddle
  PROVE  Promise!Next
<1>1. PICK a \in Apps : a = cur
  BY DEF IInv, Control, InTheMiddle
<1>2. FilesOK'
  BY DEF IInv, Types
<1>3. Moves
  BY EachCall
<1>4. CASE InTheMiddle' /\ cur' = cur
  <2>1. Promise!Change(cur)
    BY <1>2, <1>3, <1>4, GoesOn
  <2> QED BY <1>1, <2>1 DEF Promise!Next
<1>5. CASE \E s \in Promise!Closings, v \in BOOLEAN : Settle(s, v)
  <2>1. PICK s \in Promise!Closings, v \in BOOLEAN : Settle(s, v)
    BY <1>5
  <2>2. Promise!Close(a, s)
    BY <1>1, <1>3, <2>1, Closes
  <2> QED BY <2>2 DEF Promise!Next
<1> QED BY <1>4, <1>5, EachCall

\* No run, no row, no exit code.
LEMMA RefineInit == Init => Promise!Init
<1> SUFFICES ASSUME Init PROVE Promise!Init
  OBVIOUS
<1>1. /\ pc = "idle" /\ rows = NoRows /\ target \in Runtimes /\ loaded = unit
      /\ before = [unit |-> unit, env |-> env, meta |-> meta]
  BY DEF Init
<1>2. onBar = FALSE /\ openBar = None /\ exitBar = "none"
  BY <1>1 DEF onBar, openBar, exitBar
<1>3. verdictBar = Promise!NoVerdict
  BY <1>1, <1>2, UpdaterAssumption
  DEF UpdaterAssumption, verdictBar, Promise!NoVerdict, NoRows, Row
<1>4. wasBar = confBar /\ loaded = [a \in Apps |-> confBar[a].unit]
  BY <1>1, InitTypes DEF Init, Types, FilesOK, wasBar, confBar
<1> QED BY <1>1, <1>2, <1>3, <1>4 DEF Promise!Init

\* Every step of update-node is one of the promise or changes nothing it speaks of.
LEMMA RefineStep ==
  ASSUME IInv, IInv', Closing, Closing', [Next]_vars
  PROVE  [Promise!Next]_(Promise!vars)
<1>1. CASE UNCHANGED vars
  <2>1. UNCHANGED <<files, before, target, pc, cur, rows, globalError>>
    BY <1>1 DEF vars, updater, bounds
  <2>2. UNCHANGED <<openBar, onBar, exitBar>>
    BY <2>1 DEF openBar, onBar, exitBar, ExitCode
  <2>3. UNCHANGED verdictBar
    BY <2>1, <2>2 DEF verdictBar
  <2> QED BY <2>1, <2>2, <2>3, Stutters
<1>2. CASE (Forward \/ Backward) /\ ~Begin /\ ~BeginFails
  <2>1. InTheMiddle
    BY <1>2, Zenon DEF InTheMiddle, Forth, Back, Forward, Backward, WriteUnit, WriteEnv, Reload,
       Commit, Restart, Verify, Sample, RestoreUnit, RestoreEnv, ReloadRestored,
       RestoreMeta, RecoverStart, RecoverAgain, RecoverVerify, VerifyStopped, RollbackEnds
  <2> QED BY <1>2, <2>1, TransactionKeeps
<1>3. CASE Run \/ Refuse \/ Inspect \/ EndOfInspection \/ Prepare \/ PrepareFails
  BY <1>3, SelectionKeeps
<1>4. CASE TakeNext \/ AlreadyCurrent \/ Begin \/ BeginFails \/ RunEnds \/ Machine \/ Kill
  BY <1>4, LoopKeeps
<1> QED BY <1>1, <1>2, <1>3, <1>4, Zenon DEF Next, Step

\* update-node implements RuntimeChange: nothing but the application in its
\* transaction changes, to parts of the old and the new configuration, and its row
\* and the exit code are true when they are written.
THEOREM KeepsPromise == Spec => ImplementsPromise
<1>1. IInv /\ IInv' /\ Closing /\ Closing' /\ [Next]_vars => [Promise!Next]_(Promise!vars)
  BY RefineStep
<1> QED BY <1>1, RefineInit, Invariant, ClosingInvariant, PTL
        DEF Spec, ImplementsPromise, Promise!Spec

\* Which application has no row yet, and when there is no exit code.
OpenPromise ==
    /\ Promise!RowsHold
    /\ DOMAIN verdictBar = Apps /\ verdictBar = [a \in Apps |-> verdictBar[a]]
    /\ openBar # None => verdictBar[openBar] = "none" /\ onBar
    /\ onBar => exitBar = "none"
    /\ exitBar = "zero" => \A a \in Apps : verdictBar[a] \in Promise!Successes

\* A row of another application survives, although systemd takes in all units.
LEMMA RewriteHolds ==
  ASSUME Promise!RowsHold, NEW a \in Apps, Promise!Rewrite(a), NEW b \in Apps \ {a},
         verdictBar'[b] = verdictBar[b]
  PROVE  Promise!Holds(b, verdictBar[b])'
<1> DEFINE s == verdictBar[b]
<1>1. /\ confBar'[b] = confBar[b] /\ wasBar' = wasBar /\ target' = target
      /\ loaded'[b] \in {loaded[b], confBar[b].unit}
  BY DEF Promise!Rewrite
<1>2. Promise!Holds(b, s) /\ s' = s
  BY DEF Promise!RowsHold
<1>3. Promise!Runs(b, target) => Promise!Runs(b, target)'
  BY <1>1 DEF Promise!Runs, Promise!Path
<1>4. confBar[b] = wasBar[b] /\ loaded[b] = wasBar[b].unit => loaded'[b] = wasBar[b].unit
  BY <1>1
<1> QED BY <1>1, <1>2, <1>3, <1>4, Zenon DEF Promise!Holds

\* It stays so with every step the promise allows.
LEMMA OpenPromiseStep ==
  ASSUME OpenPromise, [Promise!Next]_(Promise!vars)
  PROVE  OpenPromise'
<1> USE DEF OpenPromise
<1>1. CASE Promise!Start
  <2>1. verdictBar' = Promise!NoVerdict /\ openBar' = None /\ exitBar' = "none"
    BY <1>1 DEF Promise!Start
  <2>2. \A a \in Apps : verdictBar'[a] = "none"
    BY <2>1 DEF Promise!NoVerdict
  <2>3. Promise!RowsHold'
    BY <2>2 DEF Promise!RowsHold, Promise!Holds
  <2> QED BY <2>1, <2>3 DEF Promise!NoVerdict
<1>2. CASE Promise!Finish
  <2>1. Promise!RowsHold'
    BY <1>2 DEF Promise!Finish, Promise!RowsHold, Promise!Holds, Promise!Runs, Promise!Path
  <2> QED BY <1>2, <2>1 DEF Promise!Finish
<1>3. CASE Promise!Abandon
  <2>1. verdictBar' = Promise!NoVerdict /\ openBar' = None /\ exitBar' = "none"
    BY <1>3 DEF Promise!Abandon
  <2>2. \A a \in Apps : verdictBar'[a] = "none"
    BY <2>1 DEF Promise!NoVerdict
  <2>3. Promise!RowsHold'
    BY <2>2 DEF Promise!RowsHold, Promise!Holds
  <2> QED BY <2>1, <2>3 DEF Promise!NoVerdict
<1>4. ASSUME NEW a \in Apps, NEW row, Promise!Leave(a, row) PROVE OpenPromise'
  <2>1. /\ UNCHANGED <<confBar, loaded, target, wasBar, onBar, openBar, exitBar>>
        /\ verdictBar' = [verdictBar EXCEPT ![a] = row]
        /\ onBar /\ openBar = None
    BY <1>4 DEF Promise!Leave
  <2>2. \A b \in Apps : Promise!Holds(b, verdictBar'[b])
    BY <1>4, <2>1 DEF Promise!Leave, Promise!RowsHold
  <2>3. Promise!RowsHold'
    BY <2>1, <2>2 DEF Promise!RowsHold, Promise!Holds, Promise!Runs, Promise!Path
  <2> QED BY <2>1, <2>3
<1>5. ASSUME NEW a \in Apps, Promise!Open(a) PROVE OpenPromise'
  <2>1. Promise!RowsHold'
    BY <1>5 DEF Promise!Open, Promise!RowsHold, Promise!Holds, Promise!Runs, Promise!Path
  <2> QED BY <1>5, <2>1 DEF Promise!Open
<1>6. ASSUME NEW a \in Apps, Promise!Change(a) PROVE OpenPromise'
  <2>1. /\ openBar = a /\ Promise!Rewrite(a) /\ UNCHANGED <<openBar, verdictBar>>
        /\ UNCHANGED <<onBar, exitBar>>
    BY <1>6 DEF Promise!Change, Promise!Rewrite
  <2>2. a # None => verdictBar[a] = "none"
    BY <2>1
  <2>3. Promise!Holds(a, "none")'
    BY DEF Promise!Holds
  <2>4. a # None
    BY UpdaterAssumption DEF UpdaterAssumption
  <2>5. Promise!RowsHold'
    BY <2>1, <2>2, <2>3, <2>4, RewriteHolds DEF Promise!RowsHold
  <2> QED BY <2>1, <2>5
<1>7. ASSUME NEW a \in Apps, NEW row, Promise!Close(a, row) PROVE OpenPromise'
  <2>1. /\ openBar' = None /\ Promise!Rewrite(a) /\ Promise!Holds(a, row)'
        /\ verdictBar' = [verdictBar EXCEPT ![a] = row]
        /\ UNCHANGED <<onBar, exitBar>>
    BY <1>7 DEF Promise!Close, Promise!Rewrite
  <2>2. a # None /\ exitBar = "none"
    BY <1>7, UpdaterAssumption DEF UpdaterAssumption, Promise!Close
  <2>3. \A b \in Apps \ {a} : verdictBar'[b] = verdictBar[b]
    BY <2>1
  <2>4. verdictBar'[a] = row
    BY <2>1
  <2>5. Promise!RowsHold'
    <3>1. ASSUME NEW b \in Apps PROVE Promise!Holds(b, verdictBar[b])'
      <4>1. CASE b = a
        BY <2>1, <2>4, <4>1 DEF Promise!Holds
      <4>2. CASE b # a
        BY <2>1, <2>3, <4>2, RewriteHolds
      <4> QED BY <4>1, <4>2
    <3> QED BY <3>1 DEF Promise!RowsHold
  <2> QED BY <2>1, <2>2, <2>5
<1>8. CASE UNCHANGED Promise!vars
  <2>1. Promise!RowsHold'
    BY <1>8 DEF Promise!vars, Promise!RowsHold, Promise!Holds, Promise!Runs, Promise!Path
  <2> QED BY <1>8, <2>1 DEF Promise!vars
<1> QED BY <1>1, <1>2, <1>3, <1>4, <1>5, <1>6, <1>7, <1>8, Zenon DEF Promise!Next

\* The promise alone, whatever keeps it: rows are true and stay true, and exit
\* code zero finds every application on the requested runtime but those set aside.
THEOREM PromiseSuffices == Promise!Spec => [](Promise!RowsHold /\ Promise!ZeroIsComplete)
<1>1. Promise!Init => OpenPromise
  BY DEF Promise!Init, OpenPromise, Promise!NoVerdict, Promise!RowsHold, Promise!Holds
<1>2. OpenPromise => Promise!RowsHold /\ Promise!ZeroIsComplete
  BY DEF OpenPromise, Promise!RowsHold, Promise!ZeroIsComplete, Promise!Holds,
     Promise!Successes
<1>3. OpenPromise /\ [Promise!Next]_(Promise!vars) => OpenPromise'
  BY OpenPromiseStep
<1> QED BY <1>1, <1>2, <1>3, PTL DEF Promise!Spec

-----------------------------------------------------------------------------
(* The runtime update-node asks nvm for (Nvm), whose processes and files    *)
(* are its own: for any number of installations, versions, failures,       *)
(* deaths and acts of the user.                                            *)

NvmSteps ==
    {"idle", "find", "snapshot", "assert", "install", "alias", "restore", "which", "verify"}
NvmTypes ==
    /\ alias \in Nvm!AliasType /\ orig \in Nvm!AliasType
    /\ runtime \in [Runtimes -> {"absent", "whole", "broken", "odd"}]
    /\ nvmPc \in [Installers -> NvmSteps] /\ want \in [Installers -> Runtimes \cup {Bad}]
    /\ saved \in [Installers -> Nvm!AliasType] /\ failed \in [Installers -> BOOLEAN]
    /\ res \in [Installers -> {"none", "ok", "failed"}]
    /\ excused \in BOOLEAN /\ told \in BOOLEAN

\* What was asked for, wherever something is done about it, is a version.
Asked == \A p \in Installers : nvmPc[p] # "idle" \/ res[p] = "ok" => want[p] \in Runtimes
\* Nobody else installs, the one who does has the user's alias, and that is
\* the alias unless it is to be put back.
Undisturbed ==
    ~excused /\ ~told =>
        /\ \A p, q \in Installers : Nvm!Installing(p) /\ Nvm!Installing(q) => p = q
        /\ \A p \in Installers : Nvm!Installing(p) => saved[p] = orig
        /\ alias = orig \/ \E p \in Installers : nvmPc[p] = "restore"
NvmInv == NvmTypes /\ Asked /\ Undisturbed /\ Nvm!OkIsVerified

LEMMA NvmInit == Nvm!Init => NvmInv
<1> SUFFICES ASSUME Nvm!Init PROVE NvmInv
  OBVIOUS
<1>1. NvmTypes /\ Asked
  BY DEF Nvm!Init, NvmTypes, Asked, Nvm!AliasType, NvmSteps
<1>2. Undisturbed
  BY DEF Nvm!Init, Undisturbed, Nvm!Installing
<1>3. Nvm!OkIsVerified
  BY DEF Nvm!Init, Nvm!OkIsVerified
<1> QED BY <1>1, <1>2, <1>3 DEF NvmInv

\* A step of p, which touches no other process, by the line it comes to and
\* what it answers.
NvmMoves(p) ==
    /\ nvmPc' = [nvmPc EXCEPT ![p] = nvmPc'[p]] /\ nvmPc'[p] \in NvmSteps
    /\ res' = [res EXCEPT ![p] = res'[p]] /\ res'[p] \in {"none", "ok", "failed"}

LEMMA NvmGoes ==
  ASSUME NvmTypes, NEW p \in Installers,
         \/ \E l \in NvmSteps : Nvm!Goto(p, l)
         \/ \E r \in {"none", "ok", "failed"} : Nvm!End(p, r)
  PROVE  NvmMoves(p)
  BY DEF NvmTypes, NvmMoves, Nvm!Goto, Nvm!End, NvmSteps

\* Every step of an installation, a death and the user.
LEMMA NvmStep ==
  ASSUME NvmInv, Nvm!Next
  PROVE  NvmInv'
<1>0. NvmTypes /\ Asked /\ Undisturbed /\ Nvm!OkIsVerified
  BY DEF NvmInv
<1>1. ASSUME NEW p \in Installers, NEW v \in Runtimes \cup {Bad}, Nvm!Begin(p, v)
      PROVE  NvmInv'
  <2>0. NvmMoves(p)
    BY <1>0, <1>1, SMT DEF NvmTypes, NvmMoves, Nvm!Begin, Nvm!End, NvmSteps
  <2>1. NvmTypes'
    BY <1>0, <2>0, <1>1, SMT DEF NvmTypes, Nvm!Begin, Nvm!Dir, Nvm!Ghosts, NvmMoves
  <2>2. Asked'
    BY <1>0, <2>0, <1>1, SMT DEF NvmTypes, Nvm!Begin, Asked, Nvm!End
  <2>3. Undisturbed'
    BY <1>0, <2>0, <1>1, SMT DEF NvmTypes, Nvm!Begin, Undisturbed, Nvm!Installing,
       Nvm!End, Nvm!Dir, Nvm!Ghosts 
  <2>4. Nvm!OkIsVerified'
    BY <1>0, <2>0, <1>1, SMT DEF NvmTypes, Nvm!Begin, Nvm!OkIsVerified, Nvm!End, Nvm!Dir
  <2> QED BY <2>1, <2>2, <2>3, <2>4 DEF NvmInv
<1>2. ASSUME NEW p \in Installers, Nvm!Find(p)
      PROVE  NvmInv'
  <2>0. NvmMoves(p)
    BY <1>0, <1>2, NvmGoes, SMT DEF Nvm!Find, NvmSteps
  <2>1. NvmTypes'
    BY <1>0, <2>0, <1>2, SMT DEF NvmTypes, Nvm!Find, Nvm!Dir, Nvm!Ghosts, NvmMoves
  <2>2. Asked'
    BY <1>0, <2>0, <1>2, SMT DEF NvmTypes, Nvm!Find, Asked, NvmMoves
  <2>3. Undisturbed'
    BY <1>0, <2>0, <1>2, SMT DEF NvmTypes, Nvm!Find, Undisturbed, Nvm!Installing,
       Nvm!Goto, Nvm!End, Nvm!Dir, Nvm!Ghosts 
  <2>4. Nvm!OkIsVerified'
    BY <1>0, <2>0, <1>2, SMT DEF NvmTypes, Nvm!Find, Nvm!OkIsVerified, Nvm!Goto,
       Nvm!End, Nvm!Dir 
  <2> QED BY <2>1, <2>2, <2>3, <2>4 DEF NvmInv
<1>3. ASSUME NEW p \in Installers, Nvm!Snapshot(p)
      PROVE  NvmInv'
  <2>0. NvmMoves(p)
    BY <1>0, <1>3, NvmGoes, SMT DEF Nvm!Snapshot, NvmSteps
  <2>1. NvmTypes'
    BY <1>0, <2>0, <1>3, SMT DEF NvmTypes, Nvm!Snapshot, Nvm!Dir, NvmMoves
  <2>2. Asked'
    BY <1>0, <2>0, <1>3, SMT DEF NvmTypes, Nvm!Snapshot, Asked, NvmMoves
  <2>3. Undisturbed'
    <3>1. /\ excused' = (excused \/ \E q \in Installers \ {p} : Nvm!Installing(q))
          /\ UNCHANGED <<alias, orig, told>>
      BY <1>3, Zenon DEF Nvm!Snapshot, Nvm!Dir
    <3>2. CASE excused' \/ told'
      BY <3>2, Zenon DEF Undisturbed
    <3>3. CASE ~(excused' \/ told')
      <4>1. ~excused /\ ~told /\ \A q \in Installers \ {p} : ~Nvm!Installing(q)
        BY <3>1, <3>3, Zenon
      <4>2. alias = orig
        BY <1>0, <1>3, <4>1, SMT DEF Undisturbed, Nvm!Installing, Nvm!Snapshot
      <4>3. nvmPc'[p] = "assert" => saved'[p] = alias
        BY <1>0, <1>3, SMT DEF NvmTypes, Nvm!Snapshot, Nvm!End
      <4>4. nvmPc'[p] \in {"assert", "idle"}
        BY <1>0, <1>3, SMT DEF NvmTypes, Nvm!Snapshot, Nvm!End, Nvm!Goto
      <4>5. \A q \in Installers : Nvm!Installing(q)' => q = p
        BY <1>0, <2>0, <4>1, SMT DEF NvmTypes, NvmMoves, Nvm!Installing
      <4>6. \A q \in Installers : Nvm!Installing(q)' => saved'[q] = orig'
        BY <3>1, <4>2, <4>3, <4>4, <4>5, SMT DEF Nvm!Installing
      <4> QED BY <3>1, <4>2, <4>5, <4>6, Zenon DEF Undisturbed
    <3> QED BY <3>2, <3>3
  <2>4. Nvm!OkIsVerified'
    BY <1>0, <2>0, <1>3, SMT DEF NvmTypes, Nvm!Snapshot, Nvm!OkIsVerified, Nvm!Goto,
       Nvm!End, Nvm!Dir 
  <2> QED BY <2>1, <2>2, <2>3, <2>4 DEF NvmInv
<1>4. ASSUME NEW p \in Installers, Nvm!AssertPreservable(p)
      PROVE  NvmInv'
  <2>0. NvmMoves(p)
    BY <1>0, <1>4, NvmGoes, SMT DEF Nvm!AssertPreservable, NvmSteps
  <2>1. NvmTypes'
    BY <1>0, <2>0, <1>4, SMT DEF NvmTypes, Nvm!AssertPreservable, Nvm!Dir,
       Nvm!Ghosts, NvmMoves 
  <2>2. Asked'
    BY <1>0, <2>0, <1>4, SMT DEF NvmTypes, Nvm!AssertPreservable, Asked, NvmMoves
  <2>3. Undisturbed'
    BY <1>0, <2>0, <1>4, SMT DEF NvmTypes, Nvm!AssertPreservable, Undisturbed,
       Nvm!Installing, Nvm!Dir, Nvm!Ghosts, NvmMoves 
  <2>4. Nvm!OkIsVerified'
    BY <1>0, <2>0, <1>4, SMT DEF NvmTypes, Nvm!AssertPreservable, Nvm!OkIsVerified,
       Nvm!Goto, Nvm!End, Nvm!Dir 
  <2> QED BY <2>1, <2>2, <2>3, <2>4 DEF NvmInv
<1>5. ASSUME NEW p \in Installers, Nvm!Install(p)
      PROVE  NvmInv'
  <2>0. NvmMoves(p)
    BY <1>0, <1>5, NvmGoes, SMT DEF Nvm!Install, NvmSteps
  <2>1. NvmTypes'
    <3>1. want[p] \in Runtimes /\ runtime' \in [Runtimes -> {"absent", "whole", "broken", "odd"}]
      BY <1>0, <1>5, SMT DEF NvmTypes, Nvm!Install, Asked
    <3>2. failed' \in [Installers -> BOOLEAN]
      <4>1. failed' = failed \/ failed' = [failed EXCEPT ![p] = TRUE]
        BY <1>5, Zenon DEF Nvm!Install
      <4>2. /\ failed \in [Installers -> BOOLEAN]
            /\ [failed EXCEPT ![p] = TRUE] \in [Installers -> BOOLEAN]
        BY <1>0 DEF NvmTypes
      <4> QED BY <4>1, <4>2, Zenon
    <3>3. /\ nvmPc' \in [Installers -> NvmSteps] /\ res' \in [Installers -> {"none", "ok", "failed"}]
      BY <1>0, <2>0, SMT DEF NvmTypes, NvmMoves
    <3>4. UNCHANGED <<alias, orig, want, saved, excused, told>>
      BY <1>5, Zenon DEF Nvm!Install, Nvm!Ghosts
    <3> QED BY <1>0, <3>1, <3>2, <3>3, <3>4, SMT DEF NvmTypes, Nvm!AliasType
  <2>2. Asked'
    BY <1>0, <2>0, <1>5, SMT DEF NvmTypes, Nvm!Install, Asked, NvmMoves
  <2>3. Undisturbed'
    BY <1>0, <2>0, <1>5, SMT DEF NvmTypes, Nvm!Install, Undisturbed, Nvm!Installing,
       Nvm!Ghosts, NvmMoves 
  <2>4. Nvm!OkIsVerified'
    BY <1>0, <2>0, <1>5, SMT DEF NvmTypes, Nvm!Install, Nvm!OkIsVerified, Asked,
       Nvm!Goto, Nvm!Runtime 
  <2> QED BY <2>1, <2>2, <2>3, <2>4 DEF NvmInv
<1>6. ASSUME NEW p \in Installers, Nvm!SetAlias(p)
      PROVE  NvmInv'
  <2>0. NvmMoves(p)
    BY <1>0, <1>6, NvmGoes, SMT DEF Nvm!SetAlias, NvmSteps
  <2>1. NvmTypes'
    BY <1>0, <2>0, <1>6, SMT DEF NvmTypes, Nvm!SetAlias, Nvm!AliasType, Nvm!Ghosts,
       Asked, NvmMoves 
  <2>2. Asked'
    BY <1>0, <2>0, <1>6, SMT DEF Nvm!SetAlias, Asked, Nvm!Goto
  <2>3. Undisturbed'
    BY <1>0, <2>0, <1>6, SMT DEF NvmTypes, Nvm!SetAlias, Undisturbed,
       Nvm!Installing, Nvm!Goto, Nvm!Ghosts 
  <2>4. Nvm!OkIsVerified'
    BY <1>0, <2>0, <1>6, SMT DEF Nvm!SetAlias, Nvm!OkIsVerified, Nvm!Goto
  <2> QED BY <2>1, <2>2, <2>3, <2>4 DEF NvmInv
<1>7. ASSUME NEW p \in Installers, Nvm!Restore(p)
      PROVE  NvmInv'
  <2>0. NvmMoves(p)
    BY <1>0, <1>7, NvmGoes, SMT DEF Nvm!Restore, NvmSteps
  <2>1. NvmTypes'
    <3>1. alias' \in Nvm!AliasType
      BY <1>0, <1>7, SMT DEF NvmTypes, Nvm!Restore, Nvm!PutBack, Nvm!AliasType
    <3>2. /\ nvmPc' \in [Installers -> NvmSteps] /\ res' \in [Installers -> {"none", "ok", "failed"}]
      BY <1>0, <2>0, SMT DEF NvmTypes, NvmMoves
    <3>3. UNCHANGED <<orig, want, saved, runtime, failed, excused>>
      BY <1>7, Zenon DEF Nvm!Restore
    <3>4. told' \in BOOLEAN
      BY <1>0, <1>7, Zenon DEF Nvm!Restore, NvmTypes
    <3> QED BY <1>0, <3>1, <3>2, <3>3, <3>4, SMT DEF NvmTypes, Nvm!AliasType
  <2>2. Asked'
    BY <1>0, <2>0, <1>7, SMT DEF NvmTypes, Nvm!Restore, Asked, NvmMoves
  <2>3. Undisturbed'
    BY <1>0, <2>0, <1>7, SMT DEF NvmTypes, Nvm!Restore, Undisturbed, Nvm!Installing,
       Nvm!PutBack, NvmMoves 
  <2>4. Nvm!OkIsVerified'
    BY <1>0, <2>0, <1>7, SMT DEF NvmTypes, Nvm!Restore, Nvm!OkIsVerified, Nvm!Goto, Nvm!End
  <2> QED BY <2>1, <2>2, <2>3, <2>4 DEF NvmInv
<1>8. ASSUME NEW p \in Installers, Nvm!Which(p)
      PROVE  NvmInv'
  <2>0. NvmMoves(p)
    BY <1>0, <1>8, NvmGoes, SMT DEF Nvm!Which, NvmSteps
  <2>1. NvmTypes'
    BY <1>0, <2>0, <1>8, SMT DEF NvmTypes, Nvm!Which, Nvm!Dir, Nvm!Ghosts, NvmMoves
  <2>2. Asked'
    BY <1>0, <2>0, <1>8, SMT DEF NvmTypes, Nvm!Which, Asked, NvmMoves
  <2>3. Undisturbed'
    BY <1>0, <2>0, <1>8, SMT DEF NvmTypes, Nvm!Which, Undisturbed, Nvm!Installing,
       Nvm!Goto, Nvm!End, Nvm!Dir, Nvm!Ghosts 
  <2>4. Nvm!OkIsVerified'
    BY <1>0, <2>0, <1>8, SMT DEF NvmTypes, Nvm!Which, Nvm!OkIsVerified, Nvm!Goto,
       Nvm!End, Nvm!Dir 
  <2> QED BY <2>1, <2>2, <2>3, <2>4 DEF NvmInv
<1>9. ASSUME NEW p \in Installers, Nvm!Verify(p)
      PROVE  NvmInv'
  <2>0. NvmMoves(p)
    BY <1>0, <1>9, NvmGoes, SMT DEF Nvm!Verify, NvmSteps
  <2>1. NvmTypes'
    BY <1>0, <2>0, <1>9, SMT DEF NvmTypes, Nvm!Verify, Nvm!Dir, Nvm!Ghosts, NvmMoves
  <2>2. Asked'
    BY <1>0, <2>0, <1>9, SMT DEF NvmTypes, Nvm!Verify, Asked, NvmMoves
  <2>3. Undisturbed'
    BY <1>0, <2>0, <1>9, SMT DEF NvmTypes, Nvm!Verify, Undisturbed, Nvm!Installing,
       Nvm!End, Nvm!Dir, Nvm!Ghosts 
  <2>4. Nvm!OkIsVerified'
    BY <1>0, <2>0, <1>9, SMT DEF NvmTypes, Nvm!Verify, Nvm!OkIsVerified, Nvm!End,
       Nvm!Runtime, Nvm!Dir 
  <2> QED BY <2>1, <2>2, <2>3, <2>4 DEF NvmInv
<1>10. ASSUME NEW p \in Installers, Nvm!Dies(p)
      PROVE  NvmInv'
  <2>0. NvmMoves(p)
    BY <1>0, <1>10, NvmGoes, SMT DEF Nvm!Dies, NvmSteps
  <2>1. NvmTypes'
    BY <1>0, <2>0, <1>10, SMT DEF NvmTypes, Nvm!Dies, Nvm!Dir, NvmMoves
  <2>2. Asked'
    BY <1>0, <2>0, <1>10, SMT DEF Nvm!Dies, Asked, Nvm!End
  <2>3. Undisturbed'
    <3>1. excused' = (excused \/ Nvm!Installing(p)) /\ UNCHANGED <<alias, orig, told, saved>>
      BY <1>10, Zenon DEF Nvm!Dies, Nvm!Dir
    <3>2. CASE excused' \/ told'
      BY <3>2, Zenon DEF Undisturbed
    <3>3. CASE ~(excused' \/ told')
      <4>1. ~excused /\ ~told /\ ~Nvm!Installing(p)
        BY <3>1, <3>3, Zenon
      <4>2. nvmPc'[p] = "idle" /\ \A q \in Installers \ {p} : nvmPc'[q] = nvmPc[q]
        BY <1>0, <1>10, <2>0, SMT DEF NvmTypes, Nvm!Dies, Nvm!End
      <4> QED BY <1>0, <3>1, <4>1, <4>2, SMT DEF Undisturbed, Nvm!Installing
    <3> QED BY <3>2, <3>3
  <2>4. Nvm!OkIsVerified'
    BY <1>0, <2>0, <1>10, SMT DEF Nvm!Dies, Nvm!OkIsVerified, Nvm!End, Nvm!Dir
  <2> QED BY <2>1, <2>2, <2>3, <2>4 DEF NvmInv
<1>11. ASSUME NEW a \in Runtimes \cup {None, Old}, Nvm!UserAliases(a)
      PROVE  NvmInv'
  <2>1. NvmTypes'
    BY <1>0, <1>11, SMT DEF NvmTypes, Nvm!UserAliases, Nvm!AliasType
  <2>2. Asked'
    BY <1>0, <1>11, SMT DEF Nvm!UserAliases, Asked
  <2>3. Undisturbed'
    <3>1. /\ excused' = (excused \/ \E p \in Installers : Nvm!Installing(p))
          /\ alias' = a /\ orig' = a /\ UNCHANGED <<nvmPc, told, saved>>
      BY <1>11, Zenon DEF Nvm!UserAliases
    <3>2. CASE excused' \/ told'
      BY <3>2, Zenon DEF Undisturbed
    <3>3. CASE ~(excused' \/ told')
      <4>1. \A p \in Installers : ~Nvm!Installing(p)
        BY <3>1, <3>3, Zenon
      <4> QED BY <3>1, <4>1, SMT DEF Undisturbed, Nvm!Installing
    <3> QED BY <3>2, <3>3
  <2>4. Nvm!OkIsVerified'
    BY <1>0, <1>11, SMT DEF Nvm!UserAliases, Nvm!OkIsVerified
  <2> QED BY <2>1, <2>2, <2>3, <2>4 DEF NvmInv
<1>12. ASSUME NEW v \in Runtimes, Nvm!UserUninstalls(v)
      PROVE  NvmInv'
  <2>1. NvmTypes'
    BY <1>0, <1>12, SMT DEF NvmTypes, Nvm!UserUninstalls, Nvm!Ghosts
  <2>2. Asked'
    BY <1>0, <1>12, SMT DEF Nvm!UserUninstalls, Asked
  <2>3. Undisturbed'
    BY <1>0, <1>12, SMT DEF Nvm!UserUninstalls, Undisturbed, Nvm!Installing, Nvm!Ghosts
  <2>4. Nvm!OkIsVerified'
    BY <1>0, <1>12, SMT DEF Nvm!UserUninstalls, Nvm!OkIsVerified
  <2> QED BY <2>1, <2>2, <2>3, <2>4 DEF NvmInv
<1> QED BY <1>1, <1>2, <1>3, <1>4, <1>5, <1>6, <1>7, <1>8, <1>9, <1>10, <1>11, <1>12
        DEF Nvm!Next, Nvm!Step

LEMMA NvmStays ==
  ASSUME NvmInv, UNCHANGED Nvm!vars
  PROVE  NvmInv'
  BY DEF NvmInv, NvmTypes, Asked, Undisturbed, Nvm!Installing, Nvm!OkIsVerified,
         Nvm!vars, Nvm!Dir, Nvm!Ghosts, Nvm!Counts, Nvm!AliasType

\* Types, versions, the alias and the answers of any installations.
THEOREM NvmInvariant == Nvm!Spec => []NvmInv
<1> QED BY NvmInit, NvmStep, NvmStays, PTL DEF Nvm!Spec

\* The user's default alias is kept, except by what is reported as a failure to
\* put it back, a death, a second installation or the user (AliasIsKept;
\* _restoreDefaultAlias).
THEOREM AliasKept == Nvm!Spec => []Nvm!AliasIsKept
<1>1. NvmInv => Nvm!AliasIsKept
  BY DEF NvmInv, Undisturbed, Nvm!AliasIsKept
<1> QED BY <1>1, NvmInvariant, PTL

\* "ok" is said only of a runtime that runs as the version asked for (OkIsVerified;
\* prepare).
THEOREM OkVerified == Nvm!Spec => []Nvm!OkIsVerified
<1>1. NvmInv => Nvm!OkIsVerified
  BY DEF NvmInv
<1> QED BY <1>1, NvmInvariant, PTL

\* The rest of the types: what is kept of an alias is never a link, what the
\* user left is never in pieces.
NvmRest ==
    /\ nvmSh \in BOOLEAN /\ dir \in {"ok", "missing", "file", "readonly"}
    /\ orig # Torn /\ \A p \in Installers : saved[p] # Link
    /\ ops \in 0..NvmOps /\ nvmFaults \in 0..NvmFaults /\ user \in 0..MaxUser

LEMMA NvmRestStep ==
  ASSUME NvmTypes, NvmRest, [Nvm!Next]_(Nvm!vars)
  PROVE  NvmRest'
<1> USE HostAssumption DEF NvmRest, NvmTypes, Nvm!AliasType
<1>1. ASSUME NEW p \in Installers, Nvm!Step(p) \/ Nvm!Dies(p) PROVE NvmRest'
  <2>1. CASE Nvm!Snapshot(p)
    BY <2>1 DEF Nvm!Snapshot, Nvm!Dir, Nvm!Counts, Nvm!Goto, Nvm!End
  <2>2. CASE Nvm!Find(p) \/ Nvm!AssertPreservable(p) \/ Nvm!Install(p)
    BY <2>2 DEF Nvm!Find, Nvm!AssertPreservable, Nvm!Install, Nvm!Dir, Nvm!Ghosts, Nvm!Counts, Nvm!CanFail
  <2>3. CASE Nvm!SetAlias(p) \/ Nvm!Restore(p)
    BY <2>3 DEF Nvm!SetAlias, Nvm!Restore, Nvm!PutBack, Nvm!Ghosts, Nvm!Counts, Nvm!CanFail
  <2>4. CASE Nvm!Which(p) \/ Nvm!Verify(p) \/ Nvm!Dies(p)
    BY <2>4 DEF Nvm!Which, Nvm!Verify, Nvm!Dies, Nvm!Dir, Nvm!Ghosts, Nvm!Counts, Nvm!CanFail
  <2> QED BY <1>1, <2>1, <2>2, <2>3, <2>4 DEF Nvm!Step
<1>2. ASSUME NEW p \in Installers, NEW v \in Runtimes \cup {Bad}, Nvm!Begin(p, v) PROVE NvmRest'
  BY <1>2 DEF Nvm!Begin, Nvm!Dir, Nvm!Ghosts
<1>3. ASSUME NEW a \in Runtimes \cup {None, Old}, Nvm!UserAliases(a) PROVE NvmRest'
  BY <1>3 DEF Nvm!UserAliases
<1>4. ASSUME NEW v \in Runtimes, Nvm!UserUninstalls(v) PROVE NvmRest'
  BY <1>4 DEF Nvm!UserUninstalls, Nvm!Ghosts
<1>5. CASE UNCHANGED Nvm!vars
  BY <1>5 DEF Nvm!vars, Nvm!Dir, Nvm!Ghosts, Nvm!Counts
<1> QED BY <1>1, <1>2, <1>3, <1>4, <1>5 DEF Nvm!Next

\* All of it, and with the exceptions of AliasIsKept, whatever update-node does
\* meanwhile (RuntimesAreSafe; Nvm.js).
THEOREM SafeRuntimes == HostSpec => []RuntimesAreSafe
<1>1. NvmInv /\ NvmRest => RuntimesAreSafe
  <2> SUFFICES ASSUME NvmInv, NvmRest PROVE RuntimesAreSafe
    OBVIOUS
  <2>1. Nvm!TypeOK
    <3>1. saved \in [Installers -> Nvm!AliasType \ {Link}] /\ orig \in Nvm!AliasType \ {Torn}
      BY DEF NvmInv, NvmTypes, NvmRest
    <3> QED BY <3>1 DEF NvmInv, NvmTypes, NvmRest, NvmSteps, Nvm!TypeOK
  <2>2. Nvm!AliasIsKept
    BY DEF NvmInv, Undisturbed, Nvm!AliasIsKept
  <2> QED BY <2>1, <2>2 DEF NvmInv, RuntimesAreSafe
<1>2. Nvm!Init => NvmRest
  BY HostAssumption DEF Nvm!Init, NvmRest
<1>3. [UpdateSteps \/ InstallSteps]_<<vars, nvmVars>> => [Nvm!Next]_(Nvm!vars)
  BY DEF UpdateSteps, InstallSteps, nvmVars, Nvm!vars, Nvm!Dir, Nvm!Ghosts, Nvm!Counts
<1>4. NvmInv /\ NvmRest /\ [UpdateSteps \/ InstallSteps]_<<vars, nvmVars>>
        => NvmInv' /\ NvmRest'
  <2>1. NvmInv /\ [Nvm!Next]_(Nvm!vars) => NvmInv'
    BY NvmStep, NvmStays
  <2>2. NvmInv /\ NvmRest /\ [Nvm!Next]_(Nvm!vars) => NvmRest'
    BY NvmRestStep DEF NvmInv
  <2> QED BY <1>3, <2>1, <2>2
<1> QED BY <1>1, <1>2, <1>4, NvmInit, PTL DEF HostSpec
=============================================================================
