----------------------------- MODULE MCProgress -----------------------------
(* What must come to an end, for TLC: every operation of the metadata store  *)
(* and every run of update-node, each in behaviours of its own (part), with  *)
(* the fairness of its module.                                               *)
EXTENDS TLC, Integers

CONSTANTS p1, p2, s1, v1, v2, a1, a2, a3, None

VARIABLES part,
    file, lock, storePc, op, tries, mem, data, base, result, ops, storeFaults,
    unit, env, loaded, proc, meta, pc, target, rollback, left, cur, ctx, rows,
    globalError, tx, steady, before, runs, faults, kills

storeVars == <<file, lock, storePc, op, tries, mem, data, base, result, ops,
               storeFaults>>
updaterVars == <<unit, env, loaded, proc, meta, pc, target, rollback, left, cur,
                 ctx, rows, globalError, tx, steady, before, runs, faults, kills>>

Unreadable == [kind |-> "corrupt", services |-> [s \in {s1} |-> None], next_id |-> 1]
AnyFile ==
    {Unreadable, [Unreadable EXCEPT !.kind = "absent"],
     [kind |-> "valid", services |-> [s \in {s1} |-> [pm_id |-> 2, val |-> v1]],
      next_id |-> 1]}

Store == INSTANCE StateStore WITH
    Procs <- {p1, p2}, Services <- {s1}, Values <- {v1}, Pins <- {},
    Kinds <- {"register", "unregister"}, InitFiles <- AnyFile, Retries <- 2,
    MaxOps <- 2, MaxFaults <- 1, pc <- storePc, faults <- storeFaults

RunningHosts ==
    {[unit |-> v1, env |-> v1, proc |-> [state |-> "running", exec |-> v1],
      meta |-> [kind |-> "path", runtime |-> v1]]}

Updater == INSTANCE NodeRuntimeUpdater WITH
    Apps <- {a1, a2, a3}, Legacy <- {a2}, Internal <- {a3}, Triggered <- {},
    Runtimes <- {v1, v2}, InitHosts <- RunningHosts, Window <- 1, MaxRuns <- 1,
    MaxFaults <- 2, MaxKills <- 1

MCInit ==
    /\ part \in {"store", "updater"}
    /\ Store!Init /\ (part = "updater" => file.kind = "absent")
    /\ Updater!Init /\ (part = "store" => target = v1)
MCNext ==
    \/ part = "store" /\ Store!Next /\ UNCHANGED <<part, updaterVars>>
    \/ part = "updater" /\ Updater!Next /\ UNCHANGED <<part, storeVars>>

MCSpec ==
    /\ MCInit /\ [][MCNext]_<<part, storeVars, updaterVars>>
    /\ \A p \in {p1, p2} : WF_storeVars(Store!Step(p))
    /\ WF_updaterVars(Updater!Step)

\* Every operation of the store that begins ends, also on a lock nobody will
\* release (the lockTimeoutMs of _acquireLock).
OperationsEnd == Store!OperationsEnd

\* A run of update-node comes to a report, whatever fails (run).
Resolves == Updater!Resolves

=============================================================================
