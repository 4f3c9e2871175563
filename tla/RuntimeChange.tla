---------------------------- MODULE RuntimeChange ----------------------------
(***************************************************************************)
(* What update-node promises of the configuration of the applications,     *)
(* without files, calls, restarts or samples: one application after the    *)
(* other is opened, changed and closed, and what is said of it when it is  *)
(* closed is so.                                                           *)
(*                                                                         *)
(*   - nothing changes but the configuration of the application that is    *)
(*     open, and nothing is written but what it had or is to have;         *)
(*   - systemd's copy of a definition is only ever read from the unit;     *)
(*   - each application is opened at most once in a run, and its row is    *)
(*     written once;                                                       *)
(*   - the exit code is zero exactly when every row is a success, unless   *)
(*     there are no rows;                                                  *)
(*   - a run that is killed leaves its open application as it is, without  *)
(*     a row, and the next run starts from what it finds.                  *)
(***************************************************************************)
CONSTANTS Apps, Internal, Runtimes, None

VARIABLES
    conf,     \* application -> what its unit file, PATH and entry name
    live,     \* application -> the definition systemd has in memory
    on,       \* a run is under way
    goal,     \* the runtime the run was asked for
    was,      \* conf when the run began
    open,     \* the application whose configuration changes, or None
    verdict,  \* application -> its row, "none" as long as there is none
    exit      \* exit code of the last run: "none", "zero" or "one"

vars == <<conf, live, on, goal, was, open, verdict, exit>>

Path(r) == [kind |-> "path", runtime |-> r]
NoVerdict == [a \in Apps |-> "none"]
Successes == {"skipped", "updated"}

Runs(a, r) == conf[a] = [unit |-> r, env |-> r, meta |-> Path(r)] /\ live[a] = r

\* What a row says of an application.
Holds(a, row) ==
    /\ row = "skipped" =>
          a \in Internal \/ conf[a].meta.kind = "other" \/ Runs(a, goal)
    /\ row \in {"skipped", "failed_unchanged"} => conf[a] = was[a]
    /\ row \in {"updated", "failed_no_rollback"} => Runs(a, goal)
    /\ row = "failed_restored" => conf[a] = was[a] /\ live[a] = was[a].unit

Init ==
    /\ live = [a \in Apps |-> conf[a].unit]
    /\ on = FALSE /\ goal \in Runtimes /\ was = conf
    /\ open = None /\ verdict = NoVerdict /\ exit = "none"

-----------------------------------------------------------------------------
Start ==
    /\ ~on /\ on' = TRUE
    /\ goal' \in Runtimes /\ was' = conf
    /\ open' = None /\ verdict' = NoVerdict /\ exit' = "none"
    /\ UNCHANGED <<conf, live>>

\* The row of an application that is not touched.
Leave(a, row) ==
    /\ on /\ open = None /\ verdict[a] = "none"
    /\ row \in {"skipped", "failed_unchanged"} /\ Holds(a, row)
    /\ verdict' = [verdict EXCEPT ![a] = row]
    /\ UNCHANGED <<conf, live, on, goal, was, open, exit>>

Open(a) ==
    /\ on /\ open = None /\ verdict[a] = "none"
    /\ open' = a
    /\ UNCHANGED <<conf, live, on, goal, was, verdict, exit>>

\* Part of the configuration of a becomes new or old again; systemd takes in
\* the unit files of all applications or none.
Rewrite(a) ==
    /\ \A b \in Apps \ {a} : conf'[b] = conf[b]
    /\ conf'[a].unit \in {conf[a].unit, was[a].unit, goal}
    /\ conf'[a].env \in {conf[a].env, was[a].env, goal}
    /\ conf'[a].meta \in {conf[a].meta, was[a].meta, Path(goal)}
    /\ live' \in {live, [b \in Apps |-> conf'[b].unit]}
    /\ UNCHANGED <<on, goal, was, exit>>

Change(a) ==
    open = a /\ Rewrite(a) /\ UNCHANGED <<open, verdict>>

Close(a, row) ==
    /\ open = a /\ open' = None /\ Rewrite(a)
    /\ verdict' = [verdict EXCEPT ![a] = row] /\ Holds(a, row)'

Finish ==
    /\ on /\ on' = FALSE /\ open = None
    /\ \/ exit' = "zero" /\ \A a \in Apps : verdict[a] \in Successes
       \/ exit' = "one" /\ (Apps = {} \/ \E a \in Apps : verdict[a] \notin Successes)
    /\ UNCHANGED <<conf, live, goal, was, open, verdict>>

Abandon ==
    /\ on /\ on' = FALSE
    /\ open' = None /\ verdict' = NoVerdict
    /\ UNCHANGED <<conf, live, goal, was, exit>>

Closings == {"updated", "failed_restored", "failed_restore", "failed_no_rollback"}
Next ==
    \/ Start \/ Finish \/ Abandon
    \/ \E a \in Apps :
          \/ \E row \in {"skipped", "failed_unchanged"} : Leave(a, row)
          \/ Open(a) \/ Change(a)
          \/ \E row \in Closings : Close(a, row)

Spec == Init /\ [][Next]_vars

-----------------------------------------------------------------------------
\* A row stays true whatever is changed for the others, and exit code zero
\* finds every application on the requested runtime but those set aside.
RowsHold == \A a \in Apps : Holds(a, verdict[a])
ZeroIsComplete ==
    exit = "zero" =>
        \A a \in Apps : a \in Internal \/ conf[a].meta.kind = "other" \/ Runs(a, goal)

=============================================================================
