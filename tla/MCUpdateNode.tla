---------------------------- MODULE MCUpdateNode ----------------------------
(* update-node run again and again for TLC, and in behaviours of their own   *)
(* (part) the installations of runtimes it asks nvm for.                     *)
EXTENDS UpdateNode, TLC

CONSTANTS a1, a2, v1, v2, p1, p2

VARIABLE part

\* As start and an earlier update leave them.
Host(e, p, m) == [unit |-> v1, env |-> e, proc |-> p, meta |-> m]
UsualHosts == {Host(None, Running(v1), Node), Host(v1, Down("dead"), Path(v1))}

MCInit ==
    /\ part \in {"update", "nvm"}
    /\ Init /\ (part = "nvm" => target = v1 /\ \A a \in Apps : env[a] = v1)
    /\ Nvm!Init
    /\ part = "update" => /\ nvmSh /\ dir = "missing"
                          /\ runtime = [v \in Runtimes |-> "absent"]
MCNext ==
    /\ UNCHANGED part
    /\ \/ part = "update" /\ UpdateSteps
       \/ part = "nvm" /\ InstallSteps
MCSpec == MCInit /\ [][MCNext]_<<vars, nvmVars, part>>

Symmetry == Permutations(Apps) \cup Permutations(Installers)

=============================================================================
