------------------------------- MODULE MCApi --------------------------------
(* The HTTP API for TLC, in scenes of their own: "service" is two zm2        *)
(* processes that manage its service, "requests" two connections to its      *)
(* server while it is told to stop.                                          *)
EXTENDS Api, TLC

CONSTANTS r1, r2, a

VARIABLE scene

MCInit ==
    /\ scene \in {"service", "requests"}
    /\ Init /\ (scene = "requests" => ~legacy)
    /\ Http!Init /\ (scene = "service" => exists = {})
MCNext ==
    /\ UNCHANGED scene
    /\ \/ scene = "service" /\ ServiceSteps
       \/ scene = "requests" /\ RequestSteps
MCSpec ==
    /\ MCInit /\ [][MCNext]_<<vars, requestVars, scene>>
    /\ WF_vars(LoadKey(Server)) /\ WF_vars(ServerRestarts)
    /\ \A p \in Procs : WF_vars(Step(p))

=============================================================================
