---------------------------- MODULE MCStateStore ----------------------------
(* StateStore for TLC.  A scene bounds a behaviour: "mutate" is two processes *)
(* that change two services, "save" two processes that load, edit and save   *)
(* one service more often.                                                   *)
EXTENDS StateStore, TLC

CONSTANTS s1, s2, v1, v2, p1, p2

VARIABLE scene

\* The file an older writer may have left: the counter is behind the ids.
Legacy ==
    [kind |-> "valid", next_id |-> 1,
     services |-> [NoServices EXCEPT ![s1] = [pm_id |-> 2, val |-> v1]]]

AnyFile == {Absent, Legacy, Unreadable}

Scenes ==
    {[name |-> "mutate", ops |-> 2,
      kinds |-> {"register", "unregister", "clear", "replace"}],
     [name |-> "save", ops |-> 3, kinds |-> {"register", "save"}]}

\* The mutations are made with one value, the saves on one service.
InScene(o) ==
    /\ o.kind \in scene.kinds
    /\ IF scene.name = "save"
       THEN o.kind = "register" => o.svc = s1 /\ o.pin = None
       ELSE /\ o.kind = "register" => o.val = v1
            /\ o.kind = "replace" => o.meta.val = v1

MCInit == Init /\ scene \in Scenes
MCNext ==
    /\ UNCHANGED scene
    /\ \/ \E p \in Procs :
             \/ Load(p)
             \/ scene.name = "save" /\ Edit(p)
             \/ Begin(p) /\ InScene(op'[p])
             \/ Step(p)
             \/ Failure(p)
       \/ RemoveOrphan
    /\ \A p \in Procs : ops'[p] <= scene.ops
MCSpec == MCInit /\ [][MCNext]_<<vars, scene>>

ProcSymmetry == Permutations(Procs)

=============================================================================
