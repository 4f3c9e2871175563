----------------------------- MODULE MCLifecycle ----------------------------
(* Lifecycle for TLC.  A scene bounds a behaviour: which commands, by whom,   *)
(* on which services, with which configurations; each is a question of its   *)
(* own, and none needs the others' state space.                              *)
EXTENDS Lifecycle, TLC

CONSTANTS p1, p2, s1, s2, s3,
          Scenes   \* names of the scenes of the run

VARIABLE scene

Conf(v, cron, autostart) == [ver |-> v, cron |-> cron, autostart |-> autostart]
Plain == {Conf(1, FALSE, TRUE)}
TwoVersions == {Conf(1, FALSE, TRUE), Conf(2, FALSE, TRUE)}
PlainOrCron == {Conf(1, FALSE, TRUE), Conf(2, TRUE, TRUE)}
AllConfs == TwoVersions \cup PlainOrCron \cup {Conf(1, TRUE, TRUE), Conf(1, FALSE, FALSE)}
AllKinds == {"prepare", "start", "httpstart", "restart", "reload", "stop", "delete", "killall"}

Scene(kinds, confs, procs, svcs, maxOps, maxFaults) ==
    [kinds |-> kinds, confs |-> confs, procs |-> procs, svcs |-> svcs,
     ops |-> maxOps, faults |-> maxFaults]

\* One process and its failures on one service; two processes on two services;
\* a cron timer.  The others show what does not hold.
SceneOf(name, p, s) ==
    CASE name = "failures" ->
           Scene(AllKinds \ {"killall"}, TwoVersions, {p}, {s}, 4, 2)
      [] name = "cron" ->
           Scene({"prepare", "start", "stop", "delete"}, PlainOrCron, {p}, {s}, 4, 2)
      [] name = "concurrent" ->
           Scene({"prepare", "restart", "stop", "delete", "killall"}, Plain,
                 Procs, Services \ Timed, 2, 1)
      [] name = "race" ->
           Scene({"prepare", "delete"}, {Conf(1, TRUE, TRUE)}, Procs, {s}, 2, 0)
      [] name = "force" ->
           Scene({"prepare", "delete"}, TwoVersions, {p}, {s}, 2, 0)
      [] name = "removal" ->
           Scene({"prepare", "delete"}, {Conf(1, TRUE, TRUE)}, {p}, {s}, 2, 0)
      [] name = "autostart" ->
           Scene({"prepare", "delete"}, {Conf(1, FALSE, FALSE)}, {p}, {s}, 2, 0)

MCInit ==
    /\ Init
    /\ \E n \in Scenes, p \in Procs, s \in Services :
          /\ s \in Timed <=> n \in {"cron", "race", "removal"}
          /\ scene = SceneOf(n, p, s)

MCNext ==
    /\ UNCHANGED scene
    /\ \/ \E p \in scene.procs, o \in Commands :
             /\ o.kind \in scene.kinds
             /\ o.svcs \subseteq scene.svcs
             /\ o.conf \in scene.confs \cup {None}
             /\ ops[p] < scene.ops
             /\ Begin(p, o)
       \/ Goes
    /\ faults' <= scene.faults

MCSpec == MCInit /\ [][MCNext]_<<vars, scene>>

Symmetry == Permutations(Services \ Timed) \cup Permutations(Procs)

=============================================================================
