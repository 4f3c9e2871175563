------------------------ MODULE MCNodeRuntimeUpdater ------------------------
(* Constants of the TLC run of one transaction of NodeRuntimeUpdater. *)
EXTENDS NodeRuntimeUpdater, TLC

CONSTANTS a1, v1, v2

Host(e, p, m) == [unit |-> v1, env |-> e, proc |-> p, meta |-> m]

\* One application, with every kind of entry, running and stopped.
AllHosts == {Host(e, p, m) : e \in {v1, None}, p \in {Running(v1), Down("dead")},
                             m \in {Node, Other, Pin(v1), Pin(v2), Path(v1)}}

=============================================================================
