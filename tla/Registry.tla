------------------------------ MODULE Registry ------------------------------
(***************************************************************************)
(* What the metadata store promises its callers, without files, locks or   *)
(* processes that die: a map from services to metadata in which every      *)
(* accepted operation takes effect at one instant between its call and its *)
(* return, on the map as it is at that instant, and at most once.          *)
(*                                                                         *)
(*   - no two services have the same pm_id;                                *)
(*   - an id the store chooses is one nobody had since the last clear;     *)
(*   - registering a registered service keeps its id;                      *)
(*   - an operation changes no service but the one it names;               *)
(*   - save replaces the map only if it is the one the caller loaded;      *)
(*   - a caller that is told "ok" has had its effect; one that is told     *)
(*     "error" has had none, or had it and then failed to unlock.          *)
(***************************************************************************)
EXTENDS Naturals

CONSTANTS Procs, Services, None

VARIABLES
    reg,     \* service -> [pm_id, val], or None
    used,    \* every id assigned since the last clear
    call,    \* each caller: "idle", "pending", "applied" or "rejected"
    req,     \* the operation of each caller that is not idle
    answer,  \* what the last operation of each caller returned
    view,    \* each caller's copy of the map, None before it has one
    origin   \* the map that copy was made from, None if there is no such map

vars == <<reg, used, call, req, answer, view, origin>>

IdsOf(r) == {r[s].pm_id : s \in {t \in Services : r[t] # None}}
UniqueIn(r) ==
    \A s, t \in Services :
        r[s] # None /\ r[t] # None /\ r[s].pm_id = r[t].pm_id => s = t
SameBut(s) == \A t \in Services \ {s} : reg'[t] = reg[t]

\* g is f with nothing changed but what belongs to p.
OnlyOf(p, f, g) == \A q \in Procs \ {p} : g[q] = f[q]

Init ==
    /\ UniqueIn(reg) /\ IdsOf(reg) \subseteq used
    /\ call = [p \in Procs |-> "idle"]
    /\ req = [p \in Procs |-> None]
    /\ answer = [p \in Procs |-> "none"]
    /\ view = [p \in Procs |-> None]
    /\ origin = [p \in Procs |-> None]

-----------------------------------------------------------------------------
(* The effect of each operation.                                           *)

Register(o) ==
    /\ o.kind = "register"
    /\ SameBut(o.svc)
    /\ reg'[o.svc] # None /\ reg'[o.svc].val = o.val
    /\ \/ reg[o.svc] # None /\ reg'[o.svc].pm_id = reg[o.svc].pm_id
       \/ reg[o.svc] = None /\ o.pin = None /\ reg'[o.svc].pm_id \notin used
       \/ reg[o.svc] = None /\ o.pin # None /\ reg'[o.svc].pm_id = o.pin
    /\ used \subseteq used'

Replace(o) ==
    /\ o.kind = "replace"
    /\ SameBut(o.svc)
    /\ reg[o.svc] # None /\ reg'[o.svc] = o.meta
    /\ used \subseteq used'

Unregister(o) ==
    /\ o.kind = "unregister"
    /\ SameBut(o.svc)
    /\ reg'[o.svc] = None
    /\ used \subseteq used'

Clear(o) ==
    /\ o.kind = "clear"
    /\ \A s \in Services : reg'[s] = None

Save(p, o) ==
    /\ o.kind = "save"
    /\ origin[p] = reg
    /\ reg' = view[p]
    /\ used \subseteq used'

-----------------------------------------------------------------------------
(* One caller's operation.                                                 *)

Call(p, there) == call' = [call EXCEPT ![p] = there]

\* A caller copies the map, changes the copy it has, or fails to read.
Copied(p) ==
    /\ OnlyOf(p, view, view') /\ OnlyOf(p, origin, origin')
    /\ origin'[p] \in {origin[p], reg, None}

Look(p) ==
    /\ call[p] = "idle"
    /\ Copied(p)
    /\ UNCHANGED <<reg, used, call, req, answer>>

Invoke(p) ==
    /\ call[p] = "idle"
    /\ Call(p, "pending")
    /\ OnlyOf(p, req, req')
    /\ answer' = [answer EXCEPT ![p] = "none"]
    /\ Copied(p)
    /\ UNCHANGED <<reg, used>>

\* The instant at which the operation happens.
Effect(p) ==
    /\ call[p] = "pending" /\ Call(p, "applied")
    /\ \/ Register(req[p]) \/ Replace(req[p]) \/ Unregister(req[p])
       \/ Clear(req[p]) \/ Save(p, req[p])
    /\ UniqueIn(reg') /\ IdsOf(reg') \subseteq used'
    /\ view' = [view EXCEPT ![p] = reg']
    /\ origin' = [origin EXCEPT ![p] = reg']
    /\ UNCHANGED <<req, answer>>

Reject(p) ==
    /\ call[p] = "pending"
    /\ Call(p, "rejected")
    /\ UNCHANGED <<reg, used, req, answer, view, origin>>

Return(p) ==
    /\ call[p] # "idle"
    /\ Call(p, "idle")
    /\ req' = [req EXCEPT ![p] = None]
    /\ \/ call[p] = "applied" /\ answer' = [answer EXCEPT ![p] = "ok"]
       \/ answer' = [answer EXCEPT ![p] = "error"]
    /\ UNCHANGED <<reg, used, view, origin>>

\* The caller dies, before or after the effect.
Die(p) ==
    /\ call[p] # "idle"
    /\ Call(p, "idle")
    /\ req' = [req EXCEPT ![p] = None]
    /\ view' = [view EXCEPT ![p] = None]
    /\ origin' = [origin EXCEPT ![p] = None]
    /\ UNCHANGED <<reg, used, answer>>

Next ==
    \E p \in Procs : Look(p) \/ Invoke(p) \/ Effect(p) \/ Reject(p)
                     \/ Return(p) \/ Die(p)

Spec == Init /\ [][Next]_vars

=============================================================================
