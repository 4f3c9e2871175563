-------------------------------- MODULE Nvm ---------------------------------
(***************************************************************************)
(* The Node.js runtime that update-node asks for (tools/Nvm.js): found or  *)
(* installed by the user's nvm, verified, and the default alias, which an  *)
(* installation may set, put back as it was.                               *)
(***************************************************************************)
EXTENDS Naturals

CONSTANTS
    Procs,      \* zm2 processes
    Versions,   \* exact versions
    Bad,        \* an input that is no exact version
    Old,        \* a default alias of the user's
    Link,       \* a default alias that is no regular file
    Torn,       \* what a failed write may leave of it
    MaxOps, MaxFaults, MaxUser,
    None

VARIABLES
    nvmSh,     \* can nvm.sh be read
    dir,       \* the alias directory: "ok", "missing", "file" or "readonly"
    alias,     \* the default alias: None, Link, Old, Torn or a version
    runtime,   \* version -> "absent", "whole", "broken" or "odd" (no regular file)
    pc, want,  \* process -> its step, the version it was asked for
    saved,     \* process -> the alias it found
    failed,    \* process -> did nvm install fail
    res,       \* process -> "none", "ok" or "failed"
    orig,      \* ghost: the alias the user left
    excused,   \* ghost: did a death, the user or a second process interfere
    told,      \* ghost: was a failure to put the alias back reported
    ops, faults, user

Dir == <<nvmSh, dir, alias, runtime>>
Ghosts == <<orig, excused, told>>
Counts == <<ops, faults, user>>
vars == <<Dir, pc, want, saved, failed, res, Ghosts, Counts>>

Init ==
    /\ nvmSh \in BOOLEAN /\ dir \in {"ok", "missing", "file", "readonly"}
    /\ alias \in IF dir \in {"missing", "file"} THEN {None} ELSE {None, Old, Link}
    /\ runtime \in [Versions -> {"absent", "whole", "broken", "odd"}]
    /\ pc = [p \in Procs |-> "idle"] /\ want = [p \in Procs |-> Bad]
    /\ saved = [p \in Procs |-> None] /\ failed = [p \in Procs |-> FALSE]
    /\ res = [p \in Procs |-> "none"]
    /\ orig = alias /\ excused = FALSE /\ told = FALSE
    /\ ops = 0 /\ faults = 0 /\ user = 0

CanFail == faults < MaxFaults /\ faults' = faults + 1 /\ UNCHANGED <<ops, user>>
Installing(p) == pc[p] \in {"assert", "install", "alias", "restore"}
Runtime(p) == runtime[want[p]]

Goto(p, l) == pc' = [pc EXCEPT ![p] = l] /\ UNCHANGED res
End(p, r) == pc' = [pc EXCEPT ![p] = "idle"] /\ res' = [res EXCEPT ![p] = r]

Begin(p, v) ==
    /\ pc[p] = "idle" /\ ops < MaxOps /\ ops' = ops + 1
    /\ want' = [want EXCEPT ![p] = v] /\ failed' = [failed EXCEPT ![p] = FALSE]
    /\ IF v = Bad \/ ~nvmSh
       THEN End(p, "failed")
       ELSE pc' = [pc EXCEPT ![p] = "find"] /\ res' = [res EXCEPT ![p] = "none"]
    /\ UNCHANGED <<Dir, saved, Ghosts, faults, user>>

\* A runtime that is there, however broken, is not installed again.
Find(p) ==
    /\ pc[p] = "find"
    /\ \/ Runtime(p) = "odd" /\ End(p, "failed")
       \/ Runtime(p) = "absent" /\ Goto(p, "snapshot")
       \/ Runtime(p) \in {"whole", "broken"} /\ Goto(p, "which")
    /\ UNCHANGED <<Dir, want, saved, failed, Ghosts, Counts>>

\* Only a regular file, or nothing, can be put back.
Snapshot(p) ==
    /\ pc[p] = "snapshot"
    /\ IF alias = Link
       THEN End(p, "failed") /\ UNCHANGED saved
       ELSE Goto(p, "assert") /\ saved' = [saved EXCEPT ![p] = alias]
    /\ excused' = (excused \/ \E q \in Procs \ {p} : Installing(q))
    /\ UNCHANGED <<Dir, want, failed, orig, told, Counts>>

\* Without a directory nvm will make it, if it can.
AssertPreservable(p) ==
    /\ pc[p] = "assert"
    /\ \/ dir \in {"file", "readonly"} /\ End(p, "failed") /\ UNCHANGED Counts
       \/ dir \in {"ok", "missing"} /\ Goto(p, "install") /\ UNCHANGED Counts
       \/ CanFail /\ End(p, "failed")
    /\ UNCHANGED <<Dir, want, saved, failed, Ghosts>>

\* nvm install: the runtime, whole or not, unless another process has just
\* installed it, and then perhaps the default alias.
Install(p) ==
    /\ pc[p] = "install"
    /\ \/ runtime' = [runtime EXCEPT ![want[p]] = "whole"] /\ Goto(p, "alias") /\ UNCHANGED <<failed, Counts>>
       \/ /\ CanFail /\ Goto(p, "alias") /\ failed' = [failed EXCEPT ![p] = TRUE]
          /\ \E r \in IF Runtime(p) = "whole" THEN {"whole"} ELSE {"absent", "broken"} :
                runtime' = [runtime EXCEPT ![want[p]] = r]
    /\ UNCHANGED <<nvmSh, dir, alias, want, saved, Ghosts>>

SetAlias(p) ==
    /\ pc[p] = "alias" /\ Goto(p, "restore")
    /\ \/ alias' = want[p] /\ dir' = "ok"
       \/ UNCHANGED <<alias, dir>>
    /\ UNCHANGED <<nvmSh, runtime, want, saved, failed, Ghosts, Counts>>

\* _restoreDefaultAlias: written back, or removed if there was none.
PutBack(p) == alias' = saved[p]
RestoreOnSuccess(p) ==    \* mutant: a failed installation ends before the alias is restored
    /\ pc[p] = "restore"
    /\ alias' = IF failed[p] THEN alias ELSE saved[p]
    /\ IF failed[p] THEN End(p, "failed") ELSE Goto(p, "which")
    /\ UNCHANGED <<nvmSh, dir, runtime, want, saved, failed, Ghosts, Counts>>
\* The alias is put back, or removed, after a failed installation too.
Restore(p) ==
    /\ pc[p] = "restore"
    /\ \/ /\ PutBack(p) /\ UNCHANGED <<told, Counts>>
          /\ IF failed[p] THEN End(p, "failed") ELSE Goto(p, "which")
       \/ /\ CanFail /\ alias' \in {alias, IF saved[p] = None THEN alias ELSE Torn}
          /\ End(p, "failed") /\ told' = TRUE
    /\ UNCHANGED <<nvmSh, dir, runtime, want, saved, failed, orig, excused>>

Which(p) ==
    /\ pc[p] = "which"
    /\ \/ Runtime(p) # "absent" /\ Goto(p, "verify") /\ UNCHANGED Counts
       \/ Runtime(p) = "absent" /\ End(p, "failed") /\ UNCHANGED Counts
       \/ CanFail /\ End(p, "failed")
    /\ UNCHANGED <<Dir, want, saved, failed, Ghosts>>

\* It must be an executable file that says it is of the version.
Verify(p) ==
    /\ pc[p] = "verify"
    /\ \/ End(p, IF Runtime(p) = "whole" THEN "ok" ELSE "failed") /\ UNCHANGED Counts
       \/ CanFail /\ End(p, "failed")
    /\ UNCHANGED <<Dir, want, saved, failed, Ghosts>>

Dies(p) ==
    /\ pc[p] # "idle" /\ CanFail /\ End(p, "failed")
    /\ excused' = (excused \/ Installing(p))
    /\ UNCHANGED <<Dir, want, saved, failed, orig, told>>

\* The user runs nvm too.
UserAliases(a) ==
    /\ user < MaxUser /\ user' = user + 1 /\ dir = "ok"
    /\ alias' = a /\ orig' = a
    /\ excused' = (excused \/ \E p \in Procs : Installing(p))
    /\ UNCHANGED <<nvmSh, dir, runtime, pc, want, saved, failed, res, told, ops, faults>>
UserUninstalls(v) ==
    /\ user < MaxUser /\ user' = user + 1
    /\ runtime[v] # "absent" /\ runtime' = [runtime EXCEPT ![v] = "absent"]
    /\ res' = [p \in Procs |-> IF want[p] = v THEN "none" ELSE res[p]]
    /\ UNCHANGED <<nvmSh, dir, alias, pc, want, saved, failed, Ghosts, ops, faults>>

Step(p) ==
    \/ Find(p) \/ Snapshot(p) \/ AssertPreservable(p) \/ Install(p) \/ SetAlias(p)
    \/ Restore(p) \/ Which(p) \/ Verify(p)
Next ==
    \/ \E p \in Procs : Step(p) \/ Dies(p) \/ \E v \in Versions \cup {Bad} : Begin(p, v)
    \/ \E a \in Versions \cup {None, Old} : UserAliases(a)
    \/ \E v \in Versions : UserUninstalls(v)
Spec == Init /\ [][Next]_vars

-----------------------------------------------------------------------------
AliasType == Versions \cup {None, Link, Old, Torn}
TypeOK ==
    /\ nvmSh \in BOOLEAN /\ dir \in {"ok", "missing", "file", "readonly"}
    /\ alias \in AliasType /\ orig \in AliasType \ {Torn}
    /\ runtime \in [Versions -> {"absent", "whole", "broken", "odd"}]
    /\ pc \in [Procs -> {"idle", "find", "snapshot", "assert", "install", "alias", "restore", "which", "verify"}]
    /\ want \in [Procs -> Versions \cup {Bad}] /\ saved \in [Procs -> AliasType \ {Link}]
    /\ failed \in [Procs -> BOOLEAN] /\ res \in [Procs -> {"none", "ok", "failed"}]
    /\ excused \in BOOLEAN /\ told \in BOOLEAN
    /\ ops \in 0..MaxOps /\ faults \in 0..MaxFaults /\ user \in 0..MaxUser

\* The default alias is the user's, whether an installation succeeded or
\* failed, was there before or not: only what is reported as a failure to
\* restore it, a death, a second installation or the user's own nvm at the
\* same time can make it another.
AliasIsKept ==
    (\A p \in Procs : pc[p] = "idle") /\ ~excused /\ ~told => alias = orig

\* A version is answered with a runtime that runs as this version, also after
\* installations that left something else at its place.
OkIsVerified == \A p \in Procs : res[p] = "ok" => runtime[want[p]] = "whole"
=============================================================================
