----------------------------- MODULE ReloadLock -----------------------------
(***************************************************************************)
(* The lock that keeps two reloads apart (Common.lockReload, unlockReload; *)
(* API.reload): a file with the time it was taken, empty when it is free,  *)
(* that nobody locks while it is read and written.                         *)
(*                                                                         *)
(* Time is the age of the stamp in the file, up to Timeout, at which it    *)
(* stops to count.                                                         *)
(***************************************************************************)
EXTENDS Naturals

CONSTANTS
    Procs,       \* zm2 processes
    Forms,       \* what users type: subset of {"plain", "env", "force"}
    Timeout,     \* RELOAD_LOCK_TIMEOUT
    MaxOps, MaxFaults,
    None

ASSUME ReloadAssumption ==
    /\ Timeout \in Nat \ {0} /\ MaxOps \in Nat /\ MaxFaults \in Nat
    /\ None \notin Procs /\ Forms \subseteq {"plain", "env", "force"}

VARIABLES
    stamped,   \* does the file hold a time
    age,       \* how long ago
    pc,        \* process -> "idle", "read", "write", "work" or "unlock"
    form,      \* process -> the form of its reload
    refused,   \* process -> was its last reload refused
    holder,    \* ghost: who wrote the stamp, None if there is none
    since,     \* ghost: how long ago, up to Timeout, a reload last went to work
    ops, faults

vars == <<stamped, age, pc, form, refused, holder, since, ops, faults>>

Init ==
    /\ stamped = FALSE /\ age = 0
    /\ pc = [p \in Procs |-> "idle"]
    /\ form = [p \in Procs |-> "plain"]
    /\ refused = [p \in Procs |-> FALSE]
    /\ holder = None /\ since = Timeout
    /\ ops = 0 /\ faults = 0

Goto(p, l) == pc' = [pc EXCEPT ![p] = l]
CanFail == faults < MaxFaults /\ faults' = faults + 1
File == <<stamped, age, holder>>

Begin(p, f) ==
    /\ pc[p] = "idle" /\ ops < MaxOps /\ ops' = ops + 1
    /\ Goto(p, "read")
    /\ form' = [form EXCEPT ![p] = f]
    /\ refused' = [refused EXCEPT ![p] = FALSE]
    /\ UNCHANGED <<File, since, faults>>

\* A stamp of this very millisecond is an age of 0, which is not "> 0": it
\* keeps nobody out.
Fresh == stamped /\ age < Timeout
KeepsOut(p) == Fresh /\ age > 0 /\ form[p] # "force"

ReadRenews(p) ==    \* mutant: the time is written before the one there is looked at
    /\ pc[p] = "read"
    /\ IF KeepsOut(p)
       THEN /\ Goto(p, "idle") /\ refused' = [refused EXCEPT ![p] = TRUE]
            /\ age' = 0 /\ UNCHANGED since
       ELSE /\ Goto(p, IF Fresh THEN "work" ELSE "write")
            /\ since' = IF Fresh THEN 0 ELSE since
            /\ UNCHANGED <<refused, age>>
    /\ UNCHANGED <<stamped, holder, form, ops, faults>>
Read(p) ==
    /\ pc[p] = "read"
    /\ IF KeepsOut(p)
       THEN Goto(p, "idle") /\ refused' = [refused EXCEPT ![p] = TRUE] /\ UNCHANGED since
       ELSE /\ Goto(p, IF Fresh THEN "work" ELSE "write")
            /\ since' = IF Fresh THEN 0 ELSE since
            /\ UNCHANGED refused
    /\ UNCHANGED <<File, form, ops, faults>>

\* A lock file that cannot be written is no reason not to reload.
Write(p) ==
    /\ pc[p] = "write" /\ Goto(p, "work") /\ since' = 0
    /\ \/ stamped' = TRUE /\ age' = 0 /\ holder' = p /\ UNCHANGED faults
       \/ CanFail /\ UNCHANGED File
    /\ UNCHANGED <<form, refused, ops>>

\* Mutant: --env without a file ends the command there and then.
WorkEnvLeaves(p) ==
    /\ pc[p] = "work"
    /\ Goto(p, IF form[p] = "env" THEN "idle" ELSE "unlock")
    /\ UNCHANGED <<File, since, form, refused, ops, faults>>
\* The reload itself, or the complaint about --env.
Work(p) ==
    /\ pc[p] = "work" /\ Goto(p, "unlock")
    /\ UNCHANGED <<File, since, form, refused, ops, faults>>

\* The file is emptied, whoever wrote it.
Unlock(p) ==
    /\ pc[p] = "unlock" /\ Goto(p, "idle")
    /\ \/ stamped' = FALSE /\ holder' = None /\ UNCHANGED <<age, faults>>
       \/ CanFail /\ UNCHANGED File
    /\ UNCHANGED <<since, form, refused, ops>>

Dies(p) ==
    /\ pc[p] # "idle" /\ CanFail /\ Goto(p, "idle")
    /\ UNCHANGED <<File, since, form, refused, ops>>

Tick ==
    /\ since < Timeout \/ (stamped /\ age < Timeout)
    /\ age' = IF stamped /\ age < Timeout THEN age + 1 ELSE age
    /\ since' = IF since < Timeout THEN since + 1 ELSE since
    /\ UNCHANGED <<stamped, pc, form, refused, holder, ops, faults>>

Step(p) == Read(p) \/ Write(p) \/ Work(p) \/ Unlock(p)
Next ==
    \/ \E p \in Procs : Step(p) \/ Dies(p) \/ \E f \in Forms : Begin(p, f)
    \/ Tick
Spec == Init /\ [][Next]_vars

-----------------------------------------------------------------------------
TypeOK ==
    /\ stamped \in BOOLEAN /\ age \in 0..Timeout
    /\ pc \in [Procs -> {"idle", "read", "write", "work", "unlock"}]
    /\ form \in [Procs -> {"plain", "env", "force"}]
    /\ refused \in [Procs -> BOOLEAN]
    /\ holder \in Procs \cup {None} /\ since \in 0..Timeout
    /\ ops \in 0..MaxOps /\ faults \in 0..MaxFaults

\* Nobody is kept out for nothing: as long as nothing failed, a stamp in the
\* file is that of a reload still under way.  Every way out of a reload
\* unlocks (API.reload: file, --env, error and success), and a forced reload
\* that removes another's lock at its end leaves a free lock, not a stale one.
HeldByWorker ==
    faults = 0 /\ stamped => holder # None /\ pc[holder] \in {"work", "unlock"}

\* Whatever died or failed and left its stamp, and however often others try,
\* are refused, force their way in or fail to write meanwhile: a reload is
\* refused only while one went to work less than Timeout ago (lockReload:
\* "time < 30 return locked", a stale stamp is rewritten).
KeptOutBriefly ==
    [][\A p \in Procs : ~refused[p] /\ refused'[p] => since < Timeout]_vars

\* "should trigger one reload and forbid the second": one reload at a time,
\* where nobody forces (Forms), nothing fails and no lock is too old.
OneReload ==
    \A p, q \in Procs :
        p # q /\ pc[p] = "work" /\ pc[q] = "work" => faults > 0 \/ ~Fresh
=============================================================================
