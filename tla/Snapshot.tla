------------------------------ MODULE Snapshot ------------------------------
(***************************************************************************)
(* What outlives a reboot: the services enabled by startup, and the list   *)
(* of services that dump writes, with a backup, for resurrect to start     *)
(* again (API.js: dump, resurrect, clearDump; API/Startup.js).             *)
(*                                                                         *)
(* The commands run in processes that may die; users stop, delete and      *)
(* create apps meanwhile, and the machine may boot again.  An app is its   *)
(* unit zm2-a; a legacy app has a template unit zm2-a@, which nothing      *)
(* starts or enables any more (InstancePolicy.assertSingle).               *)
(***************************************************************************)
EXTENDS Naturals, FiniteSets

CONSTANTS
    Apps,
    Olds,         \* sets of apps that may be legacy templates at first
    Bare,         \* units at first that no entry describes
    Procs,
    Commands,     \* the commands that are run
    MaxOps, MaxFaults, MaxUser,
    None, Torn

CommandNames == {"dump", "force", "resurrect", "clear", "startup", "unstartup"}

ASSUME SnapshotAssumption ==
    /\ Olds \subseteq SUBSET Apps /\ Bare \subseteq Apps
    /\ Commands \subseteq CommandNames /\ None \notin CommandNames /\ None # Torn
    /\ \A f \in SUBSET (Apps \X BOOLEAN) : f # None /\ f # Torn
    /\ MaxOps \in Nat /\ MaxFaults \in Nat /\ MaxUser \in Nat

VARIABLES
    reg,        \* the apps with an entry in the store
    unit,       \* the apps with a unit file
    legacy,     \* those whose unit is a template
    up,         \* running apps
    enabled,    \* apps that start at boot
    dump,       \* the dump file: a set of <<app, has a script>>, None, Torn
    backup,     \* its copy
    proc,       \* process -> its command under way
    answer,     \* process -> "none", "ok" or "error"
    ops, faults, users,
    saved,      \* ghost: a dump succeeded since the files were last cleared
    calm,       \* ghost: nothing but p moved since its command began
    together    \* ghost: two dumps have run at once

services == <<reg, unit, legacy, up, enabled>>
files == <<dump, backup>>
bounds == <<ops, faults, users>>
vars == <<services, files, proc, answer, bounds, saved, calm,
          together>>

Idle == [pc |-> "idle", cmd |-> None, now |-> None, todo |-> {},
         all |-> {}, failed |-> FALSE]

Init ==
    /\ reg = Apps \ Bare /\ unit = Apps /\ legacy \in Olds
    /\ up = Apps /\ enabled = Apps \ Bare
    /\ dump = None /\ backup = None
    /\ proc = [p \in Procs |-> Idle]
    /\ answer = [p \in Procs |-> "none"]
    /\ ops = 0 /\ faults = 0 /\ users = 0
    /\ saved = FALSE
    /\ calm = [p \in Procs |-> TRUE]
    /\ together = FALSE

-----------------------------------------------------------------------------
Whole(f) == f # None /\ f # Torn
At(p, pc) == proc[p].pc = pc
Goto(p, pc) == proc' = [proc EXCEPT ![p].pc = pc]
Set(p, r) == proc' = [proc EXCEPT ![p] = r]
End(p, how) ==
    /\ Set(p, Idle)
    /\ answer' = [answer EXCEPT ![p] = how]
Mine(p) ==
    /\ calm' = [q \in Procs |-> q = p /\ calm[p]]
    /\ UNCHANGED together
CanFail == faults < MaxFaults /\ faults' = faults + 1
NoFault == UNCHANGED faults

DumpForms == {"dump", "force"}
Begin(p, c) ==
    /\ At(p, "idle") /\ ops < MaxOps /\ ops' = ops + 1
    /\ Set(p, [Idle EXCEPT !.cmd = c,
                           !.pc = CASE c \in DumpForms -> "list"
                                    [] c = "resurrect" -> "load"
                                    [] c = "clear" -> "unlink"
                                    [] OTHER -> "entries"])
    /\ answer' = [answer EXCEPT ![p] = "none"]
    /\ calm' = [q \in Procs |-> q = p /\ \A o \in Procs \ {p} : At(o, "idle")]
    /\ together' = (together \/ (c \in DumpForms /\ \E o \in Procs : proc[o].cmd \in DumpForms))
    /\ UNCHANGED <<services, files, faults, users, saved>>

-----------------------------------------------------------------------------
(* dump: the list, the copy of the former dump, the file.                  *)

\* Entries, and units systemd has loaded (all running ones); without units
\* when systemctl fails.
Listed == {reg \cup F : F \in {G \in SUBSET unit : up \cap unit \subseteq G}}
\* A unit without an entry has no script; so have the running instances of a
\* legacy app.
Entries(seen) == {<<a, a \in reg>> : a \in seen}
                 \cup {<<a, FALSE>> : a \in seen \cap legacy \cap up}
\* An empty list is no reason to lose the former one.
MaySkip(p, seen) == seen = {} /\ proc[p].cmd = "dump"

DumpList(p) ==
    /\ At(p, "list")
    /\ \E seen \in Listed \cup {reg} :
         /\ IF seen \in Listed THEN NoFault ELSE CanFail
         /\ IF MaySkip(p, seen)
            THEN End(p, "ok")
            ELSE /\ Set(p, [proc[p] EXCEPT !.pc = "copy", !.all = Entries(seen)])
                 /\ UNCHANGED answer
    /\ Mine(p) /\ UNCHANGED <<services, files, ops, users, saved>>

\* Mutant: the copy is made after the file was opened for writing.
DumpCopyLate(p) ==
    /\ At(p, "copy") /\ Goto(p, "write")
    /\ dump' = Torn /\ UNCHANGED <<backup, faults>>
    /\ Mine(p) /\ UNCHANGED <<services, answer, ops, users, saved>>
\* A copy that fails is not an error, whatever it left behind.
DumpCopy(p) ==
    /\ At(p, "copy") /\ Goto(p, "truncate")
    /\ \/ NoFault /\ backup' = IF dump = None THEN backup ELSE dump
       \/ dump # None /\ CanFail /\ backup' \in {backup, Torn}
    /\ Mine(p) /\ UNCHANGED <<services, dump, answer, ops, users, saved>>
DumpTruncate(p) ==
    /\ At(p, "truncate")
    /\ \/ dump' = Torn /\ Goto(p, "write") /\ NoFault /\ UNCHANGED answer
       \/ UNCHANGED dump /\ CanFail /\ End(p, "error")
    /\ Mine(p) /\ UNCHANGED <<services, backup, ops, users, saved>>
\* What is written to a file that was removed meanwhile is lost.
DumpWrite(p) ==
    /\ At(p, "write")
    /\ LET written(f) == IF dump = None THEN None ELSE f IN
       \/ /\ dump' = written(proc[p].all) /\ saved' = (saved \/ dump' # None)
          /\ End(p, "ok") /\ NoFault
       \/ dump' = written(Torn) /\ End(p, "error") /\ CanFail /\ UNCHANGED saved
    /\ Mine(p) /\ UNCHANGED <<services, backup, ops, users>>

\* clearDump: both files, one after the other.
Unlink(p) ==
    /\ At(p, "unlink")
    /\ \/ dump' = None /\ Goto(p, "unlinkbackup") /\ NoFault /\ UNCHANGED answer
       \/ UNCHANGED dump /\ CanFail /\ End(p, "error")
    /\ saved' = FALSE
    /\ Mine(p) /\ UNCHANGED <<services, backup, ops, users>>
UnlinkBackup(p) ==
    /\ At(p, "unlinkbackup")
    /\ \/ backup' = None /\ End(p, "ok") /\ NoFault
       \/ UNCHANGED backup /\ CanFail /\ End(p, "error")
    /\ saved' = FALSE
    /\ Mine(p) /\ UNCHANGED <<services, dump, ops, users>>

-----------------------------------------------------------------------------
(* resurrect: every entry of the dump is started by the path of its script *)
(* and its name, whatever became of the ones before.                       *)

Load(p) ==
    /\ At(p, "load")
    /\ \/ /\ ~Whole(dump) /\ NoFault /\ End(p, "error")
       \/ /\ CanFail /\ End(p, "error")
       \/ /\ Whole(dump) /\ NoFault
          /\ IF dump = {} THEN End(p, "ok")
             ELSE /\ Set(p, [proc[p] EXCEPT !.pc = "each", !.todo = dump,
                                            !.all = dump])
                  /\ UNCHANGED answer
    /\ Mine(p) /\ UNCHANGED <<services, files, ops, users, saved>>

\* The store is read to tell an app to start from one to make.
NextEntryBlind(p, e, failed) ==    \* mutant: a failure is printed only
    [proc[p] EXCEPT !.pc = "each", !.todo = @ \ {e}, !.now = None]
NextEntry(p, e, failed) ==
    [proc[p] EXCEPT !.pc = "each", !.todo = @ \ {e}, !.now = None,
                     !.failed = @ \/ failed]
Look(p) ==
    /\ At(p, "each") /\ proc[p].todo # {}
    /\ \E e \in proc[p].todo :
         IF ~e[2] \/ (e[1] \in reg /\ e[1] \in up)
         THEN Set(p, NextEntry(p, e, TRUE))    \* no script, or launched already
         ELSE Set(p, [proc[p] EXCEPT
                        !.pc = IF e[1] \in reg THEN "operate" ELSE "prepare",
                        !.now = e])
    /\ Mine(p) /\ UNCHANGED <<services, files, answer, bounds, saved>>

\* assertSingle, before anything is changed.
Refused(a) == a \in legacy
Started(a) ==
    /\ up' = up \cup {a} /\ enabled' = enabled \cup {a}

\* enable, then restart; a legacy app or one without a unit is refused.
Operate(p) ==
    /\ At(p, "operate")
    /\ LET e == proc[p].now
           a == e[1]
       IN \/ /\ a \in unit /\ ~Refused(a) /\ Started(a) /\ NoFault
             /\ Set(p, NextEntry(p, e, FALSE))
          \/ /\ a \notin unit \/ Refused(a)
             /\ UNCHANGED <<up, enabled>> /\ NoFault
             /\ Set(p, NextEntry(p, e, TRUE))
          \/ /\ CanFail
             /\ up' \in {up, up \ {a}}
             /\ enabled' \in {enabled, enabled \cup ({a} \cap (unit \ legacy))}
             /\ Set(p, NextEntry(p, e, TRUE))
    /\ Mine(p) /\ UNCHANGED <<reg, unit, legacy, files, answer, ops, users, saved>>

\* prepare: unit, enable, start and entry, in that order.
Prepare(p) ==
    /\ At(p, "prepare")
    /\ LET e == proc[p].now
           a == e[1]
           on(failed) == Set(p, NextEntry(p, e, failed))
       IN \/ /\ ~Refused(a) /\ Started(a) /\ NoFault
             /\ unit' = unit \cup {a} /\ reg' = reg \cup {a} /\ on(FALSE)
          \/ /\ Refused(a) /\ NoFault
             /\ UNCHANGED <<reg, unit, up, enabled>> /\ on(TRUE)
          \/ /\ ~Refused(a) /\ CanFail
             /\ unit' \in {unit, unit \cup {a}}
             /\ enabled' \in {enabled, enabled \cup ({a} \cap unit')}
             /\ up' \in {up, up \cup ({a} \cap enabled' \cap unit')}
             /\ UNCHANGED reg /\ on(TRUE)
    /\ Mine(p) /\ UNCHANGED <<legacy, files, answer, ops, users, saved>>

AllTried(p) ==
    /\ At(p, "each") /\ proc[p].todo = {}
    /\ End(p, IF proc[p].failed THEN "error" ELSE "ok")
    /\ Mine(p) /\ UNCHANGED <<services, files, bounds, saved>>

-----------------------------------------------------------------------------
(* startup and unstartup: one systemctl call for every entry.              *)

ReadEntries(p) ==
    /\ At(p, "entries")
    /\ IF reg = {} THEN End(p, "ok")
       ELSE /\ Set(p, [proc[p] EXCEPT !.pc = "service", !.todo = reg])
            /\ UNCHANGED answer
    /\ Mine(p) /\ UNCHANGED <<services, files, bounds, saved>>

Enable(p) ==
    /\ At(p, "service") /\ proc[p].cmd = "startup"
    /\ \E a \in proc[p].todo :
         LET on(failed) == Set(p, [proc[p] EXCEPT !.todo = @ \ {a},
                                                  !.failed = @ \/ failed])
         IN \/ /\ a \in unit /\ ~Refused(a) /\ NoFault
               /\ enabled' = enabled \cup {a} /\ on(FALSE)
            \/ /\ \/ (a \notin unit \/ Refused(a)) /\ NoFault
                  \/ CanFail
               /\ UNCHANGED enabled /\ on(TRUE)
    /\ Mine(p)
    /\ UNCHANGED <<reg, unit, legacy, up, files, answer, ops, users, saved>>

\* A service that could not be disabled is a message.
Disable(p) ==
    /\ At(p, "service") /\ proc[p].cmd = "unstartup"
    /\ \E a \in proc[p].todo :
         /\ Set(p, [proc[p] EXCEPT !.todo = @ \ {a}])
         /\ \/ a \in unit /\ enabled' = enabled \ {a} /\ NoFault
            \/ /\ \/ a \notin unit /\ NoFault
                  \/ CanFail
               /\ UNCHANGED enabled
    /\ Mine(p)
    /\ UNCHANGED <<reg, unit, legacy, up, files, answer, ops, users, saved>>

ServicesDone(p) ==
    /\ At(p, "service") /\ proc[p].todo = {}
    /\ End(p, IF proc[p].failed THEN "error" ELSE "ok")
    /\ Mine(p) /\ UNCHANGED <<services, files, bounds, saved>>

-----------------------------------------------------------------------------
(* Around the commands.                                                    *)

Dies(p) ==
    /\ ~At(p, "idle") /\ CanFail
    /\ Set(p, Idle) /\ UNCHANGED <<services, files, answer, ops, users, saved, calm,
                 together>>

UserStops(a) == a \in unit /\ up' = up \ {a} /\ enabled' = enabled \ {a}
                /\ UNCHANGED <<reg, unit, legacy>>
UserDeletes(a) ==
    /\ a \in unit
    /\ up' = up \ {a} /\ enabled' = enabled \ {a}
    /\ reg' = reg \ {a} /\ unit' = unit \ {a} /\ legacy' = legacy \ {a}
UserStarts(a) ==
    /\ a \notin legacy /\ Started(a)
    /\ reg' = reg \cup {a} /\ unit' = unit \cup {a} /\ UNCHANGED legacy
\* The metadata file is lost; the units stay.
StoreLost == reg # {} /\ reg' = {} /\ UNCHANGED <<unit, legacy, up, enabled>>
User(a) ==
    /\ users < MaxUser /\ users' = users + 1
    /\ UserStops(a) \/ UserDeletes(a) \/ UserStarts(a) \/ StoreLost
    /\ calm' = [p \in Procs |-> FALSE]
    /\ UNCHANGED <<files, proc, answer, ops, faults, saved, together>>

Reboot ==
    /\ users < MaxUser /\ users' = users + 1
    /\ up' = enabled \cap unit
    /\ IF \E p \in Procs : ~At(p, "idle") THEN CanFail ELSE NoFault
    /\ proc' = [p \in Procs |-> Idle]
    /\ calm' = [p \in Procs |-> FALSE]
    /\ UNCHANGED <<reg, unit, legacy, enabled, files, answer, ops, saved,
                   together>>

Move(p) ==
    \/ DumpList(p) \/ DumpCopy(p) \/ DumpTruncate(p) \/ DumpWrite(p)
    \/ Unlink(p) \/ UnlinkBackup(p)
    \/ Load(p) \/ Look(p) \/ Operate(p) \/ Prepare(p) \/ AllTried(p)
    \/ ReadEntries(p) \/ Enable(p) \/ Disable(p) \/ ServicesDone(p)
Goes ==
    \/ \E p \in Procs : Move(p) \/ Dies(p)
    \/ \E a \in Apps : User(a)
    \/ Reboot
Next == Goes \/ \E p \in Procs, c \in Commands : Begin(p, c)
Spec == Init /\ [][Next]_vars

-----------------------------------------------------------------------------
Contents == SUBSET (Apps \X BOOLEAN)
DumpSteps == {"list", "copy", "truncate", "write"}
LoadSteps == {"load", "each", "operate", "prepare"}
Process ==
    [pc : {"idle", "unlink", "unlinkbackup", "entries", "service"} \cup DumpSteps \cup LoadSteps,
     cmd : Commands \cup {None},
     now : (Apps \X BOOLEAN) \cup {None},
     todo : (SUBSET Apps) \cup Contents,
     all : Contents,
     failed : BOOLEAN]
FileOK(f) == f = None \/ f = Torn \/ f \in Contents
TypeOK ==
    /\ reg \subseteq Apps /\ unit \subseteq Apps /\ legacy \subseteq unit
    /\ up \subseteq unit /\ enabled \subseteq unit
    /\ FileOK(dump) /\ FileOK(backup)
    /\ proc \in [Procs -> Process] /\ answer \in [Procs -> {"none", "ok", "error"}]
    /\ ops \in Nat /\ faults \in Nat /\ users \in Nat
    /\ saved \in BOOLEAN /\ together \in BOOLEAN /\ calm \in [Procs -> BOOLEAN]

Ends(p) == ~At(p, "idle") /\ proc'[p].pc = "idle" /\ UNCHANGED <<faults, users>>
EndsOk(p, c) == Ends(p) /\ proc[p].cmd = c /\ answer'[p] = "ok"

\* The former list is copied before the file is truncated: after one failure,
\* death or reboot one of the files still holds a list (dump, "Backup existing
\* dump"), unless two dumps ran at once: the second copies what the first has
\* truncated.
Dumping == \E p \in Procs : proc[p].pc \in {"truncate", "write"}
OneGoodCopy ==
    saved /\ ~Dumping /\ ~together /\ faults <= 1 => Whole(dump) \/ Whole(backup)

\* A list of services is not replaced by an empty one unless the user forces
\* it (dump without --force).
EmptyNeedsForce ==
    \A p \in Procs :
        At(p, "write") /\ proc'[p] # proc[p] /\ dump' # dump /\ dump' = {}
        => proc[p].cmd = "force"

\* resurrect reports success only when every app of the list it read runs,
\* has an entry and starts at boot, if nobody else moved meanwhile.
ResurrectIsComplete ==
    \A p \in Procs : EndsOk(p, "resurrect") /\ calm[p]
        => \A e \in proc[p].all : e[1] \in up \cap reg \cap enabled

\* startup reports success only when every service of the store starts at
\* the next boot, if nobody else moved meanwhile.
StartupIsComplete ==
    \A p \in Procs : EndsOk(p, "startup") /\ calm[p] => reg \subseteq enabled

\* resurrect and startup never start or enable a legacy app (README, Legacy
\* multi-instance installations).
LegacyStaysOff ==
    \A a \in legacy, p \in Procs : proc'[p] # proc[p] /\ ~At(p, "idle")
        => (a \in up' \cup enabled' => a \in up \cup enabled)

\* startup and resurrect end with success only when all of it is as asked,
\* neither brings a legacy app back, and no dump replaces a list with an
\* empty one unasked, whatever failed or rebooted meanwhile.
BootsAsAsked ==
    [][EmptyNeedsForce /\ StartupIsComplete /\ ResurrectIsComplete /\ LegacyStaysOff]_vars

-----------------------------------------------------------------------------
(* What is said of the program and does not hold.                          *)

\* "should resurrect from backup if dump is broken", "... is missing"
\* (test/e2e/cli/resurrect.sh).
FallsBackOnBackup ==
    [][\A p \in Procs : At(p, "load") /\ Ends(p) /\ Whole(backup)
          => answer'[p] # "error"]_vars

\* resurrect right after save succeeds ("should resurrect from dump").
ResurrectAgain ==
    [][\A p \in Procs : Ends(p) /\ proc[p].cmd = "resurrect" /\ Whole(dump)
          /\ (\A e \in proc[p].all : e[1] \in up \cap reg /\ e[2]) /\ faults = 0
          => answer'[p] = "ok"]_vars

\* unstartup disables every service, or does not report that it did.
UnstartupIsComplete ==
    [][\A p \in Procs : EndsOk(p, "unstartup") /\ calm[p]
          => reg \cap enabled = {}]_vars
=============================================================================
