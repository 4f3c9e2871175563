------------------------------ MODULE Migrate -------------------------------
(***************************************************************************)
(* zm2 migrate (API/Migrate.js): the applications of PM2, from its daemon  *)
(* or from its dump files, become services one after the other.  Each is   *)
(* installed, registered, stopped in PM2 and started, and every one of     *)
(* these steps may fail or be the last one of its process.                 *)
(*                                                                         *)
(* An entry of PM2's list is a record of an application's name, the unit   *)
(* its name stands for, and whether it has a cron pattern or is a module.  *)
(* Several entries share a name (instances) or a unit (names that differ   *)
(* in punctuation).                                                        *)
(***************************************************************************)
EXTENDS Naturals, Sequences, SequencesExt

CONSTANTS
    Procs,     \* zm2 processes
    Lists,     \* lists PM2 may hold: sequences of entries
    Legacies,  \* sets of units that have a legacy template
    Dumps,     \* contents of dump.pm2 and its copy: <<f, g>> of "none", "torn", "empty", "whole"
    All,       \* the word all
    MaxOps, MaxFaults,
    None

Entries == UNION {ToSet(l) : l \in Lists}
Names == {e.name : e \in Entries}
Units == {e.unit : e \in Entries}

VARIABLES
    list,      \* the entries of PM2
    daemon,    \* does PM2 run
    dump,      \* its dump files
    legacy,    \* units with a legacy template
    ran,       \* names PM2 was running before
    pm2,       \* names PM2 runs
    owner,     \* unit -> the name its entry in the store was made for, None without one
    units,     \* installed units
    timers,    \* units with an enabled timer
    enabled, active,    \* services
    pc, dry, todo,      \* process -> its step, is it a dry run, entries left
    asked,     \* process -> entries it was to migrate
    done, errors,       \* process -> names it counts as migrated, did anything fail
    res,       \* process -> "none", "ok" or "failed"
    preview,   \* ghost: what the last dry run was asked and announced
    hurt,      \* ghost: names and the step at which a migration of theirs failed or died
    broke,     \* ghost: process -> did a step of its command fail
    ops, faults

Pm2 == <<list, daemon, dump, legacy, ran>>
Local == <<pc, dry, todo, asked, done, errors, res>>
World == <<pm2, owner, units, timers, enabled, active>>
vars == <<Pm2, World, Local, preview, hurt, broke, ops, faults>>

Init ==
    /\ list \in Lists /\ daemon \in BOOLEAN /\ dump \in Dumps /\ legacy \in Legacies
    /\ ran \in IF daemon THEN SUBSET {e.name : e \in ToSet(list)} ELSE {{}}
    /\ pm2 = ran
    /\ owner = [s \in Units |-> None]
    /\ units = {} /\ timers = {} /\ enabled = {} /\ active = {}
    /\ pc = [p \in Procs |-> "idle"] /\ dry = [p \in Procs |-> FALSE]
    /\ todo = [p \in Procs |-> <<>>] /\ asked = [p \in Procs |-> {}] /\ done = [p \in Procs |-> <<>>]
    /\ errors = [p \in Procs |-> FALSE] /\ res = [p \in Procs |-> "none"]
    /\ preview = [p \in Procs |-> [asked |-> {}, count |-> 0]]
    /\ hurt = {} /\ broke = [p \in Procs |-> FALSE] /\ ops = 0 /\ faults = 0

CanFail == faults < MaxFaults /\ faults' = faults + 1
Cur(p) == Head(todo[p])
Goto(p, l) == pc' = [pc EXCEPT ![p] = l] /\ UNCHANGED <<dry, todo, asked, done, errors, res>>
\* On to the next entry, with this one counted as migrated, or as an error.
Counted(p, d, e) ==
    /\ pc' = [pc EXCEPT ![p] = "look"]
    /\ todo' = [todo EXCEPT ![p] = Tail(@)]
    /\ done' = [done EXCEPT ![p] = @ \o d]
    /\ errors' = [errors EXCEPT ![p] = @ \/ e]
    /\ UNCHANGED <<dry, asked, res>>
Error(p) == Counted(p, <<>>, TRUE)
\* A step that fails, at any place of the try block, is an error.
Failure(p) ==
    /\ CanFail /\ Error(p)
    /\ hurt' = hurt \cup {<<Cur(p).name, pc[p]>>} /\ broke' = [broke EXCEPT ![p] = TRUE]

\* The daemon's list, or the first dump file with a list in it.
Found ==
    IF daemon \/ \E i \in DOMAIN dump : dump[i] = "whole" THEN list ELSE <<>>
Named(w) == {e \in Entries : w = All \/ e.name = w}
\* The entries of l that are in S, in their order: SelectSeq, written out because
\* the prover knows nothing of that one.
Kept(l, S) ==
    LET F[i \in 0..Len(l)] ==
            IF i = 0 THEN <<>>
            ELSE IF l[i] \in S THEN Append(F[i - 1], l[i]) ELSE F[i - 1]
    IN  F[Len(l)]

Begin(p, w, d) ==
    /\ pc[p] = "idle" /\ ops < MaxOps /\ ops' = ops + 1
    /\ dry' = [dry EXCEPT ![p] = d]
    /\ done' = [done EXCEPT ![p] = <<>>] /\ errors' = [errors EXCEPT ![p] = FALSE]
    /\ broke' = [broke EXCEPT ![p] = FALSE]
    /\ IF ToSet(Found) \cap Named(w) = {}
       THEN /\ res' = [res EXCEPT ![p] = "failed"]
            /\ UNCHANGED <<pc, todo, asked>>
       ELSE /\ pc' = [pc EXCEPT ![p] = "look"] /\ res' = [res EXCEPT ![p] = "none"]
            /\ todo' = [todo EXCEPT ![p] = Kept(Found, {e \in Named(w) : ~e.module})]
            /\ asked' = [asked EXCEPT ![p] = ToSet(todo'[p])]
    /\ UNCHANGED <<Pm2, preview, World, hurt, faults>>

\* A template is an error, an entry in the store a reason to skip.
Look(p) ==
    /\ pc[p] = "look" /\ todo[p] # <<>>
    /\ IF Cur(p).unit \in legacy
       THEN Error(p)
       ELSE IF owner[Cur(p).unit] # None
       THEN Counted(p, <<>>, FALSE)
       ELSE IF dry[p] THEN Counted(p, <<Cur(p).name>>, FALSE) ELSE Goto(p, "install")
    /\ UNCHANGED <<Pm2, preview, World, hurt, broke, ops, faults>>

\* Unit, environment, and the files of the timer; a failure may leave the unit.
InstallStopsFirst(p) ==    \* mutant: PM2 is stopped before there is a unit
    /\ pc[p] = "install" /\ pm2' = pm2 \ {Cur(p).name}
    /\ \/ /\ units' = units \cup {Cur(p).unit} /\ UNCHANGED <<hurt, broke, faults>>
          /\ Goto(p, IF Cur(p).cron THEN "timer" ELSE "register")
       \/ Failure(p) /\ units' \in {units, units \cup {Cur(p).unit}}
    /\ UNCHANGED <<Pm2, preview, owner, timers, enabled, active, ops>>
Install(p) ==
    /\ pc[p] = "install"
    /\ \/ /\ units' = units \cup {Cur(p).unit} /\ UNCHANGED <<hurt, broke, faults>>
          /\ Goto(p, IF Cur(p).cron THEN "timer" ELSE "register")
       \/ Failure(p) /\ units' \in {units, units \cup {Cur(p).unit}}
    /\ UNCHANGED <<Pm2, preview, pm2, owner, timers, enabled, active, ops>>

\* That the timer could not be enabled is not fatal.
EnableTimer(p) ==
    /\ pc[p] = "timer" /\ Goto(p, "register")
    /\ \/ timers' = timers \cup {Cur(p).unit} /\ UNCHANGED faults
       \/ CanFail /\ UNCHANGED timers
    /\ UNCHANGED <<Pm2, preview, pm2, owner, units, enabled, active, hurt, broke, ops>>

Register(p) ==
    /\ pc[p] = "register"
    /\ \/ owner' = [owner EXCEPT ![Cur(p).unit] = Cur(p).name] /\ Goto(p, "stop") /\ UNCHANGED <<hurt, broke, faults>>
       \/ Failure(p) /\ UNCHANGED owner
    /\ UNCHANGED <<Pm2, preview, pm2, units, timers, enabled, active, ops>>

\* pm2 stop, of every entry with the name.  That it failed is not fatal
\* either: the application is kept by PM2 and both may run now.
StopPm2(p) ==
    /\ pc[p] = "stop" /\ Goto(p, "enable")
    /\ \/ pm2' = pm2 \ {Cur(p).name} /\ UNCHANGED <<hurt, faults>>
       \/ CanFail /\ UNCHANGED pm2 /\ hurt' = hurt \cup {<<Cur(p).name, "kept">>}
    /\ UNCHANGED <<Pm2, preview, owner, units, timers, enabled, active, broke, ops>>

Enable(p) ==
    /\ pc[p] = "enable"
    /\ \/ enabled' = enabled \cup {Cur(p).unit} /\ Goto(p, "start") /\ UNCHANGED <<hurt, broke, faults>>
       \/ Failure(p) /\ UNCHANGED enabled
    /\ UNCHANGED <<Pm2, preview, pm2, owner, units, timers, active, ops>>

Start(p) ==
    /\ pc[p] = "start"
    /\ \/ active' = active \cup {Cur(p).unit} /\ Counted(p, <<Cur(p).name>>, FALSE) /\ UNCHANGED <<hurt, broke, faults>>
       \/ Failure(p) /\ UNCHANGED active
    /\ UNCHANGED <<Pm2, preview, pm2, owner, units, timers, enabled, ops>>

End(p) ==
    /\ pc[p] = "look" /\ todo[p] = <<>>
    /\ pc' = [pc EXCEPT ![p] = "idle"]
    /\ res' = [res EXCEPT ![p] = IF errors[p] THEN "failed" ELSE "ok"]
    /\ preview' = IF dry[p] THEN [preview EXCEPT ![p] = [asked |-> asked[p], count |-> Len(done[p])]]
                  ELSE preview
    /\ UNCHANGED <<Pm2, World, dry, todo, asked, done, errors, hurt, broke, ops, faults>>

\* The entries a dead process had not reached are not hurt.
Dies(p) ==
    /\ pc[p] # "idle" /\ CanFail
    /\ pc' = [pc EXCEPT ![p] = "idle"] /\ todo' = [todo EXCEPT ![p] = <<>>]
    /\ res' = [res EXCEPT ![p] = "failed"]
    /\ hurt' = IF pc[p] = "look" THEN hurt ELSE hurt \cup {<<Cur(p).name, pc[p]>>}
    /\ UNCHANGED <<Pm2, preview, World, dry, asked, done, errors, broke, ops>>

\* A timer restarts its service, which starts one that is stopped.
TimerFires(s) ==
    /\ s \in timers \ active /\ active' = active \cup {s}
    /\ UNCHANGED <<Pm2, preview, pm2, owner, units, timers, enabled, Local, hurt, broke, ops, faults>>

Step(p) ==
    \/ Look(p) \/ Install(p) \/ EnableTimer(p) \/ Register(p)
    \/ StopPm2(p) \/ Enable(p) \/ Start(p) \/ End(p)
Next ==
    \/ \E p \in Procs :
          \/ Step(p) \/ Dies(p)
          \/ \E w \in {All} \cup Names, d \in BOOLEAN : Begin(p, w, d)
    \/ \E s \in Units : TimerFires(s)
Spec == Init /\ [][Next]_vars

-----------------------------------------------------------------------------
TypeOK ==
    /\ pm2 \subseteq ran /\ ran \subseteq Names
    /\ owner \in [Units -> Names \cup {None}]
    /\ units \subseteq Units /\ timers \subseteq units /\ enabled \subseteq units /\ active \subseteq units
    /\ pc \in [Procs -> {"idle", "look", "install", "timer", "register", "stop", "enable", "start"}]
    /\ dry \in [Procs -> BOOLEAN] /\ errors \in [Procs -> BOOLEAN]
    /\ res \in [Procs -> {"none", "ok", "failed"}]
    /\ hurt \subseteq Names \X {"install", "timer", "register", "stop", "kept", "enable", "start"}
    /\ broke \in [Procs -> BOOLEAN]
    /\ ops \in 0..MaxOps /\ faults \in 0..MaxFaults
    /\ \A p \in Procs : pc[p] \notin {"idle", "look"} => todo[p] # <<>>

Quiet == \A p \in Procs : pc[p] = "idle"
UnitOf(n) == CHOOSE s \in Units : \E e \in Entries : e.name = n /\ e.unit = s

\* A migration of application n failed, or died, at one of these steps.
Hurt(n, steps) == \E s \in steps : <<n, s>> \in hurt

\* An application that ran goes on running, under PM2 or as its service,
\* wherever a migration of it or of others fails or dies.  The one place where
\* it can be lost is after PM2 has stopped it and before its service runs; and
\* then it is in the store with its unit installed, so that zm2 can start it.
RunsSomewhere ==
    Quiet => \A n \in ran :
        \/ n \in pm2
        \/ LET u == UnitOf(n) IN
           owner[u] = n /\ u \in units /\ (u \in active \/ Hurt(n, {"enable", "start"}))

\* Nor does it run twice once everything has ended, unless PM2 did not stop it
\* or its timer was enabled before the migration came to that; and a service
\* that is not in the store runs only by the timer of a migration that failed
\* or died before it was put there.
RunsOnce ==
    Quiet => \A u \in active :
        /\ owner[u] \in pm2 => Hurt(owner[u], {"kept", "stop"})
        /\ owner[u] = None => u \in timers /\ \E n \in Names : UnitOf(n) = u /\ Hurt(n, {"register"})

\* "Refuse legacy collisions before installing or stopping the PM2 source":
\* an application with a legacy template stays as it is under PM2.
LegacyKeepsSource ==
    \A n \in ran : UnitOf(n) \in legacy => n \in pm2 /\ UnitOf(n) \notin units

\* Success means that no step failed, and that every application asked for is
\* in the store and runs and starts at boot, whoever of two processes migrated
\* it; all but one that another migration had left in the store when it failed
\* or died, which this one has skipped.
SuccessIsComplete ==
    \A p \in Procs : Quiet /\ res[p] = "ok" =>
        /\ ~broke[p]
        /\ ~dry[p] => \A e \in asked[p] :
              /\ owner[e.unit] # None
              /\ e.unit \in enabled \cap active \/ Hurt(owner[e.unit], {"stop", "enable", "start"})

-----------------------------------------------------------------------------
(* What is said of the program and does not hold.                          *)

\* "show what would be migrated": what a dry run announces, a run after it
\* does.
DryRunIsTrue ==
    \A p \in Procs :
        Quiet /\ faults = 0 /\ ~dry[p] /\ res[p] = "ok" /\ preview[p].asked = asked[p]
            => Len(done[p]) = preview[p].count

\* "Stop the PM2 process first to free ports/resources": a service does not
\* run before PM2 has stopped the application.
FreedFirst == faults = 0 => \A s \in active : \A n \in pm2 : UnitOf(n) # s

\* "Check if already migrated": what is skipped has been migrated.
SkippedIsMigrated ==
    \A p \in Procs : Quiet /\ res[p] = "ok" /\ ~dry[p] =>
        \A e \in asked[p] : e.unit \in active

\* "migrate your running PM2 processes": what PM2 had stopped is not started.
MigratesRunning == daemon => \A s \in active : owner[s] \in ran \cup {None}
=============================================================================
