------------------------------- MODULE MCBoot -------------------------------
(* What outlives a reboot, and what comes over from PM2, for TLC, in scenes   *)
(* of their own: "dumps" is two processes that dump and resurrect, "boot"     *)
(* one that changes what starts at boot, "apps" two migrations at once and   *)
(* "twins" migrations, one after the other, of entries that share a name or  *)
(* a unit.                                                                   *)
EXTENDS Boot, TLC

CONSTANTS a1, a2, p1, p2,
          web, cron, mod, dot, dash, u1, u2, u3, u4, AllWord

VARIABLE scene

-----------------------------------------------------------------------------
CommandsOf(s) ==
    CASE s = "dumps" -> {"dump", "force", "resurrect", "clear"}
      [] s = "boot" -> {"startup", "unstartup", "resurrect", "dump"}
      [] OTHER -> {}
AllCommands == CommandsOf("dumps") \cup CommandsOf("boot")
NoneOrOne == {{}, {a2}}

\* An application with two instances, one with a cron pattern, a module, and
\* two whose names stand for the same unit.
E(n, u, c, m) == [name |-> n, unit |-> u, cron |-> c, module |-> m]
Web == E(web, u1, FALSE, FALSE)
Cron == E(cron, u2, TRUE, FALSE)
Mod == E(mod, u3, FALSE, TRUE)
Dot == E(dot, u4, FALSE, FALSE)
Dash == E(dash, u4, FALSE, FALSE)
AppLists == {<<Web, Web, Cron>>, <<Mod, Cron>>}
TwinLists == {<<Dot, Dash>>, <<Web, Web>>}
AllLists == AppLists \cup TwinLists
NoneOrTemplate == {{}, {u1}}
DumpFiles == {<<"none", "none">>, <<"torn", "whole">>, <<"empty", "torn">>}

-----------------------------------------------------------------------------
OneAtATime(idle(_)) == \E p \in Procs : \A q \in Procs \ {p} : idle(q)

MCInit ==
    /\ scene \in {"dumps", "boot", "apps", "twins"}
    /\ Init /\ (scene # "boot" => legacy = {})
    /\ M!Init
    /\ daemon => pm2dump = <<"none", "none">>    \* its dump files are not read
    /\ CASE scene = "apps" -> list \in AppLists /\ (daemon => web \in ran \/ list[1] = Mod)
         [] scene = "twins" -> list \in TwinLists /\ templates = {}
         [] OTHER -> list = <<Web, Web>> /\ ~daemon /\ templates = {}
                     /\ pm2dump = <<"none", "none">>
MCNext ==
    /\ UNCHANGED scene
    /\ \/ /\ scene \in {"dumps", "boot"}
          /\ Goes \/ \E p \in Procs, c \in CommandsOf(scene) : Begin(p, c)
          /\ IF scene = "dumps" THEN users' <= 1
             ELSE faults' <= 1 /\ OneAtATime(LAMBDA p : proc'[p].pc = "idle")
          /\ UNCHANGED migrateVars
       \/ /\ scene \in {"apps", "twins"} /\ M!Next
          /\ IF scene = "apps" THEN migrations' <= 2
             ELSE failures' <= 1 /\ OneAtATime(LAMBDA p : pc'[p] = "idle")
          /\ UNCHANGED vars
MCSpec == MCInit /\ [][MCNext]_<<vars, migrateVars, scene>>

-----------------------------------------------------------------------------
\* What comments and the documentation say of a migration and the code does
\* not do (README, under Divergences).
Migrations == scene \in {"apps", "twins"}
DryRunIsTrue == Migrations => M!DryRunIsTrue
FreedFirst == Migrations => M!FreedFirst
SkippedIsMigrated == Migrations => M!SkippedIsMigrated
MigratesRunning == Migrations => M!MigratesRunning

Symmetry == Permutations(Procs)
=============================================================================
