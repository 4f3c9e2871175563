-------------------------------- MODULE Cli ---------------------------------
(***************************************************************************)
(* The commands of zm2 (CommandLayer) beside the reloads that lock each    *)
(* other out (ReloadLock), in steps that come in any order.                *)
(***************************************************************************)
EXTENDS ReloadLock, Sequences

CONSTANTS
    Users,      \* processes that carry out commands
    Names, Modules, Space, Path, AppOf, Regex, BadApps, Commands, Starts,
    MaxCommands, MaxFailures

VARIABLES reg, unit, up, next, proc, answer, hit, commands, failures,
          wanted, failed, alone

cmdVars == <<reg, unit, up, next, proc, answer, hit, commands, failures,
             wanted, failed, alone>>

C == INSTANCE CommandLayer WITH
    Procs <- Users, MaxOps <- MaxCommands, MaxFaults <- MaxFailures,
    ops <- commands, faults <- failures

LockSteps == Next /\ UNCHANGED cmdVars
CommandSteps == C!Next /\ UNCHANGED vars
HostSpec == Init /\ C!Init /\ [][LockSteps \/ CommandSteps]_<<vars, cmdVars>>

-----------------------------------------------------------------------------
\* A command that nothing runs beside ends with success only when everything
\* its words mean is as asked, no command of which a part failed ends with
\* success, and an act reaches a service its words matched, whatever another
\* command removes and registers after the lookup (_operate, startFile,
\* _resolveEntry, the exit codes of CLI.js).
ActsAsAsked == [][C!EndsDone /\ C!EndsTruly /\ C!ActsOnMatches]_cmdVars

=============================================================================
