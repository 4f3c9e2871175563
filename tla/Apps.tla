-------------------------------- MODULE Apps --------------------------------
(***************************************************************************)
(* The units that are started from options (AppConfig) beside those whose  *)
(* files update-node rewrites (RuntimeFiles), in steps that come in any    *)
(* order.                                                                  *)
(***************************************************************************)
EXTENDS AppConfig

CONSTANTS UnitFiles, Environments, Edits, NoFile, Runtimes, NodeExes, BasePath,
          Bare, Blank, Quote, MaxUpdates, MaxEdits

VARIABLES unit, loaded, dropIn, env, instances, last, updates, edits

runtimeVars == <<unit, loaded, dropIn, env, instances, last, updates, edits>>

Runtime == INSTANCE RuntimeFiles

StartSteps == Next /\ UNCHANGED runtimeVars
RuntimeSteps == Runtime!Next /\ UNCHANGED vars
HostSpec ==
    Init /\ Runtime!Init /\ [][StartSteps \/ RuntimeSteps]_<<vars, runtimeVars>>

-----------------------------------------------------------------------------
\* update-node gives an application its runtime, first in its PATH, and takes
\* nothing else from it; a second time it changes nothing (RuntimeConfig).
OnlyRuntimeChanges ==
    [][Runtime!OthersKept /\ Runtime!RuntimeIsFirst /\ Runtime!NothingOverrides
       /\ Runtime!SecondIsNone]_runtimeVars

=============================================================================
