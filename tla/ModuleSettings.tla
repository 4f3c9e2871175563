--------------------------- MODULE ModuleSettings ---------------------------
(***************************************************************************)
(* The modules of zm2 (Modules) beside the processes that change their     *)
(* configuration (ModuleConf), in steps that come in any order.            *)
(***************************************************************************)
EXTENDS Modules

CONSTANTS
    Writers,    \* processes that change module_conf.json
    Sections,   \* the modules it has sections of
    Keys, Vals, Torn,
    Requests,   \* the commands that change it
    ConfOps, ConfFaults

VARIABLES file, env, confPc, op, left, buf, confAnswer, before, alone, deaf,
          confOps, confFaults

confVars == <<file, env, confPc, op, left, buf, confAnswer, before, alone, deaf,
              confOps, confFaults>>

Conf == INSTANCE ModuleConf WITH
    Procs <- Writers, Modules <- Sections, MaxOps <- ConfOps, MaxFaults <- ConfFaults,
    pc <- confPc, answer <- confAnswer, ops <- confOps, faults <- confFaults

\* What the commands are: the value of a key is no object, and only multiset has
\* more than one edit.
SoundEdit == {e \in Conf!Edit : e.key # None => e.val \in Vals \cup {None}}
SoundRequests ==
    /\ Requests \subseteq [kind : {"set", "unset", "multiset", "default", "all"},
                           edits : Seq(SoundEdit)]
    /\ \A r \in Requests :
          /\ r.kind \in {"set", "unset", "default"} => r.edits # <<>> /\ Tail(r.edits) = <<>>
          /\ r.kind = "unset" => r.edits[1].val = None
          /\ r.kind = "multiset" => r.edits # <<>>
          /\ r.kind = "all" => r.edits = <<>>
\* The marks are not contents of the file.
SoundMarks == None \notin Conf!Conf /\ Torn \notin Conf!Conf /\ None # Torn /\ None \notin Requests

ASSUME SettingsAssumption ==
    SoundRequests /\ SoundMarks /\ ConfOps \in Nat /\ ConfFaults \in Nat

ModuleSteps == Next /\ UNCHANGED confVars
SettingSteps == Conf!Next /\ UNCHANGED vars
HostSpec == Init /\ Conf!Init /\ [][ModuleSteps \/ SettingSteps]_<<vars, confVars>>

-----------------------------------------------------------------------------
(* Properties.                                                             *)

\* What a change of the configuration reports is in the file, and only that;
\* and the module it is for sees it if its restart did not fail, which the
\* command does not report (API/Configuration.js:83 to 93).
SettingsAsReported ==
    /\ Conf!TypeOK
    /\ Conf!SetIsStored /\ Conf!UnsetIsGone /\ Conf!DefaultsYield
    /\ Conf!ModuleSeesSetting

\* A file that a death, a failed write or two writers left in pieces stays as
\* it is until somebody repairs it (Configuration.js).
TornIsKept == [][Conf!KeepsTorn]_confVars

\* What a death between two steps may not take away: the code of a listed
\* module (ListedHasCode of Modules), and the pieces of the configuration.
DeathsAreSurvived == ListedHasCode /\ TornIsKept

=============================================================================
