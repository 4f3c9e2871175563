----------------------------- MODULE UpdateNode -----------------------------
(***************************************************************************)
(* update-node (NodeRuntimeUpdater) beside the installations of runtimes   *)
(* it asks nvm for (Nvm): one zm2, whose update and installations share    *)
(* the versions and take their steps in any order.                         *)
(***************************************************************************)
EXTENDS NodeRuntimeUpdater

CONSTANTS
    Installers,     \* processes that install
    Bad, Old, Link, Torn,
    NvmOps, NvmFaults, MaxUser

VARIABLES nvmSh, dir, alias, runtime, nvmPc, want, saved, failed, res,
          orig, excused, told, ops, nvmFaults, user

nvmVars == <<nvmSh, dir, alias, runtime, nvmPc, want, saved, failed, res,
             orig, excused, told, ops, nvmFaults, user>>

Nvm == INSTANCE Nvm WITH
    Procs <- Installers, Versions <- Runtimes, MaxOps <- NvmOps, MaxFaults <- NvmFaults,
    pc <- nvmPc, faults <- nvmFaults

\* Nothing that stands for no content of the alias is one.
ASSUME HostAssumption ==
    /\ NvmOps \in Nat /\ NvmFaults \in Nat /\ MaxUser \in Nat
    /\ Torn \notin Runtimes \cup {None, Old, Link} /\ Link # None

UpdateSteps == Next /\ UNCHANGED nvmVars
InstallSteps == Nvm!Next /\ UNCHANGED vars
HostSpec == Init /\ Nvm!Init /\ [][UpdateSteps \/ InstallSteps]_<<vars, nvmVars>>

\* Installations are asked for, fail, are repeated and answered from what is
\* there: the user's default alias is kept when they have ended, and "ok" means
\* a runtime that answers with the version.  The alias is not claimed where
\* Nvm.js does not keep it either: once two installations have overlapped (the
\* second takes what the first made default for the user's), once a process
\* has died in one, or where it could not be put back, which is reported; nor
\* while the user changes it beside an installation.  What "ok" means has no
\* exception (Nvm.js:203 to 333).
RuntimesAreSafe == Nvm!TypeOK /\ Nvm!AliasIsKept /\ Nvm!OkIsVerified

=============================================================================
