-------------------------------- MODULE Boot --------------------------------
(***************************************************************************)
(* What outlives a reboot (Snapshot) beside the migrations from PM2        *)
(* (Migrate), in steps that come in any order.                             *)
(***************************************************************************)
EXTENDS Snapshot, Sequences

CONSTANTS
    Migrators,  \* processes that migrate
    Lists, Legacies, Dumps, All,
    MaxMigrations, MaxFailures

VARIABLES list, daemon, pm2dump, templates, ran, pm2, owner, units, timers,
          enabledUnits, active, pc, dry, todo, asked, done, errors, res,
          preview, hurt, broke, migrations, failures

migrateVars == <<list, daemon, pm2dump, templates, ran, pm2, owner, units, timers,
                 enabledUnits, active, pc, dry, todo, asked, done, errors, res,
                 preview, hurt, broke, migrations, failures>>

M == INSTANCE Migrate WITH
    Procs <- Migrators, MaxOps <- MaxMigrations, MaxFaults <- MaxFailures,
    dump <- pm2dump, legacy <- templates, enabled <- enabledUnits,
    ops <- migrations, faults <- failures

\* What PM2's lists are: an application's name stands for one unit.
SoundLists ==
    /\ \A l \in Lists : l \in Seq(M!Entries)
    /\ \A e, f \in M!Entries : e.name = f.name => e.unit = f.unit
    /\ \A s \in Legacies : s \subseteq M!Units
    /\ None \notin M!Names
    /\ MaxMigrations \in Nat /\ MaxFailures \in Nat
ASSUME BootAssumption == SoundLists

SnapshotSteps == Next /\ UNCHANGED migrateVars
MigrateSteps == M!Next /\ UNCHANGED vars
HostSpec == Init /\ M!Init /\ [][SnapshotSteps \/ MigrateSteps]_<<vars, migrateVars>>

-----------------------------------------------------------------------------
(* Properties.                                                             *)

\* Units of their own for all names of PM2's list, or migrations one after the other.
OwnUnits == \A e, f \in M!ToSet(list) : e.unit = f.unit => e.name = f.name
OneMigrates == \A p, q \in Migrators : pc[p] # "idle" /\ pc[q] # "idle" => p = q
Apart == OwnUnits \/ OneMigrates

\* What PM2 ran goes on running, once, at whatever step a migration fails or
\* dies, but for what Migrate.js cannot help: an application whose start fails
\* after PM2 was stopped is down, but registered and installed; one that PM2
\* did not stop, or whose timer was enabled too soon, may run twice.  A
\* migration that ends with success is complete, but for what a failed one
\* before it had left in the store (Migrate.js:254 to 340).
NothingIsLost ==
    /\ TypeOK /\ M!TypeOK
    /\ M!RunsSomewhere /\ M!RunsOnce
    /\ M!LegacyKeepsSource /\ M!SuccessIsComplete

=============================================================================
