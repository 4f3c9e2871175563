--------------------------- MODULE ApiServiceProofs ---------------------------
(***************************************************************************)
(* That the service of the HTTP API (ApiService) can be managed and keeps  *)
(* its key, for any number of processes, ports, failures and commands.     *)
(*                                                                         *)
(* A removal deletes the unit file some time after it has stopped the      *)
(* server, and the store is changed some time after the files.  The        *)
(* inductive invariant says what holds in between (Stopped, Underway), as  *)
(* long as commands do not overlap (Alone): with two of them at once the   *)
(* other starts what is about to lose its file.                            *)
(***************************************************************************)
EXTENDS Api, Sequences, TLAPS

\* A command that goes on was given a port.
Given == \A p \in Procs : pc[p] # "idle" => cmd[p].port \in Ports

\* No two commands have run at once.
Alone ==
    ~overlapped => \A p, q \in Procs : pc[p] # "idle" /\ pc[q] # "idle" => p = q

\* Nothing starts the server between its stop and the end of its files.
Stopped ==
    ~overlapped => \A p \in Procs : pc[p] = "delete" => pc[Server] = "off"

\* Where the files and the store are apart.
Apart(p) == pc[p] \in {"launch", "register", "unregister"}
Underway ==
    ~overlapped /\ faults = 0 =>
        /\ \A p \in Procs : /\ pc[p] \in {"launch", "register"} => unit # None
                            /\ pc[p] = "unregister" => unit = None
        /\ (\A p \in Procs : ~Apart(p)) => (entry <=> unit # None)

IInv == TypeOK /\ Given /\ Alone /\ Stopped /\ ServerHasUnit /\ Underway

-----------------------------------------------------------------------------
(* Every step of a command.                                                *)

\* What the constants and the counters are.
LEMMA Constants ==
  /\ Server \notin Procs /\ None \notin Ports
  /\ None \notin Nat /\ Empty \notin Nat
  BY ApiServiceAssumption

LEMMA Bounds ==
  ASSUME TypeOK
  PROVE  ops \in Nat /\ faults \in Nat /\ ops \in 0..MaxOps /\ faults \in 0..MaxFaults
<1>1. ops \in 0..MaxOps /\ faults \in 0..MaxFaults
  BY DEF TypeOK
<1>2. MaxOps \in Nat /\ MaxFaults \in Nat
  BY ApiServiceAssumption
<1> QED BY <1>1, <1>2

LEMMA CanFailBound ==
  ASSUME TypeOK, CanFail
  PROVE  faults' = faults + 1 /\ faults' # faults /\ faults' \in 0..MaxFaults
<1>1. MaxFaults \in Nat /\ faults \in Nat
  BY ApiServiceAssumption, Bounds
<1> QED BY <1>1 DEF CanFail

LEMMA InBounds ==
  /\ 0 \in 0..MaxOps /\ 0 \in 0..MaxFaults
  /\ \A n \in Nat : n < MaxOps => n + 1 \in 0..MaxOps
<1>1. MaxOps \in Nat /\ MaxFaults \in Nat
  BY ApiServiceAssumption
<1> QED BY <1>1

\* What p leaves alone.
Moves(p) ==
    /\ \A q \in Procs \ {p} : pc'[q] = pc[q]
    /\ overlapped' = overlapped /\ faults' \in {faults, faults + 1}

\* What is claimed of the files and the store by the only command there is.
Own(p) ==
    /\ pc[p] \in {"launch", "register"} => unit # None
    /\ pc[p] = "unregister" => unit = None
    /\ ~Apart(p) => (entry <=> unit # None)

LEMMA OwnOf ==
  ASSUME TypeOK, Alone, Underway, ~overlapped, faults = 0, NEW p \in Procs, pc[p] # "idle"
  PROVE  Own(p)
  BY DEF Alone, Underway, Own, Apart

LEMMA UnderwayOf ==
  ASSUME TypeOK, Alone, Underway, NEW p \in Procs, pc[p] # "idle", Moves(p),
         faults' = faults /\ Own(p) => Own(p)'
  PROVE  Underway'
<1> SUFFICES ASSUME ~overlapped', faults' = 0 PROVE
        /\ \A q \in Procs : /\ pc'[q] \in {"launch", "register"} => unit' # None
                            /\ pc'[q] = "unregister" => unit' = None
        /\ (\A q \in Procs : ~Apart(q)') => (entry' <=> unit' # None)
  BY DEF Underway
<1>1. faults = 0 /\ faults' = faults /\ ~overlapped
  BY Bounds DEF Moves
<1>2. Own(p)'
  BY <1>1, OwnOf
<1>3. \A q \in Procs \ {p} : pc'[q] = "idle"
  BY <1>1 DEF Moves, Alone
<1> QED BY <1>2, <1>3 DEF Own, Apart

\* The types of what a step of a command writes.
LEMMA TypesOf ==
  ASSUME TypeOK, NEW p \in Procs, Moves(p), UNCHANGED <<legacy, cmd, ops>>, faults' \in 0..MaxFaults,
         unit' \in Ports \cup {None}, port' \in Ports \cup {None}, entry' \in BOOLEAN,
         keyFile' \in KeyType, key' \in [Actors -> KeyType], keys' \in Nat,
         pc' \in [Actors -> ServerSteps \cup CommandSteps],
         pc'[Server] \in ServerSteps, pc'[p] \in CommandSteps,
         res' \in [Procs -> {"", "ok", "failed"}]
  PROVE  TypeOK'
  BY DEF TypeOK, Moves

LEMMA LookStep ==
  ASSUME IInv, NEW p \in Procs, Look(p)
  PROVE  IInv'
<1> USE Constants DEF IInv, Actors, Files, Ghosts, Goto
<1>1. pc[p] # "idle" /\ UNCHANGED <<legacy, cmd, ops, overlapped>> /\ (faults' = faults \/ CanFail)
  BY DEF Look, End, Active
<1>a. \A q \in Procs \ {p} : pc'[q] = pc[q]
  BY DEF Look, End, Active, TypeOK
<1>b. Moves(p) /\ faults' \in 0..MaxFaults
  BY <1>1, <1>a, CanFailBound, Bounds DEF Moves
<1>2. TypeOK'
  <2>a. PICK l \in CommandSteps : pc' = [pc EXCEPT ![p] = l]
    BY DEF Look, End, CommandSteps
  <2>1. pc' \in [Actors -> ServerSteps \cup CommandSteps]
    BY <2>a DEF TypeOK
  <2>2. pc'[Server] \in ServerSteps
    BY <2>a DEF TypeOK
  <2>3. pc'[p] \in CommandSteps
    BY <2>a DEF TypeOK
  <2>4. /\ key' \in [Actors -> KeyType] /\ res' \in [Procs -> {"", "ok", "failed"}]
        /\ keyFile' \in KeyType /\ keys' \in Nat
    BY DEF Look, End, CanFail, Active, TypeOK, KeyType
  <2>5. /\ unit' \in Ports \cup {None} /\ port' \in Ports \cup {None}
        /\ entry' \in BOOLEAN
    BY DEF Look, End, CanFail, Active, TypeOK
  <2> QED BY <1>1, <1>b, <2>1, <2>2, <2>3, <2>4, <2>5, TypesOf
<1>3. Given'
  BY DEF Look, End, CanFail, Active, TypeOK, Given
<1>4. Alone'
  BY DEF Look, End, CanFail, Active, TypeOK, Alone
<1>5. Stopped'
  BY DEF Look, End, CanFail, Active, TypeOK, Alone, Stopped
<1>6. ServerHasUnit'
  BY DEF Look, End, CanFail, Active, TypeOK, Given, Stopped, ServerHasUnit, Active
<1>7. Underway'
  <2>1. faults' = faults /\ Own(p) => Own(p)'
    BY CanFailBound DEF Look, End, Active, TypeOK, Given, Own, Apart
  <2> QED BY <1>1, <1>b, <2>1, UnderwayOf
<1> QED BY <1>2, <1>3, <1>4, <1>5, <1>6, <1>7

LEMMA InstallStep ==
  ASSUME IInv, NEW p \in Procs, Install(p)
  PROVE  IInv'
<1> USE Constants DEF IInv, Actors, Files, Ghosts, Goto
<1>1. pc[p] # "idle" /\ UNCHANGED <<legacy, cmd, ops, overlapped>> /\ (faults' = faults \/ CanFail)
  BY DEF Install, End
<1>a. \A q \in Procs \ {p} : pc'[q] = pc[q]
  BY DEF Install, End, TypeOK
<1>b. Moves(p) /\ faults' \in 0..MaxFaults
  BY <1>1, <1>a, CanFailBound, Bounds DEF Moves
<1>2. TypeOK'
  <2>1. pc' \in [Actors -> ServerSteps \cup CommandSteps]
    BY DEF Install, End, CanFail, TypeOK, ServerSteps, CommandSteps
  <2>2. pc'[Server] \in ServerSteps
    BY DEF Install, End, CanFail, TypeOK, ServerSteps, CommandSteps
  <2>3. pc'[p] \in CommandSteps
    BY DEF Install, End, CanFail, TypeOK, ServerSteps, CommandSteps
  <2>4. /\ key' \in [Actors -> KeyType] /\ res' \in [Procs -> {"", "ok", "failed"}]
        /\ keyFile' \in KeyType /\ keys' \in Nat
    BY DEF Install, End, CanFail, TypeOK, KeyType
  <2>5. /\ unit' \in Ports \cup {None} /\ port' \in Ports \cup {None}
        /\ entry' \in BOOLEAN
    BY DEF Install, End, CanFail, TypeOK
  <2> QED BY <1>1, <1>b, <2>1, <2>2, <2>3, <2>4, <2>5, TypesOf
<1>3. Given'
  BY DEF Install, End, CanFail, TypeOK, Given
<1>4. Alone'
  BY DEF Install, End, CanFail, TypeOK, Alone
<1>5. Stopped'
  BY DEF Install, End, CanFail, TypeOK, Alone, Stopped
<1>6. ServerHasUnit'
  BY DEF Install, End, CanFail, TypeOK, Given, Stopped, ServerHasUnit, Active
<1>7. Underway'
  <2>1. faults' = faults /\ Own(p) => Own(p)'
    BY CanFailBound DEF Install, End, TypeOK, Given, Own, Apart
  <2> QED BY <1>1, <1>b, <2>1, UnderwayOf
<1> QED BY <1>2, <1>3, <1>4, <1>5, <1>6, <1>7

LEMMA StartUnitStep ==
  ASSUME IInv, NEW p \in Procs, StartUnit(p)
  PROVE  IInv'
<1> USE Constants DEF IInv, Actors, Files, Ghosts, Goto
<1>1. pc[p] # "idle" /\ UNCHANGED <<legacy, cmd, ops, overlapped>> /\ (faults' = faults \/ CanFail)
  BY DEF StartUnit, Launch, End, Fails
<1>a. \A q \in Procs \ {p} : pc'[q] = pc[q]
  BY DEF StartUnit, Launch, End, Fails, TypeOK
<1>b. Moves(p) /\ faults' \in 0..MaxFaults
  BY <1>1, <1>a, CanFailBound, Bounds DEF Moves
<1>2. TypeOK'
  <2>1. pc' \in [Actors -> ServerSteps \cup CommandSteps]
    BY DEF StartUnit, Launch, End, Fails, CanFail, TypeOK, ServerSteps, CommandSteps
  <2>2. pc'[Server] \in ServerSteps
    BY DEF StartUnit, Launch, End, Fails, CanFail, TypeOK, ServerSteps, CommandSteps
  <2>3. pc'[p] \in CommandSteps
    BY DEF StartUnit, Launch, End, Fails, CanFail, TypeOK, ServerSteps, CommandSteps
  <2>4. /\ key' \in [Actors -> KeyType] /\ res' \in [Procs -> {"", "ok", "failed"}]
        /\ keyFile' \in KeyType /\ keys' \in Nat
    BY DEF StartUnit, Launch, End, Fails, CanFail, TypeOK, KeyType
  <2>5. /\ unit' \in Ports \cup {None} /\ port' \in Ports \cup {None}
        /\ entry' \in BOOLEAN
    BY DEF StartUnit, Launch, End, Fails, CanFail, TypeOK
  <2> QED BY <1>1, <1>b, <2>1, <2>2, <2>3, <2>4, <2>5, TypesOf
<1>3. Given'
  BY DEF StartUnit, Launch, End, Fails, CanFail, TypeOK, Given
<1>4. Alone'
  BY DEF StartUnit, Launch, End, Fails, CanFail, TypeOK, Alone
<1>5. Stopped'
  BY DEF StartUnit, Launch, End, Fails, CanFail, TypeOK, Alone, Stopped
<1>6. ServerHasUnit'
  BY DEF StartUnit, Launch, End, Fails, CanFail, TypeOK, Given, Stopped,
     ServerHasUnit, Active
<1>7. Underway'
  <2>1. faults' = faults /\ Own(p) => Own(p)'
    BY CanFailBound DEF StartUnit, Launch, End, Fails, TypeOK, Given, Own, Apart
  <2> QED BY <1>1, <1>b, <2>1, UnderwayOf
<1> QED BY <1>2, <1>3, <1>4, <1>5, <1>6, <1>7

LEMMA RegisterStep ==
  ASSUME IInv, NEW p \in Procs, Register(p)
  PROVE  IInv'
<1> USE Constants DEF IInv, Actors, Files, Ghosts, Goto
<1>1. pc[p] # "idle" /\ UNCHANGED <<legacy, cmd, ops, overlapped>> /\ (faults' = faults \/ CanFail)
  BY DEF Register, End, Fails
<1>a. \A q \in Procs \ {p} : pc'[q] = pc[q]
  BY DEF Register, End, Fails, TypeOK
<1>b. Moves(p) /\ faults' \in 0..MaxFaults
  BY <1>1, <1>a, CanFailBound, Bounds DEF Moves
<1>2. TypeOK'
  <2>1. pc' \in [Actors -> ServerSteps \cup CommandSteps]
    BY DEF Register, End, Fails, CanFail, TypeOK, ServerSteps, CommandSteps
  <2>2. pc'[Server] \in ServerSteps
    BY DEF Register, End, Fails, CanFail, TypeOK, ServerSteps, CommandSteps
  <2>3. pc'[p] \in CommandSteps
    BY DEF Register, End, Fails, CanFail, TypeOK, ServerSteps, CommandSteps
  <2>4. /\ key' \in [Actors -> KeyType] /\ res' \in [Procs -> {"", "ok", "failed"}]
        /\ keyFile' \in KeyType /\ keys' \in Nat
    BY DEF Register, End, Fails, CanFail, TypeOK, KeyType
  <2>5. /\ unit' \in Ports \cup {None} /\ port' \in Ports \cup {None}
        /\ entry' \in BOOLEAN
    BY DEF Register, End, Fails, CanFail, TypeOK
  <2> QED BY <1>1, <1>b, <2>1, <2>2, <2>3, <2>4, <2>5, TypesOf
<1>3. Given'
  BY DEF Register, End, Fails, CanFail, TypeOK, Given
<1>4. Alone'
  BY DEF Register, End, Fails, CanFail, TypeOK, Alone
<1>5. Stopped'
  BY DEF Register, End, Fails, CanFail, TypeOK, Alone, Stopped
<1>6. ServerHasUnit'
  BY DEF Register, End, Fails, CanFail, TypeOK, Given, Stopped, ServerHasUnit, Active
<1>7. Underway'
  <2>1. faults' = faults /\ Own(p) => Own(p)'
    BY CanFailBound DEF Register, End, Fails, TypeOK, Given, Own, Apart
  <2> QED BY <1>1, <1>b, <2>1, UnderwayOf
<1> QED BY <1>2, <1>3, <1>4, <1>5, <1>6, <1>7

LEMMA StopStep ==
  ASSUME IInv, NEW p \in Procs, Stop(p)
  PROVE  IInv'
<1> USE Constants DEF IInv, Actors, Files, Ghosts, Goto
<1>1. pc[p] # "idle" /\ UNCHANGED <<legacy, cmd, ops, overlapped>> /\ (faults' = faults \/ CanFail)
  BY DEF Stop, End, Fails
<1>a. \A q \in Procs \ {p} : pc'[q] = pc[q]
  BY DEF Stop, End, Fails, TypeOK
<1>b. Moves(p) /\ faults' \in 0..MaxFaults
  BY <1>1, <1>a, CanFailBound, Bounds DEF Moves
<1>2. TypeOK'
  <2>1. pc' \in [Actors -> ServerSteps \cup CommandSteps]
    BY DEF Stop, End, Fails, CanFail, TypeOK, ServerSteps, CommandSteps
  <2>2. pc'[Server] \in ServerSteps
    BY DEF Stop, End, Fails, CanFail, TypeOK, ServerSteps, CommandSteps
  <2>3. pc'[p] \in CommandSteps
    BY DEF Stop, End, Fails, CanFail, TypeOK, ServerSteps, CommandSteps
  <2>4. /\ key' \in [Actors -> KeyType] /\ res' \in [Procs -> {"", "ok", "failed"}]
        /\ keyFile' \in KeyType /\ keys' \in Nat
    BY DEF Stop, End, Fails, CanFail, TypeOK, KeyType
  <2>5. /\ unit' \in Ports \cup {None} /\ port' \in Ports \cup {None}
        /\ entry' \in BOOLEAN
    BY DEF Stop, End, Fails, CanFail, TypeOK
  <2> QED BY <1>1, <1>b, <2>1, <2>2, <2>3, <2>4, <2>5, TypesOf
<1>3. Given'
  BY DEF Stop, End, Fails, CanFail, TypeOK, Given
<1>4. Alone'
  BY DEF Stop, End, Fails, CanFail, TypeOK, Alone
<1>5. Stopped'
  BY DEF Stop, End, Fails, CanFail, TypeOK, Alone, Stopped
<1>6. ServerHasUnit'
  BY DEF Stop, End, Fails, CanFail, TypeOK, Given, Stopped, ServerHasUnit, Active
<1>7. Underway'
  <2>1. faults' = faults /\ Own(p) => Own(p)'
    BY CanFailBound DEF Stop, End, Fails, TypeOK, Given, Own, Apart
  <2> QED BY <1>1, <1>b, <2>1, UnderwayOf
<1> QED BY <1>2, <1>3, <1>4, <1>5, <1>6, <1>7

LEMMA RestartStep ==
  ASSUME IInv, NEW p \in Procs, Restart(p)
  PROVE  IInv'
<1> USE Constants DEF IInv, Actors, Files, Ghosts, Goto
<1>1. pc[p] # "idle" /\ UNCHANGED <<legacy, cmd, ops, overlapped>> /\ (faults' = faults \/ CanFail)
  BY DEF Restart, Launch, End, Fails
<1>a. \A q \in Procs \ {p} : pc'[q] = pc[q]
  BY DEF Restart, Launch, End, Fails, TypeOK
<1>b. Moves(p) /\ faults' \in 0..MaxFaults
  BY <1>1, <1>a, CanFailBound, Bounds DEF Moves
<1>2. TypeOK'
  <2>1. pc' \in [Actors -> ServerSteps \cup CommandSteps]
    BY DEF Restart, Launch, End, Fails, CanFail, TypeOK, ServerSteps, CommandSteps
  <2>2. pc'[Server] \in ServerSteps
    BY DEF Restart, Launch, End, Fails, CanFail, TypeOK, ServerSteps, CommandSteps
  <2>3. pc'[p] \in CommandSteps
    BY DEF Restart, Launch, End, Fails, CanFail, TypeOK, ServerSteps, CommandSteps
  <2>4. /\ key' \in [Actors -> KeyType] /\ res' \in [Procs -> {"", "ok", "failed"}]
        /\ keyFile' \in KeyType /\ keys' \in Nat
    BY DEF Restart, Launch, End, Fails, CanFail, TypeOK, KeyType
  <2>5. /\ unit' \in Ports \cup {None} /\ port' \in Ports \cup {None}
        /\ entry' \in BOOLEAN
    BY DEF Restart, Launch, End, Fails, CanFail, TypeOK
  <2> QED BY <1>1, <1>b, <2>1, <2>2, <2>3, <2>4, <2>5, TypesOf
<1>3. Given'
  BY DEF Restart, Launch, End, Fails, CanFail, TypeOK, Given
<1>4. Alone'
  BY DEF Restart, Launch, End, Fails, CanFail, TypeOK, Alone
<1>5. Stopped'
  BY DEF Restart, Launch, End, Fails, CanFail, TypeOK, Alone, Stopped
<1>6. ServerHasUnit'
  BY DEF Restart, Launch, End, Fails, CanFail, TypeOK, Given, Stopped, ServerHasUnit, Active
<1>7. Underway'
  <2>1. faults' = faults /\ Own(p) => Own(p)'
    BY CanFailBound DEF Restart, Launch, End, Fails, TypeOK, Given, Own, Apart
  <2> QED BY <1>1, <1>b, <2>1, UnderwayOf
<1> QED BY <1>2, <1>3, <1>4, <1>5, <1>6, <1>7

LEMMA RemoveStopStep ==
  ASSUME IInv, NEW p \in Procs, RemoveStop(p)
  PROVE  IInv'
<1> USE Constants DEF IInv, Actors, Files, Ghosts, Goto
<1>1. pc[p] # "idle" /\ UNCHANGED <<legacy, cmd, ops, overlapped>> /\ (faults' = faults \/ CanFail)
  BY DEF RemoveStop, End, Fails
<1>a. \A q \in Procs \ {p} : pc'[q] = pc[q]
  BY DEF RemoveStop, End, Fails, TypeOK
<1>b. Moves(p) /\ faults' \in 0..MaxFaults
  BY <1>1, <1>a, CanFailBound, Bounds DEF Moves
<1>2. TypeOK'
  <2>1. pc' \in [Actors -> ServerSteps \cup CommandSteps]
    BY DEF RemoveStop, End, Fails, CanFail, TypeOK, ServerSteps, CommandSteps
  <2>2. pc'[Server] \in ServerSteps
    BY DEF RemoveStop, End, Fails, CanFail, TypeOK, ServerSteps, CommandSteps
  <2>3. pc'[p] \in CommandSteps
    BY DEF RemoveStop, End, Fails, CanFail, TypeOK, ServerSteps, CommandSteps
  <2>4. /\ key' \in [Actors -> KeyType] /\ res' \in [Procs -> {"", "ok", "failed"}]
        /\ keyFile' \in KeyType /\ keys' \in Nat
    BY DEF RemoveStop, End, Fails, CanFail, TypeOK, KeyType
  <2>5. /\ unit' \in Ports \cup {None} /\ port' \in Ports \cup {None}
        /\ entry' \in BOOLEAN
    BY DEF RemoveStop, End, Fails, CanFail, TypeOK
  <2> QED BY <1>1, <1>b, <2>1, <2>2, <2>3, <2>4, <2>5, TypesOf
<1>3. Given'
  BY DEF RemoveStop, End, Fails, CanFail, TypeOK, Given
<1>4. Alone'
  BY DEF RemoveStop, End, Fails, CanFail, TypeOK, Alone
<1>5. Stopped'
  BY DEF RemoveStop, End, Fails, CanFail, TypeOK, Alone, Stopped
<1>6. ServerHasUnit'
  BY DEF RemoveStop, End, Fails, CanFail, TypeOK, Given, Stopped, ServerHasUnit, Active
<1>7. Underway'
  <2>1. faults' = faults /\ Own(p) => Own(p)'
    BY CanFailBound DEF RemoveStop, End, Fails, TypeOK, Given, Own, Apart
  <2> QED BY <1>1, <1>b, <2>1, UnderwayOf
<1> QED BY <1>2, <1>3, <1>4, <1>5, <1>6, <1>7

LEMMA RemoveFilesStep ==
  ASSUME IInv, NEW p \in Procs, RemoveFiles(p)
  PROVE  IInv'
<1> USE Constants DEF IInv, Actors, Files, Ghosts, Goto
<1>1. pc[p] # "idle" /\ UNCHANGED <<legacy, cmd, ops, overlapped>> /\ (faults' = faults \/ CanFail)
  BY DEF RemoveFiles, End, Fails
<1>a. \A q \in Procs \ {p} : pc'[q] = pc[q]
  BY DEF RemoveFiles, End, Fails, TypeOK
<1>b. Moves(p) /\ faults' \in 0..MaxFaults
  BY <1>1, <1>a, CanFailBound, Bounds DEF Moves
<1>2. TypeOK'
  <2>1. pc' \in [Actors -> ServerSteps \cup CommandSteps]
    BY DEF RemoveFiles, End, Fails, CanFail, TypeOK, ServerSteps, CommandSteps
  <2>2. pc'[Server] \in ServerSteps
    BY DEF RemoveFiles, End, Fails, CanFail, TypeOK, ServerSteps, CommandSteps
  <2>3. pc'[p] \in CommandSteps
    BY DEF RemoveFiles, End, Fails, CanFail, TypeOK, ServerSteps, CommandSteps
  <2>4. /\ key' \in [Actors -> KeyType] /\ res' \in [Procs -> {"", "ok", "failed"}]
        /\ keyFile' \in KeyType /\ keys' \in Nat
    BY DEF RemoveFiles, End, Fails, CanFail, TypeOK, KeyType
  <2>5. /\ unit' \in Ports \cup {None} /\ port' \in Ports \cup {None}
        /\ entry' \in BOOLEAN
    BY DEF RemoveFiles, End, Fails, CanFail, TypeOK
  <2> QED BY <1>1, <1>b, <2>1, <2>2, <2>3, <2>4, <2>5, TypesOf
<1>3. Given'
  BY DEF RemoveFiles, End, Fails, CanFail, TypeOK, Given
<1>4. Alone'
  BY DEF RemoveFiles, End, Fails, CanFail, TypeOK, Alone
<1>5. Stopped'
  BY DEF RemoveFiles, End, Fails, CanFail, TypeOK, Alone, Stopped
<1>6. ServerHasUnit'
  BY DEF RemoveFiles, End, Fails, CanFail, TypeOK, Given, Stopped, ServerHasUnit, Active
<1>7. Underway'
  <2>1. faults' = faults /\ Own(p) => Own(p)'
    BY CanFailBound DEF RemoveFiles, End, Fails, TypeOK, Given, Own, Apart
  <2> QED BY <1>1, <1>b, <2>1, UnderwayOf
<1> QED BY <1>2, <1>3, <1>4, <1>5, <1>6, <1>7

LEMMA UnregisterStep ==
  ASSUME IInv, NEW p \in Procs, Unregister(p)
  PROVE  IInv'
<1> USE Constants DEF IInv, Actors, Files, Ghosts, Goto
<1>1. pc[p] # "idle" /\ UNCHANGED <<legacy, cmd, ops, overlapped>> /\ (faults' = faults \/ CanFail)
  BY DEF Unregister, End, Fails
<1>a. \A q \in Procs \ {p} : pc'[q] = pc[q]
  BY DEF Unregister, End, Fails, TypeOK
<1>b. Moves(p) /\ faults' \in 0..MaxFaults
  BY <1>1, <1>a, CanFailBound, Bounds DEF Moves
<1>2. TypeOK'
  <2>1. pc' \in [Actors -> ServerSteps \cup CommandSteps]
    BY DEF Unregister, End, Fails, CanFail, TypeOK, ServerSteps, CommandSteps
  <2>2. pc'[Server] \in ServerSteps
    BY DEF Unregister, End, Fails, CanFail, TypeOK, ServerSteps, CommandSteps
  <2>3. pc'[p] \in CommandSteps
    BY DEF Unregister, End, Fails, CanFail, TypeOK, ServerSteps, CommandSteps
  <2>4. /\ key' \in [Actors -> KeyType] /\ res' \in [Procs -> {"", "ok", "failed"}]
        /\ keyFile' \in KeyType /\ keys' \in Nat
    BY DEF Unregister, End, Fails, CanFail, TypeOK, KeyType
  <2>5. /\ unit' \in Ports \cup {None} /\ port' \in Ports \cup {None}
        /\ entry' \in BOOLEAN
    BY DEF Unregister, End, Fails, CanFail, TypeOK
  <2> QED BY <1>1, <1>b, <2>1, <2>2, <2>3, <2>4, <2>5, TypesOf
<1>3. Given'
  BY DEF Unregister, End, Fails, CanFail, TypeOK, Given
<1>4. Alone'
  BY DEF Unregister, End, Fails, CanFail, TypeOK, Alone
<1>5. Stopped'
  BY DEF Unregister, End, Fails, CanFail, TypeOK, Alone, Stopped
<1>6. ServerHasUnit'
  BY DEF Unregister, End, Fails, CanFail, TypeOK, Given, Stopped, ServerHasUnit, Active
<1>7. Underway'
  <2>1. faults' = faults /\ Own(p) => Own(p)'
    BY CanFailBound DEF Unregister, End, Fails, TypeOK, Given, Own, Apart
  <2> QED BY <1>1, <1>b, <2>1, UnderwayOf
<1> QED BY <1>2, <1>3, <1>4, <1>5, <1>6, <1>7

-----------------------------------------------------------------------------
(* The key, the server and deaths.                                         *)

\* A step of one actor that leaves the unit file and the store alone.
LEMMA ActorStep ==
  ASSUME IInv, NEW a \in Actors, NEW l, pc' = [pc EXCEPT ![a] = l],
         UNCHANGED <<unit, entry, cmd, overlapped>>,
         faults' = faults \/ CanFail,
         a # Server =>
           /\ pc[a] # "idle" /\ l \notin {"delete", "launch", "register", "unregister"}
           /\ Apart(a) => CanFail,
         a = Server => pc[Server] # "off" /\ (l \in {"key", "create", "fill", "serving"} => Active)
  PROVE  Given' /\ Alone' /\ Stopped' /\ ServerHasUnit' /\ Underway'
<1> USE Constants DEF IInv, Actors
<1>1. Given'
  BY DEF TypeOK, Given
<1>2. Alone'
  BY DEF TypeOK, Alone
<1>3. Stopped'
  BY DEF TypeOK, Alone, Stopped
<1>4. ServerHasUnit'
  BY DEF TypeOK, ServerHasUnit, Active
<1>5. Underway'
  <2>1. CASE a = Server
    <3>1. \A q \in Procs : pc'[q] = pc[q]
      BY <2>1 DEF TypeOK
    <3>2. faults' = 0 => faults = 0
      BY CanFailBound, Bounds
    <3> QED BY <3>1, <3>2 DEF Underway, Apart
  <2>2. CASE a # Server
    <3>1. a \in Procs /\ pc[a] # "idle"
      BY <2>2
    <3>2. Moves(a)
      BY <3>1, CanFailBound DEF Moves, TypeOK
    <3>3. faults' = faults /\ Own(a) => Own(a)'
      BY <2>2, <3>1, CanFailBound DEF Own, Apart, TypeOK
    <3> QED BY <3>1, <3>2, <3>3, UnderwayOf
  <2> QED BY <2>1, <2>2
<1> QED BY <1>1, <1>2, <1>3, <1>4, <1>5

\* What it keeps of the types.
LEMMA ActorTypes ==
  ASSUME TypeOK, NEW a \in Actors, NEW l, pc' = [pc EXCEPT ![a] = l],
         a = Server => l \in ServerSteps, a # Server => l \in CommandSteps,
         UNCHANGED <<unit, legacy, entry, cmd, overlapped, ops>>,
         faults' = faults \/ CanFail,
         port' \in Ports \cup {None}, keyFile' \in KeyType, keys' \in Nat,
         key' \in [Actors -> KeyType], res' \in [Procs -> {"", "ok", "failed"}]
  PROVE  TypeOK'
<1>1. /\ pc' \in [Actors -> ServerSteps \cup CommandSteps]
      /\ pc'[Server] \in ServerSteps /\ \A p \in Procs : pc'[p] \in CommandSteps
  BY Constants DEF TypeOK, Actors
<1>2. faults' \in 0..MaxFaults
  BY CanFailBound, Bounds
<1> QED BY <1>1, <1>2 DEF TypeOK

LEMMA LoadKeyStep ==
  ASSUME IInv, NEW a \in Actors, LoadKey(a)
  PROVE  IInv'
<1> USE DEF IInv
<1>1. /\ pc[a] \in {"key", "create", "fill"}
      /\ UNCHANGED <<unit, legacy, entry, cmd, overlapped, ops, faults, port>>
  BY DEF LoadKey, KeyRead, KeyCreate, KeyFill, Files, Ghosts
<1>2. PICK l : /\ pc' = [pc EXCEPT ![a] = l]
               /\ a = Server => l \in {"serving", "create", "fill"}
               /\ a # Server => l \in {"idle", "create", "fill"}
  BY DEF LoadKey, KeyRead, KeyCreate, KeyFill, HasKey, Goto, End
<1>3. /\ keyFile' \in KeyType /\ keys' \in Nat
      /\ key' \in [Actors -> KeyType] /\ res' \in [Procs -> {"", "ok", "failed"}]
  <2>1. CASE KeyRead(a)
    BY <2>1 DEF TypeOK, KeyRead, HasKey, End, Goto, Files
  <2>2. CASE KeyCreate(a)
    BY <2>2 DEF TypeOK, KeyCreate, Goto, KeyType
  <2>3. CASE KeyFill(a)
    <3>1. keys \in Nat
      BY DEF TypeOK
    <3>2. keys + 1 \in Nat /\ keys + 1 \in KeyType
      BY <3>1 DEF KeyType
    <3> QED BY <2>3, <3>2 DEF TypeOK, KeyFill, HasKey, Goto, End
  <2> QED BY <2>1, <2>2, <2>3 DEF LoadKey
<1>4. a = Server => Active
  BY <1>1 DEF Active
<1>5. TypeOK'
  BY <1>1, <1>2, <1>3, ActorTypes DEF TypeOK, ServerSteps, CommandSteps
<1>6. Given' /\ Alone' /\ Stopped' /\ ServerHasUnit' /\ Underway'
  BY <1>1, <1>2, <1>4, ActorStep DEF Apart
<1> QED BY <1>5, <1>6

LEMMA DiesStep ==
  ASSUME IInv, NEW a \in Actors, Dies(a)
  PROVE  IInv'
<1> USE DEF IInv
<1>1. /\ CanFail
      /\ UNCHANGED <<unit, legacy, entry, cmd, overlapped, ops, port, keyFile, keys>>
  BY DEF Dies, Files, Ghosts
<1>2. PICK l : /\ pc' = [pc EXCEPT ![a] = l]
               /\ a = Server => l = "failed" /\ Active
               /\ a # Server => l = "idle" /\ pc[a] # "idle"
  BY DEF Dies, Goto, End
<1>3. key' \in [Actors -> KeyType] /\ res' \in [Procs -> {"", "ok", "failed"}]
  BY DEF Dies, TypeOK, KeyType, End, Goto
<1>4. pc[Server] # "off" \/ ~Active
  BY DEF Active
<1>5. TypeOK'
  BY <1>1, <1>2, <1>3, ActorTypes DEF TypeOK, ServerSteps, CommandSteps
<1>6. Given' /\ Alone' /\ Stopped' /\ ServerHasUnit' /\ Underway'
  BY <1>1, <1>2, <1>4, ActorStep
<1> QED BY <1>5, <1>6

\* systemd brings back only what has a unit file.
LEMMA ServerRestartsStep ==
  ASSUME IInv, ServerRestarts
  PROVE  IInv'
<1> USE DEF IInv
<1>1. /\ pc[Server] = "failed"
      /\ UNCHANGED <<unit, legacy, entry, cmd, overlapped, ops, faults, key, res, keyFile, keys>>
  BY DEF ServerRestarts, Files, Ghosts
<1>2. PICK l \in {"key", "off"} : pc' = [pc EXCEPT ![Server] = l] /\ (l = "key" => unit # None)
  BY DEF ServerRestarts, Goto
<1>3. port' \in Ports \cup {None}
  BY DEF ServerRestarts, TypeOK
<1>4. Server \in Actors
  BY DEF Actors
<1>5. TypeOK'
  BY <1>1, <1>2, <1>3, <1>4, ActorTypes DEF TypeOK, ServerSteps
<1>6. \A q \in Procs : pc'[q] = pc[q]
  BY <1>2, Constants DEF TypeOK, Actors
<1>7. pc'[Server] = l
  BY <1>2, <1>4 DEF TypeOK
<1>8. Given' /\ Alone' /\ Underway'
  BY <1>1, <1>6 DEF Given, Alone, Underway, Apart
<1>9. Stopped' /\ ServerHasUnit'
  BY <1>1, <1>2, <1>6, <1>7 DEF Stopped, ServerHasUnit, Active
<1> QED BY <1>5, <1>8, <1>9

LEMMA BeginStep ==
  ASSUME IInv, NEW p \in Procs, NEW s \in Subcommands, NEW n \in Ports, Begin(p, s, n)
  PROVE  IInv'
<1> USE DEF IInv
<1>1. /\ pc[p] = "idle" /\ UNCHANGED <<unit, legacy, entry, keyFile, keys, port, faults>>
      /\ ops < MaxOps /\ ops' = ops + 1
      /\ overlapped' = (overlapped \/ \E q \in Procs \ {p} : pc[q] # "idle")
      /\ cmd' = [cmd EXCEPT ![p] = [sub |-> s, port |-> n]]
      /\ key' = [key EXCEPT ![p] = None]
  BY DEF Begin, Files
<1>2. PICK l \in {"idle", "look"}, r \in {"failed", ""} :
        pc' = [pc EXCEPT ![p] = l] /\ res' = [res EXCEPT ![p] = r]
  BY DEF Begin, End, Goto
<1>3. /\ pc'[p] = l /\ cmd'[p].port = n /\ pc'[Server] = pc[Server]
      /\ \A q \in Procs \ {p} : pc'[q] = pc[q] /\ cmd'[q] = cmd[q]
  BY <1>1, <1>2, Constants DEF TypeOK, Actors
<1>4. TypeOK'
  <2>1. /\ pc' \in [Actors -> ServerSteps \cup CommandSteps]
        /\ pc'[Server] \in ServerSteps /\ \A q \in Procs : pc'[q] \in CommandSteps
    BY <1>2, <1>3 DEF TypeOK, Actors, CommandSteps
  <2>2. cmd' \in [Procs -> [sub : Subcommands, port : Ports \cup {None}]]
    BY <1>1 DEF TypeOK
  <2>3. key' \in [Actors -> KeyType] /\ res' \in [Procs -> {"", "ok", "failed"}]
    BY <1>1, <1>2 DEF TypeOK, KeyType, Actors
  <2>4. ops' \in 0..MaxOps
    <3>1. ops \in Nat
      BY Bounds
    <3> QED BY <1>1, <3>1, InBounds, Zenon
  <2>5. overlapped' \in BOOLEAN
    BY <1>1
  <2> QED BY <1>1, <2>1, <2>2, <2>3, <2>4, <2>5 DEF TypeOK
<1>5. Given'
  BY <1>3 DEF Given
<1>6. Alone'
  BY <1>1, <1>3 DEF Alone
<1>7. ~overlapped' => ~overlapped
  BY <1>1
<1>8. Stopped' /\ ServerHasUnit'
  BY <1>1, <1>3, <1>7 DEF Stopped, ServerHasUnit, Active
<1>9. Underway'
  BY <1>1, <1>3, <1>7 DEF Underway, Apart
<1> QED BY <1>4, <1>5, <1>6, <1>8, <1>9

-----------------------------------------------------------------------------
(* The theorems.                                                           *)

LEMMA InitOK == Init => IInv
<1> SUFFICES ASSUME Init PROVE IInv
  OBVIOUS
<1> USE DEF Init
<1>1. TypeOK
  <2>1. /\ pc \in [Actors -> ServerSteps \cup CommandSteps]
        /\ pc[Server] \in ServerSteps /\ \A q \in Procs : pc[q] \in CommandSteps
    BY Constants DEF Actors, ServerSteps, CommandSteps
  <2>2. ops \in 0..MaxOps /\ faults \in 0..MaxFaults
    BY InBounds, Zenon
  <2> QED BY <2>1, <2>2 DEF TypeOK, KeyType, Subcommands
<1>2. \A p \in Procs : pc[p] = "idle"
  BY Constants DEF Actors
<1>3. pc[Server] = "off"
  BY DEF Actors
<1> QED BY <1>1, <1>2, <1>3
        DEF IInv, Given, Alone, Stopped, ServerHasUnit, Active, Underway, Apart

LEMMA Inductive == IInv /\ [Next]_vars => IInv'
<1> SUFFICES ASSUME IInv, [Next]_vars PROVE IInv'
  OBVIOUS
<1>1. ASSUME NEW p \in Procs, Step(p) PROVE IInv'
  <2>1. p \in Actors
    BY DEF Actors
  <2> QED BY <1>1, <2>1, LookStep, InstallStep, StartUnitStep, RegisterStep,
             StopStep, RestartStep, RemoveStopStep, RemoveFilesStep, UnregisterStep,
             LoadKeyStep, Zenon DEF Step
<1>2. CASE LoadKey(Server)
  BY <1>2, LoadKeyStep DEF Actors
<1>3. CASE UNCHANGED vars
  BY <1>3 DEF vars, IInv, TypeOK, Given, Alone, Stopped, ServerHasUnit, Active,
     Underway, Apart
<1> QED BY <1>1, <1>2, <1>3, BeginStep, DiesStep, ServerRestartsStep, Zenon DEF Next

\* The inductive invariant holds of every run.
THEOREM Invariant == Spec => []IInv
  BY InitOK, Inductive, PTL DEF Spec

\* A server that runs has the unit file by which it is stopped and removed,
\* unless two commands overlapped, and the store lists the API exactly when
\* it is installed, as long as nothing failed either.
THEOREM Managed == Spec => []ManagedService
<1>1. IInv => ManagedService
  <2> SUFFICES ASSUME IInv PROVE ManagedService
    OBVIOUS
  <2>1. ListedAsInstalled
    BY DEF IInv, ListedAsInstalled, Underway, Quiet, Apart
  <2> QED BY <2>1 DEF IInv, ManagedService
<1> QED BY <1>1, Invariant, PTL

\* No step sets out to replace a whole key, or replaces it.
LEMMA KeyStep ==
  ASSUME IInv, [Next]_vars, Settled
  PROVE  Settled' /\ keyFile' = keyFile
<1> SUFFICES /\ keyFile' = keyFile
             /\ \A a \in Actors : pc'[a] \notin {"create", "fill"}
  BY DEF Settled
<1> USE DEF IInv, Settled, Actors
<1>1. keyFile # None
  BY Constants
<1>2. ASSUME NEW a \in Actors, LoadKey(a)
      PROVE  keyFile' = keyFile /\ \A b \in Actors : pc'[b] \notin {"create", "fill"}
  BY <1>1, <1>2 DEF LoadKey, KeyRead, KeyCreate, KeyFill, HasKey, Goto, End, Files, TypeOK
<1>3. ASSUME NEW p \in Procs, Step(p)
      PROVE  keyFile' = keyFile /\ \A b \in Actors : pc'[b] \notin {"create", "fill"}
  <2>1. CASE LoadKey(p)
    BY <1>2, <2>1
  <2>2. CASE ~LoadKey(p)
    <3>1. keyFile' = keyFile
      BY <1>3, <2>2 DEF Step, Look, Install, StartUnit, Register, Stop, Restart, RemoveStop,
                        RemoveFiles, Unregister, Launch, Fails, Files
    <3>2. \E l : /\ l \notin {"create", "fill"}
                 /\ \/ pc' = [pc EXCEPT ![p] = l]
                    \/ pc' = [pc EXCEPT ![p] = l, ![Server] = "key"]
                    \/ pc' = [pc EXCEPT ![p] = l, ![Server] = "off"]
      BY <1>3, <2>2 DEF Step, Look, Install, StartUnit, Register, Stop, Restart, RemoveStop,
                        RemoveFiles, Unregister, Launch, Fails, End, Goto
    <3> QED BY <3>1, <3>2 DEF TypeOK
  <2> QED BY <2>1, <2>2
<1>4. CASE \E a \in Actors : Dies(a)
  BY <1>4 DEF Dies, Files, Goto, End, TypeOK
<1>5. CASE ServerRestarts
  BY <1>5 DEF ServerRestarts, Files, Goto, TypeOK
<1>6. ASSUME NEW p \in Procs, NEW s \in Subcommands, NEW n \in Ports, Begin(p, s, n)
      PROVE  keyFile' = keyFile /\ \A b \in Actors : pc'[b] \notin {"create", "fill"}
  <2>1. keyFile' = keyFile /\ \E l \in {"idle", "look"} : pc' = [pc EXCEPT ![p] = l]
    BY <1>6 DEF Begin, Files, Goto, End
  <2> QED BY <2>1 DEF TypeOK
<1>7. CASE UNCHANGED vars
  BY <1>7 DEF vars
<1> QED BY <1>2, <1>3, <1>4, <1>5, <1>6, <1>7, Zenon DEF Next

\* A whole key stays the key: no start, restart, removal or death makes the
\* keys in use invalid, however many commands are at work.
THEOREM KeyKept == Spec => KeyStays
<1>1. IInv /\ [Next]_vars => [Settled => Settled' /\ keyFile' = keyFile]_vars
  BY KeyStep
<1> QED BY <1>1, Invariant, PTL DEF Spec, KeyStays

-----------------------------------------------------------------------------
(* The requests to the server (HttpServer), for any number of connections,  *)
(* services, failures and other processes, and whatever the size of a body. *)
(*                                                                         *)
(* A request is answered by the step that ends it, or that gives up on its *)
(* body, and by no other: the inductive invariant says of each request     *)
(* what its connection's state means for its answer and for what its       *)
(* client hears (Served), and that a server which has ended by itself has  *)
(* no request left (Drained).                                              *)

Codes == {200, 400, 401, 404, 405, 500}
States == {"new", "body", "over", "left", "done"}
HttpTypes ==
    /\ st \in [Requests -> States]
    /\ kind \in [Requests -> Http!Kinds]
    /\ authorised \in [Requests -> BOOLEAN]
    /\ size \in [Requests -> Nat]
    /\ answers \in [Requests -> Seq(Codes)] /\ heard \in [Requests -> Seq(Codes)]
    /\ did \in [Requests -> {"", "missing", "failed", "threw", "done"}]
    /\ requestFaults \in Nat

\* Does the answer c tell what happened, d, to a request of the kind k?
Tells(c, d, k) ==
    /\ c = 200 <=> d = "done"
    /\ c = 500 => d = "failed"
    /\ d = "failed" => c = 500 \/ (c = 404 /\ k \in Http!Acts)
    /\ d = "missing" => c = 404
TooLarge(r) == size[r] > MaxBody
Heard(r) == heard[r] = IF TooLarge(r) \/ st[r] = "left" THEN <<>> ELSE answers[r]
Served(r) ==
    /\ st[r] \in {"new", "body"} => answers[r] = <<>> /\ did[r] = "" /\ ~TooLarge(r)
    /\ st[r] = "body" => authorised[r]
    /\ st[r] \in {"over", "left", "done"} =>
          \E c \in Codes : answers[r] = <<c>> /\ Tells(c, did[r], kind[r])
    /\ Heard(r)
    /\ TooLarge(r) \/ st[r] = "left" => did[r] = ""
    /\ st[r] = "over" => TooLarge(r)
    /\ did[r] # "" => authorised[r] \/ kind[r] = "metrics"
AllServed == \A r \in Requests : Served(r)
Drained == requestFaults = 0 /\ up = "down" => \A r \in Requests : st[r] # "body"

HttpInv == HttpTypes /\ AllServed /\ Drained

LEMMA CountsUp ==
  ASSUME HttpTypes, requestFaults' \in {requestFaults, requestFaults + 1}
  PROVE  requestFaults' \in Nat
<1>1. requestFaults \in Nat
  BY DEF HttpTypes
<1> QED BY <1>1

-----------------------------------------------------------------------------
(* Every step of a request.                                                *)

\* The first answer of a request is the whole of its answers.
LEMMA FirstAnswer ==
  ASSUME HttpTypes, NEW r \in Requests, NEW c \in Codes, answers[r] = <<>>,
         Http!Answer(r, c) \/ Http!Lost(r, c)
  PROVE  /\ answers'[r] = <<c>> /\ answers' \in [Requests -> Seq(Codes)]
         /\ \A q \in Requests \ {r} : answers'[q] = answers[q]
<1>1. Append(<<>>, c) = <<c>> /\ <<c>> \in Seq(Codes)
  OBVIOUS
<1>2. answers' = [answers EXCEPT ![r] = <<c>>]
  BY <1>1 DEF Http!Answer, Http!Lost
<1> QED BY <1>1, <1>2 DEF HttpTypes

\* What its client hears of it, if the connection is there.
LEMMA FirstHeard ==
  ASSUME HttpTypes, NEW r \in Requests, NEW c \in Codes, heard[r] = <<>>, Http!Answer(r, c)
  PROVE  /\ heard'[r] = <<c>> /\ heard' \in [Requests -> Seq(Codes)]
         /\ \A q \in Requests \ {r} : heard'[q] = heard[q]
<1>1. Append(<<>>, c) = <<c>> /\ <<c>> \in Seq(Codes)
  OBVIOUS
<1>2. heard' = [heard EXCEPT ![r] = <<c>>]
  BY <1>1 DEF Http!Answer
<1> QED BY <1>1, <1>2 DEF HttpTypes

\* A step of the connection of r.
LEMMA RequestStep ==
  ASSUME AllServed, NEW r \in Requests,
         \A q \in Requests \ {r} :
            /\ st'[q] = st[q] /\ kind'[q] = kind[q] /\ authorised'[q] = authorised[q]
            /\ size'[q] = size[q] /\ answers'[q] = answers[q] /\ heard'[q] = heard[q]
            /\ did'[q] = did[q],
         Served(r)'
  PROVE  AllServed'
<1> SUFFICES ASSUME NEW q \in Requests PROVE Served(q)'
  BY DEF AllServed
<1>1. CASE q = r
  BY <1>1
<1>2. CASE q # r
  <2>1. Served(q)
    BY DEF AllServed
  <2>2. /\ st'[q] = st[q] /\ kind'[q] = kind[q] /\ authorised'[q] = authorised[q]
        /\ size'[q] = size[q] /\ answers'[q] = answers[q] /\ heard'[q] = heard[q]
        /\ did'[q] = did[q]
    BY <1>2
  <2> QED BY <2>1, <2>2, Zenon DEF Served, Heard, TooLarge
<1> QED BY <1>1, <1>2

\* A request that has not ended is not too large, and nothing was heard of it.
LEMMA NotYet ==
  ASSUME AllServed, NEW r \in Requests, st[r] \in {"new", "body"}
  PROVE  answers[r] = <<>> /\ heard[r] = <<>> /\ did[r] = "" /\ ~TooLarge(r)
<1>1. Served(r)
  BY DEF AllServed
<1>2. st[r] # "left"
  OBVIOUS
<1> QED BY <1>1, <1>2, Zenon DEF Served, Heard

\* The request was answered c, and its client has heard it.
LEMMA AnswerServes ==
  ASSUME HttpTypes, AllServed, NEW r \in Requests, NEW c \in Codes, Http!Answer(r, c),
         st[r] \in {"new", "body"}, st'[r] = "done", size' = size, Tells(c, did'[r], kind'[r]),
         did'[r] # "" => authorised'[r] \/ kind'[r] = "metrics"
  PROVE  /\ Served(r)' /\ answers' \in [Requests -> Seq(Codes)] /\ heard' \in [Requests -> Seq(Codes)]
         /\ \A q \in Requests \ {r} : answers'[q] = answers[q] /\ heard'[q] = heard[q]
<1>1. answers[r] = <<>> /\ heard[r] = <<>> /\ ~TooLarge(r)
  BY NotYet
<1>2. answers'[r] = <<c>> /\ answers' \in [Requests -> Seq(Codes)]
      /\ \A q \in Requests \ {r} : answers'[q] = answers[q]
  BY <1>1, FirstAnswer
<1>3. heard'[r] = <<c>> /\ heard' \in [Requests -> Seq(Codes)]
      /\ \A q \in Requests \ {r} : heard'[q] = heard[q]
  BY <1>1, FirstHeard
<1>4. ~TooLarge(r)' /\ st'[r] \notin {"new", "body", "over", "left"}
  BY <1>1 DEF TooLarge
<1>5. Heard(r)'
  BY <1>2, <1>3, <1>4 DEF Heard
<1> QED BY <1>2, <1>3, <1>4, <1>5, Zenon DEF Served

\* The answer c was written when the connection was gone.
LEMMA LostServes ==
  ASSUME HttpTypes, AllServed, NEW r \in Requests, NEW c \in Codes, Http!Lost(r, c),
         st[r] = "body", UNCHANGED did, Tells(c, "", kind'[r]),
         \/ st'[r] = "over" /\ TooLarge(r)'
         \/ st'[r] = "left"
  PROVE  /\ Served(r)' /\ answers' \in [Requests -> Seq(Codes)]
         /\ \A q \in Requests \ {r} : answers'[q] = answers[q]
<1>1. answers[r] = <<>> /\ heard[r] = <<>> /\ did[r] = ""
  BY NotYet
<1>2. answers'[r] = <<c>> /\ answers' \in [Requests -> Seq(Codes)]
      /\ \A q \in Requests \ {r} : answers'[q] = answers[q]
  BY <1>1, FirstAnswer
<1>3. heard'[r] = <<>> /\ did'[r] = ""
  BY <1>1 DEF Http!Lost
<1>4. Heard(r)' /\ (st'[r] = "over" => TooLarge(r)') /\ st'[r] \notin {"new", "body"}
  BY <1>3 DEF Heard
<1> QED BY <1>2, <1>3, <1>4, Zenon DEF Served

\* What is refused has done nothing.
LEMMA Refusals ==
  ASSUME NEW k
  PROVE  /\ 400 \in Codes /\ Tells(400, "", k)
         /\ 401 \in Codes /\ Tells(401, "", k)
         /\ 404 \in Codes /\ Tells(404, "", k)
         /\ 405 \in Codes /\ Tells(405, "", k)
  BY DEF Codes, Tells

LEMMA ServeStep ==
  ASSUME HttpTypes, AllServed, NEW r \in Requests, NEW k \in Http!Kinds, NEW a \in Apps, NEW shown \in BOOLEAN,
         Http!Serve(r, k, a, shown)
  PROVE  HttpTypes' /\ AllServed'
<1>1. /\ st[r] = "new" /\ answers[r] = <<>> /\ did[r] = ""
      /\ st' = [st EXCEPT ![r] = IF k = "create" /\ shown THEN "body" ELSE "done"]
      /\ kind' = [kind EXCEPT ![r] = k] /\ authorised' = [authorised EXCEPT ![r] = shown]
      /\ size' = size
  BY DEF Http!Serve, AllServed, Served
<1>2. \/ /\ k = "create" /\ shown
         /\ UNCHANGED <<answers, heard, did, requestFaults>>
      \/ /\ ~(k = "create" /\ shown)
         /\ \E c \in Codes, d \in {"", "missing", "failed", "done"} :
               /\ Http!Answer(r, c) /\ did' = [did EXCEPT ![r] = d] /\ Tells(c, d, k)
               /\ d # "" => shown \/ k = "metrics"
         /\ requestFaults' \in {requestFaults, requestFaults + 1}
  <2>1. did = [did EXCEPT ![r] = ""]
    BY <1>1 DEF HttpTypes
  <2> DEFINE Is(c, d) == /\ Http!Answer(r, c) /\ did' = [did EXCEPT ![r] = d] /\ c \in Codes
                         /\ d \in {"", "missing", "failed", "done"} /\ Tells(c, d, k)
                         /\ d # "" => shown \/ k = "metrics"
  <2>2. CASE k = "malformed" /\ Http!Answer(r, 400) /\ UNCHANGED <<did, running, requestFaults>>
    <3>1. 400 \in Codes /\ Tells(400, "", k)
      BY Refusals, Zenon
    <3>2. Http!Answer(r, 400) /\ did' = [did EXCEPT ![r] = ""]
      BY <2>1, <2>2, Zenon
    <3>3. requestFaults' = requestFaults /\ ~(k = "create" /\ shown)
      BY <2>2 DEF Http!NeedsKey
    <3> QED BY <3>1, <3>2, <3>3
  <2>3. CASE Http!NeedsKey(k) /\ ~shown /\ Http!Answer(r, 401) /\ UNCHANGED <<did, running, requestFaults>>
    <3>1. 401 \in Codes /\ Tells(401, "", k)
      BY Refusals, Zenon
    <3>2. Http!Answer(r, 401) /\ did' = [did EXCEPT ![r] = ""]
      BY <2>1, <2>3, Zenon
    <3>3. requestFaults' = requestFaults /\ ~(k = "create" /\ shown)
      BY <2>3 DEF Http!NeedsKey
    <3> QED BY <3>1, <3>2, <3>3
  <2>4. CASE k = "create" /\ shown /\ UNCHANGED <<Http!Told, did, running, requestFaults>>
    BY <2>4 DEF Http!Told
  <2>5. CASE k \in Http!Acts /\ shown /\ Http!Acted(r, a, k)
    <3>1. Is(404, "missing") \/ Is(404, "failed") \/ Is(500, "failed") \/ Is(200, "done")
      BY <2>5 DEF Http!Acted, Http!Did, Tells, Codes
    <3>2. requestFaults' \in {requestFaults, requestFaults + 1} /\ k # "create"
      BY <2>5 DEF Http!Acted, Http!CanFail, Http!Acts
    <3> QED BY <3>1, <3>2
  <2>6. CASE /\ k \in {"list", "metrics"} /\ (shown \/ k = "metrics") /\ UNCHANGED running
             /\ \/ Http!Did(r, "done") /\ Http!Answer(r, 200) /\ UNCHANGED requestFaults
                \/ Http!CanFail /\ Http!Did(r, "failed") /\ Http!Answer(r, 500)
    <3>1. Is(500, "failed") \/ Is(200, "done")
      BY <2>6 DEF Http!Did, Tells, Codes
    <3>2. requestFaults' \in {requestFaults, requestFaults + 1} /\ k # "create"
      BY <2>6 DEF Http!CanFail
    <3> QED BY <3>1, <3>2
  <2>7. CASE k = "wrongMethod" /\ shown /\ Http!Answer(r, 405) /\ UNCHANGED <<did, running, requestFaults>>
    <3>1. 405 \in Codes /\ Tells(405, "", k)
      BY Refusals, Zenon
    <3>2. Http!Answer(r, 405) /\ did' = [did EXCEPT ![r] = ""]
      BY <2>1, <2>7, Zenon
    <3>3. requestFaults' = requestFaults /\ ~(k = "create" /\ shown)
      BY <2>7 DEF Http!NeedsKey
    <3> QED BY <3>1, <3>2, <3>3
  <2>8. CASE k = "unknown" /\ shown /\ Http!Answer(r, 404) /\ UNCHANGED <<did, running, requestFaults>>
    <3>1. 404 \in Codes /\ Tells(404, "", k)
      BY Refusals, Zenon
    <3>2. Http!Answer(r, 404) /\ did' = [did EXCEPT ![r] = ""]
      BY <2>1, <2>8, Zenon
    <3>3. requestFaults' = requestFaults /\ ~(k = "create" /\ shown)
      BY <2>8 DEF Http!NeedsKey
    <3> QED BY <3>1, <3>2, <3>3
  <2> QED BY <2>2, <2>3, <2>4, <2>5, <2>6, <2>7, <2>8, Zenon DEF Http!Serve
<1>3. /\ st' \in [Requests -> States] /\ kind' \in [Requests -> Http!Kinds]
      /\ authorised' \in [Requests -> BOOLEAN]
      /\ \A q \in Requests \ {r} :
            /\ st'[q] = st[q] /\ kind'[q] = kind[q] /\ authorised'[q] = authorised[q]
            /\ size'[q] = size[q]
  BY <1>1 DEF HttpTypes, States
<1>4. kind'[r] = k /\ authorised'[r] = shown
  BY <1>1 DEF HttpTypes
<1>5. CASE /\ k = "create" /\ shown
           /\ UNCHANGED <<answers, heard, did, requestFaults>>
  <2>1. st'[r] = "body"
    BY <1>1, <1>5 DEF HttpTypes
  <2>4. Served(r)
    BY DEF AllServed
  <2>2. Served(r)'
    BY <1>1, <1>4, <1>5, <2>1, <2>4 DEF Served, Heard, TooLarge
  <2>3. AllServed'
    BY <1>3, <1>5, <2>2, RequestStep
  <2> QED BY <1>1, <1>3, <1>5, <2>3 DEF HttpTypes
<1>6. CASE /\ ~(k = "create" /\ shown)
           /\ \E c \in Codes, d \in {"", "missing", "failed", "done"} :
                 /\ Http!Answer(r, c) /\ did' = [did EXCEPT ![r] = d] /\ Tells(c, d, k)
                 /\ d # "" => shown \/ k = "metrics"
           /\ requestFaults' \in {requestFaults, requestFaults + 1}
  <2>1. PICK c \in Codes, d \in {"", "missing", "failed", "done"} :
          /\ Http!Answer(r, c) /\ did' = [did EXCEPT ![r] = d] /\ Tells(c, d, k)
          /\ d # "" => shown \/ k = "metrics"
    BY <1>6
  <2>2. st'[r] = "done"
    BY <1>1, <1>6 DEF HttpTypes
  <2>3. /\ did'[r] = d /\ \A q \in Requests \ {r} : did'[q] = did[q]
        /\ did' \in [Requests -> {"", "missing", "failed", "threw", "done"}]
    BY <2>1 DEF HttpTypes
  <2>4. /\ Served(r)' /\ answers' \in [Requests -> Seq(Codes)] /\ heard' \in [Requests -> Seq(Codes)]
        /\ \A q \in Requests \ {r} : answers'[q] = answers[q] /\ heard'[q] = heard[q]
    BY <1>1, <1>4, <2>1, <2>2, <2>3, AnswerServes
  <2>6. AllServed'
    BY <1>3, <2>3, <2>4, RequestStep
  <2>7. requestFaults' \in Nat
    <3>1. requestFaults' \in {requestFaults, requestFaults + 1}
      BY <1>6, Zenon
    <3> QED BY <3>1, CountsUp
  <2> QED BY <1>1, <1>3, <2>3, <2>4, <2>6, <2>7 DEF HttpTypes
<1> QED BY <1>2, <1>5, <1>6

LEMMA ChunkStep ==
  ASSUME HttpTypes, AllServed, NEW r \in Requests, Http!Chunk(r)
  PROVE  HttpTypes' /\ AllServed'
<1>1. /\ st[r] = "body" /\ size' = [size EXCEPT ![r] = @ + 1]
      /\ UNCHANGED <<kind, authorised, did, requestFaults>>
  BY DEF Http!Chunk
<1>2. Served(r) /\ size[r] \in Nat /\ size[r] <= MaxBody
  <2>1. ~TooLarge(r) /\ Served(r)
    BY <1>1, NotYet, Zenon DEF AllServed
  <2>2. size[r] \in Nat /\ MaxBody \in Nat
    BY ApiAssumption DEF HttpTypes
  <2> QED BY <2>1, <2>2 DEF TooLarge
<1>3. /\ size' \in [Requests -> Nat] /\ size'[r] = size[r] + 1
      /\ \A q \in Requests \ {r} : size'[q] = size[q]
  <2>1. size \in [Requests -> Nat] /\ size' = [size EXCEPT ![r] = @ + 1]
    BY <1>1, Zenon DEF HttpTypes
  <2> QED BY <2>1
<1>4. CASE size[r] # MaxBody /\ UNCHANGED <<st, answers, heard>>
  <2>1. ~TooLarge(r)' /\ ~TooLarge(r)
    BY <1>2, <1>3, <1>4, ApiAssumption DEF TooLarge
  <2>2. Served(r)'
    BY <1>1, <1>2, <1>4, <2>1 DEF Served, Heard
  <2>3. AllServed'
    BY <1>1, <1>3, <1>4, <2>2, RequestStep
  <2> QED BY <1>1, <1>3, <1>4, <2>3 DEF HttpTypes
<1>5. CASE size[r] = MaxBody /\ st' = [st EXCEPT ![r] = "over"] /\ Http!Lost(r, 400)
  <2>1. 400 \in Codes /\ Tells(400, "", kind'[r])
    BY Refusals, Zenon
  <2>2. /\ st' \in [Requests -> States] /\ st'[r] = "over"
        /\ \A q \in Requests \ {r} : st'[q] = st[q]
    BY <1>5 DEF HttpTypes, States
  <2>3. TooLarge(r)'
    BY <1>2, <1>3, <1>5 DEF TooLarge
  <2>4. /\ Served(r)' /\ answers' \in [Requests -> Seq(Codes)]
        /\ \A q \in Requests \ {r} : answers'[q] = answers[q]
    BY <1>1, <1>5, <2>1, <2>2, <2>3, LostServes
  <2>5. heard' = heard
    BY <1>5 DEF Http!Lost
  <2>6. AllServed'
    BY <1>1, <1>3, <2>2, <2>4, <2>5, RequestStep
  <2> QED BY <1>1, <1>3, <2>2, <2>4, <2>5, <2>6 DEF HttpTypes
<1> QED BY <1>4, <1>5 DEF Http!Chunk, Http!Told

\* The body of r ended with the answer c to what was done, d.
Ended(r, c, d) == Http!Answer(r, c) /\ did' = [did EXCEPT ![r] = d] /\ Tells(c, d, kind[r])

LEMMA BodyEndsStep ==
  ASSUME HttpTypes, AllServed, NEW r \in Requests, NEW b \in Http!Bodies, Http!BodyEnds(r, b)
  PROVE  HttpTypes' /\ AllServed'
<1>1. /\ st[r] = "body" /\ answers[r] = <<>> /\ did[r] = "" /\ authorised[r]
      /\ st' = [st EXCEPT ![r] = "done"] /\ UNCHANGED <<kind, authorised, size>>
  BY DEF Http!BodyEnds, AllServed, Served
<1>2. /\ \E c \in Codes, d \in {"", "failed", "threw", "done"} : Ended(r, c, d)
      /\ requestFaults' \in {requestFaults, requestFaults + 1}
  <2>1. did = [did EXCEPT ![r] = ""]
    BY <1>1 DEF HttpTypes
  <2>2. /\ 400 \in Codes /\ Tells(400, "", kind[r]) /\ Tells(400, "threw", kind[r])
        /\ 200 \in Codes /\ Tells(200, "done", kind[r]) /\ 500 \in Codes /\ Tells(500, "failed", kind[r])
    BY DEF Codes, Tells
  <2>3. CASE /\ b \in {"none", "garbage", "noScript", "badEnv"} /\ Http!Answer(r, 400)
             /\ UNCHANGED <<did, Http!World, requestFaults>>
    <3>1. did' = [did EXCEPT ![r] = ""]
      BY <2>1, <2>3, Zenon
    <3>2. Ended(r, 400, "") /\ requestFaults' = requestFaults
      BY <2>2, <2>3, <3>1, Zenon DEF Ended
    <3> QED BY <2>2, <3>2
  <2>4. CASE b = "odd" /\ Http!Did(r, "threw") /\ Http!Answer(r, 400) /\ UNCHANGED <<Http!World, requestFaults>>
    <3>1. Ended(r, 400, "threw") /\ requestFaults' = requestFaults
      BY <2>2, <2>4, Zenon DEF Http!Did, Ended
    <3> QED BY <2>2, <3>1
  <2>5. CASE b = "good" /\ Http!Created(r)
    <3>1. \/ Http!Did(r, "done") /\ Http!Answer(r, 200) /\ UNCHANGED requestFaults
          \/ Http!Did(r, "failed") /\ Http!Answer(r, 500) /\ requestFaults' = requestFaults + 1
      BY <2>5, Zenon DEF Http!Created, Http!CanFail
    <3>2. /\ Ended(r, 200, "done") \/ Ended(r, 500, "failed")
          /\ requestFaults' = requestFaults \/ requestFaults' = requestFaults + 1
      BY <2>2, <3>1, Zenon DEF Http!Did, Ended
    <3> QED BY <2>2, <3>2
  <2> QED BY <2>3, <2>4, <2>5, Zenon DEF Http!BodyEnds
<1>3. PICK c \in Codes, d \in {"", "failed", "threw", "done"} :
        Http!Answer(r, c) /\ did' = [did EXCEPT ![r] = d] /\ Tells(c, d, kind[r])
  BY <1>2, Zenon DEF Ended
<1>4. /\ st' \in [Requests -> States] /\ st'[r] = "done"
      /\ \A q \in Requests \ {r} : st'[q] = st[q]
  BY <1>1 DEF HttpTypes, States
<1>5. /\ did'[r] = d /\ \A q \in Requests \ {r} : did'[q] = did[q]
      /\ did' \in [Requests -> {"", "missing", "failed", "threw", "done"}]
  BY <1>3 DEF HttpTypes
<1>6. /\ Served(r)' /\ answers' \in [Requests -> Seq(Codes)] /\ heard' \in [Requests -> Seq(Codes)]
      /\ \A q \in Requests \ {r} : answers'[q] = answers[q] /\ heard'[q] = heard[q]
  BY <1>1, <1>3, <1>4, <1>5, AnswerServes
<1>8. AllServed'
  BY <1>1, <1>4, <1>5, <1>6, RequestStep
<1>9. requestFaults' \in Nat
  <2>1. requestFaults' \in {requestFaults, requestFaults + 1}
    BY <1>2, Zenon
  <2> QED BY <2>1, CountsUp
<1> QED BY <1>1, <1>4, <1>5, <1>6, <1>8, <1>9 DEF HttpTypes

LEMMA AbortsStep ==
  ASSUME HttpTypes, AllServed, NEW r \in Requests, Http!Aborts(r)
  PROVE  HttpTypes' /\ AllServed'
<1>1. /\ st[r] = "body" /\ UNCHANGED <<kind, authorised, size, did, requestFaults>>
      /\ st' = [st EXCEPT ![r] = "left"] /\ Http!Lost(r, 400)
  BY DEF Http!Aborts
<1>2. /\ st' \in [Requests -> States] /\ st'[r] = "left"
      /\ \A q \in Requests \ {r} : st'[q] = st[q]
  BY <1>1 DEF HttpTypes, States
<1>3. 400 \in Codes /\ Tells(400, "", kind'[r])
  BY Refusals, Zenon
<1>4. /\ Served(r)' /\ answers' \in [Requests -> Seq(Codes)]
      /\ \A q \in Requests \ {r} : answers'[q] = answers[q]
  BY <1>1, <1>2, <1>3, LostServes
<1>5. heard' = heard
  BY <1>1 DEF Http!Lost
<1>6. AllServed'
  BY <1>1, <1>2, <1>4, <1>5, RequestStep
<1> QED BY <1>1, <1>2, <1>4, <1>5, <1>6 DEF HttpTypes

LEMMA ClosesStep ==
  ASSUME HttpTypes, AllServed, NEW r \in Requests, Http!Closes(r)
  PROVE  HttpTypes' /\ AllServed'
<1>1. /\ st[r] = "over" /\ UNCHANGED <<kind, authorised, size, answers, heard, did, requestFaults>>
      /\ st' = [st EXCEPT ![r] = "done"]
  BY DEF Http!Closes, Http!Told
<1>2. /\ st' \in [Requests -> States] /\ st'[r] = "done"
      /\ \A q \in Requests \ {r} : st'[q] = st[q]
  BY <1>1 DEF HttpTypes, States
<1>3. Served(r) /\ TooLarge(r)
  BY <1>1, Zenon DEF AllServed, Served
<1>4. Served(r)'
  BY <1>1, <1>2, <1>3 DEF Served, Heard, TooLarge
<1>5. AllServed'
  BY <1>1, <1>2, <1>4, RequestStep
<1> QED BY <1>1, <1>2, <1>5 DEF HttpTypes

-----------------------------------------------------------------------------
(* The end of the server.                                                  *)

LEMMA DrainedStep ==
  ASSUME HttpTypes, Drained, Http!Next
  PROVE  Drained'
<1>1. ASSUME NEW r \in Requests, Http!Chunk(r) PROVE Drained'
  BY <1>1 DEF Http!Chunk, Drained
<1>2. ASSUME NEW r \in Requests, Http!Aborts(r) PROVE Drained'
  BY <1>2 DEF Http!Aborts, Drained
<1>9. ASSUME NEW r \in Requests, Http!Closes(r) PROVE Drained'
  BY <1>9 DEF Http!Closes, Drained
<1>3. ASSUME NEW r \in Requests, NEW b \in Http!Bodies, Http!BodyEnds(r, b) PROVE Drained'
  BY <1>3 DEF Http!BodyEnds, Drained
<1>4. ASSUME NEW r \in Requests, NEW k \in Http!Kinds, NEW a \in Apps, NEW shown \in BOOLEAN,
             Http!Serve(r, k, a, shown)
      PROVE  Drained'
  <2>1. up' = "up"
    BY <1>4, Zenon DEF Http!Serve
  <2> QED BY <2>1 DEF Drained
<1>5. ASSUME NEW a \in Apps, Http!Others(a) PROVE Drained'
  BY <1>5 DEF Http!Others, Drained, Http!Conn
<1>6. CASE Http!Sigterm
  BY <1>6 DEF Http!Sigterm, Drained
<1>7. CASE Http!Exit
  BY <1>7 DEF Http!Exit, Drained, Http!Open, Http!Conn
<1>8. CASE Http!Killed
  <2>1. requestFaults \in Nat /\ requestFaults' = requestFaults + 1
    BY <1>8 DEF Http!Killed, Http!CanFail, HttpTypes
  <2> QED BY <2>1 DEF Drained
<1> QED BY <1>1, <1>2, <1>3, <1>4, <1>5, <1>6, <1>7, <1>8, <1>9, Zenon DEF Http!Next

-----------------------------------------------------------------------------
(* The theorems.                                                           *)

LEMMA HttpInit == Http!Init => HttpInv
<1> SUFFICES ASSUME Http!Init PROVE HttpInv
  OBVIOUS
<1>1. <<>> \in Seq(Codes)
  OBVIOUS
<1>2. HttpTypes
  BY <1>1 DEF Http!Init, HttpTypes, States, Http!Kinds
<1>3. AllServed
  <2> SUFFICES ASSUME NEW r \in Requests PROVE Served(r)
    BY DEF AllServed
  <2>1. st[r] = "new" /\ answers[r] = <<>> /\ heard[r] = <<>> /\ did[r] = "" /\ size[r] = 0
    BY DEF Http!Init
  <2>2. ~TooLarge(r)
    <3>1. size[r] = 0 /\ MaxBody \in Nat
      BY ApiAssumption DEF Http!Init
    <3> QED BY <3>1 DEF TooLarge
  <2> QED BY <2>1, <2>2 DEF Served, Heard
<1>4. up # "down"
  BY DEF Http!Init
<1> QED BY <1>2, <1>3, <1>4 DEF HttpInv, Drained

\* A step that leaves the connections and their answers alone.
LEMMA FrameStep ==
  ASSUME HttpTypes, AllServed, UNCHANGED <<st, kind, authorised, size, answers, heard, did>>,
         requestFaults' \in {requestFaults, requestFaults + 1}
  PROVE  HttpTypes' /\ AllServed'
<1>1. requestFaults' \in Nat
  BY CountsUp
<1>2. HttpTypes'
  BY <1>1 DEF HttpTypes
<1>3. AllServed'
  <2> SUFFICES ASSUME NEW q \in Requests PROVE Served(q)'
    BY DEF AllServed
  <2>1. Served(q)
    BY DEF AllServed
  <2> QED BY <2>1, Zenon DEF Served, Heard, TooLarge
<1> QED BY <1>2, <1>3

LEMMA HttpInductive == HttpInv /\ [Http!Next]_(Http!vars) => HttpInv'
<1> SUFFICES ASSUME HttpTypes, AllServed, Drained, [Http!Next]_(Http!vars) PROVE HttpInv'
  BY DEF HttpInv
<1>1. CASE UNCHANGED Http!vars
  <2>1. UNCHANGED <<st, kind, authorised, size, answers, heard, did>> /\ requestFaults' = requestFaults /\ up' = up
    BY <1>1 DEF Http!vars, Http!Conn
  <2>2. HttpTypes' /\ AllServed'
    BY <2>1, FrameStep
  <2> QED BY <2>1, <2>2 DEF HttpInv, Drained
<1>2. CASE Http!Next
  <2>1. ASSUME NEW a \in Apps, Http!Others(a) PROVE HttpTypes' /\ AllServed'
    <3>1. UNCHANGED <<st, kind, authorised, size, answers, heard, did>> /\ requestFaults' \in {requestFaults, requestFaults + 1}
      BY <2>1 DEF Http!Others, Http!Conn, Http!Told
    <3> QED BY <3>1, FrameStep
  <2>2. ASSUME Http!Sigterm \/ Http!Exit PROVE HttpTypes' /\ AllServed'
    <3>1. UNCHANGED <<st, kind, authorised, size, answers, heard, did>> /\ requestFaults' \in {requestFaults, requestFaults + 1}
      BY <2>2 DEF Http!Sigterm, Http!Exit, Http!Conn, Http!Told
    <3> QED BY <3>1, FrameStep
  <2>3. ASSUME Http!Killed PROVE HttpTypes' /\ AllServed'
    <3>1. UNCHANGED <<st, kind, authorised, size, answers, heard, did>> /\ requestFaults' \in {requestFaults, requestFaults + 1}
      BY <2>3 DEF Http!Killed, Http!CanFail, Http!Conn, Http!Told
    <3> QED BY <3>1, FrameStep
  <2>4. HttpTypes' /\ AllServed'
    BY <1>2, <2>1, <2>2, <2>3, ServeStep, ChunkStep, BodyEndsStep, AbortsStep, ClosesStep, Zenon
       DEF Http!Next
  <2> QED BY <1>2, <2>4, DrainedStep DEF HttpInv
<1> QED BY <1>1, <1>2

\* The inductive invariant holds of every run.
THEOREM HttpInvariant == Http!Spec => []HttpInv
  BY HttpInit, HttpInductive, PTL DEF Http!Spec

\* No request is answered twice, none has ended without an answer, and its
\* client hears it unless it has gone or its body was over the limit.
THEOREM Answered == Http!Spec => []Http!AnsweredOnce
<1>1. HttpInv => Http!AnsweredOnce
  <2> SUFFICES ASSUME HttpInv, NEW r \in Requests
               PROVE  /\ Len(answers[r]) <= 1
                      /\ st[r] \in {"over", "left", "done"} => answers[r] # <<>>
                      /\ heard[r] = IF size[r] > MaxBody \/ st[r] = "left" THEN <<>> ELSE answers[r]
    BY DEF Http!AnsweredOnce
  <2>1. Served(r) /\ st[r] \in States
    BY DEF HttpInv, AllServed, HttpTypes
  <2>4. heard[r] = IF size[r] > MaxBody \/ st[r] = "left" THEN <<>> ELSE answers[r]
    BY <2>1, Zenon DEF Served, Heard, TooLarge
  <2>2. CASE st[r] \in {"new", "body"}
    <3>1. answers[r] = <<>>
      BY <2>1, <2>2, Zenon DEF Served
    <3> QED BY <2>2, <2>4, <3>1
  <2>3. CASE st[r] \in {"over", "left", "done"}
    <3>1. PICK c \in Codes : answers[r] = <<c>>
      BY <2>1, <2>3, Zenon DEF Served
    <3>2. Len(answers[r]) = 1 /\ answers[r] # <<>>
      BY <3>1
    <3> QED BY <2>4, <3>2
  <2> QED BY <2>1, <2>2, <2>3 DEF States
<1> QED BY <1>1, HttpInvariant, PTL

\* The answer of a request is what happened, and what was refused or cut off has
\* done nothing.
THEOREM AnsweredTruly == Http!Spec => []Http!AnswerIsTrue
<1>1. HttpInv => Http!AnswerIsTrue
  <2> SUFFICES ASSUME HttpInv, NEW r \in Requests, answers[r] # <<>>
               PROVE  LET c == Head(answers[r]) IN
                        /\ c = 200 <=> did[r] = "done"
                        /\ c = 500 => did[r] = "failed"
                        /\ did[r] = "failed" => c = 500 \/ (c = 404 /\ kind[r] \in Http!Acts)
                        /\ did[r] = "missing" => c = 404
                        /\ did[r] # "" => authorised[r] \/ kind[r] = "metrics"
                        /\ did[r] # "" => size[r] <= MaxBody /\ st[r] # "left"
    BY DEF Http!AnswerIsTrue
  <2>1. Served(r) /\ st[r] \in States /\ size[r] \in Nat
    BY DEF HttpInv, AllServed, HttpTypes
  <2>2. st[r] \in {"over", "left", "done"}
    <3>1. st[r] \notin {"new", "body"}
      BY <2>1, Zenon DEF Served
    <3> QED BY <2>1, <3>1 DEF States
  <2>5. PICK c \in Codes : answers[r] = <<c>> /\ Tells(c, did[r], kind[r])
    BY <2>1, <2>2, Zenon DEF Served
  <2>3. Head(answers[r]) = c
    BY <2>5
  <2>4. did[r] # "" => authorised[r] \/ kind[r] = "metrics"
    BY <2>1, Zenon DEF Served
  <2>6. ~TooLarge(r) => size[r] <= MaxBody
    BY <2>1, ApiAssumption DEF TooLarge, ApiAssumption
  <2>7. did[r] # "" => ~TooLarge(r) /\ st[r] # "left"
    BY <2>1, Zenon DEF Served
  <2> QED BY <2>3, <2>4, <2>5, <2>6, <2>7, Zenon DEF Tells
<1> QED BY <1>1, HttpInvariant, PTL

\* A server that has ended without being killed has written an answer for every
\* request it had begun, which its client heard unless it has gone or its body
\* was over the limit.
THEOREM Drains == Http!Spec => []Http!DrainsFirst
<1>1. HttpInv => Http!DrainsFirst
  <2> SUFFICES ASSUME HttpInv, requestFaults = 0, up = "down", NEW r \in Requests, st[r] # "new"
               PROVE  /\ answers[r] # <<>>
                      /\ heard[r] = answers[r] \/ size[r] > MaxBody \/ st[r] = "left"
    BY DEF Http!DrainsFirst
  <2>1. Served(r) /\ st[r] \in {"over", "left", "done"}
    BY DEF HttpInv, AllServed, HttpTypes, Drained, States
  <2>2. PICK c \in Codes : answers[r] = <<c>>
    BY <2>1, Zenon DEF Served
  <2>3. heard[r] = answers[r] \/ size[r] > MaxBody \/ st[r] = "left"
    BY <2>1, Zenon DEF Served, Heard, TooLarge
  <2> QED BY <2>2, <2>3
<1> QED BY <1>1, HttpInvariant, PTL

\* The rest of the types: what is begun names a service, a body that is read on
\* is not too large yet, and only what exists runs.
HttpRest ==
    /\ st \in [Requests -> States]
    /\ app \in [Requests -> Apps \cup {None}] /\ size \in [Requests -> 0..(MaxBody + 1)]
    /\ \A r \in Requests : /\ st[r] # "new" => app[r] \in Apps
                           /\ st[r] \in {"new", "body"} => size[r] <= MaxBody
    /\ running \subseteq exists /\ exists \subseteq Apps
    /\ up \in {"up", "stopping", "down"}
    /\ requestFaults \in 0..RequestFaults /\ user \in 0..MaxUser

LEMMA HttpRestInit == Http!Init => HttpRest
<1> SUFFICES ASSUME Http!Init PROVE HttpRest
  OBVIOUS
<1>1. /\ st = [r \in Requests |-> "new"] /\ app = [r \in Requests |-> None]
      /\ size = [r \in Requests |-> 0] /\ exists \in SUBSET Apps /\ running \in SUBSET exists
      /\ up = "up" /\ requestFaults = 0 /\ user = 0
  BY Zenon DEF Http!Init
<1> QED BY <1>1, ApiAssumption DEF HttpRest, States

LEMMA HttpRestStep ==
  ASSUME HttpRest, [Http!Next]_(Http!vars)
  PROVE  HttpRest'
<1> USE ApiAssumption DEF States
<1>1. ASSUME NEW r \in Requests, NEW k \in Http!Kinds, NEW a \in Apps, NEW shown \in BOOLEAN,
             Http!Serve(r, k, a, shown)
      PROVE  HttpRest'
  <2>1. /\ st[r] = "new" /\ app' = [app EXCEPT ![r] = a] /\ up = "up"
        /\ \E l \in {"body", "done"} : st' = [st EXCEPT ![r] = l]
        /\ UNCHANGED <<size, exists, up, user>>
    BY <1>1, Zenon DEF Http!Serve
  <2>2. /\ requestFaults' = requestFaults \/ Http!CanFail
        /\ running' = running \/ running' = running \ {a} \/ (a \in exists /\ running' = running \cup {a})
    <3>1. CASE Http!Acted(r, a, k)
      BY <3>1, Zenon DEF Http!Acted
    <3>2. CASE ~Http!Acted(r, a, k)
      BY <1>1, <3>2, Zenon DEF Http!Serve
    <3> QED BY <3>1, <3>2
  <2> QED BY <2>1, <2>2 DEF HttpRest, Http!CanFail
<1>2. ASSUME NEW r \in Requests, Http!Chunk(r) PROVE HttpRest'
  BY <1>2 DEF Http!Chunk, Http!World, HttpRest
<1>3. ASSUME NEW r \in Requests, Http!Aborts(r) \/ Http!Closes(r) PROVE HttpRest'
  BY <1>3 DEF Http!Aborts, Http!Closes, Http!World, HttpRest
<1>4. ASSUME NEW r \in Requests, NEW b \in Http!Bodies, Http!BodyEnds(r, b) PROVE HttpRest'
  <2>1. /\ st[r] = "body" /\ st' = [st EXCEPT ![r] = "done"] /\ UNCHANGED <<app, size, up, user>>
        /\ \/ UNCHANGED <<exists, running, requestFaults>>
           \/ Http!Created(r)
    BY <1>4 DEF Http!BodyEnds, Http!World
  <2>2. /\ requestFaults' = requestFaults \/ Http!CanFail
        /\ exists' \in {exists, exists \cup {app[r]}}
        /\ running' = running \/ (running' = running \cup {app[r]} /\ exists' = exists \cup {app[r]})
    BY <2>1 DEF Http!Created, Http!World
  <2> QED BY <2>1, <2>2 DEF HttpRest, Http!CanFail
<1>5. ASSUME NEW a \in Apps, Http!Others(a) PROVE HttpRest'
  BY <1>5 DEF Http!Others, Http!Conn, HttpRest
<1>6. CASE Http!Sigterm \/ Http!Exit \/ Http!Killed
  BY <1>6 DEF Http!Sigterm, Http!Exit, Http!Killed, Http!CanFail, Http!Conn, Http!World, HttpRest
<1>7. CASE UNCHANGED Http!vars
  BY <1>7 DEF Http!vars, Http!Conn, Http!World, HttpRest
<1> QED BY <1>1, <1>2, <1>3, <1>4, <1>5, <1>6, <1>7, Zenon DEF Http!Next

\* For every request one answer is written, with what happened, and its client
\* hears it unless it has gone or its body was over the limit; its parts are of
\* their types, whatever is done to the service meanwhile (RequestsAsAnswered;
\* HttpApi.js).
THEOREM RequestsAnswered == HostSpec => []RequestsAsAnswered
<1>1. [ServiceSteps \/ RequestSteps]_<<vars, requestVars>> => [Http!Next]_(Http!vars)
  BY DEF ServiceSteps, RequestSteps, requestVars, Http!vars, Http!Conn, Http!World
<1>2. HttpRest /\ [Http!Next]_(Http!vars) => HttpRest'
  BY HttpRestStep
<1>3. HttpInv /\ HttpRest => Http!TypeOK
  <2> SUFFICES ASSUME HttpInv, HttpRest PROVE Http!TypeOK
    OBVIOUS
  <2>1. /\ kind \in [Requests -> Http!Kinds] /\ authorised \in [Requests -> BOOLEAN]
        /\ answers \in [Requests -> Seq(Codes)] /\ heard \in [Requests -> Seq(Codes)]
        /\ did \in [Requests -> {"", "missing", "failed", "threw", "done"}]
    BY Zenon DEF HttpInv, HttpTypes
  <2>2. \A r \in Requests : {answers[r], heard[r]} \subseteq Seq({200, 400, 401, 404, 405, 500})
    <3> SUFFICES ASSUME NEW r \in Requests
                 PROVE  answers[r] \in Seq(Codes) /\ heard[r] \in Seq(Codes)
      BY DEF Codes
    <3> QED BY <2>1, Zenon
  <2>3. HttpRest
    OBVIOUS
  <2> QED BY <2>1, <2>2, <2>3, Zenon DEF HttpRest, States, Http!TypeOK
<1> QED BY <1>1, <1>2, <1>3, HttpRestInit, HttpInvariant, Answered, AnsweredTruly, Drains, PTL
        DEF HostSpec, Http!Spec, RequestsAsAnswered
=============================================================================
