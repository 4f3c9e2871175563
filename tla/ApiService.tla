----------------------------- MODULE ApiService -----------------------------
(***************************************************************************)
(* The systemd service of the HTTP API (API.api; HttpApi.js loadOrCreate-  *)
(* ApiKey, generateUnitFile; HttpApiServer.js): zm2 api start, stop,       *)
(* restart, status and remove by several processes, and the server they    *)
(* manage, which shares nothing with them but the unit file, the store and *)
(* the key file.  Whoever finds no key file makes a key of its own.        *)
(***************************************************************************)
EXTENDS Naturals

CONSTANTS
    Procs,       \* zm2 processes
    Server,      \* the process of the service
    Ports,       \* ports a user asks for
    MaxOps, MaxFaults,
    None, Empty  \* no file, no key; a key file with nothing in it yet

ASSUME ApiServiceAssumption ==
    /\ Server \notin Procs /\ None \notin Ports
    /\ None \notin Nat /\ Empty \notin Nat
    /\ MaxOps \in Nat /\ MaxFaults \in Nat

Actors == Procs \cup {Server}
Subcommands == {"start", "stop", "restart", "status", "remove"}

VARIABLES
    unit,        \* the port of the unit file, None without one
    legacy,      \* is there a template zm2-api@.service
    entry,       \* is zm2-api in the store
    keyFile,     \* None, Empty or a key
    key,         \* actor -> the key it printed or serves, None if none
    keys,        \* number of keys made
    port,        \* the port of the server
    pc,          \* actor -> its step; of the server also "off", "failed", "serving"
    cmd,         \* process -> its subcommand and port
    res,         \* process -> "", "ok" or "failed"
    overlapped,  \* ghost: did two commands ever run at once
    ops, faults

vars == <<unit, legacy, entry, keyFile, key, keys, port, pc, cmd, res, overlapped, ops, faults>>
Files == <<unit, legacy, entry, keyFile, keys>>
Ghosts == <<overlapped, ops>>

Init ==
    /\ unit = None /\ entry = FALSE /\ legacy \in BOOLEAN
    /\ keyFile = None /\ keys = 0
    /\ key = [a \in Actors |-> None] /\ port = None
    /\ pc = [a \in Actors |-> IF a = Server THEN "off" ELSE "idle"]
    /\ cmd = [p \in Procs |-> [sub |-> "status", port |-> None]]
    /\ res = [p \in Procs |-> ""]
    /\ overlapped = FALSE /\ ops = 0 /\ faults = 0

Active == pc[Server] \in {"key", "create", "fill", "serving"}
CanFail == faults < MaxFaults /\ faults' = faults + 1

Goto(p, l) == pc' = [pc EXCEPT ![p] = l]
End(p, r) == Goto(p, "idle") /\ res' = [res EXCEPT ![p] = r]
Fails(p) == CanFail /\ End(p, "failed") /\ UNCHANGED <<Files, key, port>>
\* The server starts, and p goes on at l, ended with r if l is "idle".
Launch(p, l, r) ==
    /\ pc' = [pc EXCEPT ![p] = l, ![Server] = "key"]
    /\ port' = unit /\ key' = [key EXCEPT ![Server] = None]
    /\ res' = [res EXCEPT ![p] = r]

Begin(p, s, n) ==
    /\ pc[p] = "idle" /\ ops < MaxOps /\ ops' = ops + 1
    /\ cmd' = [cmd EXCEPT ![p] = [sub |-> s, port |-> n]]
    /\ overlapped' = (overlapped \/ \E q \in Procs \ {p} : pc[q] # "idle")
    /\ key' = [key EXCEPT ![p] = None]
    /\ IF legacy /\ s \in {"start", "restart"}
       THEN End(p, "failed")
       ELSE Goto(p, "look") /\ res' = [res EXCEPT ![p] = ""]
    /\ UNCHANGED <<Files, port, faults>>

Look(p) ==
    /\ pc[p] = "look"
    /\ \/ /\ cmd[p].sub = "start"
          /\ \/ Goto(p, IF unit # None /\ Active THEN "key" ELSE "install") /\ UNCHANGED faults
             \/ unit # None /\ Goto(p, "install") /\ CanFail    \* no status: install again
          /\ UNCHANGED res
       \/ /\ cmd[p].sub # "start" /\ unit = None
          /\ End(p, "ok") /\ UNCHANGED faults
       \/ /\ cmd[p].sub \in {"stop", "restart", "remove"} /\ unit # None
          /\ Goto(p, cmd[p].sub) /\ UNCHANGED <<res, faults>>
       \/ /\ cmd[p].sub = "status" /\ unit # None
          /\ \/ Active /\ Goto(p, "key") /\ UNCHANGED <<res, faults>>
             \/ ~Active /\ End(p, "ok") /\ UNCHANGED faults
             \/ CanFail /\ End(p, "failed")
    /\ UNCHANGED <<Files, key, port, cmd, Ghosts>>

\* daemon-reload may fail after the unit file was written.
Install(p) ==
    /\ pc[p] = "install"
    /\ unit' = cmd[p].port
    /\ \/ Goto(p, "launch") /\ UNCHANGED <<res, faults>>
       \/ CanFail /\ End(p, "failed")
    /\ UNCHANGED <<legacy, entry, keyFile, keys, key, port, cmd, Ghosts>>

StartUnit(p) ==
    /\ pc[p] = "launch"
    /\ \/ unit # None /\ ~Active /\ Launch(p, "register", "") /\ UNCHANGED <<Files, faults>>
       \/ unit # None /\ Active /\ Goto(p, "register") /\ UNCHANGED <<Files, key, port, res, faults>>
       \/ unit = None /\ End(p, "failed") /\ UNCHANGED <<Files, key, port, faults>>
       \/ Fails(p)
    /\ UNCHANGED <<cmd, Ghosts>>

Register(p) ==
    /\ pc[p] = "register"
    /\ \/ entry' = TRUE /\ Goto(p, "key")
          /\ UNCHANGED <<unit, legacy, keyFile, keys, key, port, res, faults>>
       \/ Fails(p)
    /\ UNCHANGED <<cmd, Ghosts>>

Stop(p) ==
    /\ pc[p] = "stop"
    /\ \/ /\ unit # None
          /\ pc' = [pc EXCEPT ![p] = "idle", ![Server] = "off"]
          /\ key' = [key EXCEPT ![Server] = None]
          /\ res' = [res EXCEPT ![p] = "ok"] /\ UNCHANGED <<Files, port, faults>>
       \/ unit = None /\ End(p, "failed") /\ UNCHANGED <<Files, key, port, faults>>
       \/ Fails(p)
    /\ UNCHANGED <<cmd, Ghosts>>

Restart(p) ==
    /\ pc[p] = "restart"
    /\ \/ unit # None /\ Launch(p, "idle", "ok") /\ UNCHANGED <<Files, faults>>
       \/ unit = None /\ End(p, "failed") /\ UNCHANGED <<Files, key, port, faults>>
       \/ Fails(p)
    /\ UNCHANGED <<cmd, Ghosts>>

\* Mutant: a unit that does not stop is removed all the same.
RemoveStopBlind(p) ==
    /\ pc[p] = "remove"
    /\ \/ /\ pc' = [pc EXCEPT ![p] = "delete", ![Server] = "off"]
          /\ key' = [key EXCEPT ![Server] = None] /\ UNCHANGED faults
       \/ CanFail /\ Goto(p, "delete") /\ UNCHANGED key
    /\ UNCHANGED <<Files, port, res, cmd, Ghosts>>
\* removeUnit: stop, disable and only then delete.
RemoveStop(p) ==
    /\ pc[p] = "remove"
    /\ \/ /\ unit # None
          /\ pc' = [pc EXCEPT ![p] = "delete", ![Server] = "off"]
          /\ key' = [key EXCEPT ![Server] = None] /\ UNCHANGED <<Files, port, res, faults>>
       \/ unit = None /\ End(p, "failed") /\ UNCHANGED <<Files, key, port, faults>>
       \/ Fails(p)
    /\ UNCHANGED <<cmd, Ghosts>>

RemoveFiles(p) ==
    /\ pc[p] = "delete"
    /\ \/ unit # None /\ unit' = None /\ Goto(p, "unregister")
          /\ UNCHANGED <<legacy, entry, keyFile, keys, key, port, res, faults>>
       \/ unit = None /\ End(p, "failed") /\ UNCHANGED <<Files, key, port, faults>>
       \/ Fails(p)
    /\ UNCHANGED <<cmd, Ghosts>>

\* daemon-reload and the store: either may fail, and the entry stays.
Unregister(p) ==
    /\ pc[p] = "unregister"
    /\ \/ entry' = FALSE /\ End(p, "ok") /\ UNCHANGED <<unit, legacy, keyFile, keys, key, port, faults>>
       \/ Fails(p)
    /\ UNCHANGED <<cmd, Ghosts>>

-----------------------------------------------------------------------------
\* loadOrCreateApiKey, by a command that prints the key or by the server.
HasKey(a, k) ==
    /\ key' = [key EXCEPT ![a] = k]
    /\ IF a = Server THEN Goto(a, "serving") /\ UNCHANGED res ELSE End(a, "ok")

KeyReadAnew(a) ==    \* mutant: the server makes a new key each time it starts
    /\ pc[a] = "key"
    /\ IF keyFile # None /\ a # Server
       THEN HasKey(a, keyFile)
       ELSE Goto(a, "create") /\ UNCHANGED <<key, res>>
    /\ UNCHANGED <<Files, port, cmd, Ghosts, faults>>
KeyRead(a) ==
    /\ pc[a] = "key"
    /\ IF keyFile # None
       THEN HasKey(a, keyFile)
       ELSE Goto(a, "create") /\ UNCHANGED <<key, res>>
    /\ UNCHANGED <<Files, port, cmd, Ghosts, faults>>

\* The file is created or emptied, then filled.
KeyCreate(a) ==
    /\ pc[a] = "create" /\ Goto(a, "fill")
    /\ keyFile' = Empty
    /\ UNCHANGED <<unit, legacy, entry, key, keys, port, res, cmd, Ghosts, faults>>

KeyFill(a) ==
    /\ pc[a] = "fill"
    /\ keys' = keys + 1 /\ keyFile' = keys + 1
    /\ HasKey(a, keys + 1)
    /\ UNCHANGED <<unit, legacy, entry, port, cmd, Ghosts, faults>>

\* What cannot be written ends the command or the server; so does death.
Dies(a) ==
    /\ CanFail
    /\ \/ a = Server /\ Active /\ Goto(a, "failed") /\ UNCHANGED res
       \/ a # Server /\ pc[a] # "idle" /\ End(a, "failed")
    /\ key' = [key EXCEPT ![a] = None]
    /\ UNCHANGED <<Files, port, cmd, Ghosts>>

ServerRestartsNever ==    \* mutant: a unit without Restart=on-failure
    /\ pc[Server] = "failed" /\ unit = None /\ Goto(Server, "off")
    /\ UNCHANGED <<Files, key, port, res, cmd, Ghosts, faults>>
\* Restart=on-failure.
ServerRestarts ==
    /\ pc[Server] = "failed"
    /\ IF unit # None
       THEN Goto(Server, "key") /\ port' = unit
       ELSE Goto(Server, "off") /\ UNCHANGED port
    /\ UNCHANGED <<Files, key, res, cmd, Ghosts, faults>>

LoadKey(a) == KeyRead(a) \/ KeyCreate(a) \/ KeyFill(a)
Step(p) ==
    \/ Look(p) \/ Install(p) \/ StartUnit(p) \/ Register(p) \/ Stop(p) \/ Restart(p)
    \/ RemoveStop(p) \/ RemoveFiles(p) \/ Unregister(p) \/ LoadKey(p)
Next ==
    \/ \E p \in Procs : Step(p) \/ \E s \in Subcommands, n \in Ports : Begin(p, s, n)
    \/ \E a \in Actors : Dies(a)
    \/ LoadKey(Server) \/ ServerRestarts
Spec ==
    /\ Init /\ [][Next]_vars
    /\ WF_vars(LoadKey(Server)) /\ WF_vars(ServerRestarts) /\ \A p \in Procs : WF_vars(Step(p))

-----------------------------------------------------------------------------
KeyType == {None, Empty} \cup Nat
ServerSteps == {"off", "failed", "key", "create", "fill", "serving"}
CommandSteps ==
    {"idle", "look", "install", "launch", "register", "stop", "restart", "remove",
     "delete", "unregister", "key", "create", "fill"}
TypeOK ==
    /\ unit \in Ports \cup {None} /\ port \in Ports \cup {None}
    /\ legacy \in BOOLEAN /\ entry \in BOOLEAN
    /\ keyFile \in KeyType /\ key \in [Actors -> KeyType] /\ keys \in Nat
    /\ pc \in [Actors -> ServerSteps \cup CommandSteps]
    /\ pc[Server] \in ServerSteps /\ \A p \in Procs : pc[p] \in CommandSteps
    /\ cmd \in [Procs -> [sub : Subcommands, port : Ports \cup {None}]]
    /\ res \in [Procs -> {"", "ok", "failed"}]
    /\ overlapped \in BOOLEAN /\ ops \in 0..MaxOps /\ faults \in 0..MaxFaults

Quiet == \A p \in Procs : pc[p] = "idle"

\* A server that runs has its unit file, without which neither stop nor
\* remove would touch it (they look for the file first): remove deletes the
\* file only of a service it has stopped, whatever failed or died before.
\* Two commands at once do break this.
ServerHasUnit == ~overlapped /\ Active => unit # None

\* The store lists the API exactly when it is installed: as long as nothing
\* failed, which leaves one without the other, and no two commands overlap.
ListedAsInstalled == Quiet /\ ~overlapped /\ faults = 0 => (entry <=> unit # None)

\* A server that runs can be stopped and removed, and the store lists it as
\* long as nothing failed.
ManagedService == TypeOK /\ ServerHasUnit /\ ListedAsInstalled

\* A whole key that nobody is about to replace stays the key, and nobody sets
\* out to replace it: no start, restart or removal makes the keys in use
\* invalid.
Settled == keyFile \in Nat /\ \A a \in Actors : pc[a] \notin {"create", "fill"}
KeyStays == [][Settled => Settled' /\ keyFile' = keyFile]_vars

\* An API that was started comes up, whatever made it fail before, unless it
\* is stopped (Restart=on-failure).
ApiComesUp == pc[Server] \in {"key", "create", "fill", "failed"} ~> pc[Server] \in {"serving", "off"}

-----------------------------------------------------------------------------
(* What is said of the program and does not hold.                          *)

\* "The API key ... is printed on zm2 api and zm2 api status": what they
\* print is what the server asks for, whoever made it.
PrintedKeyIsServed ==
    \A p \in Procs : faults = 0 /\ key[p] # None /\ key[Server] # None => key[p] = key[Server]

\* "override with --port": a start that succeeds leaves the API on the port
\* it was given.
PortIsTaken ==
    \A p \in Procs :
        Quiet /\ res[p] = "ok" /\ cmd[p].sub = "start" /\ faults = 0 /\ Active => port = cmd[p].port
=============================================================================
