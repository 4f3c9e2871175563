----------------------------- MODULE ModuleConf ------------------------------
(***************************************************************************)
(* The configuration of modules, ~/.zm2/module_conf.json:                  *)
(* src/lib/Configuration.js and src/lib/API/Configuration.js.              *)
(*                                                                         *)
(* The file holds an object of modules, each a value or an object of keys. *)
(* A change reads the whole file, edits the copy and writes it back with   *)
(* writeFile, which truncates the file before it fills it; there is no     *)
(* lock.  `zm2 set module:key value` then restarts the module, which gets  *)
(* the configuration as it is in the file at that moment; that the restart *)
(* failed is not reported.                                                 *)
(***************************************************************************)
EXTENDS Integers, Sequences, FiniteSets

CONSTANTS
    Procs,     \* slots in which zm2 processes run
    Modules,   \* module names
    Keys,      \* configuration keys of a module
    Vals,      \* values
    None,      \* no entry, no file, no command
    Torn,      \* a file that does not parse
    Requests,  \* the commands that are run
    MaxOps,    \* bound: commands of one slot
    MaxFaults  \* bound: failed writes and dead processes

VARIABLES
    file,    \* module_conf.json
    env,     \* the configuration each running module was restarted with
    pc,      \* what each process does next
    op,      \* its command, or the last one
    left,    \* the edits of that command not yet done
    buf,     \* the changed copy it is about to write
    answer,  \* how the command ended
    before,  \* ghost: the file when the command began
    alone,   \* ghost: no other command overlapped with it or came after it
    deaf,    \* ghost: the restart of the module failed
    ops, faults

vars == <<file, env, pc, op, left, buf, answer, before, alone, deaf, ops, faults>>
ghosts == <<before, alone, deaf>>

-----------------------------------------------------------------------------
(* The file.                                                               *)

Objects == [Keys -> Vals \cup {None}]
Conf == [Modules -> Vals \cup Objects \cup {None}]
NoKeys == [k \in Keys |-> None]
NoModules == [m \in Modules |-> None]

\* What a key is set in: a level that is missing or no object becomes one.
Level(x) == IF x \in Objects THEN x ELSE NoKeys

\* A level that keeps nothing of what it held.
EditedAfresh(c, e) ==
    IF e.key = None THEN [c EXCEPT ![e.mod] = e.val]
                    ELSE [c EXCEPT ![e.mod] = [NoKeys EXCEPT ![e.key] = e.val]]

\* tmp[key] = value, or delete tmp[key] where the value is None.
Edited(c, e) ==
    IF e.key = None THEN [c EXCEPT ![e.mod] = e.val]
                    ELSE [c EXCEPT ![e.mod] = [Level(@) EXCEPT ![e.key] = e.val]]

Edit == [mod : Modules, key : Keys \cup {None}, val : Vals \cup Objects \cup {None}]

\* A request: set, unset, multiset (several edits), "default" (setSyncIfNotExist
\* at the installation of a module), and "all" (unset all).
Request == [kind : {"set", "unset", "multiset", "default", "all"}, edits : Seq(Edit)]

-----------------------------------------------------------------------------
Init ==
    /\ file \in {None, NoModules}
    /\ env = [m \in Modules |-> NoKeys]
    /\ pc = [p \in Procs |-> "idle"]
    /\ op = [p \in Procs |-> None]
    /\ left = [p \in Procs |-> <<>>]
    /\ buf = [p \in Procs |-> None]
    /\ answer = [p \in Procs |-> "none"]
    /\ before = [p \in Procs |-> None]
    /\ alone = [p \in Procs |-> FALSE]
    /\ deaf = [p \in Procs |-> FALSE]
    /\ ops = [p \in Procs |-> 0]
    /\ faults = 0

Goto(p, l) == pc' = [pc EXCEPT ![p] = l]
Busy(p) == pc[p] # "idle"

\* A new zm2 process looks whether the file is there and goes on to its command.
Begin(p) ==
    /\ ~Busy(p) /\ ops[p] < MaxOps /\ ops' = [ops EXCEPT ![p] = @ + 1]
    /\ \E r \in Requests :
          /\ op' = [op EXCEPT ![p] = r]
          /\ left' = [left EXCEPT ![p] = r.edits]
          /\ Goto(p, IF file = None THEN "create"
                     ELSE IF r.kind = "default" THEN "check" ELSE "read")
    /\ answer' = [answer EXCEPT ![p] = "none"]
    /\ before' = [before EXCEPT ![p] = IF file = None THEN NoModules ELSE file]
    /\ alone' = [q \in Procs |-> q = p /\ \A r \in Procs \ {p} : ~Busy(r)]
    /\ deaf' = [deaf EXCEPT ![p] = FALSE]
    /\ UNCHANGED <<file, env, buf, faults>>

\* The command is over, and its locals with it.
Ends(p, a) ==
    /\ Goto(p, "idle")
    /\ answer' = [answer EXCEPT ![p] = a]
    /\ left' = [left EXCEPT ![p] = <<>>]
    /\ buf' = [buf EXCEPT ![p] = None]

Goes(p, l) == Goto(p, l) /\ UNCHANGED answer

\* initFileStructure: the file was missing a moment ago.
Create(p) ==
    /\ pc[p] = "create"
    /\ file' = NoModules
    /\ Goto(p, IF op[p].kind = "default" THEN "check" ELSE "read")
    /\ UNCHANGED <<env, op, left, buf, answer, ghosts, ops, faults>>

\* The keys of the module's object; a module that is a plain value has none.
Present(c, e) == Level(c[e.mod])[e.key] # None

\* setSyncIfNotExist reads the file by itself, before setSync reads it again;
\* what does not parse is left alone.
Check(p) ==
    /\ pc[p] = "check"
    /\ IF file \in {None, Torn} THEN Ends(p, "error")
       ELSE IF Present(file, Head(left[p])) THEN Ends(p, "ok")
       ELSE Goes(p, "read") /\ UNCHANGED <<left, buf>>
    /\ UNCHANGED <<file, env, op, ghosts, ops, faults>>

\* The edited copy; "all" starts from an empty object.
Copy(p, c) == IF op[p].kind = "all" THEN NoModules ELSE Edited(c, Head(left[p]))

\* A file that does not parse taken for an empty one.
ReadLenient(p) ==
    /\ pc[p] = "read"
    /\ IF file = None THEN Ends(p, "error")
       ELSE /\ buf' = [buf EXCEPT ![p] = Copy(p, IF file = Torn THEN NoModules ELSE file)]
            /\ left' = [left EXCEPT ![p] = IF @ = <<>> THEN @ ELSE Tail(@)]
            /\ Goes(p, "open")
    /\ UNCHANGED <<file, env, op, ghosts, ops, faults>>

\* The read and the edit of the copy.  JSON.parse is not guarded: a file that
\* does not parse ends the process.
Read(p) ==
    /\ pc[p] = "read"
    /\ IF file = None THEN Ends(p, "error")
       ELSE IF file = Torn THEN Ends(p, "crash")
       ELSE /\ buf' = [buf EXCEPT ![p] = Copy(p, file)]
            /\ left' = [left EXCEPT ![p] = IF @ = <<>> THEN @ ELSE Tail(@)]
            /\ Goes(p, "open")
    /\ UNCHANGED <<file, env, op, ghosts, ops, faults>>

\* writeFile opens with O_TRUNC ...
Open(p) ==
    /\ pc[p] = "open"
    /\ file' = Torn
    /\ Goto(p, "fill")
    /\ UNCHANGED <<env, op, left, buf, answer, ghosts, ops, faults>>

\* What follows the last edit: a set of module:key restarts the module.
AfterLast(p) ==
    IF op[p].kind \in {"set", "multiset"} /\ op[p].edits[1].key # None
    THEN Goes(p, "restart") /\ buf' = [buf EXCEPT ![p] = None] /\ UNCHANGED left
    ELSE Ends(p, "ok")

\* ... and then writes; multiset goes on with its next edit.  Where another
\* process has filled the file in between, a shorter text leaves the end of the
\* longer one behind it.
Fill(p) ==
    /\ pc[p] = "fill"
    /\ file' \in IF file = Torn THEN {buf[p]} ELSE {buf[p], Torn}
    /\ IF left[p] # <<>>
       THEN Goes(p, "read") /\ buf' = [buf EXCEPT ![p] = None] /\ UNCHANGED left
       ELSE AfterLast(p)
    /\ UNCHANGED <<env, op, ghosts, ops, faults>>

\* The module is handed what the file holds now; one that does not parse gives
\* no configuration.
Handed(m) == IF file \in {None, Torn} THEN NoKeys ELSE Level(file[m])

\* restart with updateEnv: getModuleConf reads the file again.  Where the restart
\* fails (the module is not registered or its service does not start) the module
\* keeps what it had, and the command still answers success.
Restart(p) ==
    /\ pc[p] = "restart"
    /\ LET m == op[p].edits[1].mod IN
       \/ env' = [env EXCEPT ![m] = Handed(m)] /\ UNCHANGED <<deaf, faults>>
       \/ /\ faults < MaxFaults /\ faults' = faults + 1
          /\ deaf' = [deaf EXCEPT ![p] = TRUE] /\ UNCHANGED env
    /\ Ends(p, "ok")
    /\ UNCHANGED <<file, op, before, alone, ops>>

\* The file cannot be opened, or the write fails after the truncation.
WriteFails(p) ==
    /\ pc[p] \in {"open", "fill"} /\ faults < MaxFaults /\ faults' = faults + 1
    /\ Ends(p, "error")
    /\ UNCHANGED <<file, env, op, ghosts, ops>>

Dies(p) ==
    /\ Busy(p) /\ faults < MaxFaults /\ faults' = faults + 1
    /\ Ends(p, "crash")
    /\ UNCHANGED <<file, env, op, ghosts, ops>>

Step(p) == Create(p) \/ Check(p) \/ Read(p) \/ Open(p) \/ Fill(p) \/ Restart(p)
Next == \E p \in Procs : Begin(p) \/ Step(p) \/ WriteFails(p) \/ Dies(p)
Spec == Init /\ [][Next]_vars
-----------------------------------------------------------------------------
(* Properties.                                                             *)

TypeOK ==
    /\ file \in Conf \cup {None, Torn}
    /\ env \in [Modules -> Objects]
    /\ pc \in [Procs -> {"idle", "create", "check", "read", "open", "fill", "restart"}]
    /\ op \in [Procs -> Requests \cup {None}]
    /\ left \in [Procs -> Seq(Edit)]
    /\ buf \in [Procs -> Conf \cup {None}]
    /\ answer \in [Procs -> {"none", "ok", "error", "crash"}]
    /\ before \in [Procs -> Conf \cup {None, Torn}]
    /\ alone \in [Procs -> BOOLEAN] /\ deaf \in [Procs -> BOOLEAN]
    /\ ops \in [Procs -> 0..MaxOps] /\ faults \in 0..MaxFaults

Done(p, kinds) == answer[p] = "ok" /\ alone[p] /\ op[p].kind \in kinds

\* A set that reports success is in the file, and no other module and no other
\* key of an object has changed with it (Configuration.set edits a copy of the
\* whole file).
SetIsStored ==
    \A p \in Procs : Done(p, {"set"}) => LET e == op[p].edits[1] IN
        /\ file \in Conf
        /\ IF e.key = None THEN file[e.mod] = e.val
           ELSE /\ file[e.mod] \in Objects /\ file[e.mod][e.key] = e.val
                /\ before[p][e.mod] \in Objects =>
                      \A k \in Keys \ {e.key} : file[e.mod][k] = before[p][e.mod][k]
        /\ \A m \in Modules \ {e.mod} : file[m] = before[p][m]

\* An unset that reports success has removed its key and nothing of another
\* module, "all" has removed everything (Configuration.unset).
UnsetIsGone ==
    \A p \in Procs :
        /\ Done(p, {"all"}) => file = NoModules
        /\ Done(p, {"unset"}) => LET e == op[p].edits[1] IN
              /\ IF e.key = None THEN file[e.mod] = None
                                 ELSE file[e.mod] \in Objects /\ file[e.mod][e.key] = None
              /\ \A m \in Modules \ {e.mod} : file[m] = before[p][m]

\* The default of an installed module never replaces what was configured
\* (setSyncIfNotExist).
DefaultsYield ==
    \A p \in Procs : Done(p, {"default"}) => LET e == op[p].edits[1] IN
        before[p] \in Conf /\ Level(before[p][e.mod])[e.key] # None => file = before[p]

\* After "zm2 set module:key value" the module runs with what is in the file,
\* if it could be restarted (CLI.set restarts it after the write, getModuleConf
\* reads the file again).  A restart that failed is not told from one that did
\* not: the answer is success and the module keeps its old configuration.
ModuleSeesSetting ==
    \A p \in Procs : Done(p, {"set"}) /\ op[p].edits[1].key # None /\ ~deaf[p] =>
        LET e == op[p].edits[1] IN env[e.mod] = file[e.mod] /\ env[e.mod][e.key] = e.val

NoWriter == \A p \in Procs : pc[p] \notin {"create", "open", "fill"}

\* A file that a death, a failed write or two writers left in pieces stays as it
\* is: no later command replaces what may still be saved by hand with a
\* configuration made from nothing (JSON.parse is not guarded where the file is
\* changed, initFileStructure creates only a missing file).
KeepsTorn == file = Torn /\ NoWriter => file' = Torn /\ NoWriter'

=============================================================================
