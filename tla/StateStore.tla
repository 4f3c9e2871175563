----------------------------- MODULE StateStore -----------------------------
(***************************************************************************)
(* The metadata store of ZM2: src/lib/Systemd/StateStore.js.               *)
(*                                                                         *)
(* Every zm2 command, and the zm2-api server, is a process of its own that *)
(* opens ~/.zm2/state.json.  The file maps a systemd service name to its   *)
(* metadata (pm_id and the rest) and carries the counter the next pm_id is *)
(* taken from.  Reads take no lock.  Every change takes state.json.lock    *)
(* (open with O_EXCL), reads the file again, changes the copy, writes a    *)
(* temporary file, renames it over state.json and unlinks the lock.        *)
(*                                                                         *)
(* One action is one system call that another process can observe, with    *)
(* the local computation around it.  A process may die between any two of  *)
(* them, a system call may fail, and the lock of a dead process stays      *)
(* until the operator removes it, as the timeout message tells him to.     *)
(***************************************************************************)
EXTENDS Integers, FiniteSetsExt

CONSTANTS
    Procs,      \* slots in which zm2 processes run, one at a time in each
    Services,   \* systemd unit names
    Values,     \* all of a service's metadata but its pm_id, timestamps included
    Pins,       \* the pm_ids a caller of register may ask for (zm2-api asks for 0)
    None,       \* no metadata, no pinned id, nothing loaded
    Kinds,      \* the operations the processes perform
    InitFiles,  \* the state files a first process may find
    Retries,    \* lock attempts that fit in lockTimeoutMs
    MaxOps,     \* bound: operations started in one slot
    MaxFaults   \* bound: crashes, failed system calls and operator actions

VARIABLES
    file,     \* what state.json holds
    lock,     \* state.json.lock: Free, the slot that created it, or Orphan
    pc,       \* where each process is inside _withLock
    op,       \* the operation each process is performing
    tries,    \* failed lock attempts of the current operation
    mem,      \* the changed copy a lock holder is about to rename into place
    data,     \* this.data of each StateStore instance
    base,     \* this._baseRaw / _baseExists / _baseCorrupt: the file data came from
    result,   \* how the last operation of each process ended
    ops,      \* operations started in each slot
    faults    \* faults so far

vars == <<file, lock, pc, op, tries, mem, data, base, result, ops, faults>>
local == <<mem, data, base>>

-----------------------------------------------------------------------------
(* Data.                                                                   *)

Free == "free"
Orphan == "orphan"

Meta == [pm_id : Nat, val : Values]
State == [services : [Services -> Meta \cup {None}], next_id : Nat]
File == [kind : {"absent", "valid", "corrupt"},
         services : [Services -> Meta \cup {None}], next_id : Nat]

NoServices == [s \in Services |-> None]

\* defaultState()
DefaultState == [services |-> NoServices, next_id |-> 1]

\* An unreadable or malformed file; a lenient reader takes it for the default.
Unreadable == [kind |-> "corrupt", services |-> NoServices, next_id |-> 1]
Absent == [Unreadable EXCEPT !.kind = "absent"]

Content(f) == [services |-> f.services, next_id |-> f.next_id]
Committed(st) ==
    [kind |-> "valid", services |-> st.services, next_id |-> st.next_id]

Registered(st) == {s \in Services : st.services[s] # None}
Ids(st) == {st.services[s].pm_id : s \in Registered(st)}

UniqueIds(st) ==
    \A s, t \in Registered(st) :
        st.services[s].pm_id = st.services[t].pm_id => s = t

\* The id is taken by a service other than s.
Taken(st, s, id) == \E t \in Registered(st) \ {s} : st.services[t].pm_id = id

\* normalizeLoadedState: never hand out an id already present.
Normalize(st) ==
    IF \E id \in Ids(st) : id >= st.next_id
    THEN [st EXCEPT !.next_id = Max(Ids(st)) + 1]
    ELSE st

-----------------------------------------------------------------------------
(* The mutations, as functions of the state read under the lock.           *)

Request == [kind : {"register"}, svc : Services, val : Values, pin : Pins \cup {None}]
           \cup [kind : {"unregister"}, svc : Services]
           \cup [kind : {"clear", "save"}]
Op == Request \cup [kind : {"replace"}, svc : Services, meta : Meta]

\* replace() writes metadata its caller read with get() some time before.
ReplaceRequests(p) ==
    IF "replace" \in Kinds /\ data[p] # None
    THEN {[kind |-> "replace", svc |-> s,
           meta |-> [data[p].services[s] EXCEPT !.val = v]] :
             s \in Registered(data[p]), v \in Values}
    ELSE {}

\* Ids that count the services and so come back after an unregister.
NewIdCounted(o, st) ==
    IF o.pin = None THEN Cardinality(Registered(st)) + 1 ELSE o.pin

NewId(o, st) == IF o.pin = None THEN st.next_id ELSE o.pin

\* register without the check of a pinned id against the other services.
AcceptedUnchecked(o, st) ==
    o.kind = "replace" => o.svc \in Registered(st)

\* The mutation does not throw.
Accepted(o, st) ==
    CASE o.kind = "register" ->
             o.svc \in Registered(st) \/ ~Taken(st, o.svc, NewId(o, st))
      [] o.kind = "replace" ->
             o.svc \in Registered(st) /\ ~Taken(st, o.svc, o.meta.pm_id)
      [] OTHER -> TRUE

\* A service registered again gets whatever id its caller passed, if any.
RegistrationMerged(o, st) ==
    [services |-> [st.services EXCEPT ![o.svc] = [pm_id |-> o.pin, val |-> o.val]],
     next_id |-> st.next_id]

Registration(o, st) ==
    IF o.svc \in Registered(st)
    THEN [st EXCEPT !.services[o.svc].val = o.val]
    ELSE [services |-> [st.services EXCEPT
                          ![o.svc] = [pm_id |-> NewId(o, st), val |-> o.val]],
          next_id |-> IF o.pin = None THEN st.next_id + 1 ELSE st.next_id]

\* What the mutation makes of the state.
Mutated(o, st) ==
    CASE o.kind = "register" -> Registration(o, st)
      [] o.kind = "replace" -> [st EXCEPT !.services[o.svc] = o.meta]
      [] o.kind = "unregister" -> [st EXCEPT !.services[o.svc] = None]
      [] o.kind = "clear" -> DefaultState

\* Every file a first process finds was written by a store that kept ids
\* unique; its counter may be behind.  The bounds are numbers, and the names
\* that stand for nothing are no values of the program.
ASSUME StoreAssumption ==
    /\ IsFiniteSet(Services)
    /\ Pins \subseteq Nat
    /\ Retries \in Nat /\ MaxOps \in Nat /\ MaxFaults \in Nat
    /\ {Free, Orphan} \cap Procs = {}
    /\ None \notin Meta /\ None \notin State /\ None \notin Op /\ None \notin Nat
    /\ \A f \in InitFiles : f \in File /\ UniqueIds(Content(f))

-----------------------------------------------------------------------------
Init ==
    /\ file \in InitFiles
    /\ lock = Free
    /\ pc = [p \in Procs |-> "idle"]
    /\ op = [p \in Procs |-> None]
    /\ tries = [p \in Procs |-> 0]
    /\ mem = [p \in Procs |-> None]
    /\ data = [p \in Procs |-> None]
    /\ base = [p \in Procs |-> Absent]
    /\ result = [p \in Procs |-> "none"]
    /\ ops = [p \in Procs |-> 0]
    /\ faults = 0

\* A system call fails, a process dies or the operator steps in.
Fault == faults < MaxFaults /\ faults' = faults + 1

Goto(p, there) == pc' = [pc EXCEPT ![p] = there]

\* The operation ends before the lock is taken, or with it released.
Finish(p, r) ==
    /\ Goto(p, "idle")
    /\ op' = [op EXCEPT ![p] = None]
    /\ result' = [result EXCEPT ![p] = r]

Loaded(p, seen) ==
    /\ data' = [data EXCEPT ![p] = Normalize(Content(seen))]
    /\ base' = [base EXCEPT ![p] = seen]

\* load(): lenient, a failed read looks like an unreadable file.
Read(p) ==
    \/ Loaded(p, file) /\ UNCHANGED faults
    \/ Loaded(p, Unreadable) /\ Fault

-----------------------------------------------------------------------------
(* Reading.                                                                *)

\* get, getByName, getByPmId, getAll, count and load: one unlocked read.
Load(p) ==
    /\ pc[p] = "idle" /\ "load" \in Kinds
    /\ Read(p)
    /\ ops[p] < MaxOps /\ ops' = [ops EXCEPT ![p] = @ + 1]
    /\ UNCHANGED <<file, lock, pc, op, tries, mem, result>>

\* A caller of save() first changes this.data.
Edit(p) ==
    /\ pc[p] = "idle" /\ "save" \in Kinds /\ data[p] # None
    /\ \E s \in Registered(data[p]), v \in Values :
           data' = [data EXCEPT ![p].services[s].val = v]
    /\ ops[p] < MaxOps /\ ops' = [ops EXCEPT ![p] = @ + 1]
    /\ UNCHANGED <<file, lock, pc, op, tries, mem, base, result, faults>>

-----------------------------------------------------------------------------
(* _acquireLock.                                                           *)

Begin(p) ==
    /\ pc[p] = "idle"
    /\ \E o \in {r \in Request : r.kind \in Kinds} \cup ReplaceRequests(p) :
          /\ op' = [op EXCEPT ![p] = o]
          /\ \/ o.kind = "save" /\ data[p] = None /\ Read(p)
             \/ ~(o.kind = "save" /\ data[p] = None)
                /\ UNCHANGED <<data, base, faults>>
    /\ Goto(p, "acquire")
    /\ tries' = [tries EXCEPT ![p] = 0]
    /\ result' = [result EXCEPT ![p] = "none"]
    /\ ops[p] < MaxOps /\ ops' = [ops EXCEPT ![p] = @ + 1]
    /\ UNCHANGED <<file, lock, mem>>

\* A lock that is too old is taken over.
AcquireStale(p) ==
    /\ pc[p] = "acquire"
    /\ lock = Free \/ tries[p] = Retries
    /\ lock' = p
    /\ Goto(p, "created")
    /\ UNCHANGED <<file, op, tries, local, result, ops, faults>>

\* openSync(lockPath, 'wx') succeeds.
Acquire(p) ==
    /\ pc[p] = "acquire"
    /\ lock = Free
    /\ lock' = p
    /\ Goto(p, "created")
    /\ UNCHANGED <<file, op, tries, local, result, ops, faults>>

\* A loop that forgets how long it has waited.
RetryForever(p) ==
    /\ pc[p] = "acquire"
    /\ lock # Free
    /\ UNCHANGED vars

\* EEXIST before the timeout: sleep and try again.
Retry(p) ==
    /\ pc[p] = "acquire"
    /\ lock # Free /\ tries[p] < Retries
    /\ tries' = [tries EXCEPT ![p] = @ + 1]
    /\ UNCHANGED <<file, lock, pc, op, local, result, ops, faults>>

\* A lock removed on the way out by one who never had it.
TimeoutUnlocks(p) ==
    /\ pc[p] = "acquire"
    /\ lock # Free /\ tries[p] = Retries
    /\ lock' = Free
    /\ Finish(p, "error")
    /\ UNCHANGED <<file, tries, local, ops, faults>>

\* EEXIST once lockTimeoutMs has passed.
Timeout(p) ==
    /\ pc[p] = "acquire"
    /\ lock # Free /\ tries[p] = Retries
    /\ Finish(p, "error")
    /\ UNCHANGED <<file, lock, tries, local, ops, faults>>

\* Any other error of openSync.
CreateFails(p) ==
    /\ pc[p] = "acquire"
    /\ Fault
    /\ Finish(p, "error")
    /\ UNCHANGED <<file, lock, tries, local, ops>>

\* The pid is written into the new lock.
InitLock(p) ==
    /\ pc[p] = "created"
    /\ Goto(p, "locked")
    /\ UNCHANGED <<file, lock, op, tries, local, result, ops, faults>>

\* Writing the pid fails: the lock is unlinked again, if that works.
InitLockFails(p) ==
    /\ pc[p] = "created"
    /\ Fault
    /\ lock' \in {Free, Orphan}
    /\ Finish(p, "error")
    /\ UNCHANGED <<file, tries, local, ops>>

-----------------------------------------------------------------------------
(* The operation, under the lock.                                          *)

\* The file read now, and the state to commit in its place: _mutate reapplies
\* its mutation to what it reads, save insists on finding what it loaded.
Staged(p) ==
    IF op[p].kind = "save"
    THEN [ok |-> base[p].kind # "corrupt" /\ base[p] = file, state |-> data[p]]
    ELSE LET st == Normalize(Content(file)) IN
         [ok |-> Accepted(op[p], st), state |-> Mutated(op[p], st)]

\* A mutation that reads as leniently as load does.
StageLenient(p) ==
    /\ pc[p] = "locked"
    /\ Staged(p).ok
    /\ mem' = [mem EXCEPT ![p] = Staged(p).state]
    /\ Goto(p, "commit")
    /\ UNCHANGED <<file, lock, op, tries, data, base, result, ops, faults>>

\* A mutation of the copy that the instance loaded before it had the lock.
StageFromCopy(p) ==
    /\ pc[p] = "locked"
    /\ file.kind # "corrupt" /\ Staged(p).ok
    /\ mem' = [mem EXCEPT ![p] = IF op[p].kind = "save" \/ data[p] = None THEN Staged(p).state
                                ELSE Mutated(op[p], data[p])]
    /\ Goto(p, "commit")
    /\ UNCHANGED <<file, lock, op, tries, data, base, result, ops, faults>>

\* The strict read finds a usable file and the operation does not throw.
Stage(p) ==
    /\ pc[p] = "locked"
    /\ file.kind # "corrupt" /\ Staged(p).ok
    /\ mem' = [mem EXCEPT ![p] = Staged(p).state]
    /\ Goto(p, "commit")
    /\ UNCHANGED <<file, lock, op, tries, data, base, result, ops, faults>>

\* The strict read finds a malformed file, or the operation throws.
Refuse(p) ==
    /\ pc[p] = "locked"
    /\ file.kind = "corrupt" \/ ~Staged(p).ok
    /\ result' = [result EXCEPT ![p] = "error"]
    /\ Goto(p, "release")
    /\ UNCHANGED <<file, lock, op, tries, local, ops, faults>>

\* The strict read itself fails.
ReadFails(p) ==
    /\ pc[p] = "locked"
    /\ Fault
    /\ result' = [result EXCEPT ![p] = "error"]
    /\ Goto(p, "release")
    /\ UNCHANGED <<file, lock, op, tries, local, ops>>

\* _writeAtomic: the rename is the commit point.
Commit(p) ==
    /\ pc[p] = "commit"
    /\ file' = Committed(mem[p])
    /\ data' = [data EXCEPT ![p] = mem[p]]
    /\ base' = [base EXCEPT ![p] = Committed(mem[p])]
    /\ mem' = [mem EXCEPT ![p] = None]
    /\ result' = [result EXCEPT ![p] = "ok"]
    /\ Goto(p, "release")
    /\ UNCHANGED <<lock, op, tries, ops, faults>>

\* A step of _writeAtomic before the rename fails; the temporary file goes.
CommitFails(p) ==
    /\ pc[p] = "commit"
    /\ Fault
    /\ mem' = [mem EXCEPT ![p] = None]
    /\ result' = [result EXCEPT ![p] = "error"]
    /\ Goto(p, "release")
    /\ UNCHANGED <<file, lock, op, tries, data, base, ops>>

-----------------------------------------------------------------------------
(* _releaseLock, and what stops a process from getting there.              *)

\* unlink by name: whoever's lock stands there is removed.
Release(p) ==
    /\ pc[p] = "release"
    /\ lock' = Free
    /\ Finish(p, result[p])
    /\ UNCHANGED <<file, tries, local, ops, faults>>

\* The unlink fails: the caller sees an error, the lock stays behind.
ReleaseFails(p) ==
    /\ pc[p] = "release"
    /\ Fault
    /\ lock' = Orphan
    /\ Finish(p, "error")
    /\ UNCHANGED <<file, tries, local, ops>>

\* The process dies; the next one in its slot starts with nothing loaded.
Crash(p) ==
    /\ pc[p] # "idle"
    /\ Fault
    /\ lock' = IF lock = p THEN Orphan ELSE lock
    /\ Finish(p, "none")
    /\ mem' = [mem EXCEPT ![p] = None]
    /\ data' = [data EXCEPT ![p] = None]
    /\ base' = [base EXCEPT ![p] = Absent]
    /\ UNCHANGED <<file, tries, ops>>

\* "If no zm2 process is running, inspect and remove the lock file."
RemoveOrphan ==
    /\ lock # Free /\ \A p \in Procs : pc[p] = "idle"
    /\ lock' = Free
    /\ UNCHANGED <<file, pc, op, tries, local, result, ops, faults>>

-----------------------------------------------------------------------------
Step(p) ==
    \/ Acquire(p) \/ Retry(p) \/ Timeout(p) \/ InitLock(p)
    \/ Stage(p) \/ Refuse(p) \/ Commit(p) \/ Release(p)

Failure(p) ==
    \/ CreateFails(p) \/ InitLockFails(p) \/ ReadFails(p) \/ CommitFails(p)
    \/ ReleaseFails(p) \/ Crash(p)

Next ==
    \/ \E p \in Procs : Load(p) \/ Edit(p) \/ Begin(p) \/ Step(p) \/ Failure(p)
    \/ RemoveOrphan

Spec == Init /\ [][Next]_vars

\* A process that runs keeps running; nothing obliges one to start an
\* operation, a fault to happen or the operator to act.
FairSpec == Spec /\ \A p \in Procs : WF_vars(Step(p))

-----------------------------------------------------------------------------
(* Properties.                                                             *)

Critical == {"created", "locked", "commit", "release"}

\* Every variable has its type; the store keeps the shape its readers rely on.
TypeOK ==
    /\ file \in File
    /\ lock \in Procs \cup {Free, Orphan}
    /\ pc \in [Procs -> {"idle", "acquire"} \cup Critical]
    /\ op \in [Procs -> Op \cup {None}]
    /\ tries \in [Procs -> 0..Retries]
    /\ mem \in [Procs -> State \cup {None}]
    /\ data \in [Procs -> State \cup {None}]
    /\ base \in [Procs -> File]
    /\ result \in [Procs -> {"none", "ok", "error"}]
    /\ ops \in [Procs -> 0..MaxOps]
    /\ faults \in 0..MaxFaults

\* A process inside _withLock owns the lock file: two never are at once, and
\* none is while the lock of a dead process stands (_acquireLock).
LockExclusion == \A p \in Procs : pc[p] \in Critical <=> lock = p

\* No two services of the committed file have the same pm_id, so that a
\* command given an id reaches one service (register, replace, save).
FileIdsUnique == UniqueIds(Content(file))

\* What a process is about to rename into place was made from the file as it
\* is now: no commit of another process is about to be lost (_mutate, save).
NoLostCommit ==
    \A p \in Procs : pc[p] = "commit" =>
        /\ file.kind # "corrupt" /\ Staged(p).ok
        /\ mem[p] = Staged(p).state

\* "A live lock is never removed or taken over automatically": a lock leaves
\* its owner only as the owner leaves _withLock, and that of a dead process
\* stays until no process runs (_acquireLock, _releaseLock).
LockNeverTakenOver ==
    [][/\ \A p \in Procs :
             lock = p /\ lock' # p => pc[p] \in Critical /\ pc'[p] = "idle"
       /\ lock = Orphan /\ lock' # Orphan => \A p \in Procs : pc[p] = "idle"]_vars

\* A corrupt file is never overwritten, by any sequence of operations: it is
\* left for the operator to repair (_readState strict, save's _baseCorrupt).
CorruptFileKept == [][file.kind = "corrupt" => UNCHANGED file]_vars

\* Every operation that begins ends, one that finds a lock nobody will ever
\* release included (the lockTimeoutMs of _acquireLock).
OperationsEnd == \A p \in Procs : pc[p] # "idle" ~> pc[p] = "idle"

-----------------------------------------------------------------------------
(* The store implements the abstract registry.                             *)

regBar == file.services
usedBar == 0 .. Normalize(Content(file)).next_id - 1
callBar == [p \in Procs |->
              IF pc[p] = "idle" THEN "idle"
              ELSE IF pc[p] # "release" THEN "pending"
              ELSE IF result[p] = "ok" THEN "applied" ELSE "rejected"]
answerBar == [p \in Procs |-> IF pc[p] = "idle" THEN result[p] ELSE "none"]
viewBar == [p \in Procs |-> IF data[p] = None THEN None ELSE data[p].services]
originBar == [p \in Procs |->
                IF data[p] = None \/ base[p].kind = "corrupt"
                THEN None ELSE base[p].services]

Reg == INSTANCE Registry WITH
    reg <- regBar, used <- usedBar, call <- callBar, req <- op,
    answer <- answerBar, view <- viewBar, origin <- originBar

\* Every operation takes effect at one instant, on the map of that instant,
\* at most once, and the caller is told the truth about it.
ImplementsRegistry == Reg!Spec

=============================================================================
