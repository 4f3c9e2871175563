-------------------------- MODULE StateStoreProofs --------------------------
(***************************************************************************)
(* Proofs about StateStore, for any number of processes, services and      *)
(* operations: type correctness, mutual exclusion on the lock file, no     *)
(* commit lost, unique ids, the action properties, and the refinement of   *)
(* Registry.                                                               *)
(***************************************************************************)
EXTENDS StateStore, FiniteSetTheorems, WellFoundedInduction, TLAPS

-----------------------------------------------------------------------------
(* Lemmas about the data.                                                  *)

\* A non-empty finite set of naturals has a greatest element, and Max
\* (FiniteSetsExt) finds it: a smallest set without one would become a set
\* with one on losing any of its elements.
LEMMA MaxOfFinite ==
    ASSUME NEW S \in SUBSET Nat, IsFiniteSet(S), S # {}
    PROVE  Max(S) \in S /\ \A y \in S : Max(S) >= y
<1> DEFINE Has(U) == \E x \in U : \A y \in U : x >= y
           Bad == {U \in FiniteSubsetsOf(S) : U # {} /\ ~Has(U)}
<1>1. Bad = {}
  <2> SUFFICES ASSUME Bad # {} PROVE FALSE
    OBVIOUS
  <2>1. IsWellFoundedOn(StrictSubsetOrdering(S), FiniteSubsetsOf(S))
    BY FS_StrictSubsetOrderingWellFounded
  <2>2. PICK U \in Bad :
            \A V \in Bad : ~(<<V, U>> \in StrictSubsetOrdering(S))
    <3>1. Bad \subseteq FiniteSubsetsOf(S)
      OBVIOUS
    <3> QED
      BY <2>1, <3>1, WFMin, Zenon
  <2>3. PICK x \in U : TRUE
    BY <2>2
  <2>4. U \subseteq Nat /\ U \in SUBSET S /\ IsFiniteSet(U)
    BY <2>2 DEF FiniteSubsetsOf
  <2>5. CASE U \ {x} = {}
    BY <2>2, <2>3, <2>4, <2>5
  <2>6. CASE U \ {x} # {}
    <3>1. U \ {x} \notin Bad
      BY <2>2, <2>3, <2>4, Zenon DEF StrictSubsetOrdering
    <3>2. U \ {x} \in FiniteSubsetsOf(S)
      BY <2>4, FS_FiniteSubsetsOfFinite
    <3>3. PICK m \in U \ {x} : \A y \in U \ {x} : m >= y
      BY <2>6, <3>1, <3>2
    <3>4. Has(U)
      <4>1. CASE m >= x
        BY <3>3, <4>1, <2>4
      <4>2. CASE ~(m >= x)
        BY <3>3, <4>2, <2>3, <2>4
      <4> QED
        BY <4>1, <4>2
    <3> QED
      BY <3>4, <2>2
  <2> QED
    BY <2>5, <2>6
<1>2. S \in FiniteSubsetsOf(S)
  BY FS_FiniteSubsetsOfFinite
<1>3. Has(S)
  BY <1>1, <1>2
<1> QED
  BY <1>3 DEF Max

LEMMA IdsOfState ==
    ASSUME NEW st \in State
    PROVE  Ids(st) \subseteq Nat /\ IsFiniteSet(Ids(st))
<1> DEFINE R == Registered(st)
           f == [s \in R |-> st.services[s].pm_id]
<1>1. \A s \in R : st.services[s] \in Meta
  BY DEF Registered, State
<1>2. Ids(st) \subseteq Nat
  BY <1>1 DEF Ids, Meta
<1>3. IsFiniteSet(R)
  BY StoreAssumption, FS_Subset DEF Registered
<1>4. f \in Surjection(R, Ids(st))
  BY DEF Ids, Surjection
<1> QED
  BY <1>2, <1>3, <1>4, FS_Surjection

\* normalizeLoadedState changes the counter only, never lowers it, and leaves
\* it above every id.
LEMMA NormalizeRaises ==
    ASSUME NEW st \in State
    PROVE  /\ Normalize(st) \in State
           /\ Normalize(st).services = st.services
           /\ Normalize(st).next_id >= st.next_id
           /\ \A id \in Ids(st) : id < Normalize(st).next_id
<1>1. Ids(st) \subseteq Nat /\ IsFiniteSet(Ids(st)) /\ st.next_id \in Nat
  BY IdsOfState DEF State
<1>2. CASE \E id \in Ids(st) : id >= st.next_id
  <2>1. Max(Ids(st)) \in Ids(st) /\ \A y \in Ids(st) : Max(Ids(st)) >= y
    BY <1>1, <1>2, MaxOfFinite
  <2>2. Max(Ids(st)) \in Nat
    BY <1>1, <2>1
  <2>3. Normalize(st) = [st EXCEPT !.next_id = Max(Ids(st)) + 1]
    BY <1>2 DEF Normalize
  <2>4. Normalize(st) \in State /\ Normalize(st).services = st.services
        /\ Normalize(st).next_id = Max(Ids(st)) + 1
    BY <2>2, <2>3 DEF State
  <2> QED
    BY <1>1, <1>2, <2>1, <2>2, <2>4
<1>3. CASE ~ \E id \in Ids(st) : id >= st.next_id
  BY <1>1, <1>3 DEF Normalize
<1> QED
  BY <1>2, <1>3

LEMMA NormalizeIdempotent ==
    ASSUME NEW st \in State
    PROVE  Normalize(Normalize(st)) = Normalize(st)
<1>1. Ids(Normalize(st)) = Ids(st) /\ Ids(st) \subseteq Nat
  BY NormalizeRaises, IdsOfState DEF Ids, Registered
<1>2. Normalize(st).next_id \in Nat /\ \A id \in Ids(st) : id < Normalize(st).next_id
  BY NormalizeRaises DEF State
<1>3. ~ \E id \in Ids(Normalize(st)) : id >= Normalize(st).next_id
  BY <1>1, <1>2
<1> QED
  BY <1>3 DEF Normalize

LEMMA NormalizeKeepsUnique ==
    ASSUME NEW st \in State, UniqueIds(st)
    PROVE  UniqueIds(Normalize(st))
BY NormalizeRaises DEF UniqueIds, Registered

LEMMA ContentOfFile ==
    ASSUME NEW f \in File
    PROVE  Content(f) \in State
BY DEF File, State, Content

LEMMA CommittedIsFile ==
    ASSUME NEW st \in State
    PROVE  Committed(st) \in File /\ Content(Committed(st)) = st
BY DEF File, State, Content, Committed

\* The mutations keep the shape of the state and the ids unique, and lower the
\* counter only to clear.
LEMMA MutatedState ==
    ASSUME NEW st \in State, UniqueIds(st),
           \A id \in Ids(st) : id < st.next_id,
           NEW o \in Op, o.kind # "save", Accepted(o, st)
    PROVE  /\ Mutated(o, st) \in State
           /\ UniqueIds(Mutated(o, st))
           /\ o.kind # "clear" => Mutated(o, st).next_id >= st.next_id
<1> USE StoreAssumption
<1>0. st.services \in [Services -> Meta \cup {None}] /\ st.next_id \in Nat
      /\ st = [services |-> st.services, next_id |-> st.next_id]
  BY DEF State
<1>1. CASE o.kind = "register" /\ o.svc \in Registered(st)
  <2>1. Mutated(o, st) = [st EXCEPT !.services[o.svc].val = o.val]
    BY <1>1 DEF Mutated, Registration
  <2>2. o.svc \in Services /\ o.val \in Values /\ st.services[o.svc] \in Meta
    BY <1>0, <1>1 DEF Op, Request, Registered
  <2>3. PICK m \in Meta : m.pm_id = st.services[o.svc].pm_id /\ m.val = o.val
                         /\ Mutated(o, st).services
                              = [st.services EXCEPT ![o.svc] = m]
                         /\ Mutated(o, st).next_id = st.next_id
    <3> DEFINE m == [st.services[o.svc] EXCEPT !.val = o.val]
    <3>1. m \in Meta /\ m.pm_id = st.services[o.svc].pm_id /\ m.val = o.val
      BY <2>2 DEF Meta
    <3>2. Mutated(o, st).services = [st.services EXCEPT ![o.svc] = m]
          /\ Mutated(o, st).next_id = st.next_id
      BY <2>1, <2>2, <1>0 
    <3> QED
      BY <3>1, <3>2
  <2>4. Mutated(o, st) \in State
    BY <2>1, <2>2, <2>3, <1>0 DEF State
  <2>5. Registered(Mutated(o, st)) = Registered(st)
        /\ \A s \in Registered(st) :
              Mutated(o, st).services[s].pm_id = st.services[s].pm_id
    BY <1>0, <1>1, <2>2, <2>3 DEF Registered
  <2> QED
    BY <1>0, <2>3, <2>4, <2>5 DEF UniqueIds
<1>2. CASE o.kind = "register" /\ o.svc \notin Registered(st)
  <2> DEFINE m == [pm_id |-> NewId(o, st), val |-> o.val]
  <2>1. o.svc \in Services /\ o.val \in Values /\ o.pin \in Pins \cup {None}
    BY <1>2 DEF Op, Request
  <2>2. m \in Meta /\ NewId(o, st) \in Nat
    BY <1>0, <2>1 DEF NewId, Meta
  <2>3. Mutated(o, st).services = [st.services EXCEPT ![o.svc] = m]
        /\ Mutated(o, st).next_id \in {st.next_id, st.next_id + 1}
        /\ Mutated(o, st) = [services |-> Mutated(o, st).services,
                             next_id |-> Mutated(o, st).next_id]
    BY <1>2 DEF Mutated, Registration
  <2>4. Mutated(o, st) \in State
    BY <1>0, <2>1, <2>2, <2>3 DEF State
  <2>5. \A t \in Registered(st) : st.services[t].pm_id # NewId(o, st)
    BY <1>2 DEF Accepted, Taken
  <2>6. UniqueIds(Mutated(o, st))
    BY <1>0, <1>2, <2>1, <2>2, <2>3, <2>5 DEF UniqueIds, Registered
  <2> QED
    BY <1>0, <2>3, <2>4, <2>6
<1>3. CASE o.kind = "replace"
  <2>1. o.svc \in Services /\ o.meta \in Meta
    BY <1>3 DEF Op, Request
  <2>2. Mutated(o, st).services = [st.services EXCEPT ![o.svc] = o.meta]
        /\ Mutated(o, st).next_id = st.next_id /\ Mutated(o, st) \in State
    BY <1>0, <1>3, <2>1 DEF Mutated, State
  <2>3. \A t \in Registered(st) \ {o.svc} : st.services[t].pm_id # o.meta.pm_id
    BY <1>3 DEF Accepted, Taken
  <2>4. UniqueIds(Mutated(o, st))
    BY <1>0, <2>1, <2>2, <2>3 DEF UniqueIds, Registered
  <2> QED
    BY <1>0, <2>2, <2>4
<1>4. CASE o.kind = "unregister"
  <2>1. Mutated(o, st).services = [st.services EXCEPT ![o.svc] = None]
        /\ Mutated(o, st).next_id = st.next_id /\ Mutated(o, st) \in State
    BY <1>0, <1>4 DEF Mutated, State
  <2>2. UniqueIds(Mutated(o, st))
    BY <1>0, <2>1 DEF UniqueIds, Registered
  <2> QED
    BY <1>0, <2>1, <2>2
<1>5. CASE o.kind = "clear"
  BY <1>5 DEF Mutated, DefaultState, NoServices, State, UniqueIds, Registered
<1> QED
  BY <1>1, <1>2, <1>3, <1>4, <1>5 DEF Op, Request

-----------------------------------------------------------------------------
(* The inductive invariant.                                                *)

\* A process has an operation exactly while it is performing it, a save has
\* something to save, and a released operation has an outcome.
Performing ==
    \A p \in Procs :
        /\ op[p] = None <=> pc[p] = "idle"
        /\ op[p] # None /\ op[p].kind = "save" => data[p] # None
        /\ pc[p] = "release" => result[p] \in {"ok", "error"}
        /\ pc[p] = "commit" => mem[p] # None

\* Every copy in memory has unique ids and, once raised above them, the counter
\* of the file it came from; only the other metadata is ever edited.
CopiesSound ==
    \A p \in Procs : data[p] # None =>
        /\ UniqueIds(data[p])
        /\ Normalize(data[p]).next_id = Normalize(Content(base[p])).next_id

IInv ==
    /\ TypeOK
    /\ LockExclusion
    /\ FileIdsUnique
    /\ NoLostCommit
    /\ Performing
    /\ CopiesSound

\* Loading, from the file or from nothing, yields a sound copy.
LEMMA LoadedCopy ==
    ASSUME NEW f \in File, UniqueIds(Content(f))
    PROVE  /\ Normalize(Content(f)) \in State
           /\ UniqueIds(Normalize(Content(f)))
           /\ Normalize(Normalize(Content(f))) = Normalize(Content(f))
BY ContentOfFile, NormalizeRaises, NormalizeKeepsUnique, NormalizeIdempotent

LEMMA UnreadableFile ==
    Unreadable \in File /\ UniqueIds(Content(Unreadable))
BY DEF Unreadable, File, NoServices, UniqueIds, Content, Registered

LEMMA ReadSound ==
    ASSUME IInv, NEW p \in Procs, Read(p)
    PROVE  /\ data' \in [Procs -> State \cup {None}] /\ data'[p] # None
           /\ base' \in [Procs -> File]
           /\ faults' \in 0..MaxFaults
           /\ CopiesSound'
           /\ \A q \in Procs \ {p} : data'[q] = data[q] /\ base'[q] = base[q]
<1> USE StoreAssumption
<1>1. PICK f \in File : /\ UniqueIds(Content(f)) /\ Loaded(p, f)
                        /\ faults' \in 0..MaxFaults
  <2>1. CASE Loaded(p, file) /\ UNCHANGED faults
    BY <2>1 DEF IInv, TypeOK, FileIdsUnique
  <2>2. CASE Loaded(p, Unreadable) /\ Fault
    BY <2>2, UnreadableFile DEF IInv, TypeOK, Fault
  <2> QED
    BY <2>1, <2>2 DEF Read
<1>2. /\ Normalize(Content(f)) \in State /\ Normalize(Content(f)) # None
      /\ UniqueIds(Normalize(Content(f)))
      /\ Normalize(Normalize(Content(f))) = Normalize(Content(f))
  BY <1>1, LoadedCopy
<1>3. /\ data' = [data EXCEPT ![p] = Normalize(Content(f))]
      /\ base' = [base EXCEPT ![p] = f]
  BY <1>1 DEF Loaded
<1>4. /\ data' \in [Procs -> State \cup {None}] /\ data'[p] # None
      /\ base' \in [Procs -> File]
      /\ \A q \in Procs \ {p} : data'[q] = data[q] /\ base'[q] = base[q]
  BY <1>2, <1>3 DEF IInv, TypeOK
<1>5. CopiesSound'
  BY <1>2, <1>3, <1>4 DEF IInv, TypeOK, CopiesSound
<1> QED
  BY <1>1, <1>4, <1>5

\* What a process stages is a state of the store with unique ids whose counter
\* is not behind the file's, unless the operation is clear.
LEMMA StagedSound ==
    ASSUME IInv, NEW p \in Procs, op[p] # None,
           file.kind # "corrupt", Staged(p).ok
    PROVE  /\ Staged(p).state \in State /\ Staged(p).state # None
           /\ UniqueIds(Staged(p).state)
           /\ op[p].kind # "clear" =>
                 Normalize(Staged(p).state).next_id >= Normalize(Content(file)).next_id
<1> DEFINE st == Normalize(Content(file))
<1> USE StoreAssumption
<1>1. /\ st \in State /\ UniqueIds(st) /\ st.next_id \in Nat
      /\ \A id \in Ids(st) : id < st.next_id
  <2>1. Content(file) \in State /\ UniqueIds(Content(file))
    BY ContentOfFile DEF IInv, TypeOK, FileIdsUnique
  <2>2. Ids(st) = Ids(Content(file))
    BY <2>1, NormalizeRaises DEF Ids, Registered
  <2> QED
    BY <2>1, <2>2, NormalizeRaises, NormalizeKeepsUnique DEF State
<1>2. op[p] \in Op
  BY DEF IInv, TypeOK
<1>3. CASE op[p].kind = "save"
  <2>1. Staged(p).state = data[p] /\ base[p] = file /\ data[p] # None
    BY <1>3 DEF Staged, IInv, Performing
  <2>2. data[p] \in State /\ UniqueIds(data[p])
        /\ Normalize(data[p]).next_id = st.next_id
    BY <2>1 DEF IInv, TypeOK, CopiesSound
  <2> QED
    BY <1>1, <2>1, <2>2
<1>4. CASE op[p].kind # "save"
  <2>1. Accepted(op[p], st) /\ Staged(p).state = Mutated(op[p], st)
    BY <1>4 DEF Staged
  <2> HIDE DEF st
  <2>2. /\ Staged(p).state \in State /\ UniqueIds(Staged(p).state)
        /\ op[p].kind # "clear" => Staged(p).state.next_id >= st.next_id
    BY <1>1, <1>2, <1>4, <2>1, MutatedState
  <2>3. /\ Normalize(Staged(p).state).next_id >= Staged(p).state.next_id
        /\ Normalize(Staged(p).state).next_id \in Nat
        /\ Staged(p).state.next_id \in Nat
    BY <2>2, NormalizeRaises DEF State
  <2> QED
    BY <1>1, <2>2, <2>3 DEF st
<1> QED
  BY <1>3, <1>4

LEMMA InitInv == Init => IInv
<1> SUFFICES ASSUME Init PROVE IInv
  OBVIOUS
<1> USE StoreAssumption
<1>1. file \in File /\ UniqueIds(Content(file))
  BY DEF Init
<1>2. Absent \in File
  BY DEF Absent, Unreadable, File, NoServices
<1>3. TypeOK
  BY <1>1, <1>2 DEF Init, TypeOK
<1>4. LockExclusion
  BY DEF Init, LockExclusion, Critical
<1>5. NoLostCommit /\ Performing /\ CopiesSound
  BY DEF Init, NoLostCommit, Performing, CopiesSound
<1> QED
  BY <1>1, <1>3, <1>4, <1>5 DEF IInv, FileIdsUnique

-----------------------------------------------------------------------------
(* Steps that neither touch the file nor the copies in memory.             *)

\* What a step that leaves the file and the other processes alone preserves.
Apart(p) ==
    /\ file' = file
    /\ \A q \in Procs \ {p} :
          /\ pc'[q] = pc[q] /\ op'[q] = op[q] /\ mem'[q] = mem[q]
          /\ data'[q] = data[q] /\ base'[q] = base[q] /\ result'[q] = result[q]

\* Such a step of a process that ends up nowhere near its commit keeps every
\* commit in preparation fresh.
LEMMA ApartKeepsFresh ==
    ASSUME IInv, NEW p \in Procs, Apart(p), pc'[p] # "commit"
    PROVE  FileIdsUnique' /\ NoLostCommit'
<1>1. FileIdsUnique'
  BY DEF IInv, FileIdsUnique, Apart
<1>2. ASSUME NEW q \in Procs, pc'[q] = "commit"
      PROVE  file'.kind # "corrupt" /\ Staged(q)'.ok /\ mem'[q] = Staged(q)'.state
  <2>1. q # p
    BY <1>2
  <2>2. Staged(q)' = Staged(q)
    BY <2>1 DEF Apart, Staged
  <2>3. pc[q] = "commit" /\ mem'[q] = mem[q]
    BY <1>2, <2>1 DEF Apart
  <2> QED
    BY <2>2, <2>3 DEF IInv, NoLostCommit, Apart
<1> QED
  BY <1>1, <1>2 DEF NoLostCommit

LEMMA TakeLock ==
    ASSUME IInv, NEW p \in Procs,
           Acquire(p) \/ Retry(p) \/ InitLock(p)
    PROVE  IInv'
<1> USE StoreAssumption
<1>1. Apart(p) /\ pc'[p] # "commit"
  BY DEF Acquire, Retry, InitLock, Goto, Apart, local, IInv, TypeOK
<1>2. TypeOK'
  BY DEF Acquire, Retry, InitLock, Goto, local, IInv, TypeOK, Critical
<1>3. LockExclusion'
  BY DEF Acquire, Retry, InitLock, Goto, local, IInv, TypeOK, LockExclusion,
         Critical, Free
<1>4. Performing' /\ CopiesSound'
  BY DEF Acquire, Retry, InitLock, Goto, local, IInv, TypeOK, Performing,
         CopiesSound
<1> QED
  BY <1>1, <1>2, <1>3, <1>4, ApartKeepsFresh DEF IInv

LEMMA GiveUp ==
    ASSUME IInv, NEW p \in Procs,
           \/ Timeout(p) \/ CreateFails(p) \/ InitLockFails(p)
           \/ Release(p) \/ ReleaseFails(p)
    PROVE  IInv'
<1> USE StoreAssumption DEF Timeout, CreateFails, InitLockFails, Release,
        ReleaseFails, Finish, Goto, Fault, local
<1>1. Apart(p) /\ pc'[p] # "commit"
  BY DEF Apart, IInv, TypeOK
<1>2. TypeOK'
  BY DEF IInv, TypeOK, Critical, Performing
<1>3. LockExclusion'
  BY DEF IInv, TypeOK, LockExclusion, Critical, Free, Orphan
<1>4. Performing' /\ CopiesSound'
  BY DEF IInv, TypeOK, Performing, CopiesSound
<1> QED
  BY <1>1, <1>2, <1>3, <1>4, ApartKeepsFresh DEF IInv

LEMMA GoToRelease ==
    ASSUME IInv, NEW p \in Procs,
           Refuse(p) \/ ReadFails(p) \/ CommitFails(p)
    PROVE  IInv'
<1> USE StoreAssumption DEF Refuse, ReadFails, CommitFails, Goto, Fault, local
<1>1. Apart(p) /\ pc'[p] # "commit"
  BY DEF Apart, IInv, TypeOK
<1>2. TypeOK'
  BY DEF IInv, TypeOK, Critical
<1>3. LockExclusion'
  BY DEF IInv, TypeOK, LockExclusion, Critical
<1>4. Performing' /\ CopiesSound'
  BY DEF IInv, TypeOK, Performing, CopiesSound
<1> QED
  BY <1>1, <1>2, <1>3, <1>4, ApartKeepsFresh DEF IInv

LEMMA Die ==
    ASSUME IInv, NEW p \in Procs, Crash(p)
    PROVE  IInv'
<1> USE StoreAssumption DEF Crash, Finish, Goto, Fault
<1>1. Apart(p) /\ pc'[p] # "commit"
  BY DEF Apart, IInv, TypeOK
<1>2. Absent \in File
  BY DEF Absent, Unreadable, File, NoServices
<1>3. TypeOK'
  BY <1>2 DEF IInv, TypeOK, Critical
<1>4. LockExclusion'
  BY DEF IInv, TypeOK, LockExclusion, Critical, Free, Orphan
<1>5. Performing' /\ CopiesSound'
  BY DEF IInv, TypeOK, Performing, CopiesSound
<1> QED
  BY <1>1, <1>3, <1>4, <1>5, ApartKeepsFresh DEF IInv

LEMMA Unlock ==
    ASSUME IInv, RemoveOrphan
    PROVE  IInv'
<1> USE StoreAssumption DEF RemoveOrphan, local
<1>1. TypeOK' /\ FileIdsUnique' /\ Performing' /\ CopiesSound'
  BY DEF IInv, TypeOK, FileIdsUnique, Performing, CopiesSound
<1>2. LockExclusion'
  BY DEF IInv, TypeOK, LockExclusion, Critical, Free
<1>3. NoLostCommit'
  BY DEF IInv, NoLostCommit, Staged
<1> QED
  BY <1>1, <1>2, <1>3 DEF IInv

-----------------------------------------------------------------------------
(* Steps that change a copy in memory.                                     *)

LEMMA LoadStep ==
    ASSUME IInv, NEW p \in Procs, Load(p)
    PROVE  IInv'
<1> USE StoreAssumption DEF Load
<1>0. Read(p)
  OBVIOUS
<1>1. Apart(p) /\ pc'[p] # "commit"
  BY <1>0, ReadSound DEF Apart
<1>2. TypeOK'
  BY <1>0, ReadSound DEF IInv, TypeOK
<1>3. LockExclusion' /\ Performing' /\ CopiesSound'
  BY <1>0, ReadSound DEF IInv, LockExclusion, Performing
<1> QED
  BY <1>1, <1>2, <1>3, ApartKeepsFresh DEF IInv

\* An edited copy keeps its ids and its counter.
LEMMA EditSound ==
    ASSUME IInv, NEW p \in Procs, Edit(p)
    PROVE  \E d \in State :
              /\ data' = [data EXCEPT ![p] = d]
              /\ UniqueIds(d)
              /\ Normalize(d).next_id = Normalize(data[p]).next_id
<1> USE StoreAssumption DEF Edit
<1>1. PICK s \in Registered(data[p]), v \in Values :
           data' = [data EXCEPT ![p].services[s].val = v]
  OBVIOUS
<1>2. data[p] \in State /\ s \in Services /\ data[p].services[s] \in Meta
      /\ data[p].services \in [Services -> Meta \cup {None}]
  BY <1>1 DEF IInv, TypeOK, State, Registered
<1> DEFINE m == [data[p].services[s] EXCEPT !.val = v]
           d == [data[p] EXCEPT !.services = [data[p].services EXCEPT ![s] = m]]
<1>3. m \in Meta /\ m.pm_id = data[p].services[s].pm_id
  BY <1>2 DEF Meta
<1>4. d \in State /\ d.services = [data[p].services EXCEPT ![s] = m]
      /\ d.next_id = data[p].next_id
  BY <1>2, <1>3 DEF State
<1>5. data' = [data EXCEPT ![p] = d]
  BY <1>1, <1>2 DEF IInv, TypeOK
<1> HIDE DEF m, d
<1>6. Registered(d) = Registered(data[p])
      /\ \A t \in Registered(d) : d.services[t].pm_id = data[p].services[t].pm_id
  BY <1>1, <1>2, <1>3, <1>4 DEF Registered
<1>7. UniqueIds(d)
  <2>1. UniqueIds(data[p])
    BY DEF IInv, CopiesSound
  <2> QED
    BY <1>6, <2>1 DEF UniqueIds
<1>8. Normalize(d).next_id = Normalize(data[p]).next_id
  <2>1. Ids(d) = Ids(data[p])
    BY <1>6 DEF Ids
  <2>2. (\E id \in Ids(d) : id >= d.next_id)
          <=> (\E id \in Ids(data[p]) : id >= data[p].next_id)
    BY <1>4, <2>1
  <2> QED
    BY <1>2, <1>4, <2>1, <2>2 DEF Normalize, State
<1> QED
  BY <1>4, <1>5, <1>7, <1>8

LEMMA EditStep ==
    ASSUME IInv, NEW p \in Procs, Edit(p)
    PROVE  IInv'
<1> USE StoreAssumption DEF Edit
<1>1. PICK d \in State :
              /\ data' = [data EXCEPT ![p] = d]
              /\ UniqueIds(d)
              /\ Normalize(d).next_id = Normalize(data[p]).next_id
  BY EditSound
<1>2. Apart(p) /\ pc'[p] # "commit"
  BY <1>1 DEF Apart, IInv, TypeOK
<1>3. TypeOK'
  BY <1>1 DEF IInv, TypeOK
<1>4. LockExclusion' /\ Performing' /\ CopiesSound'
  BY <1>1 DEF IInv, TypeOK, LockExclusion, Performing, CopiesSound
<1> QED
  BY <1>2, <1>3, <1>4, ApartKeepsFresh DEF IInv

LEMMA BeginStep ==
    ASSUME IInv, NEW p \in Procs, Begin(p)
    PROVE  IInv'
<1> USE StoreAssumption DEF Begin, Goto
<1>1. PICK o \in {r \in Request : r.kind \in Kinds} \cup ReplaceRequests(p) :
          /\ op' = [op EXCEPT ![p] = o]
          /\ \/ o.kind = "save" /\ data[p] = None /\ Read(p)
             \/ ~(o.kind = "save" /\ data[p] = None)
                /\ UNCHANGED <<data, base, faults>>
  OBVIOUS
<1>2. o \in Op /\ o # None
  <2>1. CASE o \in Request
    BY <2>1 DEF Op
  <2>2. CASE o \in ReplaceRequests(p)
    <3>1. PICK s \in Registered(data[p]), v \in Values :
              o = [kind |-> "replace", svc |-> s,
                   meta |-> [data[p].services[s] EXCEPT !.val = v]]
      BY <2>2 DEF ReplaceRequests
    <3>2. data[p] # None
      BY <2>2 DEF ReplaceRequests
    <3>3. s \in Services /\ data[p].services[s] \in Meta
      BY <3>1, <3>2 DEF IInv, TypeOK, State, Registered
    <3>4. [data[p].services[s] EXCEPT !.val = v] \in Meta
      BY <3>1, <3>3 DEF Meta
    <3> QED
      BY <3>1, <3>3, <3>4 DEF Op
  <2> QED
    BY <1>1, <2>1, <2>2
<1>3. /\ data' \in [Procs -> State \cup {None}] /\ base' \in [Procs -> File]
      /\ faults' \in 0..MaxFaults /\ CopiesSound'
      /\ o.kind = "save" => data'[p] # None
      /\ \A q \in Procs \ {p} : data'[q] = data[q] /\ base'[q] = base[q]
  <2>1. CASE Read(p)
    BY <2>1, ReadSound
  <2>2. CASE ~(o.kind = "save" /\ data[p] = None) /\ UNCHANGED <<data, base, faults>>
    BY <2>2 DEF IInv, TypeOK, CopiesSound
  <2> QED
    BY <1>1, <2>1, <2>2
<1>4. Apart(p) /\ pc'[p] # "commit"
  BY <1>1, <1>3 DEF Apart, IInv, TypeOK
<1>5. TypeOK'
  <2>1. op' \in [Procs -> Op \cup {None}]
    BY <1>1, <1>2 DEF IInv, TypeOK
  <2>2. /\ pc' \in [Procs -> {"idle", "acquire"} \cup Critical]
        /\ tries' \in [Procs -> 0..Retries]
        /\ result' \in [Procs -> {"none", "ok", "error"}]
        /\ ops' \in [Procs -> 0..MaxOps]
    BY DEF IInv, TypeOK
  <2> QED
    BY <1>3, <2>1, <2>2 DEF IInv, TypeOK
<1>6. LockExclusion'
  BY DEF IInv, TypeOK, LockExclusion, Critical
<1>7. Performing'
  BY <1>1, <1>2, <1>3 DEF IInv, TypeOK, Performing
<1> QED
  BY <1>3, <1>4, <1>5, <1>6, <1>7, ApartKeepsFresh DEF IInv

-----------------------------------------------------------------------------
(* The two steps that make a commit.                                       *)

LEMMA StageStep ==
    ASSUME IInv, NEW p \in Procs, Stage(p)
    PROVE  IInv'
<1> USE StoreAssumption DEF Stage, Goto
<1>1. op[p] # None /\ lock = p
  BY DEF IInv, Performing, LockExclusion, Critical
<1>2. /\ Staged(p).state \in State /\ Staged(p).state # None
  BY <1>1, StagedSound
<1>3. TypeOK'
  BY <1>2 DEF IInv, TypeOK, Critical
<1>4. LockExclusion' /\ FileIdsUnique'
  BY DEF IInv, TypeOK, LockExclusion, Critical, FileIdsUnique
<1>5. Performing' /\ CopiesSound'
  BY <1>1, <1>2 DEF IInv, TypeOK, Performing, CopiesSound
<1>6. NoLostCommit'
  <2> SUFFICES ASSUME NEW q \in Procs, pc'[q] = "commit"
               PROVE  /\ file'.kind # "corrupt" /\ Staged(q)'.ok
                      /\ mem'[q] = Staged(q)'.state
    BY DEF NoLostCommit
  <2>1. q = p
    BY <1>1 DEF IInv, TypeOK, LockExclusion, Critical
  <2>2. Staged(p)' = Staged(p)
    BY DEF Staged
  <2> QED
    BY <2>1, <2>2 DEF IInv, TypeOK
<1> QED
  BY <1>3, <1>4, <1>5, <1>6 DEF IInv

LEMMA CommitStep ==
    ASSUME IInv, NEW p \in Procs, Commit(p)
    PROVE  IInv'
<1> USE StoreAssumption DEF Commit, Goto
<1>1. op[p] # None /\ lock = p
  BY DEF IInv, Performing, LockExclusion, Critical
<1>2. /\ file.kind # "corrupt" /\ Staged(p).ok /\ mem[p] = Staged(p).state
  BY DEF IInv, NoLostCommit
<1>3. mem[p] \in State /\ mem[p] # None /\ UniqueIds(mem[p])
  BY <1>1, <1>2, StagedSound
<1>4. Committed(mem[p]) \in File /\ Content(Committed(mem[p])) = mem[p]
  BY <1>3, CommittedIsFile
<1>5. TypeOK'
  BY <1>3, <1>4 DEF IInv, TypeOK, Critical
<1>6. LockExclusion' /\ FileIdsUnique'
  BY <1>3, <1>4 DEF IInv, TypeOK, LockExclusion, Critical, FileIdsUnique
<1>7. Performing'
  BY <1>1, <1>3 DEF IInv, TypeOK, Performing
<1>8. NoLostCommit'
  BY <1>1 DEF IInv, TypeOK, NoLostCommit, LockExclusion, Critical
<1>9. CopiesSound'
  BY <1>3, <1>4 DEF IInv, TypeOK, CopiesSound
<1> QED
  BY <1>5, <1>6, <1>7, <1>8, <1>9 DEF IInv

LEMMA NextInv == IInv /\ [Next]_vars => IInv'
<1> SUFFICES ASSUME IInv, [Next]_vars PROVE IInv'
  OBVIOUS
<1>1. ASSUME NEW p \in Procs, Step(p) PROVE IInv'
  <2>1. CASE Acquire(p) \/ Retry(p) \/ InitLock(p)
    BY <2>1, TakeLock
  <2>2. CASE Timeout(p) \/ Release(p)
    BY <2>2, GiveUp
  <2>3. CASE Stage(p)
    BY <2>3, StageStep
  <2>4. CASE Refuse(p)
    BY <2>4, GoToRelease
  <2>5. CASE Commit(p)
    BY <2>5, CommitStep
  <2> QED
    BY <1>1, <2>1, <2>2, <2>3, <2>4, <2>5 DEF Step
<1>2. ASSUME NEW p \in Procs, Failure(p) PROVE IInv'
  <2>1. CASE CreateFails(p) \/ InitLockFails(p) \/ ReleaseFails(p)
    BY <2>1, GiveUp
  <2>2. CASE ReadFails(p) \/ CommitFails(p)
    BY <2>2, GoToRelease
  <2>3. CASE Crash(p)
    BY <2>3, Die
  <2> QED
    BY <1>2, <2>1, <2>2, <2>3 DEF Failure
<1>3. CASE UNCHANGED vars
  <2> USE <1>3 DEF vars
  <2>1. TypeOK' /\ LockExclusion' /\ FileIdsUnique' /\ Performing' /\ CopiesSound'
    BY DEF IInv, TypeOK, LockExclusion, FileIdsUnique, Performing, CopiesSound
  <2>2. NoLostCommit'
    BY DEF IInv, NoLostCommit, Staged
  <2> QED
    BY <2>1, <2>2 DEF IInv
<1> QED
  BY <1>1, <1>2, <1>3, LoadStep, EditStep, BeginStep, Unlock DEF Next

LEMMA Invariance == Spec => []IInv
BY InitInv, NextInv, PTL DEF Spec

-----------------------------------------------------------------------------
(* The properties of the runs, for every instance.                         *)

\* Type correctness of the store, its copies and its lock (StateStore.js).
THEOREM TypeCorrect == Spec => []TypeOK
<1>1. IInv => TypeOK
  BY DEF IInv
<1> QED
  BY <1>1, Invariance, PTL

\* Two processes are never inside _withLock at once, whatever crashes, times
\* out or fails, as long as the operator removes a lock only when none runs.
THEOREM Exclusion == Spec => []LockExclusion
<1>1. IInv => LockExclusion
  BY DEF IInv
<1> QED
  BY <1>1, Invariance, PTL

\* The committed file never gives one pm_id to two services.
THEOREM IdsStayUnique == Spec => []FileIdsUnique
<1>1. IInv => FileIdsUnique
  BY DEF IInv
<1> QED
  BY <1>1, Invariance, PTL

\* No rename overwrites a commit its process has not read (_mutate, save).
THEOREM CommitsAreFresh == Spec => []NoLostCommit
<1>1. IInv => NoLostCommit
  BY DEF IInv
<1> QED
  BY <1>1, Invariance, PTL

\* The lock leaves its owner only when the owner leaves _withLock.
THEOREM LockStays == Spec => LockNeverTakenOver
<1> DEFINE A == /\ \A p \in Procs :
                     lock = p /\ lock' # p => pc[p] \in Critical /\ pc'[p] = "idle"
                /\ lock = Orphan /\ lock' # Orphan =>
                     \A p \in Procs : pc[p] = "idle"
<1>1. IInv /\ [Next]_vars => [A]_vars
  <2> SUFFICES ASSUME IInv, [Next]_vars, vars' # vars PROVE A
    OBVIOUS
  <2> USE StoreAssumption
  <2>1. \A p \in Procs : pc[p] \in Critical <=> lock = p
    BY DEF IInv, LockExclusion
  <2>2. ASSUME NEW q \in Procs, Load(q) \/ Edit(q) \/ Begin(q) \/ Stage(q)
                  \/ Refuse(q) \/ ReadFails(q) \/ Commit(q) \/ CommitFails(q)
                  \/ Retry(q) \/ InitLock(q) \/ Timeout(q) \/ CreateFails(q)
        PROVE A
    BY <2>2 DEF Load, Edit, Begin, Stage, Refuse, ReadFails, Commit, CommitFails,
                Retry, InitLock, Timeout, CreateFails
  <2>3. ASSUME NEW q \in Procs, Acquire(q) PROVE A
    BY <2>3 DEF Acquire, Free, Orphan
  <2>4. ASSUME NEW q \in Procs,
               InitLockFails(q) \/ Release(q) \/ ReleaseFails(q)
        PROVE A
    <3>1. pc[q] \in Critical /\ pc'[q] = "idle"
      BY <2>4 DEF InitLockFails, Release, ReleaseFails, Finish, Goto, Critical,
                  IInv, TypeOK
    <3>2. lock = q /\ q # Orphan
      BY <2>1, <3>1 DEF Orphan
    <3> QED
      BY <3>1, <3>2
  <2>5. ASSUME NEW q \in Procs, Crash(q) PROVE A
    <3>1. pc'[q] = "idle" /\ lock' = IF lock = q THEN Orphan ELSE lock
      BY <2>5 DEF Crash, Finish, Goto, IInv, TypeOK
    <3> QED
      BY <2>1, <3>1 DEF Orphan
  <2>6. CASE RemoveOrphan
    <3>1. \A p \in Procs : lock # p
      BY <2>1, <2>6 DEF RemoveOrphan, Critical
    <3> QED
      BY <2>6, <3>1 DEF RemoveOrphan
  <2> QED
    BY <2>2, <2>3, <2>4, <2>5, <2>6 DEF Next, Step, Failure
<1> QED
  BY <1>1, Invariance, PTL DEF Spec, LockNeverTakenOver

\* No operation of any process ever replaces a corrupt file.
THEOREM CorruptKept == Spec => CorruptFileKept
<1>1. IInv /\ [Next]_vars => [file.kind = "corrupt" => UNCHANGED file]_vars
  <2> SUFFICES ASSUME IInv, [Next]_vars, file.kind = "corrupt"
               PROVE  UNCHANGED file
    OBVIOUS
  <2>1. \A p \in Procs : pc[p] # "commit"
    BY DEF IInv, NoLostCommit
  <2> QED
    BY <2>1 DEF Next, Step, Failure, Load, Edit, Begin, Acquire, Retry, Timeout,
         InitLock, Stage, Refuse, Commit, Release, CreateFails, InitLockFails,
         ReadFails, CommitFails, ReleaseFails, Crash, RemoveOrphan, vars
<1> QED
  BY <1>1, Invariance, PTL DEF Spec, CorruptFileKept

-----------------------------------------------------------------------------
(* Refinement: the store implements Registry.                              *)

LEMMA UniqueInReg ==
    ASSUME NEW st \in State, UniqueIds(st)
    PROVE  /\ Reg!UniqueIn(st.services)
           /\ Reg!IdsOf(st.services) = Ids(st)
BY DEF Reg!UniqueIn, Reg!IdsOf, UniqueIds, Ids, Registered

LEMMA IdsUsed ==
    ASSUME NEW st \in State
    PROVE  Ids(st) \subseteq 0 .. Normalize(st).next_id - 1
<1>1. Normalize(st).next_id \in Nat /\ Ids(st) \subseteq Nat
  BY NormalizeRaises, IdsOfState DEF State
<1> QED
  BY <1>1, NormalizeRaises

LEMMA RefineInit == Init => Reg!Init
<1> SUFFICES ASSUME Init PROVE Reg!Init
  OBVIOUS
<1>1. IInv
  BY InitInv
<1>2. Content(file) \in State /\ UniqueIds(Content(file))
  BY <1>1, ContentOfFile DEF IInv, TypeOK, FileIdsUnique
<1>3. Reg!UniqueIn(regBar) /\ Reg!IdsOf(regBar) \subseteq usedBar
  BY <1>2, UniqueInReg, IdsUsed DEF regBar, usedBar, Content
<1>4. /\ callBar = [p \in Procs |-> "idle"]
      /\ answerBar = [p \in Procs |-> "none"]
      /\ viewBar = [p \in Procs |-> None]
      /\ originBar = [p \in Procs |-> None]
  BY DEF Init, callBar, answerBar, viewBar, originBar
<1> QED
  BY <1>3, <1>4 DEF Reg!Init, Init

\* A step that only moves a process between the phases the registry calls
\* pending is a stutter.
LEMMA Unseen ==
    ASSUME IInv, NEW p \in Procs,
           Acquire(p) \/ Retry(p) \/ InitLock(p) \/ Stage(p)
    PROVE  UNCHANGED Reg!vars
<1> USE DEF Acquire, Retry, InitLock, Stage, Goto, local, IInv, TypeOK
<1>1. UNCHANGED <<file, data, base, op, result>>
  OBVIOUS
<1>2. callBar' = callBar /\ answerBar' = answerBar
  BY <1>1 DEF callBar, answerBar
<1>3. regBar' = regBar /\ usedBar' = usedBar /\ viewBar' = viewBar
      /\ originBar' = originBar
  BY <1>1 DEF regBar, usedBar, viewBar, originBar
<1> QED
  BY <1>1, <1>2, <1>3 DEF Reg!vars

LEMMA RefineReturn ==
    ASSUME IInv, NEW p \in Procs,
           \/ Timeout(p) \/ CreateFails(p) \/ InitLockFails(p)
           \/ Release(p) \/ ReleaseFails(p)
    PROVE  Reg!Return(p)
<1> USE DEF Timeout, CreateFails, InitLockFails, Release, ReleaseFails, Finish,
            Goto, local, IInv, TypeOK
<1>1. UNCHANGED <<file, data, base>> /\ pc[p] # "idle"
      /\ pc' = [pc EXCEPT ![p] = "idle"] /\ op' = [op EXCEPT ![p] = None]
  OBVIOUS
<1>2. regBar' = regBar /\ usedBar' = usedBar /\ viewBar' = viewBar
      /\ originBar' = originBar
  BY <1>1 DEF regBar, usedBar, viewBar, originBar
<1>3. callBar[p] # "idle" /\ callBar' = [callBar EXCEPT ![p] = "idle"]
  <2>1. \A q \in Procs \ {p} : pc'[q] = pc[q] /\ result'[q] = result[q]
    OBVIOUS
  <2> QED
    BY <1>1, <2>1 DEF callBar
<1>4. CASE result' = [result EXCEPT ![p] = "error"]
  <2>1. answerBar' = [answerBar EXCEPT ![p] = "error"]
    BY <1>1, <1>4 DEF answerBar
  <2> QED
    BY <1>1, <1>2, <1>3, <2>1 DEF Reg!Return, Reg!Call
<1>5. CASE Release(p)
  <2>1. result'[p] = result[p] /\ result[p] \in {"ok", "error"} /\ result' = result
    BY <1>5 DEF Performing
  <2>2. answerBar' = [answerBar EXCEPT ![p] = result[p]]
    BY <1>1, <2>1 DEF answerBar
  <2>3. result[p] = "ok" => callBar[p] = "applied"
    BY <1>5 DEF callBar
  <2> QED
    BY <1>1, <1>2, <1>3, <2>1, <2>2, <2>3 DEF Reg!Return, Reg!Call
<1> QED
  BY <1>4, <1>5

LEMMA RefineReject ==
    ASSUME IInv, NEW p \in Procs,
           Refuse(p) \/ ReadFails(p) \/ CommitFails(p)
    PROVE  Reg!Reject(p)
<1> USE DEF Refuse, ReadFails, CommitFails, Goto, local, IInv, TypeOK
<1>1. /\ UNCHANGED <<file, data, base, op>> /\ pc[p] \in {"locked", "commit"}
      /\ pc' = [pc EXCEPT ![p] = "release"]
      /\ result' = [result EXCEPT ![p] = "error"]
  OBVIOUS
<1>2. regBar' = regBar /\ usedBar' = usedBar /\ viewBar' = viewBar
      /\ originBar' = originBar
  BY <1>1 DEF regBar, usedBar, viewBar, originBar
<1>3. answerBar' = answerBar
  BY <1>1 DEF answerBar
<1>4. callBar[p] = "pending" /\ callBar' = [callBar EXCEPT ![p] = "rejected"]
  BY <1>1 DEF callBar
<1> QED
  BY <1>1, <1>2, <1>3, <1>4 DEF Reg!Reject, Reg!Call

LEMMA RefineDie ==
    ASSUME IInv, NEW p \in Procs, Crash(p)
    PROVE  Reg!Die(p)
<1> USE DEF Crash, Finish, Goto, IInv, TypeOK
<1>1. regBar' = regBar /\ usedBar' = usedBar
  BY DEF regBar, usedBar
<1>2. callBar[p] # "idle" /\ callBar' = [callBar EXCEPT ![p] = "idle"]
  BY DEF callBar
<1>3. answerBar' = answerBar
  BY DEF answerBar
<1>4. viewBar' = [viewBar EXCEPT ![p] = None]
      /\ originBar' = [originBar EXCEPT ![p] = None]
  BY DEF viewBar, originBar
<1> QED
  BY <1>1, <1>2, <1>3, <1>4 DEF Reg!Die, Reg!Call

\* A copy read from the file is a copy of the map, or of nothing.
LEMMA RefineRead ==
    ASSUME IInv, NEW p \in Procs, Read(p)
    PROVE  Reg!Copied(p)
<1>1. \A q \in Procs \ {p} : viewBar'[q] = viewBar[q] /\ originBar'[q] = originBar[q]
  BY ReadSound DEF viewBar, originBar
<1>2. data'[p] # None /\ base'[p] \in {file, Unreadable}
  BY ReadSound DEF Read, Loaded, IInv, TypeOK
<1>3. originBar'[p] \in {regBar, None}
  BY <1>2 DEF originBar, regBar, Unreadable
<1> QED
  BY <1>1, <1>3 DEF Reg!Copied, Reg!OnlyOf

LEMMA RefineLook ==
    ASSUME IInv, NEW p \in Procs, Load(p) \/ Edit(p)
    PROVE  Reg!Look(p)
<1>1. UNCHANGED <<file, pc, op, result>> /\ pc[p] = "idle"
  BY DEF Load, Edit
<1>2. /\ UNCHANGED <<regBar, usedBar, callBar, op, answerBar>>
      /\ callBar[p] = "idle"
  BY <1>1 DEF regBar, usedBar, callBar, answerBar
<1>3. Reg!Copied(p)
  <2>1. CASE Load(p)
    BY <2>1, RefineRead DEF Load
  <2>2. CASE Edit(p)
    <3>1. /\ base' = base /\ data[p] # None
          /\ \A q \in Procs \ {p} : data'[q] = data[q]
      BY <2>2 DEF Edit, IInv, TypeOK
    <3>2. data'[p] # None
      BY <2>2, EditSound, StoreAssumption DEF IInv, TypeOK
    <3>3. originBar' = originBar
      BY <3>1, <3>2 DEF originBar
    <3>4. \A q \in Procs \ {p} : viewBar'[q] = viewBar[q]
      BY <3>1 DEF viewBar
    <3> QED
      BY <3>3, <3>4 DEF Reg!Copied, Reg!OnlyOf
  <2> QED
    BY <2>1, <2>2
<1> QED
  BY <1>2, <1>3 DEF Reg!Look

LEMMA RefineInvoke ==
    ASSUME IInv, NEW p \in Procs, Begin(p)
    PROVE  Reg!Invoke(p)
<1> USE DEF Begin, Goto
<1>1. /\ UNCHANGED file /\ pc[p] = "idle"
      /\ pc' = [pc EXCEPT ![p] = "acquire"]
      /\ result' = [result EXCEPT ![p] = "none"]
      /\ \A q \in Procs \ {p} : op'[q] = op[q]
  BY DEF IInv, TypeOK
<1>2. UNCHANGED <<regBar, usedBar>>
  BY <1>1 DEF regBar, usedBar
<1>3. callBar[p] = "idle" /\ callBar' = [callBar EXCEPT ![p] = "pending"]
  <2>1. \A q \in Procs \ {p} : pc'[q] = pc[q] /\ result'[q] = result[q]
    BY <1>1 DEF IInv, TypeOK
  <2>2. pc'[p] = "acquire"
    BY <1>1 DEF IInv, TypeOK
  <2> QED
    BY <1>1, <2>1, <2>2 DEF callBar
<1>4. answerBar' = [answerBar EXCEPT ![p] = "none"]
  BY <1>1 DEF answerBar, IInv, TypeOK
<1>5. Reg!Copied(p)
  <2>1. CASE Read(p)
    BY <2>1, RefineRead
  <2>2. CASE UNCHANGED <<data, base>>
    BY <2>2 DEF Reg!Copied, Reg!OnlyOf, viewBar, originBar
  <2> QED
    BY <2>1, <2>2
<1> QED
  BY <1>1, <1>2, <1>3, <1>4, <1>5 DEF Reg!Invoke, Reg!Call, Reg!OnlyOf

\* The rename is the instant at which the operation takes effect.
LEMMA RefineCommit ==
    ASSUME IInv, NEW p \in Procs, Commit(p)
    PROVE  Reg!Effect(p)
<1> USE StoreAssumption DEF Commit, Goto
<1> DEFINE st == Normalize(Content(file))
           new == mem[p]
           o == op[p]
<1>1. /\ o \in Op /\ file.kind # "corrupt" /\ Staged(p).ok
      /\ new = Staged(p).state
  BY DEF IInv, TypeOK, NoLostCommit, Performing
<1>2. /\ new \in State /\ new # None /\ UniqueIds(new)
      /\ o.kind # "clear" => Normalize(new).next_id >= st.next_id
  BY <1>1, StagedSound DEF IInv, Performing
<1>3. Content(file) \in State /\ st \in State /\ st.services = regBar
      /\ \A id \in Ids(st) : id < st.next_id
  <2>1. Content(file) \in State
    BY ContentOfFile DEF IInv, TypeOK
  <2>2. st \in State /\ st.services = Content(file).services
    BY <2>1, NormalizeRaises
  <2>3. Ids(st) = Ids(Content(file))
    BY <2>2 DEF Ids, Registered
  <2> QED
    BY <2>1, <2>2, <2>3, NormalizeRaises DEF Content, regBar
<1>4. regBar' = new.services /\ Content(file') = new
  BY <1>2, CommittedIsFile DEF regBar, Committed
<1>5. usedBar = 0 .. st.next_id - 1 /\ usedBar' = 0 .. Normalize(new).next_id - 1
  BY <1>4 DEF usedBar
<1>6. o.kind # "clear" => usedBar \subseteq usedBar'
  <2>1. st.next_id \in Nat /\ Normalize(new).next_id \in Nat
    BY <1>2, <1>3, NormalizeRaises DEF State
  <2> QED
    BY <1>2, <1>5, <2>1
<1>7. Reg!UniqueIn(regBar') /\ Reg!IdsOf(regBar') \subseteq usedBar'
  BY <1>2, <1>4, <1>5, UniqueInReg, IdsUsed
<1>8. callBar[p] = "pending" /\ callBar' = [callBar EXCEPT ![p] = "applied"]
  BY DEF callBar, IInv, TypeOK
<1>9. answerBar' = answerBar
  BY DEF answerBar, IInv, TypeOK
<1>10. viewBar' = [viewBar EXCEPT ![p] = regBar']
  BY <1>2, <1>4 DEF viewBar, IInv, TypeOK
<1>11. originBar' = [originBar EXCEPT ![p] = regBar']
  <2>1. base'[p].kind = "valid" /\ base'[p].services = regBar' /\ data'[p] # None
    BY <1>2, <1>4 DEF Committed, IInv, TypeOK
  <2>2. \A q \in Procs \ {p} : base'[q] = base[q] /\ data'[q] = data[q]
    BY DEF IInv, TypeOK
  <2>3. originBar'[p] = regBar'
    BY <2>1 DEF originBar
  <2>4. \A q \in Procs \ {p} : originBar'[q] = originBar[q]
    BY <2>2 DEF originBar
  <2>5. /\ originBar = [q \in Procs |-> originBar[q]]
        /\ originBar' = [q \in Procs |-> originBar'[q]]
    BY DEF originBar
  <2> HIDE DEF Commit
  <2> QED
    BY <2>3, <2>4, <2>5
<1>12. \/ Reg!Register(op[p]) \/ Reg!Replace(op[p]) \/ Reg!Unregister(op[p])
       \/ Reg!Clear(op[p]) \/ Reg!Save(p, op[p])
  <2>0. o.kind # "save" => Accepted(o, st) /\ new = Mutated(o, st)
    BY <1>1 DEF Staged
  <2>1. CASE o.kind = "register" /\ o.svc \in Registered(st)
    <3>1. new = [st EXCEPT !.services[o.svc].val = o.val]
      BY <2>0, <2>1 DEF Mutated, Registration
    <3>2. st.services[o.svc] \in Meta /\ o.svc \in Services /\ o.val \in Values
      BY <1>1, <1>3, <2>1 DEF Registered, State, Op, Request
    <3>3. /\ \A t \in Services \ {o.svc} : new.services[t] = st.services[t]
          /\ new.services[o.svc].val = o.val
          /\ new.services[o.svc].pm_id = st.services[o.svc].pm_id
      BY <1>3, <3>1, <3>2 DEF State, Meta
    <3>4. new.services[o.svc] # None
      BY <3>1, <3>2, <1>3, <1>2 DEF State, Meta
    <3> QED
      BY <1>3, <1>4, <1>6, <2>1, <3>2, <3>3, <3>4 DEF Reg!Register, Reg!SameBut
  <2>2. CASE o.kind = "register" /\ o.svc \notin Registered(st)
    <3>1. new.services =
            [st.services EXCEPT ![o.svc] = [pm_id |-> NewId(o, st), val |-> o.val]]
      BY <2>0, <2>2 DEF Mutated, Registration
    <3>2. /\ o.svc \in Services /\ st.services[o.svc] = None
          /\ o.val \in Values /\ o.pin \in Pins \cup {None}
      BY <1>1, <2>2 DEF Registered, Op, Request
    <3>3. /\ \A t \in Services \ {o.svc} : new.services[t] = st.services[t]
          /\ new.services[o.svc] = [pm_id |-> NewId(o, st), val |-> o.val]
      BY <1>3, <3>1, <3>2 DEF State
    <3>4. NewId(o, st) \in Nat
      BY <1>3, <3>2 DEF NewId, State
    <3>5. new.services[o.svc] # None
      BY <3>2, <3>3, <3>4 DEF Meta
    <3>6. o.pin = None => NewId(o, st) \notin usedBar
      BY <1>3, <1>5 DEF NewId, State
    <3>7. o.pin # None => NewId(o, st) = o.pin
      BY DEF NewId
    <3> QED
      BY <1>3, <1>4, <1>6, <2>2, <3>2, <3>3, <3>5, <3>6, <3>7
         DEF Reg!Register, Reg!SameBut
  <2>3. CASE o.kind = "replace"
    <3>1. o.svc \in Services /\ st.services[o.svc] # None
      BY <2>0, <2>3 DEF Accepted, Registered
    <3>2. new.services = [st.services EXCEPT ![o.svc] = o.meta]
      BY <1>3, <2>0, <2>3 DEF Mutated, State
    <3> QED
      BY <1>3, <1>4, <1>6, <2>3, <3>1, <3>2 DEF Reg!Replace, Reg!SameBut, State
  <2>4. CASE o.kind = "unregister"
    <3>1. o.svc \in Services
      BY <1>1, <2>4 DEF Op, Request
    <3>2. new.services = [st.services EXCEPT ![o.svc] = None]
      BY <1>3, <2>0, <2>4 DEF Mutated, State
    <3> QED
      BY <1>3, <1>4, <1>6, <2>4, <3>1, <3>2 DEF Reg!Unregister, Reg!SameBut, State
  <2>5. CASE o.kind = "clear"
    BY <1>4, <2>0, <2>5 DEF Mutated, DefaultState, NoServices, Reg!Clear
  <2>6. CASE o.kind = "save"
    <3>1. base[p] = file /\ new = data[p] /\ data[p] # None
      BY <1>1, <2>6 DEF Staged, IInv, Performing
    <3>2. originBar[p] = regBar /\ viewBar[p] = regBar'
      BY <1>1, <1>4, <3>1 DEF originBar, viewBar, regBar
    <3> QED
      BY <1>6, <2>6, <3>2 DEF Reg!Save
  <2> QED
    BY <1>1, <2>1, <2>2, <2>3, <2>4, <2>5, <2>6 DEF Op, Request
<1> QED
  BY <1>7, <1>8, <1>9, <1>10, <1>11, <1>12 DEF Reg!Effect, Reg!Call

\* The store of lock file, temporary file and rename implements the registry
\* of atomic operations, crashes and failing system calls included.
THEOREM Refinement == Spec => ImplementsRegistry
<1>1. IInv /\ [Next]_vars => [Reg!Next]_Reg!vars
  <2> SUFFICES ASSUME IInv, [Next]_vars PROVE [Reg!Next]_Reg!vars
    OBVIOUS
  <2>1. ASSUME NEW p \in Procs, Load(p) \/ Edit(p) \/ Begin(p)
        PROVE  Reg!Next
    BY <2>1, RefineLook, RefineInvoke DEF Reg!Next
  <2>2. ASSUME NEW p \in Procs, Step(p)
        PROVE  Reg!Next \/ UNCHANGED Reg!vars
    BY <2>2, Unseen, RefineReturn, RefineReject, RefineCommit DEF Step, Reg!Next
  <2>3. ASSUME NEW p \in Procs, Failure(p)
        PROVE  Reg!Next
    BY <2>3, RefineReturn, RefineReject, RefineDie DEF Failure, Reg!Next
  <2>4. CASE RemoveOrphan \/ UNCHANGED vars
    <3>1. UNCHANGED <<file, pc, op, data, base, result>>
      BY <2>4 DEF RemoveOrphan, local, vars
    <3> QED
      BY <3>1 DEF Reg!vars, regBar, usedBar, callBar, answerBar, viewBar, originBar
  <2> QED
    BY <2>1, <2>2, <2>3, <2>4 DEF Next
<1> QED
  BY <1>1, RefineInit, Invariance, PTL DEF Spec, ImplementsRegistry, Reg!Spec

=============================================================================
