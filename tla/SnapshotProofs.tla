---------------------------- MODULE SnapshotProofs ----------------------------
(***************************************************************************)
(* That what a dump, resurrect and startup promise (Snapshot) holds of any *)
(* number of apps, processes, commands, failures and reboots.              *)
(*                                                                         *)
(* The inductive invariant ties every step of a command to what it has     *)
(* found or done so far (Underway), and the two files to the one dump that *)
(* may be under way (Copied): without failure a dump that has truncated    *)
(* the file has a good copy, and after one failure the next one is free to *)
(* copy a torn file, because only a further failure could stop it now.     *)
(***************************************************************************)
EXTENDS Boot, WellFoundedInduction, TLAPS

\* What process p is at, by its command.
OfDump(p) ==
    /\ proc[p].cmd \in DumpForms <=> proc[p].pc \in DumpSteps
    /\ proc[p].pc \in {"copy", "truncate", "write"} /\ proc[p].cmd = "dump" => proc[p].all # {}
OfResurrect(p) ==
    /\ proc[p].pc \in LoadSteps <=> proc[p].cmd = "resurrect"
    /\ proc[p].pc = "load" => proc[p].all = {}
    /\ proc[p].pc \in LoadSteps => proc[p].todo \subseteq proc[p].all
    /\ proc[p].pc \in {"operate", "prepare"} => proc[p].now \in proc[p].todo
    /\ proc[p].pc = "operate" /\ calm[p] => proc[p].now[1] \in reg
    /\ proc[p].pc \in LoadSteps /\ calm[p] /\ ~proc[p].failed =>
           \A e \in proc[p].all \ proc[p].todo : e[1] \in up \cap reg \cap enabled
OfStartup(p) ==
    /\ proc[p].pc \in {"entries", "service"} <=> proc[p].cmd \in {"startup", "unstartup"}
    /\ proc[p].pc = "service" => proc[p].todo \subseteq Apps
    /\ proc[p].pc = "service" /\ proc[p].cmd = "startup" /\ calm[p] /\ ~proc[p].failed =>
           reg \ proc[p].todo \subseteq enabled
AtWork(p) == OfDump(p) /\ OfResurrect(p) /\ OfStartup(p)
Underway == \A p \in Procs : AtWork(p)

\* The files, as long as no two dumps have run at once.
OneDump ==
    ~together => \A p, q \in Procs :
        proc[p].cmd \in DumpForms /\ proc[q].cmd \in DumpForms => p = q
Copied ==
    saved =>
        /\ dump # None
        /\ ~together /\ faults = 0 =>
              /\ Whole(dump) \/ \E p \in Procs : proc[p].pc = "write"
              /\ (\E p \in Procs : proc[p].pc \in {"truncate", "write"}) => Whole(backup)
        /\ ~together /\ faults <= 1 /\ ~Dumping => Whole(dump) \/ Whole(backup)

IInv == TypeOK /\ Underway /\ OneDump /\ Copied

-----------------------------------------------------------------------------
(* Every step of a command.                                                *)

\* A step of p, which touches no other process and stays with its command or
\* ends it.
Moves(p) ==
    /\ proc' = [proc EXCEPT ![p] = proc'[p]] /\ proc'[p] \in Process
    /\ proc'[p] = Idle \/ proc'[p].cmd = proc[p].cmd
    /\ Mine(p) /\ faults' \in {faults, faults + 1}

\* A process may have nothing to do.
LEMMA IdleIsProcess == Idle \in Process
  BY DEF Idle, Process, Contents

\* An entry of the list that dump makes is an app, with or without a script.
LEMMA EntriesAreContents ==
  ASSUME TypeOK, NEW seen \in Listed \cup {reg}
  PROVE  /\ Entries(seen) \in Contents
         /\ seen # {} => Entries(seen) # {}
<1>1. seen \subseteq Apps
  BY DEF TypeOK, Listed
<1>2. Entries(seen) \subseteq Apps \X BOOLEAN
  <2> SUFFICES ASSUME NEW e \in Entries(seen) PROVE e \in Apps \X BOOLEAN
    OBVIOUS
  <2>1. CASE \E a \in seen : e = <<a, a \in reg>>
    <3>1. PICK a \in seen : e = <<a, a \in reg>>
      BY <2>1
    <3>2. (a \in reg) \in BOOLEAN
      OBVIOUS
    <3> QED BY <3>1, <3>2, <1>1
  <2>2. CASE \E a \in seen \cap legacy \cap up : e = <<a, FALSE>>
    <3>1. PICK a \in seen \cap legacy \cap up : e = <<a, FALSE>>
      BY <2>2
    <3> QED BY <3>1, <1>1
  <2> QED BY <2>1, <2>2, Zenon DEF Entries
<1>3. ASSUME seen # {} PROVE Entries(seen) # {}
  <2>1. PICK a : a \in seen
    BY <1>3
  <2>2. <<a, a \in reg>> \in Entries(seen)
    BY <2>1, Zenon DEF Entries
  <2> QED BY <2>2
<1> QED BY <1>2, <1>3 DEF Contents

\* The record that Set writes is the one p has, and nobody else's changes.
LEMMA SetMoves ==
  ASSUME NEW p \in Procs, NEW r \in Process, TypeOK, Set(p, r)
  PROVE  /\ proc'[p] = r
         /\ proc' = [proc EXCEPT ![p] = proc'[p]] /\ proc'[p] \in Process
         /\ proc' \in [Procs -> Process]
  BY DEF TypeOK, Set

\* A step of p to r, which is at work as its command asks.
LEMMA SetStep ==
  ASSUME NEW p \in Procs, NEW r \in Process, TypeOK, Set(p, r), r.cmd = proc[p].cmd,
         Mine(p), faults' \in {faults, faults + 1}
  PROVE  Moves(p) /\ proc'[p] = r
  BY SetMoves DEF Moves

LEMMA GotoMoves ==
  ASSUME NEW p \in Procs, TypeOK, Mine(p), faults' \in {faults, faults + 1},
         NEW l \in {"truncate", "write", "unlinkbackup"}, Goto(p, l)
  PROVE  /\ Moves(p)
         /\ proc'[p].pc = l /\ proc'[p].cmd = proc[p].cmd /\ proc'[p].all = proc[p].all
<1> DEFINE r == [proc[p] EXCEPT !.pc = l]
<1>1. r \in Process /\ r.pc = l /\ r.cmd = proc[p].cmd /\ r.all = proc[p].all
  BY DEF TypeOK, Process, DumpSteps
<1>2. Set(p, r)
  BY DEF TypeOK, Goto, Set
<1> HIDE DEF r
<1> QED BY <1>1, <1>2, SetStep

\* The step of a command that ends it leaves nothing to claim of it.
LEMMA EndMoves ==
  ASSUME NEW p \in Procs, NEW how \in {"ok", "error"}, TypeOK, End(p, how), Mine(p),
         faults' \in {faults, faults + 1}
  PROVE  Moves(p) /\ AtWork(p)' /\ answer' \in [Procs -> {"none", "ok", "error"}]
<1>1. proc'[p] = Idle /\ proc' = [proc EXCEPT ![p] = proc'[p]] /\ proc'[p] \in Process
  BY SetMoves, IdleIsProcess DEF End
<1>2. AtWork(p)'
  <2>1. None \notin DumpForms /\ None \notin {"resurrect", "startup", "unstartup"}
    BY SnapshotAssumption DEF DumpForms, CommandNames
  <2> QED BY <1>1, <2>1 DEF AtWork, OfDump, OfResurrect, OfStartup, Idle, DumpSteps,
             LoadSteps
<1>3. answer' \in [Procs -> {"none", "ok", "error"}]
  BY DEF End, TypeOK
<1> QED BY <1>1, <1>2, <1>3 DEF Moves

\* What keeps the types besides.
LEMMA MoveTypes ==
  ASSUME NEW p \in Procs, TypeOK, Moves(p), UNCHANGED <<ops, users>>, saved' \in BOOLEAN,
         (reg \subseteq Apps /\ unit \subseteq Apps /\ legacy \subseteq unit)',
         (up \subseteq unit /\ enabled \subseteq unit)',
         FileOK(dump'), FileOK(backup'),
         answer' \in [Procs -> {"none", "ok", "error"}]
  PROVE  TypeOK'
<1>1. proc' \in [Procs -> Process] /\ faults' \in Nat
  BY DEF TypeOK, Moves
<1>2. calm' \in [Procs -> BOOLEAN] /\ together' \in BOOLEAN
  BY DEF TypeOK, Moves, Mine
<1> QED BY <1>1, <1>2 DEF TypeOK, FileOK

LEMMA DumpListMoves ==
  ASSUME NEW p \in Procs, TypeOK, AtWork(p), DumpList(p)
  PROVE  Moves(p) /\ AtWork(p)' /\ TypeOK'
<1>1. PICK seen \in Listed \cup {reg} :
        /\ faults' \in {faults, faults + 1}
        /\ \/ MaySkip(p, seen) /\ End(p, "ok")
           \/ /\ ~MaySkip(p, seen) /\ UNCHANGED answer
              /\ Set(p, [proc[p] EXCEPT !.pc = "copy", !.all = Entries(seen)])
  BY DEF DumpList, CanFail, NoFault
<1>2. At(p, "list") /\ Mine(p) /\ UNCHANGED <<services, files, ops, users, saved>>
  BY DEF DumpList
<1>3. CASE End(p, "ok")
  BY <1>1, <1>2, <1>3, EndMoves, MoveTypes DEF TypeOK, services, files
<1>4. CASE ~MaySkip(p, seen) /\ UNCHANGED answer
           /\ Set(p, [proc[p] EXCEPT !.pc = "copy", !.all = Entries(seen)])
  <2> DEFINE r == [proc[p] EXCEPT !.pc = "copy", !.all = Entries(seen)]
  <2>1. Entries(seen) \in Contents /\ (seen # {} => Entries(seen) # {})
    BY EntriesAreContents
  <2>2. /\ r \in Process /\ r.pc = "copy" /\ r.cmd = proc[p].cmd
        /\ r.all = Entries(seen)
    BY <2>1 DEF TypeOK, Process, DumpSteps, LoadSteps
  <2>3. Set(p, r)
    BY <1>4
  <2> HIDE DEF r
  <2>4. Moves(p) /\ proc'[p] = r
    BY <1>1, <1>2, <2>2, <2>3, SetStep
  <2>5. proc[p].pc = "list" /\ proc[p].cmd \in DumpForms
    BY <1>2 DEF At, AtWork, OfDump, DumpSteps
  <2>6. AtWork(p)'
    BY <2>1, <2>2, <2>4, <2>5, <1>4
    DEF AtWork, OfDump, OfResurrect, OfStartup, DumpSteps, LoadSteps, DumpForms, MaySkip
  <2>7. TypeOK'
    BY <1>2, <1>4, <2>4, MoveTypes DEF TypeOK, services, files
  <2> QED BY <2>4, <2>6, <2>7
<1> QED BY <1>1, <1>3, <1>4

LEMMA DumpCopyMoves ==
  ASSUME NEW p \in Procs, TypeOK, AtWork(p), DumpCopy(p)
  PROVE  Moves(p) /\ AtWork(p)' /\ TypeOK'
<1>1. /\ proc[p].pc = "copy" /\ Goto(p, "truncate") /\ Mine(p)
      /\ faults' \in {faults, faults + 1} /\ FileOK(backup')
      /\ UNCHANGED <<services, dump, answer, ops, users, saved>>
  BY DEF DumpCopy, At, NoFault, CanFail, FileOK, TypeOK
<1>2. Moves(p)
  BY <1>1, GotoMoves
<1>3. proc'[p].pc = "truncate" /\ proc'[p].cmd = proc[p].cmd /\ proc'[p].all = proc[p].all
  BY <1>1, GotoMoves
<1>4. AtWork(p)'
  BY <1>1, <1>3 DEF AtWork, OfDump, OfResurrect, OfStartup, DumpSteps, LoadSteps
<1>5. TypeOK'
  BY <1>1, <1>2, MoveTypes DEF TypeOK, services
<1> QED BY <1>2, <1>4, <1>5

LEMMA DumpTruncateMoves ==
  ASSUME NEW p \in Procs, TypeOK, AtWork(p), DumpTruncate(p)
  PROVE  Moves(p) /\ AtWork(p)' /\ TypeOK'
<1>1. /\ proc[p].pc = "truncate" /\ Mine(p) /\ faults' \in {faults, faults + 1}
      /\ FileOK(dump') /\ UNCHANGED <<services, backup, ops, users, saved>>
      /\ \/ Goto(p, "write") /\ UNCHANGED answer
         \/ End(p, "error")
  BY DEF DumpTruncate, At, NoFault, CanFail, FileOK, TypeOK
<1>2. CASE Goto(p, "write") /\ UNCHANGED answer
  <2>1. Moves(p)
    BY <1>1, <1>2, GotoMoves
  <2>2. proc'[p].pc = "write" /\ proc'[p].cmd = proc[p].cmd /\ proc'[p].all = proc[p].all
    BY <1>1, <1>2, GotoMoves
  <2>3. AtWork(p)'
    BY <1>1, <2>2 DEF AtWork, OfDump, OfResurrect, OfStartup, DumpSteps, LoadSteps
  <2>4. TypeOK'
    BY <1>1, <1>2, <2>1, MoveTypes DEF TypeOK, services
  <2> QED BY <2>1, <2>3, <2>4
<1>3. CASE End(p, "error")
  BY <1>1, <1>3, EndMoves, MoveTypes DEF TypeOK, services
<1> QED BY <1>1, <1>2, <1>3

LEMMA DumpWriteMoves ==
  ASSUME NEW p \in Procs, TypeOK, AtWork(p), DumpWrite(p)
  PROVE  Moves(p) /\ AtWork(p)' /\ TypeOK'
<1>1. proc[p].all \in Contents
  BY DEF TypeOK, Process
<1>2. /\ Mine(p) /\ faults' \in {faults, faults + 1} /\ saved' \in BOOLEAN
      /\ FileOK(dump') /\ UNCHANGED <<services, backup, ops, users>>
      /\ End(p, "ok") \/ End(p, "error")
  BY <1>1 DEF DumpWrite, NoFault, CanFail, FileOK, TypeOK
<1> QED BY <1>2, EndMoves, MoveTypes DEF TypeOK, services

LEMMA UnlinkMoves ==
  ASSUME NEW p \in Procs, TypeOK, AtWork(p), Unlink(p) \/ UnlinkBackup(p)
  PROVE  Moves(p) /\ AtWork(p)' /\ TypeOK'
<1>1. /\ Mine(p) /\ faults' \in {faults, faults + 1} /\ saved' \in BOOLEAN
      /\ FileOK(dump') /\ FileOK(backup') /\ UNCHANGED <<services, ops, users>>
      /\ \/ proc[p].pc = "unlink" /\ Goto(p, "unlinkbackup") /\ UNCHANGED answer
         \/ End(p, "ok") \/ End(p, "error")
  BY DEF Unlink, UnlinkBackup, At, NoFault, CanFail, FileOK, TypeOK
<1>2. CASE proc[p].pc = "unlink" /\ Goto(p, "unlinkbackup") /\ UNCHANGED answer
  <2>1. Moves(p)
    BY <1>1, <1>2, GotoMoves
  <2>2. proc'[p].pc = "unlinkbackup" /\ proc'[p].cmd = proc[p].cmd
    BY <1>1, <1>2, GotoMoves
  <2>3. AtWork(p)'
    BY <1>2, <2>2 DEF AtWork, OfDump, OfResurrect, OfStartup, DumpSteps, LoadSteps
  <2>4. TypeOK'
    BY <1>1, <1>2, <2>1, MoveTypes DEF TypeOK, services
  <2> QED BY <2>1, <2>3, <2>4
<1>3. CASE End(p, "ok") \/ End(p, "error")
  BY <1>1, <1>3, EndMoves, MoveTypes DEF TypeOK, services
<1> QED BY <1>1, <1>2, <1>3

LEMMA LoadMoves ==
  ASSUME NEW p \in Procs, TypeOK, AtWork(p), Load(p)
  PROVE  Moves(p) /\ AtWork(p)' /\ TypeOK'
<1> DEFINE r == [proc[p] EXCEPT !.pc = "each", !.todo = dump, !.all = dump]
<1>1. /\ proc[p].pc = "load" /\ Mine(p) /\ faults' \in {faults, faults + 1}
      /\ UNCHANGED <<services, files, ops, users, saved>>
      /\ \/ End(p, "ok") \/ End(p, "error")
         \/ Whole(dump) /\ Set(p, r) /\ UNCHANGED answer
  BY DEF Load, At, NoFault, CanFail
<1>2. CASE End(p, "ok") \/ End(p, "error")
  BY <1>1, <1>2, EndMoves, MoveTypes DEF TypeOK, services, files
<1>3. CASE Whole(dump) /\ Set(p, r) /\ UNCHANGED answer
  <2>1. dump \in Contents
    BY <1>3 DEF TypeOK, FileOK, Whole
  <2>2. /\ r \in Process /\ r.pc = "each" /\ r.cmd = proc[p].cmd
        /\ r.todo = dump /\ r.all = dump
    BY <2>1 DEF TypeOK, Process, LoadSteps
  <2> HIDE DEF r
  <2>3. Moves(p) /\ proc'[p] = r
    BY <1>1, <1>3, <2>2, SetStep
  <2>4. AtWork(p)'
    BY <1>1, <2>2, <2>3 DEF AtWork, OfDump, OfResurrect, OfStartup, DumpSteps, LoadSteps
  <2>5. TypeOK'
    BY <1>1, <1>3, <2>3, MoveTypes DEF TypeOK, services, files
  <2> QED BY <2>3, <2>4, <2>5
<1> QED BY <1>1, <1>2, <1>3

\* What the next entry leaves of the record of a process.
LEMMA NextEntryIs ==
  ASSUME NEW p \in Procs, TypeOK, proc[p].todo \in Contents, NEW e, NEW failed \in BOOLEAN
  PROVE  \E r \in Process :
           /\ NextEntry(p, e, failed) = r
           /\ r.pc = "each" /\ r.cmd = proc[p].cmd
           /\ r.todo = proc[p].todo \ {e} /\ r.all = proc[p].all
           /\ proc[p].failed => r.failed
           /\ failed => r.failed
<1>1. proc[p] \in Process
  BY DEF TypeOK
<1>2. PICK b \in BOOLEAN : b = (proc[p].failed \/ failed)
  BY Zenon
<1> DEFINE r == [proc[p] EXCEPT !.pc = "each", !.todo = @ \ {e}, !.now = None, !.failed = b]
<1>3. NextEntry(p, e, failed) = r
  BY <1>2, Zenon DEF NextEntry
<1>4. proc[p].todo \ {e} \in Contents
  BY DEF Contents
<1>5. /\ r \in Process /\ r.pc = "each" /\ r.cmd = proc[p].cmd
      /\ r.todo = proc[p].todo \ {e} /\ r.all = proc[p].all
  BY <1>1, <1>4 DEF Process, LoadSteps
<1>6. r.failed = b
  BY <1>1 DEF Process
<1> HIDE DEF r
<1>7. (proc[p].failed => r.failed) /\ (failed => r.failed)
  BY <1>2, <1>6, Zenon
<1> QED BY <1>3, <1>5, <1>7, Zenon

LEMMA LookMoves ==
  ASSUME NEW p \in Procs, TypeOK, AtWork(p), Look(p)
  PROVE  Moves(p) /\ AtWork(p)' /\ TypeOK'
<1>1. PICK e \in proc[p].todo :
        IF ~e[2] \/ (e[1] \in reg /\ e[1] \in up)
        THEN Set(p, NextEntry(p, e, TRUE))
        ELSE Set(p, [proc[p] EXCEPT
                       !.pc = IF e[1] \in reg THEN "operate" ELSE "prepare", !.now = e])
  BY Zenon DEF Look
<1>2. /\ proc[p].pc = "each" /\ Mine(p) /\ faults' \in {faults, faults + 1}
      /\ UNCHANGED <<services, files, answer, ops, users, saved>>
  BY DEF Look, At, bounds
<1>3. proc[p].todo \in Contents /\ proc[p].all \in Contents /\ proc[p].todo \subseteq proc[p].all
  BY <1>2 DEF AtWork, OfResurrect, TypeOK, Process, Contents, LoadSteps
<1>4. CASE Set(p, NextEntry(p, e, TRUE))
  <2>1. PICK r \in Process :
          /\ NextEntry(p, e, TRUE) = r
          /\ r.pc = "each" /\ r.cmd = proc[p].cmd
          /\ r.todo = proc[p].todo \ {e} /\ r.all = proc[p].all
          /\ r.failed
    BY <1>3, NextEntryIs, Zenon
  <2>2. Set(p, r)
    BY <1>4, <2>1, Zenon
  <2>3. /\ r.pc = "each" /\ r.cmd = proc[p].cmd /\ r.failed
        /\ r.todo = proc[p].todo \ {e} /\ r.all = proc[p].all
    BY <2>1, Zenon
  <2>4. Moves(p) /\ proc'[p] = r
    BY <1>2, <2>2, <2>3, SetStep
  <2>5. AtWork(p)'
    BY <1>2, <1>3, <2>3, <2>4 DEF AtWork, OfDump, OfResurrect, OfStartup, DumpSteps,
       LoadSteps
  <2> QED BY <1>2, <2>4, <2>5, MoveTypes DEF TypeOK, services, files
<1>5. CASE Set(p, [proc[p] EXCEPT
                     !.pc = IF e[1] \in reg THEN "operate" ELSE "prepare", !.now = e])
  <2>1. e \in Apps \X BOOLEAN
    BY <1>3 DEF Contents
  <2>2. PICK l \in {"operate", "prepare"} :
          l = IF e[1] \in reg THEN "operate" ELSE "prepare"
    OBVIOUS
  <2> DEFINE r == [proc[p] EXCEPT !.pc = l, !.now = e]
  <2>3. /\ r \in Process /\ r.cmd = proc[p].cmd /\ r.now = e /\ r.pc = l
        /\ r.todo = proc[p].todo /\ r.all = proc[p].all
    <3>1. proc[p] \in Process /\ l \in LoadSteps
      BY DEF TypeOK, LoadSteps
    <3>2. r \in Process
      BY <2>1, <3>1 DEF Process
    <3> QED BY <3>1, <3>2 DEF Process
  <2>4. r.failed = proc[p].failed
    BY DEF TypeOK, Process
  <2>5. Set(p, r)
    BY <1>5, <2>2, Zenon
  <2> HIDE DEF r
  <2>6. Moves(p) /\ proc'[p] = r
    BY <1>2, <2>3, <2>5, SetStep
  <2>7. calm'[p] = calm[p] /\ (l = "operate" => e[1] \in reg)
    BY <1>2, <2>2 DEF Mine, TypeOK
  <2>8. AtWork(p)'
    BY <1>2, <1>3, <2>3, <2>4, <2>6, <2>7
    DEF AtWork, OfDump, OfResurrect, OfStartup, DumpSteps, LoadSteps, services
  <2> QED BY <1>2, <2>6, <2>8, MoveTypes DEF TypeOK, services, files
<1> QED BY <1>1, <1>4, <1>5, Zenon

\* An entry that was tried is off the list; if it failed, or its app runs, has
\* an entry and starts at boot, so does what is claimed of the others.
LEMMA TriedMoves ==
  ASSUME NEW p \in Procs, TypeOK, AtWork(p), proc[p].pc \in {"operate", "prepare"},
         NEW r \in Process, Set(p, r), r.pc = "each", r.cmd = proc[p].cmd,
         r.todo = proc[p].todo \ {proc[p].now}, r.all = proc[p].all,
         proc[p].failed => r.failed,
         Mine(p), faults' \in {faults, faults + 1},
         UNCHANGED <<legacy, files, answer, ops, users, saved>>,
         (reg \subseteq Apps /\ unit \subseteq Apps /\ legacy \subseteq unit)',
         (up \subseteq unit /\ enabled \subseteq unit)',
         ~r.failed => /\ reg \subseteq reg' /\ up \subseteq up' /\ enabled \subseteq enabled'
                      /\ calm[p] => proc[p].now[1] \in up' \cap reg' \cap enabled'
  PROVE  Moves(p) /\ AtWork(p)' /\ TypeOK'
<1>1. proc[p].todo \subseteq proc[p].all /\ proc[p].now \in proc[p].todo
  BY DEF AtWork, OfResurrect, LoadSteps
<1>2. Moves(p) /\ proc'[p] = r
  BY SetStep
<1>3. calm'[p] = calm[p]
  BY DEF Mine, TypeOK
<1>4. OfDump(p)' /\ OfStartup(p)'
  BY <1>2 DEF AtWork, OfDump, OfResurrect, OfStartup, DumpSteps, LoadSteps
<1>5. ASSUME calm'[p], ~r.failed
      PROVE  \A e \in r.all \ r.todo : e[1] \in up' \cap reg' \cap enabled'
  <2>1. \A e \in proc[p].all \ proc[p].todo : e[1] \in up \cap reg \cap enabled
    BY <1>3, <1>5 DEF AtWork, OfResurrect, LoadSteps
  <2> QED BY <1>3, <1>5, <2>1
<1>6. OfResurrect(p)'
  BY <1>1, <1>2, <1>5 DEF AtWork, OfResurrect, LoadSteps
<1> QED BY <1>2, <1>4, <1>6, MoveTypes DEF AtWork, TypeOK, files

\* Of an entry that is being tried.
LEMMA Tried ==
  ASSUME NEW p \in Procs, TypeOK, AtWork(p), proc[p].pc \in {"operate", "prepare"}
  PROVE  /\ proc[p].todo \in Contents
         /\ proc[p].now[1] \in Apps
  BY DEF AtWork, OfResurrect, TypeOK, Process, Contents, LoadSteps

LEMMA OperateMoves ==
  ASSUME NEW p \in Procs, TypeOK, AtWork(p), Operate(p)
  PROVE  Moves(p) /\ AtWork(p)' /\ TypeOK'
<1> DEFINE a == proc[p].now[1]
<1>1. /\ proc[p].pc = "operate" /\ Mine(p) /\ faults' \in {faults, faults + 1}
      /\ UNCHANGED <<reg, unit, legacy, files, answer, ops, users, saved>>
  BY DEF Operate, At, NoFault, CanFail
<1>2. /\ proc[p].todo \in Contents /\ a \in Apps
      /\ calm[p] => a \in reg
  BY <1>1, Tried DEF AtWork, OfResurrect
<1>3. PICK tried \in Process :
        /\ NextEntry(p, proc[p].now, FALSE) = tried
        /\ tried.pc = "each" /\ tried.cmd = proc[p].cmd
        /\ tried.todo = proc[p].todo \ {proc[p].now} /\ tried.all = proc[p].all
        /\ proc[p].failed => tried.failed
  BY <1>2, NextEntryIs, Zenon
<1>4. PICK failed \in Process :
        /\ NextEntry(p, proc[p].now, TRUE) = failed
        /\ failed.pc = "each" /\ failed.cmd = proc[p].cmd
        /\ failed.todo = proc[p].todo \ {proc[p].now} /\ failed.all = proc[p].all
        /\ failed.failed
  BY <1>2, NextEntryIs, Zenon
<1>5. \/ a \in unit /\ Started(a) /\ Set(p, tried)
      \/ UNCHANGED <<up, enabled>> /\ Set(p, failed)
      \/ /\ up' \in {up, up \ {a}}
         /\ enabled' \in {enabled, enabled \cup ({a} \cap (unit \ legacy))}
         /\ Set(p, failed)
  BY <1>3, <1>4, Zenon DEF Operate
<1>6. (up \subseteq unit /\ enabled \subseteq unit)'
  BY <1>1, <1>5 DEF Started, TypeOK
<1>7. CASE a \in unit /\ Started(a) /\ Set(p, tried)
  <2>1. /\ tried.pc = "each" /\ tried.cmd = proc[p].cmd /\ (proc[p].failed => tried.failed)
        /\ tried.todo = proc[p].todo \ {proc[p].now} /\ tried.all = proc[p].all
    BY <1>3, Zenon
  <2> QED BY <1>1, <1>2, <1>6, <1>7, <2>1, TriedMoves DEF TypeOK, Started
<1>8. CASE Set(p, failed)
  <2>1. /\ failed.pc = "each" /\ failed.cmd = proc[p].cmd /\ failed.failed
        /\ failed.todo = proc[p].todo \ {proc[p].now} /\ failed.all = proc[p].all
    BY <1>4, Zenon
  <2> QED BY <1>1, <1>6, <1>8, <2>1, TriedMoves DEF TypeOK
<1> QED BY <1>5, <1>7, <1>8

LEMMA PrepareMoves ==
  ASSUME NEW p \in Procs, TypeOK, AtWork(p), Prepare(p)
  PROVE  Moves(p) /\ AtWork(p)' /\ TypeOK'
<1> DEFINE a == proc[p].now[1]
<1>1. /\ proc[p].pc = "prepare" /\ Mine(p) /\ faults' \in {faults, faults + 1}
      /\ UNCHANGED <<legacy, files, answer, ops, users, saved>>
  BY DEF Prepare, At, NoFault, CanFail
<1>2. proc[p].todo \in Contents /\ a \in Apps
  BY <1>1, Tried
<1>3. PICK tried \in Process :
        /\ NextEntry(p, proc[p].now, FALSE) = tried
        /\ tried.pc = "each" /\ tried.cmd = proc[p].cmd
        /\ tried.todo = proc[p].todo \ {proc[p].now} /\ tried.all = proc[p].all
        /\ proc[p].failed => tried.failed
  BY <1>2, NextEntryIs, Zenon
<1>4. PICK failed \in Process :
        /\ NextEntry(p, proc[p].now, TRUE) = failed
        /\ failed.pc = "each" /\ failed.cmd = proc[p].cmd
        /\ failed.todo = proc[p].todo \ {proc[p].now} /\ failed.all = proc[p].all
        /\ failed.failed
  BY <1>2, NextEntryIs, Zenon
<1>5. \/ /\ Started(a) /\ unit' = unit \cup {a} /\ reg' = reg \cup {a}
         /\ Set(p, tried)
      \/ UNCHANGED <<reg, unit, up, enabled>> /\ Set(p, failed)
      \/ /\ unit' \in {unit, unit \cup {a}}
         /\ enabled' \in {enabled, enabled \cup ({a} \cap unit')}
         /\ up' \in {up, up \cup ({a} \cap enabled' \cap unit')}
         /\ UNCHANGED reg /\ Set(p, failed)
  BY <1>3, <1>4, Zenon DEF Prepare
<1>6. /\ (reg \subseteq Apps /\ unit \subseteq Apps /\ legacy \subseteq unit)'
      /\ (up \subseteq unit /\ enabled \subseteq unit)'
  BY <1>1, <1>2, <1>5 DEF Started, TypeOK
<1>7. CASE /\ Started(a) /\ unit' = unit \cup {a} /\ reg' = reg \cup {a}
           /\ Set(p, tried)
  <2>1. /\ tried.pc = "each" /\ tried.cmd = proc[p].cmd /\ (proc[p].failed => tried.failed)
        /\ tried.todo = proc[p].todo \ {proc[p].now} /\ tried.all = proc[p].all
    BY <1>3, Zenon
  <2> QED BY <1>1, <1>2, <1>6, <1>7, <2>1, TriedMoves DEF TypeOK, Started
<1>8. CASE Set(p, failed)
  <2>1. /\ failed.pc = "each" /\ failed.cmd = proc[p].cmd /\ failed.failed
        /\ failed.todo = proc[p].todo \ {proc[p].now} /\ failed.all = proc[p].all
    BY <1>4, Zenon
  <2> QED BY <1>1, <1>6, <1>8, <2>1, TriedMoves DEF TypeOK
<1> QED BY <1>5, <1>7, <1>8

LEMMA TrialsEnd ==
  ASSUME NEW p \in Procs, TypeOK, AtWork(p), AllTried(p) \/ ServicesDone(p)
  PROVE  Moves(p) /\ AtWork(p)' /\ TypeOK'
<1>1. /\ Mine(p) /\ faults' \in {faults, faults + 1}
      /\ UNCHANGED <<services, files, ops, users, saved>>
      /\ End(p, "ok") \/ End(p, "error")
  BY DEF AllTried, ServicesDone, bounds
<1> QED BY <1>1, EndMoves, MoveTypes DEF TypeOK, services, files

LEMMA ReadEntriesMoves ==
  ASSUME NEW p \in Procs, TypeOK, AtWork(p), ReadEntries(p)
  PROVE  Moves(p) /\ AtWork(p)' /\ TypeOK'
<1> DEFINE r == [proc[p] EXCEPT !.pc = "service", !.todo = reg]
<1>1. /\ proc[p].pc = "entries" /\ Mine(p) /\ faults' \in {faults, faults + 1}
      /\ UNCHANGED <<services, files, ops, users, saved>>
      /\ End(p, "ok") \/ (Set(p, r) /\ UNCHANGED answer)
  BY DEF ReadEntries, At, bounds
<1>2. CASE End(p, "ok")
  BY <1>1, <1>2, EndMoves, MoveTypes DEF TypeOK, services, files
<1>3. CASE Set(p, r) /\ UNCHANGED answer
  <2>1. /\ r \in Process /\ r.pc = "service" /\ r.cmd = proc[p].cmd
        /\ r.todo = reg /\ r.all = proc[p].all
    BY DEF TypeOK, Process
  <2> HIDE DEF r
  <2>2. Moves(p) /\ proc'[p] = r
    BY <1>1, <1>3, <2>1, SetStep
  <2>3. AtWork(p)'
    BY <1>1, <2>1, <2>2
    DEF AtWork, OfDump, OfResurrect, OfStartup, DumpSteps, LoadSteps, TypeOK, services
  <2> QED BY <1>1, <1>3, <2>2, <2>3, MoveTypes DEF TypeOK, services, files
<1> QED BY <1>1, <1>2, <1>3

\* A service that startup or unstartup is through with is off the list.
LEMMA ServiceMoves ==
  ASSUME NEW p \in Procs, TypeOK, AtWork(p), Enable(p) \/ Disable(p)
  PROVE  Moves(p) /\ AtWork(p)' /\ TypeOK'
<1>1. /\ proc[p].pc = "service" /\ Mine(p) /\ faults' \in {faults, faults + 1}
      /\ proc[p].cmd \in {"startup", "unstartup"}
      /\ UNCHANGED <<reg, unit, legacy, up, files, answer, ops, users, saved>>
  BY DEF Enable, Disable, At, NoFault, CanFail
<1>2. proc[p].todo \subseteq Apps /\ proc[p] \in Process
  BY <1>1 DEF AtWork, OfStartup, TypeOK
<1>3. PICK a \in proc[p].todo, b \in BOOLEAN :
        /\ Set(p, [proc[p] EXCEPT !.todo = @ \ {a}, !.failed = b])
        /\ proc[p].failed => b
        /\ (enabled \subseteq unit)'
        /\ proc[p].cmd = "startup" /\ ~b => a \in enabled' /\ enabled \subseteq enabled'
  <2>1. CASE Enable(p)
    <3>1. PICK a \in proc[p].todo, failed \in BOOLEAN :
            /\ Set(p, [proc[p] EXCEPT !.todo = @ \ {a}, !.failed = @ \/ failed])
            /\ \/ ~failed /\ a \in unit /\ enabled' = enabled \cup {a}
               \/ failed /\ UNCHANGED enabled
      BY <2>1, Zenon DEF Enable
    <3>2. PICK b \in BOOLEAN : b = (proc[p].failed \/ failed)
      BY Zenon
    <3>3. Set(p, [proc[p] EXCEPT !.todo = @ \ {a}, !.failed = b])
      BY <3>1, <3>2, Zenon
    <3>4. /\ proc[p].failed => b
          /\ ~b => ~failed
      BY <3>2, Zenon
    <3>5. \/ ~failed /\ a \in unit /\ enabled' = enabled \cup {a}
          \/ failed /\ UNCHANGED enabled
      BY <3>1, Zenon
    <3>6. (enabled \subseteq unit)'
      BY <1>1, <3>5 DEF TypeOK
    <3>7. ~b => a \in enabled' /\ enabled \subseteq enabled'
      BY <3>4, <3>5
    <3> QED BY <3>3, <3>4, <3>6, <3>7, Zenon
  <2>2. CASE Disable(p)
    <3>1. PICK a \in proc[p].todo :
            /\ Set(p, [proc[p] EXCEPT !.todo = @ \ {a}])
            /\ enabled' \in {enabled, enabled \ {a}}
            /\ proc[p].cmd = "unstartup"
      BY <2>2 DEF Disable
    <3>2. PICK b \in BOOLEAN : b = proc[p].failed
      BY <1>2 DEF Process
    <3>3. [proc[p] EXCEPT !.todo = @ \ {a}] = [proc[p] EXCEPT !.todo = @ \ {a}, !.failed = b]
      BY <1>2, <3>2 DEF Process
    <3>4. Set(p, [proc[p] EXCEPT !.todo = @ \ {a}, !.failed = b])
      BY <3>1, <3>3, Zenon
    <3>5. (enabled \subseteq unit)'
      BY <1>1, <3>1 DEF TypeOK
    <3> QED BY <3>1, <3>2, <3>4, <3>5
  <2> QED BY <2>1, <2>2
<1> DEFINE r == [proc[p] EXCEPT !.todo = @ \ {a}, !.failed = b]
<1>4. /\ r \in Process /\ r.pc = "service" /\ r.cmd = proc[p].cmd
      /\ r.todo = proc[p].todo \ {a}
  BY <1>1, <1>2 DEF Process
<1>5. r.failed = b
  BY <1>2 DEF Process
<1>6. Set(p, r)
  BY <1>3, Zenon
<1> HIDE DEF r
<1>7. Moves(p) /\ proc'[p] = r
  BY <1>1, <1>4, <1>6, SetStep
<1>8. calm'[p] = calm[p]
  BY <1>1 DEF Mine, TypeOK
<1>9. OfDump(p)' /\ OfResurrect(p)'
  BY <1>1, <1>4, <1>7 DEF AtWork, OfDump, OfResurrect, DumpSteps, LoadSteps
<1>10. OfStartup(p)'
  BY <1>1, <1>2, <1>3, <1>4, <1>5, <1>7, <1>8 DEF AtWork, OfStartup
<1> QED BY <1>1, <1>3, <1>7, <1>9, <1>10, MoveTypes DEF AtWork, TypeOK, files

LEMMA StepMoves ==
  ASSUME NEW p \in Procs, TypeOK, AtWork(p), Move(p)
  PROVE  Moves(p) /\ AtWork(p)' /\ TypeOK'
  BY DumpListMoves, DumpCopyMoves, DumpTruncateMoves, DumpWriteMoves, UnlinkMoves,
     LoadMoves, LookMoves, OperateMoves, PrepareMoves, TrialsEnd, ReadEntriesMoves,
     ServiceMoves, Zenon DEF Move

-----------------------------------------------------------------------------
(* Every step of the system.                                               *)

\* What a process is at, if it does not move and does not keep calm any more:
\* nothing that others change is claimed of it.
LEMMA OthersAtWork ==
  ASSUME NEW q \in Procs, AtWork(q), proc'[q] = proc[q],
         calm'[q] = FALSE \/ (calm'[q] = calm[q] /\ UNCHANGED services)
  PROVE  AtWork(q)'
<1>1. CASE calm'[q] = FALSE
  BY <1>1 DEF AtWork, OfDump, OfResurrect, OfStartup
<1>2. CASE calm'[q] = calm[q] /\ UNCHANGED services
  BY <1>2 DEF AtWork, OfDump, OfResurrect, OfStartup, services
<1> QED BY <1>1, <1>2

LEMMA IdleAtWork ==
  ASSUME NEW q \in Procs, proc'[q] = Idle
  PROVE  AtWork(q)'
<1>1. None \notin DumpForms /\ None \notin {"resurrect", "startup", "unstartup"}
  BY SnapshotAssumption DEF DumpForms, CommandNames
<1> QED BY <1>1 DEF AtWork, OfDump, OfResurrect, OfStartup, Idle, DumpSteps, LoadSteps

\* Init
LEMMA InitOK == Init => TypeOK /\ Underway /\ OneDump /\ Copied
<1> SUFFICES ASSUME Init PROVE TypeOK /\ Underway /\ OneDump /\ Copied
  OBVIOUS
<1> USE DEF Init
<1>1. TypeOK
  BY IdleIsProcess, SnapshotAssumption DEF TypeOK, FileOK
<1>2. ASSUME NEW p \in Procs PROVE AtWork(p)
  <2>1. None \notin DumpForms /\ None \notin {"resurrect", "startup", "unstartup"}
    BY SnapshotAssumption DEF DumpForms, CommandNames
  <2> QED BY <2>1 DEF AtWork, OfDump, OfResurrect, OfStartup, Idle, DumpSteps, LoadSteps
<1>3. OneDump
  <2>1. None \notin DumpForms
    BY SnapshotAssumption DEF DumpForms, CommandNames
  <2> QED BY <2>1 DEF OneDump, Idle
<1>4. Copied
  BY DEF Copied
<1> QED BY <1>1, <1>2, <1>3, <1>4 DEF Underway

\* The first step of a command.
LEMMA BeginStep ==
  ASSUME TypeOK, Underway, OneDump, NEW p \in Procs, NEW c \in Commands, Begin(p, c)
  PROVE  TypeOK' /\ Underway' /\ OneDump'
<1>1. PICK l \in {"list", "load", "unlink", "entries"} :
        /\ l = CASE c \in DumpForms -> "list"
                 [] c = "resurrect" -> "load"
                 [] c = "clear" -> "unlink"
                 [] OTHER -> "entries"
  OBVIOUS
<1> DEFINE r == [Idle EXCEPT !.cmd = c, !.pc = l]
<1>2. Set(p, r)
  BY <1>1, Zenon DEF Begin
<1>3. /\ r \in Process /\ r.cmd = c /\ r.pc = l /\ r.all = {} /\ r.todo = {}
  BY DEF Process, Idle, DumpSteps, LoadSteps, Contents
<1> HIDE DEF r
<1>4. /\ proc'[p] = r /\ proc' \in [Procs -> Process]
      /\ \A q \in Procs \ {p} : proc'[q] = proc[q]
  BY <1>2, <1>3, SetMoves DEF Set, TypeOK
<1>5. /\ calm' \in [Procs -> BOOLEAN]
      /\ \A q \in Procs \ {p} : calm'[q] = FALSE
  <2>1. calm' = [q \in Procs |-> q = p /\ \A o \in Procs \ {p} : At(o, "idle")]
    BY DEF Begin
  <2>2. \A q \in Procs : (q = p /\ \A o \in Procs \ {p} : At(o, "idle")) \in BOOLEAN
    OBVIOUS
  <2> QED BY <2>1, <2>2, Zenon
<1>6. AtWork(p)'
  <2>1. c \in CommandNames
    BY SnapshotAssumption
  <2>2. /\ c \in DumpForms <=> l = "list"
        /\ c = "resurrect" <=> l = "load"
        /\ c \in {"startup", "unstartup"} <=> l = "entries"
    BY <1>1, <2>1 DEF CommandNames, DumpForms
  <2> QED BY <1>3, <1>4, <2>2
          DEF AtWork, OfDump, OfResurrect, OfStartup, DumpSteps, LoadSteps
<1>7. Underway'
  BY <1>4, <1>5, <1>6, OthersAtWork DEF Underway
<1>8. OneDump'
  BY <1>3, <1>4 DEF Begin, OneDump
<1>9. TypeOK'
  <2>1. together' \in BOOLEAN
    BY DEF Begin
  <2>2. answer' \in [Procs -> {"none", "ok", "error"}] /\ ops' \in Nat
    BY DEF Begin, TypeOK
  <2> QED BY <1>4, <1>5, <2>1, <2>2 DEF TypeOK, Begin, services, files, FileOK
<1> QED BY <1>7, <1>8, <1>9

\* A step of a command.
LEMMA MoveStep ==
  ASSUME TypeOK, Underway, OneDump, NEW p \in Procs, Move(p)
  PROVE  TypeOK' /\ Underway' /\ OneDump'
<1>1. Moves(p) /\ AtWork(p)' /\ TypeOK'
  BY StepMoves DEF Underway
<1>2. \A q \in Procs \ {p} : proc'[q] = proc[q] /\ calm'[q] = FALSE
  BY <1>1 DEF Moves, Mine, TypeOK
<1>3. Underway'
  BY <1>1, <1>2, OthersAtWork DEF Underway
<1>4. OneDump'
  <2>1. None \notin DumpForms
    BY SnapshotAssumption DEF DumpForms, CommandNames
  <2> QED BY <1>1, <1>2, <2>1 DEF OneDump, Moves, Mine, Idle
<1> QED BY <1>1, <1>3, <1>4

\* The death of a process, what users do and a reboot.
LEMMA DiesStep ==
  ASSUME TypeOK, Underway, OneDump, NEW p \in Procs, Dies(p)
  PROVE  TypeOK' /\ Underway' /\ OneDump'
<1>1. /\ proc'[p] = Idle /\ \A q \in Procs \ {p} : proc'[q] = proc[q]
      /\ proc' \in [Procs -> Process]
  BY IdleIsProcess DEF Dies, Set, TypeOK
<1>2. /\ UNCHANGED <<services, files, answer, ops, users, saved, calm, together>>
      /\ faults' = faults + 1
  BY DEF Dies, CanFail
<1>3. TypeOK'
  BY <1>1, <1>2 DEF TypeOK, services, files
<1>4. Underway'
  BY <1>1, <1>2, OthersAtWork, IdleAtWork DEF Underway
<1>5. OneDump'
  <2>1. None \notin DumpForms
    BY SnapshotAssumption DEF DumpForms, CommandNames
  <2> QED BY <1>1, <1>2, <2>1 DEF OneDump, Idle
<1> QED BY <1>3, <1>4, <1>5

LEMMA UserStep ==
  ASSUME TypeOK, Underway, OneDump, NEW a \in Apps, User(a)
  PROVE  TypeOK' /\ Underway' /\ OneDump'
<1>1. /\ UNCHANGED <<files, proc, answer, ops, faults, saved, together>>
      /\ calm' = [p \in Procs |-> FALSE] /\ users' = users + 1
  BY DEF User
<1>2. /\ (reg \subseteq Apps /\ unit \subseteq Apps /\ legacy \subseteq unit)'
      /\ (up \subseteq unit /\ enabled \subseteq unit)'
  BY DEF User, UserStops, UserDeletes, UserStarts, StoreLost, Started, TypeOK
<1>3. TypeOK'
  BY <1>1, <1>2 DEF TypeOK, files
<1>4. Underway'
  BY <1>1, OthersAtWork DEF Underway
<1>5. OneDump'
  BY <1>1 DEF OneDump
<1> QED BY <1>3, <1>4, <1>5

LEMMA RebootStep ==
  ASSUME TypeOK, Underway, OneDump, Reboot
  PROVE  TypeOK' /\ Underway' /\ OneDump'
<1>1. /\ UNCHANGED <<reg, unit, legacy, enabled, files, answer, ops, saved, together>>
      /\ calm' = [p \in Procs |-> FALSE] /\ users' = users + 1
      /\ faults' \in {faults, faults + 1}
      /\ proc' = [p \in Procs |-> Idle] /\ up' = enabled \cap unit
  BY DEF Reboot, CanFail, NoFault
<1>2. TypeOK'
  BY <1>1, IdleIsProcess DEF TypeOK, files
<1>3. Underway'
  BY <1>1, IdleAtWork DEF Underway
<1>4. OneDump'
  <2>1. None \notin DumpForms
    BY SnapshotAssumption DEF DumpForms, CommandNames
  <2> QED BY <1>1, <2>1 DEF OneDump, Idle
<1> QED BY <1>2, <1>3, <1>4

-----------------------------------------------------------------------------
(* The files.                                                              *)

\* A step of p that neither changes the files nor begins or ends a dump.
LEMMA CopiedKept ==
  ASSUME TypeOK, Copied, NEW p \in Procs, UNCHANGED <<files, saved>>, together' = together,
         faults' \in {faults, faults + 1},
         \A q \in Procs \ {p} : proc'[q] = proc[q],
         proc[p].pc \notin {"truncate", "write"}, proc'[p].pc \notin {"truncate", "write"}
  PROVE  Copied'
<1>1. \A q \in Procs, l \in {"truncate", "write"} : proc'[q].pc = l <=> proc[q].pc = l
  OBVIOUS
<1>2. Dumping' <=> Dumping
  BY <1>1 DEF Dumping
<1> QED BY <1>1, <1>2 DEF Copied, files, Whole, TypeOK

\* At most one process is with a dump, as long as no two ran at once.
LEMMA OnlyDump ==
  ASSUME Underway, OneDump, ~together, NEW p \in Procs, proc[p].pc \in DumpSteps
  PROVE  \A q \in Procs \ {p} : proc[q].pc \notin DumpSteps
  BY DEF Underway, AtWork, OfDump, OneDump

LEMMA DumpCopyCopied ==
  ASSUME TypeOK, Underway, OneDump, Copied, NEW p \in Procs, DumpCopy(p)
  PROVE  Copied'
<1>1. /\ proc[p].pc = "copy" /\ proc'[p].pc = "truncate" /\ together' = together
      /\ \A q \in Procs \ {p} : proc'[q] = proc[q]
      /\ UNCHANGED <<dump, saved>> /\ faults' \in {faults, faults + 1}
      /\ faults' = faults => backup' = IF dump = None THEN backup ELSE dump
  BY DEF DumpCopy, At, Goto, Mine, NoFault, CanFail, TypeOK
<1> SUFFICES ASSUME saved' PROVE
        /\ dump' # None
        /\ ~together' /\ faults' = 0 =>
              /\ Whole(dump') \/ \E q \in Procs : proc'[q].pc = "write"
              /\ (\E q \in Procs : proc'[q].pc \in {"truncate", "write"}) => Whole(backup')
        /\ ~together' /\ faults' <= 1 /\ ~Dumping' => Whole(dump') \/ Whole(backup')
  BY DEF Copied, Whole
<1>2. dump' # None
  BY <1>1 DEF Copied
<1>3. ASSUME ~together', faults' = 0 PROVE Whole(dump') /\ Whole(backup')
  <2>1. faults = 0 /\ ~together
    BY <1>1, <1>3 DEF TypeOK
  <2>2. \A q \in Procs : proc[q].pc # "write"
    BY <1>1, <2>1, OnlyDump DEF DumpSteps
  <2>3. Whole(dump)
    BY <1>1, <2>1, <2>2 DEF Copied
  <2> QED BY <1>1, <1>3, <2>1, <2>3 DEF Whole
<1>4. Dumping'
  BY <1>1 DEF Dumping
<1> QED BY <1>2, <1>3, <1>4

LEMMA DumpTruncateCopied ==
  ASSUME TypeOK, Underway, OneDump, Copied, NEW p \in Procs, DumpTruncate(p)
  PROVE  Copied'
<1>1. /\ proc[p].pc = "truncate" /\ together' = together
      /\ \A q \in Procs \ {p} : proc'[q] = proc[q]
      /\ UNCHANGED <<backup, saved>>
      /\ \/ dump' = Torn /\ proc'[p].pc = "write" /\ faults' = faults
         \/ dump' = dump /\ proc'[p].pc = "idle" /\ faults' = faults + 1
  <2>1. /\ proc[p].pc = "truncate" /\ together' = together /\ UNCHANGED <<backup, saved>>
        /\ \/ dump' = Torn /\ Goto(p, "write") /\ faults' = faults
           \/ dump' = dump /\ End(p, "error") /\ faults' = faults + 1
    BY DEF DumpTruncate, At, Mine, NoFault, CanFail
  <2>2. Goto(p, "write") =>
          proc'[p].pc = "write" /\ \A q \in Procs \ {p} : proc'[q] = proc[q]
    BY DEF Goto, TypeOK, Process
  <2>3. End(p, "error") =>
          proc'[p].pc = "idle" /\ \A q \in Procs \ {p} : proc'[q] = proc[q]
    BY DEF End, Set, Idle, TypeOK
  <2> QED BY <2>1, <2>2, <2>3
<1>2. None # Torn
  BY SnapshotAssumption
<1>3. CASE dump' = Torn /\ proc'[p].pc = "write" /\ faults' = faults
  BY <1>1, <1>2, <1>3 DEF Copied, Dumping, Whole
<1>4. CASE dump' = dump /\ proc'[p].pc = "idle" /\ faults' = faults + 1
  <2>1. ASSUME saved, ~together, faults' <= 1 PROVE Whole(dump)
    <3>1. faults = 0
      BY <1>4, <2>1 DEF TypeOK
    <3>2. \A q \in Procs : proc[q].pc # "write"
      BY <1>1, <2>1, OnlyDump DEF DumpSteps
    <3> QED BY <2>1, <3>1, <3>2 DEF Copied
  <2>2. faults' # 0
    BY <1>4 DEF TypeOK
  <2> QED BY <1>1, <1>4, <2>1, <2>2 DEF Copied, Whole
<1> QED BY <1>1, <1>3, <1>4

LEMMA DumpWriteCopied ==
  ASSUME TypeOK, Underway, OneDump, Copied, NEW p \in Procs, DumpWrite(p)
  PROVE  Copied'
<1>1. /\ proc[p].pc = "write" /\ proc'[p].pc = "idle" /\ together' = together
      /\ \A q \in Procs \ {p} : proc'[q] = proc[q]
      /\ backup' = backup
      /\ \/ /\ dump' = (IF dump = None THEN None ELSE proc[p].all)
            /\ saved' = (saved \/ dump' # None) /\ faults' = faults
         \/ /\ dump' = (IF dump = None THEN None ELSE Torn)
            /\ saved' = saved /\ faults' = faults + 1
  BY DEF DumpWrite, At, End, Set, Idle, Mine, NoFault, CanFail, TypeOK
<1>2. Whole(proc[p].all) /\ None # Torn
  BY SnapshotAssumption DEF TypeOK, Process, Contents, Whole
<1>3. ~together => ~Dumping'
  <2>1. ASSUME ~together PROVE \A q \in Procs : proc'[q].pc \notin {"truncate", "write"}
    BY <1>1, <2>1, OnlyDump DEF DumpSteps
  <2> QED BY <2>1 DEF Dumping
<1>4. CASE /\ dump' = (IF dump = None THEN None ELSE proc[p].all)
           /\ saved' = (saved \/ dump' # None) /\ faults' = faults
  <2>1. saved => dump # None
    BY DEF Copied
  <2>2. saved' => dump' = proc[p].all
    BY <1>4, <2>1
  <2>3. saved' => Whole(dump')
    BY <1>2, <2>2
  <2> QED BY <1>1, <1>3, <2>3 DEF Copied, Dumping, Whole
<1>5. CASE /\ dump' = (IF dump = None THEN None ELSE Torn)
           /\ saved' = saved /\ faults' = faults + 1
  <2>1. saved => dump # None /\ dump' # None
    BY <1>2, <1>5 DEF Copied
  <2>2. ASSUME saved, ~together, faults' <= 1 PROVE Whole(backup)
    <3>1. faults = 0
      BY <1>5, <2>2 DEF TypeOK
    <3> QED BY <1>1, <2>2, <3>1 DEF Copied
  <2>3. faults' # 0
    BY <1>5 DEF TypeOK
  <2> QED BY <1>1, <1>5, <2>1, <2>2, <2>3 DEF Copied, Whole
<1> QED BY <1>1, <1>4, <1>5

LEMMA MoveCopied ==
  ASSUME TypeOK, Underway, OneDump, Copied, NEW p \in Procs, Move(p)
  PROVE  Copied'
<1>1. Moves(p) /\ AtWork(p) /\ AtWork(p)' /\ TypeOK'
  BY StepMoves DEF Underway
<1>2. /\ \A q \in Procs \ {p} : proc'[q] = proc[q]
      /\ together' = together /\ faults' \in {faults, faults + 1}
  BY <1>1 DEF Moves, Mine, TypeOK
<1>3. CASE DumpList(p)
  <2>1. UNCHANGED <<files, saved>> /\ proc[p].pc = "list"
    BY <1>3 DEF DumpList, At
  <2>2. proc'[p].pc \in {"idle", "copy"}
    <3>1. PICK seen \in Listed \cup {reg} :
            \/ End(p, "ok")
            \/ Set(p, [proc[p] EXCEPT !.pc = "copy", !.all = Entries(seen)])
      BY <1>3, Zenon DEF DumpList
    <3>2. End(p, "ok") => proc'[p].pc = "idle"
      BY DEF End, Set, Idle, TypeOK
    <3>3. \A x : [proc[p] EXCEPT !.pc = "copy", !.all = x].pc = "copy"
      BY DEF TypeOK, Process
    <3>4. Set(p, [proc[p] EXCEPT !.pc = "copy", !.all = Entries(seen)]) => proc'[p].pc = "copy"
      BY <3>3 DEF Set, TypeOK
    <3> QED BY <3>1, <3>2, <3>4
  <2> QED BY <1>2, <2>1, <2>2, CopiedKept
<1>4. CASE Unlink(p) \/ UnlinkBackup(p)
  BY <1>4 DEF Unlink, UnlinkBackup, Copied
<1>5. CASE \/ Load(p) \/ Look(p) \/ Operate(p) \/ Prepare(p) \/ AllTried(p)
           \/ ReadEntries(p) \/ Enable(p) \/ Disable(p) \/ ServicesDone(p)
  <2>1. /\ UNCHANGED <<files, saved>>
        /\ proc[p].pc \in LoadSteps \cup {"entries", "service"}
    BY <1>5 DEF Load, Look, Operate, Prepare, AllTried, ReadEntries, Enable, Disable,
                ServicesDone, At, LoadSteps
  <2>2. proc[p].cmd \notin DumpForms
    BY <1>1, <2>1 DEF AtWork, OfDump, DumpSteps, LoadSteps
  <2>3. proc'[p].pc \notin {"truncate", "write"}
    BY <1>1, <2>2 DEF Moves, AtWork, OfDump, DumpSteps, Idle
  <2> QED BY <1>2, <2>1, <2>3, CopiedKept DEF LoadSteps
<1> QED BY <1>3, <1>4, <1>5, DumpCopyCopied, DumpTruncateCopied, DumpWriteCopied,
           Zenon DEF Move

\* A process that dies, or all that do in a reboot, leave a copy unless one
\* has been lost before.
LEMMA StopCopied ==
  ASSUME TypeOK, Copied, UNCHANGED <<files, saved, together>>,
         \A p \in Procs : proc'[p].pc \in {proc[p].pc, "idle"},
         \/ faults' = faults + 1
         \/ faults' = faults /\ \A p \in Procs : proc'[p].pc = proc[p].pc
  PROVE  Copied'
<1>1. CASE faults' = faults + 1
  <2>1. faults' # 0 /\ (faults' <= 1 => faults = 0)
    BY <1>1 DEF TypeOK
  <2>2. ASSUME saved, ~together, faults' <= 1 PROVE Whole(dump) \/ Whole(backup)
    BY <2>1, <2>2 DEF Copied
  <2> QED BY <2>1, <2>2 DEF Copied, files, Whole
<1>2. CASE faults' = faults /\ \A p \in Procs : proc'[p].pc = proc[p].pc
  BY <1>2 DEF Copied, files, Whole, Dumping
<1> QED BY <1>1, <1>2

LEMMA CopiedStep ==
  ASSUME TypeOK, Underway, OneDump, Copied, Next
  PROVE  Copied'
<1>1. ASSUME NEW p \in Procs, Move(p) PROVE Copied'
  BY <1>1, MoveCopied
<1>2. ASSUME NEW p \in Procs, Dies(p) PROVE Copied'
  <2>1. /\ UNCHANGED <<files, saved, together>> /\ faults' = faults + 1
        /\ \A q \in Procs : proc'[q].pc \in {proc[q].pc, "idle"}
    BY <1>2 DEF Dies, Set, Idle, CanFail, TypeOK
  <2> QED BY <2>1, StopCopied
<1>3. ASSUME NEW a \in Apps, User(a) PROVE Copied'
  <2>1. UNCHANGED <<files, saved, together, proc, faults>>
    BY <1>3 DEF User
  <2> QED BY <2>1 DEF Copied, Dumping, files, Whole
<1>4. CASE Reboot
  <2>1. /\ UNCHANGED <<files, saved, together>>
        /\ \A p \in Procs : proc'[p].pc = "idle"
    BY <1>4 DEF Reboot, Idle
  <2>2. \/ faults' = faults + 1
        \/ faults' = faults /\ \A p \in Procs : proc[p].pc = "idle"
    BY <1>4 DEF Reboot, CanFail, NoFault, At
  <2> QED BY <2>1, <2>2, StopCopied
<1>5. ASSUME NEW p \in Procs, NEW c \in Commands, Begin(p, c) PROVE Copied'
  <2>1. UNCHANGED <<files, saved, faults>> /\ (together => together')
    BY <1>5 DEF Begin
  <2>2. /\ proc[p].pc = "idle" /\ \A q \in Procs \ {p} : proc'[q] = proc[q]
        /\ proc'[p].pc \in {"list", "load", "unlink", "entries"}
    BY <1>5 DEF Begin, At, Set, Idle, TypeOK
  <2>3. \A q \in Procs, l \in {"truncate", "write"} : proc'[q].pc = l <=> proc[q].pc = l
    BY <2>2
  <2>4. Dumping' <=> Dumping
    BY <2>3 DEF Dumping
  <2> QED BY <2>1, <2>3, <2>4 DEF Copied, files, Whole
<1> QED BY <1>1, <1>2, <1>3, <1>4, <1>5 DEF Next, Goes

-----------------------------------------------------------------------------
(* The theorems.                                                           *)

LEMMA Inductive == IInv /\ [Next]_vars => IInv'
<1> SUFFICES ASSUME TypeOK, Underway, OneDump, Copied, [Next]_vars PROVE IInv'
  BY DEF IInv
<1>1. CASE Next
  <2>1. TypeOK' /\ Underway' /\ OneDump'
    BY <1>1, BeginStep, MoveStep, DiesStep, UserStep, RebootStep, Zenon DEF Next, Goes
  <2>2. Copied'
    BY <1>1, CopiedStep
  <2> QED BY <2>1, <2>2 DEF IInv
<1>2. CASE UNCHANGED vars
  <2>1. TypeOK'
    BY <1>2 DEF vars, services, files, bounds, TypeOK, FileOK
  <2>2. Underway'
    BY <1>2 DEF vars, services, Underway, AtWork, OfDump, OfResurrect, OfStartup
  <2>3. OneDump' /\ Copied'
    BY <1>2 DEF vars, files, bounds, OneDump, Copied, Dumping, Whole
  <2> QED BY <2>1, <2>2, <2>3 DEF IInv
<1> QED BY <1>1, <1>2

\* The inductive invariant holds of every run.
THEOREM Invariant == Spec => []IInv
<1>1. Init => IInv
  BY InitOK DEF IInv
<1> QED BY <1>1, Inductive, PTL DEF Spec

\* Every variable keeps its type, for any apps, processes and bounds.
THEOREM Typed == Spec => []TypeOK
<1>1. IInv => TypeOK
  BY DEF IInv
<1> QED BY <1>1, Invariant, PTL

\* After a dump that succeeded, and one failure, death or reboot at most, one
\* of the two files holds a list, unless two dumps ran at once.
THEOREM GoodCopy == Spec => []OneGoodCopy
<1>1. IInv => OneGoodCopy
  <2> SUFFICES ASSUME IInv, saved, ~Dumping, ~together, faults <= 1
               PROVE  Whole(dump) \/ Whole(backup)
    BY DEF OneGoodCopy
  <2> QED BY DEF IInv, Copied
<1> QED BY <1>1, Invariant, PTL

\* A command that ends by itself ends with its own last step.
LEMMA EndsItself ==
  ASSUME TypeOK, Underway, NEW p \in Procs, Ends(p), Next
  PROVE  Move(p) /\ faults' = faults
<1>1. ASSUME NEW q \in Procs, Move(q) PROVE q = p
  <2>1. Moves(q)
    BY <1>1, StepMoves DEF Underway
  <2> QED BY <2>1 DEF Moves, Ends, At, TypeOK
<1>2. ASSUME NEW q \in Procs, Dies(q) PROVE FALSE
  BY <1>2 DEF Dies, CanFail, Ends, TypeOK
<1>3. ASSUME NEW a \in Apps, User(a) PROVE FALSE
  BY <1>3 DEF User, Ends, TypeOK
<1>4. ASSUME Reboot PROVE FALSE
  BY <1>4 DEF Reboot, Ends, TypeOK
<1>5. ASSUME NEW q \in Procs, NEW c \in Commands, Begin(q, c) PROVE FALSE
  BY <1>5 DEF Begin, Set, At, Ends, TypeOK
<1> QED BY <1>1, <1>2, <1>3, <1>4, <1>5 DEF Next, Goes, Ends

\* An app that is being looked at, operated or prepared is not the end.
LEMMA GoesOn ==
  ASSUME NEW p \in Procs, TypeOK, AtWork(p), Look(p) \/ Operate(p) \/ Prepare(p)
  PROVE  proc'[p].pc # "idle"
<1>1. proc[p].pc \in {"each", "operate", "prepare"}
  BY DEF Look, Operate, Prepare, At
<1>2. proc[p].todo \in Contents
  BY <1>1 DEF AtWork, OfResurrect, TypeOK, Process, Contents, LoadSteps
<1>3. \/ \E e : Set(p, NextEntry(p, e, TRUE)) \/ Set(p, NextEntry(p, e, FALSE))
      \/ \E e : \E l \in {"operate", "prepare"} :
            Set(p, [proc[p] EXCEPT !.pc = l, !.now = e])
  <2>1. CASE Look(p)
    <3>1. PICK e \in proc[p].todo :
            \/ Set(p, NextEntry(p, e, TRUE))
            \/ Set(p, [proc[p] EXCEPT
                         !.pc = IF e[1] \in reg THEN "operate" ELSE "prepare", !.now = e])
      BY <2>1, Zenon DEF Look
    <3>2. PICK l \in {"operate", "prepare"} :
            l = IF e[1] \in reg THEN "operate" ELSE "prepare"
      OBVIOUS
    <3> QED BY <3>1, <3>2, Zenon
  <2>2. CASE Operate(p) \/ Prepare(p)
    BY <2>2, Zenon DEF Operate, Prepare
  <2> QED BY <2>1, <2>2
<1>4. CASE \E e : Set(p, NextEntry(p, e, TRUE)) \/ Set(p, NextEntry(p, e, FALSE))
  <2>1. PICK e : Set(p, NextEntry(p, e, TRUE)) \/ Set(p, NextEntry(p, e, FALSE))
    BY <1>4, Zenon
  <2>2. PICK r \in Process :
          /\ NextEntry(p, e, TRUE) = r
          /\ r.pc = "each" /\ r.cmd = proc[p].cmd
          /\ r.todo = proc[p].todo \ {e} /\ r.all = proc[p].all
          /\ r.failed
    BY <1>2, NextEntryIs, Zenon
  <2>3. PICK s \in Process :
          /\ NextEntry(p, e, FALSE) = s
          /\ s.pc = "each" /\ s.cmd = proc[p].cmd
          /\ s.todo = proc[p].todo \ {e} /\ s.all = proc[p].all
          /\ proc[p].failed => s.failed
    BY <1>2, NextEntryIs, Zenon
  <2>4. Set(p, r) \/ Set(p, s)
    BY <2>1, <2>2, <2>3, Zenon
  <2>5. r.pc = "each" /\ s.pc = "each"
    BY <2>2, <2>3, Zenon
  <2> QED BY <2>4, <2>5, SetMoves
<1>5. CASE \E e : \E l \in {"operate", "prepare"} :
             Set(p, [proc[p] EXCEPT !.pc = l, !.now = e])
  <2>1. PICK e, l : l \in {"operate", "prepare"} /\ Set(p, [proc[p] EXCEPT !.pc = l, !.now = e])
    BY <1>5, Zenon
  <2>2. [proc[p] EXCEPT !.pc = l, !.now = e].pc = l
    BY DEF TypeOK, Process
  <2> QED BY <2>1, <2>2 DEF Set, TypeOK
<1> QED BY <1>3, <1>4, <1>5

\* No dump but a forced one replaces a list with an empty one.
LEMMA EmptyStep ==
  ASSUME IInv, Next
  PROVE  EmptyNeedsForce
<1> SUFFICES ASSUME NEW p \in Procs, At(p, "write"), proc'[p] # proc[p], dump' # dump, dump' = {}
             PROVE  proc[p].cmd = "force"
  BY DEF EmptyNeedsForce
<1> USE DEF IInv
<1>1. Torn # {} /\ None # {}
  BY SnapshotAssumption
<1>2. PICK q \in Procs : DumpTruncate(q) \/ DumpWrite(q) \/ Unlink(q)
  BY DEF Next, Goes, Move, DumpList, DumpCopy, UnlinkBackup, Load, Look, Operate,
     Prepare, AllTried, ReadEntries, Enable, Disable, ServicesDone, Dies, User,
     Reboot, Begin, files
<1>3. CASE DumpTruncate(q) \/ Unlink(q)
  BY <1>1, <1>3 DEF DumpTruncate, Unlink
<1>4. CASE DumpWrite(q)
  <2>1. q = p
    BY <1>4 DEF DumpWrite, End, Set, TypeOK
  <2>2. proc[p].all = {}
    BY <1>1, <1>4, <2>1 DEF DumpWrite
  <2>3. proc[p].cmd \in DumpForms /\ proc[p].cmd # "dump"
    BY <2>2 DEF Underway, AtWork, OfDump, DumpSteps, At
  <2> QED BY <2>3 DEF DumpForms
<1> QED BY <1>2, <1>3, <1>4

\* What startup has enabled is all there is.
LEMMA StartupStep ==
  ASSUME IInv, Next
  PROVE  StartupIsComplete
<1> SUFFICES ASSUME NEW p \in Procs, EndsOk(p, "startup"), calm[p]
             PROVE  reg \subseteq enabled
  BY DEF StartupIsComplete
<1> USE DEF IInv
<1>1. AtWork(p) /\ proc[p].cmd = "startup" /\ answer'[p] = "ok" /\ proc'[p].pc = "idle"
  BY DEF EndsOk, Ends, Underway
<1>2. proc[p].pc \in {"entries", "service"}
  BY <1>1 DEF AtWork, OfStartup
<1>3. Move(p)
  BY EndsItself DEF EndsOk
<1>4. ReadEntries(p) \/ Enable(p) \/ ServicesDone(p)
  BY <1>1, <1>2, <1>3 DEF Move, DumpList, DumpCopy, DumpTruncate, DumpWrite, Unlink,
     UnlinkBackup, Load, Look, Operate, Prepare, AllTried, Disable, At
<1>5. CASE ReadEntries(p)
  <2>1. [proc[p] EXCEPT !.pc = "service", !.todo = reg].pc = "service"
    BY DEF TypeOK, Process
  <2> QED BY <1>1, <1>5, <2>1 DEF ReadEntries, Set, TypeOK
<1>6. CASE Enable(p)
  <2>1. PICK a \in proc[p].todo, failed \in BOOLEAN :
          Set(p, [proc[p] EXCEPT !.todo = @ \ {a}, !.failed = @ \/ failed])
    BY <1>6, Zenon DEF Enable
  <2>2. PICK b \in BOOLEAN : b = (proc[p].failed \/ failed)
    BY Zenon
  <2>3. Set(p, [proc[p] EXCEPT !.todo = @ \ {a}, !.failed = b])
    BY <2>1, <2>2, Zenon
  <2>4. [proc[p] EXCEPT !.todo = @ \ {a}, !.failed = b].pc = proc[p].pc
    BY DEF TypeOK, Process
  <2> QED BY <1>1, <1>2, <2>3, <2>4 DEF Set, TypeOK
<1>7. CASE ServicesDone(p)
  <2>1. proc[p].todo = {} /\ proc[p].pc = "service" /\ ~proc[p].failed
    BY <1>1, <1>7 DEF ServicesDone, End, At, TypeOK
  <2> QED BY <1>1, <2>1 DEF AtWork, OfStartup
<1> QED BY <1>4, <1>5, <1>6, <1>7

\* What resurrect has brought back is all that was dumped.
LEMMA ResurrectStep ==
  ASSUME IInv, Next
  PROVE  ResurrectIsComplete
<1> SUFFICES ASSUME NEW p \in Procs, EndsOk(p, "resurrect"), calm[p]
             PROVE  \A e \in proc[p].all : e[1] \in up \cap reg \cap enabled
  BY DEF ResurrectIsComplete
<1> USE DEF IInv
<1>1. AtWork(p) /\ proc[p].cmd = "resurrect" /\ answer'[p] = "ok" /\ proc'[p].pc = "idle"
  BY DEF EndsOk, Ends, Underway
<1>2. proc[p].pc \in LoadSteps
  BY <1>1 DEF AtWork, OfResurrect
<1>3. Move(p)
  BY EndsItself DEF EndsOk
<1>4. Load(p) \/ AllTried(p)
  BY <1>1, <1>2, <1>3, GoesOn
  DEF Move, DumpList, DumpCopy, DumpTruncate, DumpWrite, Unlink, UnlinkBackup,
      ReadEntries, Enable, Disable, ServicesDone, At, LoadSteps
<1>5. CASE Load(p)
  BY <1>1, <1>5 DEF Load, At, AtWork, OfResurrect
<1>6. CASE AllTried(p)
  <2>1. proc[p].todo = {} /\ ~proc[p].failed
    BY <1>1, <1>6 DEF AllTried, End, TypeOK
  <2> QED BY <1>1, <1>2, <2>1 DEF AtWork, OfResurrect
<1> QED BY <1>4, <1>5, <1>6

\* No command brings a legacy app back.
LEMMA LegacyStep ==
  ASSUME IInv, Next
  PROVE  LegacyStaysOff
<1> SUFFICES ASSUME NEW a \in legacy, NEW p \in Procs, proc'[p] # proc[p], ~At(p, "idle"),
                    a \in up' \cup enabled'
             PROVE  a \in up \cup enabled
  BY DEF LegacyStaysOff
<1> USE DEF IInv
<1>1. ASSUME NEW q \in Procs, Move(q) PROVE a \in up \cup enabled
  <2>1. CASE UNCHANGED <<up, enabled>>
    BY <2>1
  <2>2. CASE Operate(q)
    BY <2>2 DEF Operate, Started, Refused
  <2>3. CASE Prepare(q)
    BY <2>3 DEF Prepare, Started, Refused
  <2>4. CASE Enable(q)
    BY <2>4 DEF Enable, Refused
  <2>5. CASE Disable(q)
    BY <2>5 DEF Disable
  <2> QED BY <1>1, <2>1, <2>2, <2>3, <2>4, <2>5 DEF Move, DumpList, DumpCopy,
             DumpTruncate, DumpWrite, Unlink, UnlinkBackup, Load, Look, AllTried,
             ReadEntries, ServicesDone, services
<1>2. ASSUME NEW q \in Procs, Dies(q) PROVE a \in up \cup enabled
  BY <1>2 DEF Dies, services
<1>3. ASSUME NEW b \in Apps, User(b) PROVE a \in up \cup enabled
  BY <1>3 DEF User
<1>4. CASE Reboot
  BY <1>4 DEF Reboot
<1>5. ASSUME NEW q \in Procs, NEW c \in Commands, Begin(q, c) PROVE a \in up \cup enabled
  BY <1>5 DEF Begin, services
<1> QED BY <1>1, <1>2, <1>3, <1>4, <1>5 DEF Next, Goes

\* What startup, resurrect and dump promise, whatever fails and whoever else
\* is at work.
THEOREM BootsRight == Spec => BootsAsAsked
<1>1. IInv /\ [Next]_vars =>
        [EmptyNeedsForce /\ StartupIsComplete /\ ResurrectIsComplete /\ LegacyStaysOff]_vars
  BY EmptyStep, StartupStep, ResurrectStep, LegacyStep
<1> QED BY <1>1, Invariant, PTL DEF Spec, BootsAsAsked

-----------------------------------------------------------------------------
(* Migration from PM2 (Migrate), whose processes, units and PM2 are its own: *)
(* for any lists, processes, migrations, failures and deaths.  What is left   *)
(* of a list is the rest of the program, as in the other proofs; what has     *)
(* been taken off it is settled, or some process is at it (Brought, Once,     *)
(* Somewhere).                                                                *)

MigSteps == {"idle", "look", "install", "timer", "register", "stop", "enable", "start"}
MigTypes ==
    /\ list \in Lists /\ ran \subseteq M!Names /\ pm2 \subseteq ran
    /\ owner \in [M!Units -> M!Names \cup {None}]
    /\ units \subseteq M!Units /\ timers \subseteq units
    /\ enabledUnits \subseteq units /\ active \subseteq units
    /\ pc \in [Migrators -> MigSteps]
    /\ dry \in [Migrators -> BOOLEAN] /\ errors \in [Migrators -> BOOLEAN]
    /\ todo \in [Migrators -> Seq(M!ToSet(list))]
    /\ asked \in [Migrators -> SUBSET M!ToSet(list)]
    /\ res \in [Migrators -> {"none", "ok", "failed"}]
    /\ hurt \subseteq M!Names \X {"install", "timer", "register", "stop", "kept", "enable", "start"}
    /\ broke \in [Migrators -> BOOLEAN]
    /\ migrations \in 0 .. MaxMigrations /\ failures \in 0 .. MaxFailures

\* What the steps of a migration have made sure of.
Reached(p) ==
    /\ pc[p] \notin {"idle", "look"} =>
          todo[p] # <<>> /\ M!Cur(p).unit \notin templates
    /\ pc[p] \in {"timer", "register", "stop", "enable", "start"} => M!Cur(p).unit \in units
    /\ pc[p] \in {"stop", "enable", "start"} => owner[M!Cur(p).unit] # None
    /\ pc[p] = "start" => M!Cur(p).unit \in enabledUnits
MigPlace == \A p \in Migrators : Reached(p)

\* Templates are left alone, and so is what PM2 runs under their names.
Spared ==
    /\ units \cap templates = {}
    /\ \A n \in ran : M!UnitOf(n) \in templates => n \in pm2

\* Who is asked for is in the store or yet to come.
Reports(p) ==
    /\ broke[p] => errors[p]
    /\ res[p] = "ok" => pc[p] = "idle" /\ ~errors[p] /\ todo[p] = <<>>
    /\ (pc[p] # "idle" \/ res[p] = "ok") /\ ~dry[p] /\ ~errors[p] =>
          \A e \in asked[p] : owner[e.unit] # None \/ e \in M!ToSet(todo[p])
MigReports == \A p \in Migrators : Reports(p)

\* Who is in the store runs and starts at boot, or is about to, unless a
\* migration of it failed on the way.
Doing(p, steps, u) == pc[p] \in steps /\ M!Cur(p).unit = u /\ M!Cur(p).name = owner[u]
Brought ==
    \A u \in M!Units : owner[u] # None =>
        \/ u \in enabledUnits \cap active
        \/ M!Hurt(owner[u], {"stop", "enable", "start"})
        \/ \E p \in Migrators : Doing(p, {"stop", "enable", "start"}, u)

\* An owner that PM2 runs is about to be stopped there.
Once ==
    \A u \in M!Units : owner[u] \in pm2 =>
        M!Hurt(owner[u], {"kept", "stop"}) \/ \E p \in Migrators : Doing(p, {"stop"}, u)

\* A timer's unit is in the store, or about to be, or its migration failed just
\* then; and what runs is in the store or has a timer.
LeftTimer(u) == \E n \in M!Names : M!UnitOf(n) = u /\ M!Hurt(n, {"register"})
Timed ==
    \A u \in M!Units :
        /\ u \in timers => \/ owner[u] # None \/ LeftTimer(u)
                           \/ \E p \in Migrators : pc[p] = "register" /\ M!Cur(p).unit = u
        /\ u \in active => owner[u] # None \/ u \in timers

\* Every owner is an application of that unit.
Owners ==
    \A u \in M!Units : owner[u] # None => \E e \in M!ToSet(list) : e.unit = u /\ e.name = owner[u]
MigInv == MigTypes /\ MigPlace /\ Spared /\ MigReports /\ Brought /\ Once /\ Timed /\ Owners

\* Where units are not fought for, what PM2 no longer runs has its own service.
Claim(p) ==
    /\ pc[p] \in {"install", "timer", "register"} => owner[M!Cur(p).unit] \in {None, M!Cur(p).name}
    /\ pc[p] \in {"stop", "enable", "start"} => owner[M!Cur(p).unit] = M!Cur(p).name
Claims == \A p \in Migrators : Claim(p)
Follows(n) ==
    \/ /\ owner[M!UnitOf(n)] = n /\ M!UnitOf(n) \in units
       /\ M!UnitOf(n) \in active \/ M!Hurt(n, {"enable", "start"})
    \/ \E p \in Migrators : pc[p] \in {"enable", "start"} /\ M!Cur(p).name = n
Somewhere == \A n \in ran \ pm2 : Follows(n)
ApartInv == MigInv /\ Claims /\ Somewhere

\* What a step has to keep.
Preserved == MigInv' /\ (ApartInv /\ Apart => ApartInv')

-----------------------------------------------------------------------------
(* Sequences.                                                              *)

\* A set of numbers that is not empty has a least one.
LEMMA Least ==
  ASSUME NEW T, T \subseteq Nat, T # {}
  PROVE  \E m \in T : \A n \in T : m <= n
<1>1. PICK m \in T : \A n \in T : <<n, m>> \notin OpToRel(<, Nat)
  BY NatLessThanWellFounded, WFMin
<1>2. ASSUME NEW n \in T PROVE m <= n
  <2>1. m \in Nat /\ n \in Nat
    OBVIOUS
  <2>2. ~(n < m)
    BY <1>1, <2>1 DEF OpToRel
  <2> QED BY <2>1, <2>2
<1> QED BY <1>2

\* What Kept takes from a list are entries of it: by the least prefix of which
\* that could be wrong.
LEMMA KeptEntries ==
  ASSUME NEW E, NEW l \in Seq(E), NEW S
  PROVE  M!Kept(l, S) \in Seq(E)
<1> DEFINE step(F, i) ==
             IF i = 0 THEN << >>
             ELSE IF l[i] \in S THEN Append(F[i - 1], l[i]) ELSE F[i - 1]
           Sol(F, n) == F = [i \in 0 .. n |-> step(F, i)]
           T == {n \in 0 .. Len(l) : ~ \E F : Sol(F, n)}
<1>1. T = {}
  <2> SUFFICES ASSUME T # {} PROVE FALSE
    OBVIOUS
  <2>0. T \subseteq Nat
    OBVIOUS
  <2>1. PICK m \in T : \A n \in T : m <= n
    <3> HIDE DEF T
    <3> QED BY <2>0, Least
  <2>2. m \in 0 .. Len(l) /\ m \in Nat
    OBVIOUS
  <2>3. CASE m = 0
    <3>1. Sol([i \in 0 .. 0 |-> << >>], 0)
      OBVIOUS
    <3> QED BY <3>1, <2>3
  <2>4. CASE m # 0
    <3>1. m - 1 \in 0 .. Len(l) /\ m - 1 \notin T
      <4> HIDE DEF T
      <4> QED BY <2>1, <2>2, <2>4
    <3>2. PICK F : Sol(F, m - 1)
      BY <3>1
    <3> DEFINE G == [i \in 0 .. m |-> IF i = m THEN step(F, m) ELSE F[i]]
    <3>3. Sol(G, m)
      <4>1. ASSUME NEW i \in 0 .. m PROVE G[i] = step(G, i)
        <5>1. CASE i = m
          <6>1. m - 1 \in 0 .. m /\ m - 1 # m
            BY <2>2, <2>4
          <6>2. G[m - 1] = F[m - 1]
            BY <6>1
          <6> QED BY <5>1, <6>2, <2>4
        <5>2. CASE i # m
          <6>1. i \in 0 .. m - 1
            BY <5>2, <2>2
          <6>2. F[i] = step(F, i)
            BY <3>2, <6>1
          <6>3. i # 0 => i - 1 \in 0 .. m /\ i - 1 # m
            BY <6>1, <2>2
          <6> QED BY <5>2, <6>1, <6>2, <6>3
        <5> QED BY <5>1, <5>2
      <4> QED BY <4>1
    <3> QED BY <3>3
  <2> QED BY <2>3, <2>4
<1> DEFINE F == CHOOSE H : Sol(H, Len(l))
<1>3. Sol(F, Len(l))
  <2>1. \E H : Sol(H, Len(l))
    BY <1>1
  <2> HIDE DEF Sol
  <2> QED BY <2>1
<1>4. M!Kept(l, S) = F[Len(l)]
  BY DEF M!Kept
<1> HIDE DEF F
<1> DEFINE U == {n \in 0 .. Len(l) : F[n] \notin Seq(E)}
<1>5. U = {}
  <2> SUFFICES ASSUME U # {} PROVE FALSE
    OBVIOUS
  <2>0. U \subseteq Nat
    OBVIOUS
  <2>1. PICK m \in U : \A n \in U : m <= n
    <3> HIDE DEF U
    <3> QED BY <2>0, Least
  <2>2. m \in 0 .. Len(l) /\ m \in Nat
    OBVIOUS
  <2>3. F[m] = step(F, m) /\ F[m] \notin Seq(E)
    BY <1>3, <2>2
  <2>4. CASE m = 0
    <3>1. F[m] = << >>
      BY <2>3, <2>4
    <3> QED BY <3>1, <2>3
  <2>5. CASE m # 0
    <3>1. m - 1 \in 0 .. Len(l) /\ m - 1 \notin U
      <4> HIDE DEF U
      <4> QED BY <2>1, <2>2, <2>5
    <3>2. F[m - 1] \in Seq(E)
      BY <3>1
    <3>3. l[m] \in E
      BY <2>2, <2>5
    <3>4. F[m] = IF l[m] \in S THEN Append(F[m - 1], l[m]) ELSE F[m - 1]
      BY <2>3, <2>5
    <3> HIDE DEF U, step
    <3> QED BY <3>2, <3>3, <3>4, <2>3
  <2> QED BY <2>4, <2>5
<1> QED BY <1>4, <1>5

\* What is left of a list, and what comes next.
LEMMA Rest ==
  ASSUME NEW E, NEW l \in Seq(E), l # <<>>
  PROVE  /\ Head(l) \in E /\ Tail(l) \in Seq(E)
         /\ \A e \in M!ToSet(l) : e = Head(l) \/ e \in M!ToSet(Tail(l))
<1>1. ASSUME NEW e \in M!ToSet(l) PROVE e = Head(l) \/ e \in M!ToSet(Tail(l))
  <2>1. PICK i \in DOMAIN l : e = l[i]
    BY DEF M!ToSet
  <2>2. CASE i = 1
    BY <2>1, <2>2
  <2>3. CASE i # 1
    <3>1. i - 1 \in DOMAIN Tail(l) /\ Tail(l)[i - 1] = l[i]
      BY <2>3
    <3> QED BY <3>1, <2>1, Zenon DEF M!ToSet
  <2> QED BY <2>2, <2>3
<1> QED BY <1>1

\* The entries of a sequence over E are in E.
LEMMA Members ==
  ASSUME NEW E, NEW l \in Seq(E)
  PROVE  M!ToSet(l) \subseteq E /\ (l = <<>> => M!ToSet(l) = {})
  BY DEF M!ToSet

\* The entry a process is at, and the units and names of entries.
LEMMA AtEntry ==
  ASSUME SoundLists, MigTypes, NEW p \in Migrators, todo[p] # <<>>
  PROVE  /\ M!ToSet(list) \subseteq M!Entries
         /\ M!Cur(p) \in M!ToSet(list) /\ Tail(todo[p]) \in Seq(M!ToSet(list))
         /\ M!Cur(p).unit \in M!Units /\ M!Cur(p).name \in M!Names
         /\ M!UnitOf(M!Cur(p).name) = M!Cur(p).unit
         /\ M!Cur(p).name # None
         /\ \A e \in M!ToSet(todo[p]) : e = M!Cur(p) \/ e \in M!ToSet(Tail(todo[p]))
<1>1. todo[p] \in Seq(M!ToSet(list))
  BY DEF MigTypes
<1>5. M!ToSet(list) \subseteq M!Entries
  BY DEF MigTypes, M!Entries
<1>2. M!Cur(p) \in M!ToSet(list) /\ Tail(todo[p]) \in Seq(M!ToSet(list))
      /\ \A e \in M!ToSet(todo[p]) : e = M!Cur(p) \/ e \in M!ToSet(Tail(todo[p]))
  BY <1>1, Rest DEF M!Cur
<1>3. M!Cur(p).unit \in M!Units /\ M!Cur(p).name \in M!Names
  BY <1>2, <1>5 DEF M!Units, M!Names
<1>4. M!UnitOf(M!Cur(p).name) = M!Cur(p).unit
  <2> DEFINE n == M!Cur(p).name
             OK(s) == \E e \in M!Entries : e.name = n /\ e.unit = s
  <2>1. OK(M!Cur(p).unit)
    BY <1>2, <1>5
  <2>2. M!UnitOf(n) \in M!Units /\ OK(M!UnitOf(n))
    BY <2>1, <1>3 DEF M!UnitOf
  <2>3. \A e, f \in M!Entries : e.name = f.name => e.unit = f.unit
    BY DEF SoundLists
  <2> QED BY <2>2, <2>3, <1>2, <1>5
<1> QED BY <1>2, <1>3, <1>4, <1>5 DEF SoundLists

\* Who was hurt stays so.
LEMMA HurtStays ==
  ASSUME hurt \subseteq hurt'
  PROVE  /\ \A n, S : M!Hurt(n, S) => M!Hurt(n, S)'
         /\ \A u : LeftTimer(u) => LeftTimer(u)'
         /\ \A n : M!UnitOf(n)' = M!UnitOf(n)
<1>1. \A n, S : M!Hurt(n, S) => M!Hurt(n, S)'
  BY DEF M!Hurt
<1>2. \A n : M!UnitOf(n)' = M!UnitOf(n)
  BY DEF M!UnitOf
<1>3. \A u : LeftTimer(u) => LeftTimer(u)'
  BY <1>1, <1>2 DEF LeftTimer
<1> QED BY <1>1, <1>2, <1>3

\* Nothing is claimed at first.
LEMMA MigInit ==
  ASSUME SoundLists, M!Init
  PROVE  ApartInv
<1>1. MigTypes
  <2>1. ran \subseteq M!Names
    <3>1. list \in Lists
      BY DEF M!Init
    <3>2. M!ToSet(list) \subseteq M!Entries
      BY <3>1 DEF M!Entries
    <3> QED BY <3>2 DEF M!Init, M!Names
  <2> QED BY <2>1 DEF M!Init, MigTypes, MigSteps, SoundLists
<1>2. MigPlace /\ Claims
  BY DEF M!Init, MigPlace, Reached, Claims, Claim
<1>3. Spared /\ Somewhere
  BY DEF M!Init, Spared, Somewhere
<1>4. MigReports
  BY DEF M!Init, MigReports, Reports
<1>5. Brought /\ Owners /\ Timed
  BY DEF M!Init, Brought, Owners, Timed
<1>6. Once
  BY <1>1 DEF M!Init, Once, SoundLists, MigTypes
<1> QED BY <1>1, <1>2, <1>3, <1>4, <1>5, <1>6 DEF MigInv, ApartInv

\* An entry that is refused, skipped or only previewed (Look).
LEMMA MigPassed ==
  ASSUME SoundLists, MigInv, NEW p \in Migrators,
         pc[p] = "look", todo[p] # <<>>, NEW d, NEW e \in BOOLEAN, M!Counted(p, d, e),
         UNCHANGED <<M!Pm2, M!World, hurt, broke, migrations, failures>>,
         \/ e \/ dry[p] \/ owner[M!Cur(p).unit] # None
  PROVE  Preserved
<1>1. MigTypes'
  BY AtEntry DEF MigInv, MigTypes, MigSteps, MigPlace, Reached, M!Cur, SoundLists,
     M!Counted, M!Pm2, M!World 
<1>2. MigPlace'
  BY AtEntry DEF MigInv, MigTypes, MigPlace, Reached, M!Cur, M!Counted, M!Pm2, M!World
<1>3. Spared'
  BY AtEntry DEF MigInv, MigTypes, MigPlace, Reached, Spared, M!Counted, M!Pm2, M!World
<1>4. MigReports'
  BY AtEntry, Members DEF MigInv, MigTypes, MigPlace, Reached, MigReports, Reports,
     M!Cur, M!Counted, M!Pm2, M!World 
<1>5. Brought'
  BY AtEntry DEF MigInv, MigTypes, MigPlace, Reached, Brought, Doing, M!Hurt, M!Cur,
     M!Counted, M!Pm2, M!World 
<1>6. Once'
  BY AtEntry DEF MigInv, MigTypes, MigPlace, Reached, Once, Doing, M!Hurt, M!Cur, M!Counted,
     M!Pm2, M!World 
<1>7. Owners'
  BY AtEntry DEF MigInv, MigTypes, MigPlace, Reached, Owners, M!Cur, M!Counted,
     M!Pm2, M!World 
<1>8. ASSUME ApartInv, Apart PROVE Claims'
  BY <1>8, AtEntry DEF ApartInv, Apart, OwnUnits, OneMigrates, MigInv, MigTypes,
     MigPlace, Reached, Claims, Claim, M!Cur, M!Counted, M!Pm2, M!World 
<1>9. ASSUME ApartInv, Apart PROVE Somewhere'
  BY <1>9, AtEntry DEF ApartInv, MigInv, MigTypes, MigPlace, Reached, Claims, Claim,
     Somewhere, Follows, M!Hurt, M!Cur, M!Counted, M!Pm2, M!World 
<1>10. Timed'
  BY AtEntry DEF MigInv, MigTypes, MigPlace, Reached, Timed, LeftTimer, M!Hurt, M!UnitOf, M!Cur,
     M!Counted, M!Pm2, M!World 
<1> QED BY <1>1, <1>2, <1>3, <1>4, <1>5, <1>6, <1>7, <1>8, <1>9, <1>10 DEF Preserved,
           MigInv, ApartInv 

\* An entry that is to be migrated (Look).
LEMMA MigChosen ==
  ASSUME SoundLists, MigInv, NEW p \in Migrators,
         pc[p] = "look", todo[p] # <<>>, M!Goto(p, "install"), ~dry[p],
         M!Cur(p).unit \notin templates, owner[M!Cur(p).unit] = None,
         UNCHANGED <<M!Pm2, M!World, hurt, broke, migrations, failures>>
  PROVE  Preserved
<1>1. MigTypes'
  BY AtEntry DEF MigInv, MigTypes, MigSteps, MigPlace, Reached, M!Cur, SoundLists,
     M!Goto, M!Pm2, M!World 
<1>2. MigPlace'
  BY AtEntry DEF MigInv, MigTypes, MigPlace, Reached, M!Cur, M!Goto, M!Pm2, M!World
<1>3. Spared'
  BY AtEntry DEF MigInv, MigTypes, MigPlace, Reached, Spared, M!Goto, M!Pm2, M!World
<1>4. MigReports'
  BY AtEntry, Members DEF MigInv, MigTypes, MigPlace, Reached, MigReports, Reports,
     M!Cur, M!Goto, M!Pm2, M!World 
<1>5. Brought'
  BY AtEntry DEF MigInv, MigTypes, MigPlace, Reached, Brought, Doing, M!Hurt, M!Cur, M!Goto,
     M!Pm2, M!World 
<1>6. Once'
  BY AtEntry DEF MigInv, MigTypes, MigPlace, Reached, Once, Doing, M!Hurt, M!Cur, M!Goto,
     M!Pm2, M!World 
<1>7. Owners'
  BY AtEntry DEF MigInv, MigTypes, MigPlace, Reached, Owners, M!Cur, M!Goto, M!Pm2, M!World
<1>8. ASSUME ApartInv, Apart PROVE Claims'
  BY <1>8, AtEntry DEF ApartInv, Apart, OwnUnits, OneMigrates, MigInv, MigTypes,
     MigPlace, Reached, Claims, Claim, M!Cur, M!Goto, M!Pm2, M!World 
<1>9. ASSUME ApartInv, Apart PROVE Somewhere'
  BY <1>9, AtEntry DEF ApartInv, MigInv, MigTypes, MigPlace, Reached, Claims, Claim,
     Somewhere, Follows, M!Hurt, M!Cur, M!Goto, M!Pm2, M!World 
<1>10. Timed'
  BY AtEntry DEF MigInv, MigTypes, MigPlace, Reached, Timed, LeftTimer, M!Hurt, M!UnitOf, M!Cur, M!Goto,
     M!Pm2, M!World 
<1> QED BY <1>1, <1>2, <1>3, <1>4, <1>5, <1>6, <1>7, <1>8, <1>9, <1>10 DEF Preserved,
           MigInv, ApartInv 

\* A step that fails and ends the migration of its entry.
LEMMA MigFailed ==
  ASSUME SoundLists, MigInv, NEW p \in Migrators,
         pc[p] \in {"install", "register", "enable", "start"}, M!Failure(p),
         UNCHANGED <<M!Pm2, pm2, owner, timers, enabledUnits, active, migrations>>,
         units' \in {units, units \cup {M!Cur(p).unit}}
  PROVE  Preserved
<1>1. MigTypes'
  <2>1. failures' \in 0 .. MaxFailures
    BY DEF MigInv, MigTypes, M!Failure, M!CanFail, SoundLists
  <2>2. /\ todo' \in [Migrators -> Seq(M!ToSet(list))] /\ pc' \in [Migrators -> MigSteps]
        /\ errors' \in [Migrators -> BOOLEAN] /\ UNCHANGED <<dry, asked, res>>
    BY AtEntry DEF MigInv, MigTypes, MigSteps, MigPlace, Reached, M!Failure,
       M!Error, M!Counted 
  <2>3. hurt' \subseteq M!Names \X {"install", "timer", "register", "stop", "kept", "enable", "start"}
        /\ broke' \in [Migrators -> BOOLEAN] /\ units' \subseteq M!Units /\ units \subseteq units'
    <3>1. M!Cur(p).name \in M!Names /\ M!Cur(p).unit \in M!Units
      BY AtEntry DEF MigInv, MigPlace, Reached
    <3>2. hurt' = hurt \cup {<<M!Cur(p).name, pc[p]>>} /\ broke' = [broke EXCEPT ![p] = TRUE]
      BY DEF M!Failure
    <3>3. hurt \subseteq M!Names \X {"install", "timer", "register", "stop", "kept", "enable", "start"}
          /\ broke \in [Migrators -> BOOLEAN] /\ units \subseteq M!Units
      BY DEF MigInv, MigTypes
    <3>4. <<M!Cur(p).name, pc[p]>> \in M!Names \X {"install", "timer", "register", "stop", "kept", "enable", "start"}
      BY <3>1
    <3>5. hurt' \subseteq M!Names \X {"install", "timer", "register", "stop", "kept", "enable", "start"}
      BY <3>2, <3>3, <3>4, Zenon
    <3> QED BY <3>1, <3>2, <3>3, <3>5
  <2> QED BY <2>1, <2>2, <2>3 DEF MigInv, MigTypes, M!Pm2
<1>2. MigPlace'
  BY AtEntry DEF MigInv, MigTypes, MigPlace, Reached, M!Cur, M!Failure, M!CanFail,
     M!Error, M!Counted, M!Pm2 
<1>3. Spared'
  BY AtEntry DEF MigInv, MigTypes, MigPlace, Reached, Spared, M!Failure, M!CanFail,
     M!Error, M!Counted, M!Pm2 
<1>4. MigReports'
  <2>1. /\ errors'[p] /\ res'[p] = res[p] /\ res[p] # "ok"
        /\ \A q \in Migrators \ {p} : /\ pc'[q] = pc[q] /\ errors'[q] = errors[q]
                                      /\ todo'[q] = todo[q] /\ res'[q] = res[q]
    BY DEF MigInv, MigTypes, MigReports, Reports, M!Failure, M!Error, M!Counted
  <2>2. UNCHANGED <<dry, asked, owner>>
    BY DEF M!Failure, M!Error, M!Counted
  <2>3. \A q \in Migrators \ {p} : broke'[q] = broke[q]
    BY DEF MigInv, MigTypes, M!Failure
  <2> QED BY <2>1, <2>2, <2>3, Zenon DEF MigInv, MigReports, Reports
<1>5. Brought'
  BY AtEntry DEF MigInv, MigTypes, MigPlace, Reached, Brought, Doing, M!Hurt, M!Cur,
     M!Failure, M!CanFail, M!Error, M!Counted, M!Pm2 
<1>6. Once'
  BY AtEntry DEF MigInv, MigTypes, MigPlace, Reached, Once, Doing, M!Hurt, M!Cur, M!Failure,
     M!CanFail, M!Error, M!Counted, M!Pm2 
<1>7. Owners'
  BY AtEntry DEF MigInv, MigTypes, MigPlace, Reached, Owners, M!Cur, M!Failure,
     M!CanFail, M!Error, M!Counted, M!Pm2 
<1>8. ASSUME ApartInv, Apart PROVE Claims'
  BY <1>8, AtEntry DEF ApartInv, Apart, OwnUnits, OneMigrates, MigInv, MigTypes,
     MigPlace, Reached, Claims, Claim, M!Cur, M!Failure, M!CanFail, M!Error,
     M!Counted, M!Pm2 
<1>9. ASSUME ApartInv, Apart PROVE Somewhere'
  <2> SUFFICES ASSUME NEW n \in ran, n \notin pm2' PROVE Follows(n)'
    BY DEF Somewhere, M!Pm2
  <2>1. Follows(n) /\ M!UnitOf(n)' = M!UnitOf(n)
    BY <1>9 DEF ApartInv, Somewhere, M!UnitOf
  <2>2. CASE /\ owner[M!UnitOf(n)] = n /\ M!UnitOf(n) \in units
             /\ M!UnitOf(n) \in active \/ M!Hurt(n, {"enable", "start"})
    BY <2>1, <2>2 DEF Follows, M!Hurt, M!Failure
  <2>3. ASSUME NEW q \in Migrators, pc[q] \in {"enable", "start"} /\ M!Cur(q).name = n
        PROVE  Follows(n)'
    <3>1. CASE q = p
      <4>1. todo[p] # <<>>
        BY DEF MigInv, MigPlace, Reached
      <4>2. M!UnitOf(n) = M!Cur(p).unit /\ M!Cur(p).unit \in units
        BY <4>1, <3>1, <2>3, AtEntry DEF MigInv, MigPlace, Reached
      <4>3. owner[M!Cur(p).unit] = n
        BY <3>1, <2>3, <1>9 DEF ApartInv, Claims, Claim
      <4>4. M!Hurt(n, {"enable", "start"})'
        BY <3>1, <2>3 DEF M!Hurt, M!Failure
      <4> QED BY <4>2, <4>3, <4>4, <2>1 DEF Follows
    <3>2. CASE q # p
      BY <3>2, <2>3 DEF MigInv, MigTypes, Follows, M!Cur, M!Failure, M!Error, M!Counted
    <3> QED BY <3>1, <3>2
  <2> QED BY <2>1, <2>2, <2>3 DEF Follows
<1>10. Timed'
  <2>1. hurt' = hurt \cup {<<M!Cur(p).name, pc[p]>>} /\ UNCHANGED <<owner, timers, active>>
    BY DEF M!Failure
  <2>2. /\ \A q \in Migrators \ {p} : pc'[q] = pc[q] /\ M!Cur(q)' = M!Cur(q)
        /\ \A u : LeftTimer(u) => LeftTimer(u)'
    BY <2>1, HurtStays DEF MigInv, MigTypes, M!Failure, M!Error, M!Counted, M!Cur
  <2>3. ASSUME NEW u, pc[p] = "register", u = M!Cur(p).unit PROVE LeftTimer(u)'
    <3>1. PICK n \in M!Names : n = M!Cur(p).name /\ M!UnitOf(n) = u
      BY <2>3, AtEntry DEF MigInv, MigPlace, Reached
    <3>2. M!UnitOf(n)' = u
      BY <2>1, <3>1, HurtStays
    <3>3. M!Hurt(n, {"register"})'
      BY <2>1, <2>3, <3>1 DEF M!Hurt
    <3>4. n \in M!Names'
      OBVIOUS
    <3> QED BY <3>2, <3>3, <3>4 DEF LeftTimer
  <2>4. Timed
    BY DEF MigInv
  <2>5. ASSUME NEW u \in M!Units, u \in timers', owner'[u] = None
        PROVE  LeftTimer(u)' \/ \E q \in Migrators : (pc[q] = "register" /\ M!Cur(q).unit = u)'
    <3>1. CASE LeftTimer(u)
      BY <2>2, <3>1
    <3>2. CASE ~LeftTimer(u)
      <4>1. PICK q \in Migrators : pc[q] = "register" /\ M!Cur(q).unit = u
        BY <2>1, <2>4, <2>5, <3>2 DEF Timed
      <4>2. CASE q = p
        BY <2>3, <4>1, <4>2
      <4>3. CASE q # p
        BY <2>2, <4>1, <4>3
      <4> QED BY <4>2, <4>3
    <3> QED BY <3>1, <3>2
  <2> QED BY <2>1, <2>4, <2>5 DEF Timed
<1> QED BY <1>1, <1>2, <1>3, <1>4, <1>5, <1>6, <1>7, <1>8, <1>9, <1>10 DEF Preserved,
           MigInv, ApartInv 

\* Unit and environment are written (Install).
LEMMA MigInstalled ==
  ASSUME SoundLists, MigInv, NEW p \in Migrators,
         pc[p] = "install", M!Goto(p, IF M!Cur(p).cron THEN "timer" ELSE "register"),
         units' = units \cup {M!Cur(p).unit},
         UNCHANGED <<M!Pm2, pm2, owner, timers, enabledUnits, active, hurt, broke, migrations, failures>>
  PROVE  Preserved
<1>1. MigTypes'
  BY AtEntry DEF MigInv, MigTypes, MigSteps, MigPlace, Reached, M!Cur, SoundLists,
     M!Goto, M!Pm2 
<1>2. MigPlace'
  BY AtEntry DEF MigInv, MigTypes, MigPlace, Reached, M!Cur, M!Goto, M!Pm2
<1>3. Spared'
  BY AtEntry DEF MigInv, MigTypes, MigPlace, Reached, Spared, M!Goto, M!Pm2
<1>4. MigReports'
  BY AtEntry, Members DEF MigInv, MigTypes, MigPlace, Reached, MigReports, Reports,
     M!Cur, M!Goto, M!Pm2 
<1>5. Brought'
  BY AtEntry DEF MigInv, MigTypes, MigPlace, Reached, Brought, Doing, M!Hurt, M!Cur, M!Goto, M!Pm2
<1>6. Once'
  BY AtEntry DEF MigInv, MigTypes, MigPlace, Reached, Once, Doing, M!Hurt, M!Cur, M!Goto, M!Pm2
<1>7. Owners'
  BY AtEntry DEF MigInv, MigTypes, MigPlace, Reached, Owners, M!Cur, M!Goto, M!Pm2
<1>8. ASSUME ApartInv, Apart PROVE Claims'
  BY <1>8, AtEntry DEF ApartInv, Apart, OwnUnits, OneMigrates, MigInv, MigTypes,
     MigPlace, Reached, Claims, Claim, M!Cur, M!Goto, M!Pm2 
<1>9. ASSUME ApartInv, Apart PROVE Somewhere'
  BY <1>9, AtEntry DEF ApartInv, MigInv, MigTypes, MigPlace, Reached, Claims, Claim,
     Somewhere, Follows, M!Hurt, M!Cur, M!Goto, M!Pm2 
<1>10. Timed'
  BY AtEntry DEF MigInv, MigTypes, MigPlace, Reached, Timed, LeftTimer, M!Hurt, M!UnitOf, M!Cur, M!Goto, M!Pm2
<1> QED BY <1>1, <1>2, <1>3, <1>4, <1>5, <1>6, <1>7, <1>8, <1>9, <1>10 DEF Preserved,
           MigInv, ApartInv 

\* The timer is enabled, or that fails (EnableTimer).
LEMMA MigTimerSet ==
  ASSUME SoundLists, MigInv, NEW p \in Migrators,
         M!EnableTimer(p)
  PROVE  Preserved
<1>1. MigTypes'
  <2>1. failures' \in 0 .. MaxFailures
    BY DEF MigInv, MigTypes, M!EnableTimer, M!CanFail, SoundLists
  <2>2. timers' \subseteq units
    BY DEF MigInv, MigTypes, MigPlace, Reached, M!EnableTimer
  <2>3. pc' \in [Migrators -> MigSteps]
    BY DEF MigInv, MigTypes, MigSteps, M!EnableTimer, M!Goto
  <2> QED BY <2>1, <2>2, <2>3 DEF MigInv, MigTypes, M!EnableTimer, M!Goto, M!Pm2
<1>2. MigPlace'
  BY AtEntry DEF MigInv, MigTypes, MigPlace, Reached, M!Cur, M!EnableTimer,
     M!CanFail, M!Goto, M!Pm2 
<1>3. Spared'
  BY AtEntry DEF MigInv, MigTypes, MigPlace, Reached, Spared, M!EnableTimer,
     M!CanFail, M!Goto, M!Pm2 
<1>4. MigReports'
  BY AtEntry, Members DEF MigInv, MigTypes, MigPlace, Reached, MigReports, Reports,
     M!Cur, M!EnableTimer, M!CanFail, M!Goto, M!Pm2 
<1>5. Brought'
  BY AtEntry DEF MigInv, MigTypes, MigPlace, Reached, Brought, Doing, M!Hurt, M!Cur,
     M!EnableTimer, M!CanFail, M!Goto, M!Pm2 
<1>6. Once'
  BY AtEntry DEF MigInv, MigTypes, MigPlace, Reached, Once, Doing, M!Hurt, M!Cur,
     M!EnableTimer, M!CanFail, M!Goto, M!Pm2 
<1>7. Owners'
  BY AtEntry DEF MigInv, MigTypes, MigPlace, Reached, Owners, M!Cur, M!EnableTimer,
     M!CanFail, M!Goto, M!Pm2 
<1>8. ASSUME ApartInv, Apart PROVE Claims'
  BY <1>8, AtEntry DEF ApartInv, Apart, OwnUnits, OneMigrates, MigInv, MigTypes,
     MigPlace, Reached, Claims, Claim, M!Cur, M!EnableTimer, M!CanFail, M!Goto,
     M!Pm2 
<1>9. ASSUME ApartInv, Apart PROVE Somewhere'
  BY <1>9, AtEntry DEF ApartInv, MigInv, MigTypes, MigPlace, Reached, Claims, Claim,
     Somewhere, Follows, M!Hurt, M!Cur, M!EnableTimer, M!CanFail, M!Goto, M!Pm2 
<1>10. Timed'
  <2>1. /\ UNCHANGED <<owner, active, todo>> /\ pc' = [pc EXCEPT ![p] = "register"]
        /\ timers' = timers \/ timers' = timers \cup {M!Cur(p).unit}
        /\ \A u : LeftTimer(u) => LeftTimer(u)'
    BY HurtStays DEF M!EnableTimer, M!Goto
  <2>2. \A q \in Migrators : M!Cur(q)' = M!Cur(q)
    BY <2>1 DEF M!Cur
  <2>3. pc'[p] = "register" /\ \A q \in Migrators : pc[q] = "register" => pc'[q] = "register"
    BY <2>1 DEF MigInv, MigTypes
  <2>4. Timed
    BY DEF MigInv
  <2> QED BY <2>1, <2>2, <2>3, <2>4 DEF Timed
<1> QED BY <1>1, <1>2, <1>3, <1>4, <1>5, <1>6, <1>7, <1>8, <1>9, <1>10 DEF Preserved,
           MigInv, ApartInv 

\* The entry in the store (Register).
LEMMA MigRegistered ==
  ASSUME SoundLists, MigInv, NEW p \in Migrators,
         pc[p] = "register", M!Goto(p, "stop"),
         owner' = [owner EXCEPT ![M!Cur(p).unit] = M!Cur(p).name],
         UNCHANGED <<M!Pm2, pm2, units, timers, enabledUnits, active, hurt, broke, migrations, failures>>
  PROVE  Preserved
<1>1. MigTypes'
  BY AtEntry DEF MigInv, MigTypes, MigSteps, MigPlace, Reached, M!Cur, SoundLists,
     M!Goto, M!Pm2 
<1>2. MigPlace'
  BY AtEntry DEF MigInv, MigTypes, MigPlace, Reached, M!Cur, M!Goto, M!Pm2
<1>3. Spared'
  BY AtEntry DEF MigInv, MigTypes, MigPlace, Reached, Spared, M!Goto, M!Pm2
<1>4. MigReports'
  <2>1. /\ UNCHANGED <<todo, asked, dry, errors, res>> /\ pc' = [pc EXCEPT ![p] = "stop"]
        /\ M!Cur(p).name # None
        /\ \A u \in M!Units : owner[u] # None => owner'[u] # None
    BY AtEntry DEF MigInv, MigTypes, MigPlace, Reached, M!Goto
  <2>2. ASSUME NEW q \in Migrators, NEW e \in asked[q] PROVE e.unit \in M!Units
    <3>1. e \in M!ToSet(list) /\ list \in Lists
      BY <2>2 DEF MigInv, MigTypes
    <3> QED BY <3>1 DEF M!Units, M!Entries
  <2>3. pc[p] \notin {"idle"} /\ pc \in [Migrators -> MigSteps]
    BY DEF MigInv, MigTypes
  <2>4. \A q \in Migrators : (pc'[q] = pc[q] \/ q = p) /\ Reports(q)
    BY <2>1, <2>3 DEF MigInv, MigReports
  <2> QED BY <2>1, <2>2, <2>3, <2>4 DEF MigReports, Reports
<1>5. Brought'
  <2> SUFFICES ASSUME NEW u \in M!Units, owner'[u] # None, u \notin enabledUnits \cap active,
                      ~M!Hurt(owner[u], {"stop", "enable", "start"})'
               PROVE  \E q \in Migrators : Doing(q, {"stop", "enable", "start"}, u)'
    BY DEF Brought
  <2>1. CASE u = M!Cur(p).unit
    BY <2>1, AtEntry DEF MigInv, MigTypes, MigPlace, Reached, Doing, M!Cur, M!Goto
  <2>2. CASE u # M!Cur(p).unit
    <3>1. /\ owner[u] # None /\ owner'[u] = owner[u]
          /\ ~M!Hurt(owner[u], {"stop", "enable", "start"})
      BY <2>2 DEF MigInv, MigTypes, M!Hurt
    <3>2. PICK q \in Migrators : Doing(q, {"stop", "enable", "start"}, u)
      BY <3>1 DEF MigInv, Brought
    <3> QED BY <3>1, <3>2 DEF MigInv, MigTypes, Doing, M!Cur, M!Goto
  <2> QED BY <2>1, <2>2
<1>6. Once'
  <2> SUFFICES ASSUME NEW u \in M!Units, owner'[u] \in pm2', ~M!Hurt(owner[u], {"kept", "stop"})'
               PROVE  \E q \in Migrators : Doing(q, {"stop"}, u)'
    BY DEF Once
  <2>1. CASE u = M!Cur(p).unit
    BY <2>1, AtEntry DEF MigInv, MigTypes, MigPlace, Reached, Doing, M!Cur, M!Goto
  <2>2. CASE u # M!Cur(p).unit
    <3>1. owner[u] \in pm2 /\ ~M!Hurt(owner[u], {"kept", "stop"}) /\ owner'[u] = owner[u]
      BY <2>2 DEF MigInv, MigTypes, M!Hurt
    <3>2. PICK q \in Migrators : Doing(q, {"stop"}, u)
      BY <3>1 DEF MigInv, Once
    <3> QED BY <3>1, <3>2 DEF MigInv, MigTypes, Doing, M!Cur, M!Goto
  <2> QED BY <2>1, <2>2
<1>7. Owners'
  BY AtEntry DEF MigInv, MigTypes, MigPlace, Reached, Owners, M!Cur, M!Goto, M!Pm2
<1>8. ASSUME ApartInv, Apart PROVE Claims'
  <2> SUFFICES ASSUME NEW q \in Migrators PROVE Claim(q)'
    BY DEF Claims
  <2>1. /\ UNCHANGED todo /\ pc' = [pc EXCEPT ![p] = "stop"] /\ Claim(q)
        /\ \A r \in Migrators : pc[r] \notin {"idle", "look"} =>
              M!Cur(r) \in M!ToSet(list) /\ M!Cur(r).unit \in M!Units
    BY <1>8, AtEntry DEF MigInv, MigPlace, Reached, ApartInv, Claims, M!Goto
  <2>2. ASSUME q # p, pc[q] \notin {"idle", "look"}, M!Cur(q).unit = M!Cur(p).unit
        PROVE  M!Cur(q).name = M!Cur(p).name
    BY <1>8, <2>1, <2>2 DEF Apart, OwnUnits, OneMigrates
  <2> QED BY <2>1, <2>2 DEF MigInv, MigTypes, Claim, M!Cur
<1>9. ASSUME ApartInv, Apart PROVE Somewhere'
  <2> SUFFICES ASSUME NEW n \in ran, n \notin pm2' PROVE Follows(n)'
    BY DEF Somewhere, M!Pm2
  <2>1. Follows(n) /\ M!UnitOf(n)' = M!UnitOf(n)
    BY <1>9 DEF ApartInv, Somewhere, M!UnitOf
  <2>3. CASE /\ owner[M!UnitOf(n)] = n /\ M!UnitOf(n) \in units
             /\ M!UnitOf(n) \in active \/ M!Hurt(n, {"enable", "start"})
    <3>1. owner[M!Cur(p).unit] \in {None, M!Cur(p).name}
      BY <1>9 DEF ApartInv, Claims, Claim
    <3>2. n # None
      BY DEF MigInv, MigTypes, SoundLists
    <3>3. owner'[M!UnitOf(n)] = n
      BY <3>1, <3>2, <2>3 DEF MigInv, MigTypes
    <3> QED BY <3>3, <2>1, <2>3 DEF Follows, M!Hurt
  <2>4. ASSUME NEW q \in Migrators, pc[q] \in {"enable", "start"} /\ M!Cur(q).name = n
        PROVE  Follows(n)'
    BY <2>4 DEF MigInv, MigTypes, Follows, M!Cur, M!Goto
  <2> QED BY <2>1, <2>3, <2>4 DEF Follows
<1>10. Timed'
  BY AtEntry DEF MigInv, MigTypes, MigPlace, Reached, Timed, LeftTimer, M!Hurt, M!UnitOf, M!Cur, M!Goto, M!Pm2
<1> QED BY <1>1, <1>2, <1>3, <1>4, <1>5, <1>6, <1>7, <1>8, <1>9, <1>10 DEF Preserved,
           MigInv, ApartInv 

\* PM2 stops the application, or that fails (StopPm2).
LEMMA MigStopped ==
  ASSUME SoundLists, MigInv, NEW p \in Migrators,
         M!StopPm2(p)
  PROVE  Preserved
<1>1. MigTypes'
  <2>1. failures' \in 0 .. MaxFailures
    BY DEF MigInv, MigTypes, M!StopPm2, M!CanFail, SoundLists
  <2>2. pm2' \subseteq ran /\ pc' \in [Migrators -> MigSteps]
    BY AtEntry DEF MigInv, MigTypes, MigSteps, MigPlace, Reached, M!StopPm2, M!Goto
  <2>3. hurt' \subseteq M!Names \X {"install", "timer", "register", "stop", "kept", "enable", "start"}
    <3>1. M!Cur(p).name \in M!Names
      BY AtEntry DEF MigInv, MigPlace, Reached, M!StopPm2
    <3>2. hurt' = hurt \/ hurt' = hurt \cup {<<M!Cur(p).name, "kept">>}
      BY DEF M!StopPm2
    <3>3. <<M!Cur(p).name, "kept">> \in M!Names \X {"install", "timer", "register", "stop", "kept", "enable", "start"}
      BY <3>1
    <3> QED BY <3>2, <3>3, Zenon DEF MigInv, MigTypes
  <2> QED BY <2>1, <2>2, <2>3 DEF MigInv, MigTypes, M!StopPm2, M!Goto, M!Pm2
<1>2. MigPlace'
  BY AtEntry DEF MigInv, MigTypes, MigPlace, Reached, M!Cur, M!StopPm2, M!CanFail,
     M!Goto, M!Pm2 
<1>3. Spared'
  BY AtEntry DEF MigInv, MigTypes, MigPlace, Reached, Spared, M!StopPm2, M!CanFail,
     M!Goto, M!Pm2 
<1>4. MigReports'
  BY AtEntry, Members DEF MigInv, MigTypes, MigPlace, Reached, MigReports, Reports,
     M!Cur, M!StopPm2, M!CanFail, M!Goto, M!Pm2 
<1>5. Brought'
  BY AtEntry DEF MigInv, MigTypes, MigPlace, Reached, Brought, Doing, M!Hurt, M!Cur,
     M!StopPm2, M!CanFail, M!Goto, M!Pm2 
<1>6. Once'
  <2> SUFFICES ASSUME NEW u \in M!Units, owner'[u] \in pm2', ~M!Hurt(owner[u], {"kept", "stop"})'
               PROVE  \E q \in Migrators : Doing(q, {"stop"}, u)'
    BY DEF Once
  <2>1. owner[u] \in pm2 /\ owner'[u] = owner[u] /\ ~M!Hurt(owner[u], {"kept", "stop"})
    BY DEF M!StopPm2, M!Hurt
  <2>2. PICK q \in Migrators : Doing(q, {"stop"}, u)
    BY <2>1 DEF MigInv, Once
  <2>3. q # p
    BY <2>1, <2>2 DEF M!StopPm2, Doing, M!Hurt
  <2> QED BY <2>1, <2>2, <2>3 DEF MigInv, MigTypes, Doing, M!Cur, M!StopPm2, M!Goto
<1>7. Owners'
  BY AtEntry DEF MigInv, MigTypes, MigPlace, Reached, Owners, M!Cur, M!StopPm2,
     M!CanFail, M!Goto, M!Pm2 
<1>8. ASSUME ApartInv, Apart PROVE Claims'
  BY <1>8, AtEntry DEF ApartInv, Apart, OwnUnits, OneMigrates, MigInv, MigTypes,
     MigPlace, Reached, Claims, Claim, M!Cur, M!StopPm2, M!CanFail, M!Goto, M!Pm2 
<1>9. ASSUME ApartInv, Apart PROVE Somewhere'
  <2> SUFFICES ASSUME NEW n \in ran, n \notin pm2' PROVE Follows(n)'
    BY DEF Somewhere, M!StopPm2, M!Pm2
  <2>1. /\ UNCHANGED <<todo, owner, units, active>> /\ hurt \subseteq hurt'
        /\ pc[p] = "stop" /\ pc' = [pc EXCEPT ![p] = "enable"]
        /\ pm2' \in {pm2, pm2 \ {M!Cur(p).name}} /\ M!UnitOf(n)' = M!UnitOf(n)
    BY DEF M!StopPm2, M!Goto, M!UnitOf
  <2>2. CASE n \in pm2
    BY <2>1, <2>2 DEF MigInv, MigTypes, Follows, M!Hurt, M!Cur
  <2>3. CASE n \notin pm2
    <3>1. Follows(n)
      BY <1>9, <2>3 DEF ApartInv, Somewhere
    <3> QED BY <2>1, <3>1 DEF MigInv, MigTypes, Follows, M!Hurt, M!Cur
  <2> QED BY <2>2, <2>3
<1>10. Timed'
  BY AtEntry DEF MigInv, MigTypes, MigPlace, Reached, Timed, LeftTimer, M!Hurt, M!UnitOf, M!Cur,
     M!StopPm2, M!CanFail, M!Goto, M!Pm2 
<1> QED BY <1>1, <1>2, <1>3, <1>4, <1>5, <1>6, <1>7, <1>8, <1>9, <1>10 DEF Preserved,
           MigInv, ApartInv 

\* The service starts at boot (Enable).
LEMMA MigEnabled ==
  ASSUME SoundLists, MigInv, NEW p \in Migrators,
         pc[p] = "enable", M!Goto(p, "start"), enabledUnits' = enabledUnits \cup {M!Cur(p).unit},
         UNCHANGED <<M!Pm2, pm2, owner, units, timers, active, hurt, broke, migrations, failures>>
  PROVE  Preserved
<1>1. MigTypes'
  BY AtEntry DEF MigInv, MigTypes, MigSteps, MigPlace, Reached, M!Cur, SoundLists,
     M!Goto, M!Pm2 
<1>2. MigPlace'
  BY AtEntry DEF MigInv, MigTypes, MigPlace, Reached, M!Cur, M!Goto, M!Pm2
<1>3. Spared'
  BY AtEntry DEF MigInv, MigTypes, MigPlace, Reached, Spared, M!Goto, M!Pm2
<1>4. MigReports'
  BY AtEntry, Members DEF MigInv, MigTypes, MigPlace, Reached, MigReports, Reports,
     M!Cur, M!Goto, M!Pm2 
<1>5. Brought'
  <2>1. /\ UNCHANGED <<owner, todo, active>> /\ enabledUnits \subseteq enabledUnits'
        /\ pc[p] = "enable" /\ pc' = [pc EXCEPT ![p] = "start"]
        /\ \A n, S : M!Hurt(n, S) => M!Hurt(n, S)'
    BY HurtStays DEF M!Goto
  <2>2. ASSUME NEW q \in Migrators, NEW u, Doing(q, {"stop", "enable", "start"}, u)
        PROVE  Doing(q, {"stop", "enable", "start"}, u)'
    BY <2>1, <2>2 DEF MigInv, MigTypes, Doing, M!Cur
  <2>3. Brought
    BY DEF MigInv
  <2> QED BY <2>1, <2>2, <2>3, Zenon DEF Brought
<1>6. Once'
  BY AtEntry DEF MigInv, MigTypes, MigPlace, Reached, Once, Doing, M!Hurt, M!Cur, M!Goto, M!Pm2
<1>7. Owners'
  BY AtEntry DEF MigInv, MigTypes, MigPlace, Reached, Owners, M!Cur, M!Goto, M!Pm2
<1>8. ASSUME ApartInv, Apart PROVE Claims'
  BY <1>8, AtEntry DEF ApartInv, Apart, OwnUnits, OneMigrates, MigInv, MigTypes,
     MigPlace, Reached, Claims, Claim, M!Cur, M!Goto, M!Pm2 
<1>9. ASSUME ApartInv, Apart PROVE Somewhere'
  BY <1>9, AtEntry DEF ApartInv, MigInv, MigTypes, MigPlace, Reached, Claims, Claim,
     Somewhere, Follows, M!Hurt, M!Cur, M!Goto, M!Pm2 
<1>10. Timed'
  BY AtEntry DEF MigInv, MigTypes, MigPlace, Reached, Timed, LeftTimer, M!Hurt, M!UnitOf, M!Cur, M!Goto, M!Pm2
<1> QED BY <1>1, <1>2, <1>3, <1>4, <1>5, <1>6, <1>7, <1>8, <1>9, <1>10 DEF Preserved,
           MigInv, ApartInv 

\* The service runs (Start).
LEMMA MigStarted ==
  ASSUME SoundLists, MigInv, NEW p \in Migrators,
         pc[p] = "start", NEW d, M!Counted(p, d, FALSE), active' = active \cup {M!Cur(p).unit},
         UNCHANGED <<M!Pm2, pm2, owner, units, timers, enabledUnits, hurt, broke, migrations, failures>>
  PROVE  Preserved
<1>1. MigTypes'
  BY AtEntry DEF MigInv, MigTypes, MigSteps, MigPlace, Reached, M!Cur, SoundLists,
     M!Counted, M!Pm2 
<1>2. MigPlace'
  BY AtEntry DEF MigInv, MigTypes, MigPlace, Reached, M!Cur, M!Counted, M!Pm2
<1>3. Spared'
  BY AtEntry DEF MigInv, MigTypes, MigPlace, Reached, Spared, M!Counted, M!Pm2
<1>4. MigReports'
  BY AtEntry, Members DEF MigInv, MigTypes, MigPlace, Reached, MigReports, Reports,
     M!Cur, M!Counted, M!Pm2 
<1>5. Brought'
  BY AtEntry DEF MigInv, MigTypes, MigPlace, Reached, Brought, Doing, M!Hurt, M!Cur,
     M!Counted, M!Pm2 
<1>6. Once'
  BY AtEntry DEF MigInv, MigTypes, MigPlace, Reached, Once, Doing, M!Hurt, M!Cur, M!Counted, M!Pm2
<1>7. Owners'
  BY AtEntry DEF MigInv, MigTypes, MigPlace, Reached, Owners, M!Cur, M!Counted, M!Pm2
<1>8. ASSUME ApartInv, Apart PROVE Claims'
  BY <1>8, AtEntry DEF ApartInv, Apart, OwnUnits, OneMigrates, MigInv, MigTypes,
     MigPlace, Reached, Claims, Claim, M!Cur, M!Counted, M!Pm2 
<1>9. ASSUME ApartInv, Apart PROVE Somewhere'
  <2> SUFFICES ASSUME NEW n \in ran, n \notin pm2' PROVE Follows(n)'
    BY DEF Somewhere, M!Pm2
  <2>1. Follows(n) /\ M!UnitOf(n)' = M!UnitOf(n)
    BY <1>9 DEF ApartInv, Somewhere, M!UnitOf
  <2>2. CASE /\ owner[M!UnitOf(n)] = n /\ M!UnitOf(n) \in units
             /\ M!UnitOf(n) \in active \/ M!Hurt(n, {"enable", "start"})
    BY <2>1, <2>2 DEF Follows, M!Hurt
  <2>3. ASSUME NEW q \in Migrators, pc[q] \in {"enable", "start"} /\ M!Cur(q).name = n
        PROVE  Follows(n)'
    <3>1. CASE q = p
      <4>1. todo[p] # <<>>
        BY DEF MigInv, MigPlace, Reached
      <4>2. M!UnitOf(n) = M!Cur(p).unit /\ M!Cur(p).unit \in units
        BY <4>1, <3>1, <2>3, AtEntry DEF MigInv, MigPlace, Reached
      <4>3. owner[M!Cur(p).unit] = n
        BY <3>1, <2>3, <1>9 DEF ApartInv, Claims, Claim
      <4> QED BY <4>2, <4>3, <2>1 DEF Follows
    <3>2. CASE q # p
      BY <3>2, <2>3 DEF MigInv, MigTypes, Follows, M!Cur, M!Counted
    <3> QED BY <3>1, <3>2
  <2> QED BY <2>1, <2>2, <2>3 DEF Follows
<1>10. Timed'
  BY AtEntry DEF MigInv, MigTypes, MigPlace, Reached, Timed, LeftTimer, M!Hurt, M!UnitOf, M!Cur,
     M!Counted, M!Pm2 
<1> QED BY <1>1, <1>2, <1>3, <1>4, <1>5, <1>6, <1>7, <1>8, <1>9, <1>10 DEF Preserved,
           MigInv, ApartInv 

\* The list is through (End).
LEMMA MigEnded ==
  ASSUME SoundLists, MigInv, NEW p \in Migrators,
         M!End(p)
  PROVE  Preserved
<1>1. MigTypes'
  BY AtEntry DEF MigInv, MigTypes, MigSteps, MigPlace, Reached, M!Cur, SoundLists,
     M!End, M!Pm2, M!World 
<1>2. MigPlace'
  BY AtEntry DEF MigInv, MigTypes, MigPlace, Reached, M!Cur, M!End, M!Pm2, M!World
<1>3. Spared'
  BY AtEntry DEF MigInv, MigTypes, MigPlace, Reached, Spared, M!End, M!Pm2, M!World
<1>4. MigReports'
  BY AtEntry, Members DEF MigInv, MigTypes, MigPlace, Reached, MigReports, Reports,
     M!Cur, M!End, M!Pm2, M!World 
<1>5. Brought'
  BY AtEntry DEF MigInv, MigTypes, MigPlace, Reached, Brought, Doing, M!Hurt, M!Cur, M!End,
     M!Pm2, M!World 
<1>6. Once'
  BY AtEntry DEF MigInv, MigTypes, MigPlace, Reached, Once, Doing, M!Hurt, M!Cur, M!End,
     M!Pm2, M!World 
<1>7. Owners'
  BY AtEntry DEF MigInv, MigTypes, MigPlace, Reached, Owners, M!Cur, M!End, M!Pm2, M!World
<1>8. ASSUME ApartInv, Apart PROVE Claims'
  BY <1>8, AtEntry DEF ApartInv, Apart, OwnUnits, OneMigrates, MigInv, MigTypes,
     MigPlace, Reached, Claims, Claim, M!Cur, M!End, M!Pm2, M!World 
<1>9. ASSUME ApartInv, Apart PROVE Somewhere'
  BY <1>9, AtEntry DEF ApartInv, MigInv, MigTypes, MigPlace, Reached, Claims, Claim,
     Somewhere, Follows, M!Hurt, M!Cur, M!End, M!Pm2, M!World 
<1>10. Timed'
  BY AtEntry DEF MigInv, MigTypes, MigPlace, Reached, Timed, LeftTimer, M!Hurt, M!UnitOf, M!Cur, M!End,
     M!Pm2, M!World 
<1> QED BY <1>1, <1>2, <1>3, <1>4, <1>5, <1>6, <1>7, <1>8, <1>9, <1>10 DEF Preserved,
           MigInv, ApartInv 

\* The process dies.
LEMMA MigDied ==
  ASSUME SoundLists, MigInv, NEW p \in Migrators,
         M!Dies(p)
  PROVE  Preserved
<1>1. MigTypes'
  BY AtEntry DEF MigInv, MigTypes, MigSteps, MigPlace, Reached, M!Cur, SoundLists,
     M!Dies, M!CanFail, M!Pm2, M!World 
<1>2. MigPlace'
  BY AtEntry DEF MigInv, MigTypes, MigPlace, Reached, M!Cur, M!Dies, M!CanFail,
     M!Pm2, M!World 
<1>3. Spared'
  BY AtEntry DEF MigInv, MigTypes, MigPlace, Reached, Spared, M!Dies, M!CanFail,
     M!Pm2, M!World 
<1>4. MigReports'
  BY AtEntry, Members DEF MigInv, MigTypes, MigPlace, Reached, MigReports, Reports,
     M!Cur, M!Dies, M!CanFail, M!Pm2, M!World 
<1>5. Brought'
  BY AtEntry DEF MigInv, MigTypes, MigPlace, Reached, Brought, Doing, M!Hurt, M!Cur, M!Dies,
     M!CanFail, M!Pm2, M!World 
<1>6. Once'
  BY AtEntry DEF MigInv, MigTypes, MigPlace, Reached, Once, Doing, M!Hurt, M!Cur, M!Dies,
     M!CanFail, M!Pm2, M!World 
<1>7. Owners'
  BY AtEntry DEF MigInv, MigTypes, MigPlace, Reached, Owners, M!Cur, M!Dies,
     M!CanFail, M!Pm2, M!World 
<1>8. ASSUME ApartInv, Apart PROVE Claims'
  BY <1>8, AtEntry DEF ApartInv, Apart, OwnUnits, OneMigrates, MigInv, MigTypes,
     MigPlace, Reached, Claims, Claim, M!Cur, M!Dies, M!CanFail, M!Pm2, M!World 
<1>9. ASSUME ApartInv, Apart PROVE Somewhere'
  <2> SUFFICES ASSUME NEW n \in ran, n \notin pm2' PROVE Follows(n)'
    BY DEF Somewhere, M!Dies, M!Pm2
  <2>0. hurt \subseteq hurt' /\ UNCHANGED <<owner, units, active, pm2>>
    BY DEF M!Dies, M!World
  <2>1. /\ Follows(n) /\ M!UnitOf(n)' = M!UnitOf(n)
        /\ M!Hurt(n, {"enable", "start"}) => M!Hurt(n, {"enable", "start"})'
    BY <1>9, <2>0, HurtStays DEF ApartInv, Somewhere
  <2>2. CASE /\ owner[M!UnitOf(n)] = n /\ M!UnitOf(n) \in units
             /\ M!UnitOf(n) \in active \/ M!Hurt(n, {"enable", "start"})
    BY <2>0, <2>1, <2>2 DEF Follows
  <2>3. ASSUME NEW q \in Migrators, pc[q] \in {"enable", "start"} /\ M!Cur(q).name = n
        PROVE  Follows(n)'
    <3>1. CASE q = p
      <4>1. todo[p] # <<>>
        BY <3>1, <2>3 DEF MigInv, MigPlace, Reached
      <4>2. M!UnitOf(n) = M!Cur(p).unit /\ M!Cur(p).unit \in units
        BY <4>1, <3>1, <2>3, AtEntry DEF MigInv, MigPlace, Reached
      <4>3. owner[M!Cur(p).unit] = n
        BY <3>1, <2>3, <1>9 DEF ApartInv, Claims, Claim
      <4>4. M!Hurt(n, {"enable", "start"})'
        BY <3>1, <2>3 DEF M!Hurt, M!Dies
      <4> QED BY <4>2, <4>3, <4>4, <2>0, <2>1 DEF Follows
    <3>2. CASE q # p
      BY <3>2, <2>3 DEF MigInv, MigTypes, Follows, M!Cur, M!Dies
    <3> QED BY <3>1, <3>2
  <2> QED BY <2>1, <2>2, <2>3 DEF Follows
<1>10. Timed'
  <2>1. hurt \subseteq hurt' /\ UNCHANGED <<owner, timers, active>>
    BY DEF M!Dies, M!World
  <2>2. /\ \A q \in Migrators \ {p} : pc'[q] = pc[q] /\ M!Cur(q)' = M!Cur(q)
        /\ \A u : LeftTimer(u) => LeftTimer(u)'
    BY <2>1, HurtStays DEF MigInv, MigTypes, M!Dies, M!Cur
  <2>3. ASSUME NEW u, pc[p] = "register", u = M!Cur(p).unit PROVE LeftTimer(u)'
    <3>1. PICK n \in M!Names : n = M!Cur(p).name /\ M!UnitOf(n) = u
      BY <2>3, AtEntry DEF MigInv, MigPlace, Reached
    <3>2. M!UnitOf(n)' = u
      BY <2>1, <3>1, HurtStays
    <3>3. M!Hurt(n, {"register"})'
      BY <2>3, <3>1 DEF M!Hurt, M!Dies
    <3>4. n \in M!Names'
      OBVIOUS
    <3> QED BY <3>2, <3>3, <3>4 DEF LeftTimer
  <2>4. Timed
    BY DEF MigInv
  <2>5. ASSUME NEW u \in M!Units, u \in timers', owner'[u] = None
        PROVE  LeftTimer(u)' \/ \E q \in Migrators : (pc[q] = "register" /\ M!Cur(q).unit = u)'
    <3>1. CASE LeftTimer(u)
      BY <2>2, <3>1
    <3>2. CASE ~LeftTimer(u)
      <4>1. PICK q \in Migrators : pc[q] = "register" /\ M!Cur(q).unit = u
        BY <2>1, <2>4, <2>5, <3>2 DEF Timed
      <4>2. CASE q = p
        BY <2>3, <4>1, <4>2
      <4>3. CASE q # p
        BY <2>2, <4>1, <4>3
      <4> QED BY <4>2, <4>3
    <3> QED BY <3>1, <3>2
  <2> QED BY <2>1, <2>4, <2>5 DEF Timed
<1> QED BY <1>1, <1>2, <1>3, <1>4, <1>5, <1>6, <1>7, <1>8, <1>9, <1>10 DEF Preserved,
           MigInv, ApartInv 

\* A migration takes up entries of the list.
LEMMA MigBegun ==
  ASSUME SoundLists, MigInv, NEW p \in Migrators, NEW w, NEW d \in BOOLEAN, M!Begin(p, w, d)
  PROVE  Preserved
<1> DEFINE l == M!Kept(M!Found, {e \in M!Named(w) : ~e.module})
<1>1. l \in Seq(M!ToSet(list))
  <2>1. list \in Seq(M!ToSet(list))
    BY DEF MigInv, MigTypes, SoundLists, M!ToSet
  <2>2. M!Found \in Seq(M!ToSet(list))
    BY <2>1 DEF M!Found
  <2> QED BY <2>2, KeptEntries
<1>2. \/ /\ pc' = [pc EXCEPT ![p] = "look"] /\ res' = [res EXCEPT ![p] = "none"]
         /\ todo' = [todo EXCEPT ![p] = l] /\ asked' = [asked EXCEPT ![p] = M!ToSet(l)]
      \/ res' = [res EXCEPT ![p] = "failed"] /\ UNCHANGED <<pc, todo, asked>>
  <2>1. CASE M!ToSet(M!Found) \cap M!Named(w) = {}
    BY <2>1 DEF M!Begin
  <2>2. CASE M!ToSet(M!Found) \cap M!Named(w) # {}
    <3>1. /\ pc' = [pc EXCEPT ![p] = "look"] /\ res' = [res EXCEPT ![p] = "none"]
          /\ todo' = [todo EXCEPT ![p] = l] /\ asked' = [asked EXCEPT ![p] = M!ToSet(todo'[p])]
      BY <2>2 DEF M!Begin
    <3>2. todo'[p] = l
      BY <3>1 DEF MigInv, MigTypes
    <3> QED BY <3>1, <3>2
  <2> QED BY <2>1, <2>2
<1>3. /\ pc[p] = "idle" /\ migrations < MaxMigrations /\ migrations' = migrations + 1
      /\ dry' = [dry EXCEPT ![p] = d] /\ errors' = [errors EXCEPT ![p] = FALSE]
      /\ broke' = [broke EXCEPT ![p] = FALSE] /\ UNCHANGED <<M!Pm2, M!World, hurt, failures>>
  BY DEF M!Begin
<1> HIDE DEF l
<1>4. MigTypes'
  <2>1. M!ToSet(l) \subseteq M!ToSet(list)
    BY <1>1, Members
  <2>2. /\ asked' \in [Migrators -> SUBSET M!ToSet(list)]
        /\ todo' \in [Migrators -> Seq(M!ToSet(list))]
    <3>1. /\ asked \in [Migrators -> SUBSET M!ToSet(list)]
          /\ todo \in [Migrators -> Seq(M!ToSet(list))]
      BY DEF MigInv, MigTypes
    <3>2. asked' = asked \/ asked' = [asked EXCEPT ![p] = M!ToSet(l)]
      BY <1>2
    <3>3. todo' = todo \/ todo' = [todo EXCEPT ![p] = l]
      BY <1>2
    <3>4. asked' \in [Migrators -> SUBSET M!ToSet(list)]
      BY <2>1, <3>1, <3>2, Zenon
    <3>5. todo' \in [Migrators -> Seq(M!ToSet(list))]
      BY <1>1, <3>1, <3>3, Zenon
    <3> QED BY <3>4, <3>5
  <2>3. pc' \in [Migrators -> MigSteps] /\ res' \in [Migrators -> {"none", "ok", "failed"}]
    BY <1>2 DEF MigInv, MigTypes, MigSteps
  <2>4. migrations' \in 0 .. MaxMigrations /\ dry' \in [Migrators -> BOOLEAN]
        /\ errors' \in [Migrators -> BOOLEAN] /\ broke' \in [Migrators -> BOOLEAN]
    BY <1>3 DEF MigInv, MigTypes, SoundLists
  <2> QED BY <1>3, <2>2, <2>3, <2>4 DEF MigInv, MigTypes, M!Pm2, M!World
<1>5. MigPlace'
  BY <1>2, <1>3 DEF MigInv, MigTypes, MigPlace, Reached, M!Cur, M!Pm2, M!World
<1>6. Spared'
  BY <1>3 DEF MigInv, Spared, M!Pm2, M!World
<1>7. MigReports'
  <2> SUFFICES ASSUME NEW q \in Migrators PROVE Reports(q)'
    BY DEF MigReports
  <2>1. CASE q = p
    BY <2>1, <1>2, <1>3 DEF MigInv, MigTypes, MigReports, Reports
  <2>2. CASE q # p
    BY <2>2, <1>2, <1>3 DEF MigInv, MigTypes, MigReports, Reports, M!World
  <2> QED BY <2>1, <2>2
<1>8. Brought' /\ Once' /\ Timed'
  <2>1. \A q \in Migrators : pc[q] # "idle" => pc'[q] = pc[q] /\ todo'[q] = todo[q]
    BY <1>2, <1>3 DEF MigInv, MigTypes
  <2>3. UNCHANGED <<owner, hurt, enabledUnits, active, pm2, timers>>
    BY <1>3 DEF M!World
  <2>2. ASSUME NEW q \in Migrators, NEW steps \in {{"stop", "enable", "start"}, {"stop"}},
               NEW u, Doing(q, steps, u)
        PROVE  Doing(q, steps, u)'
    BY <2>1, <2>2, <2>3 DEF Doing, M!Cur
  <2>4. Brought'
    BY <2>2, <2>3 DEF MigInv, Brought, M!Hurt
  <2>5. Once'
    BY <2>2, <2>3 DEF MigInv, Once, M!Hurt
  <2>6. Timed'
    BY <2>1, <2>3 DEF MigInv, Timed, LeftTimer, M!UnitOf, M!Hurt, M!Cur
  <2> QED BY <2>4, <2>5, <2>6
<1>9. Owners'
  BY <1>3 DEF MigInv, Owners, M!World, M!Pm2
<1>10. ASSUME ApartInv, Apart PROVE Claims' /\ Somewhere'
  <2>1. \A q \in Migrators : pc[q] # "idle" => pc'[q] = pc[q] /\ todo'[q] = todo[q]
    BY <1>2, <1>3 DEF MigInv, MigTypes
  <2>2. \A q \in Migrators : pc[q] = "idle" => pc'[q] \in {"idle", "look"}
    BY <1>2, <1>3 DEF MigInv, MigTypes
  <2>3. Claims'
    BY <1>10, <1>3, <2>1, <2>2 DEF ApartInv, Claims, Claim, MigInv, MigTypes,
       MigSteps, M!Cur, M!World 
  <2>4. Somewhere'
    BY <1>10, <1>3, <2>1 DEF ApartInv, Somewhere, Follows, M!Hurt, M!UnitOf, M!Cur, M!Pm2, M!World
  <2> QED BY <2>3, <2>4
<1> QED BY <1>4, <1>5, <1>6, <1>7, <1>8, <1>9, <1>10 DEF Preserved, MigInv, ApartInv

\* A timer starts a service and touches nothing else.
LEMMA MigFired ==
  ASSUME MigInv, NEW s \in M!Units, M!TimerFires(s)
  PROVE  Preserved
<1>1. /\ active' = active \cup {s} /\ s \in timers
      /\ UNCHANGED <<M!Pm2, pm2, owner, units, timers, enabledUnits,
                      M!Local, hurt, broke, migrations, failures>>
  BY DEF M!TimerFires
<1>2. MigTypes' /\ MigPlace' /\ Spared'
  BY <1>1 DEF MigInv, MigTypes, MigPlace, Reached, Spared, M!Cur, M!Pm2, M!Local
<1>3. MigReports' /\ Brought' /\ Once' /\ Owners'
  BY <1>1 DEF MigInv, MigReports, Reports, Brought, Doing, Once, Owners, M!Hurt, M!Cur,
     M!Pm2, M!Local
<1>5. Timed'
  <2>1. (\A u : LeftTimer(u) => LeftTimer(u)') /\ Timed
    BY <1>1, HurtStays DEF MigInv
  <2>2. UNCHANGED <<pc, todo, owner, timers>>
    BY <1>1 DEF M!Local
  <2> QED BY <1>1, <2>1, <2>2 DEF Timed, M!Cur
<1>4. ASSUME ApartInv PROVE Claims' /\ Somewhere'
  BY <1>1, <1>4 DEF ApartInv, Claims, Claim, Somewhere, Follows, M!Hurt, M!UnitOf, M!Cur,
     M!Pm2, M!Local 
<1> QED BY <1>2, <1>3, <1>4, <1>5 DEF Preserved, MigInv, ApartInv

\* The disjuncts of the steps of a migration.
LEMMA MigMoves ==
  ASSUME SoundLists, MigInv, NEW p \in Migrators, M!Step(p) \/ M!Dies(p)
  PROVE  Preserved
<1>1. CASE M!Look(p)
  <2>1. /\ pc[p] = "look" /\ todo[p] # <<>>
        /\ UNCHANGED <<M!Pm2, M!World, hurt, broke, migrations, failures>>
    BY <1>1 DEF M!Look
  <2>2. CASE M!Cur(p).unit \in templates
    BY <1>1, <2>1, <2>2, MigPassed DEF M!Look, M!Error
  <2>3. CASE M!Cur(p).unit \notin templates /\ owner[M!Cur(p).unit] # None
    BY <1>1, <2>1, <2>3, MigPassed DEF M!Look
  <2>4. CASE M!Cur(p).unit \notin templates /\ owner[M!Cur(p).unit] = None /\ dry[p]
    BY <1>1, <2>1, <2>4, MigPassed DEF M!Look
  <2>5. CASE M!Cur(p).unit \notin templates /\ owner[M!Cur(p).unit] = None /\ ~dry[p]
    BY <1>1, <2>1, <2>5, MigChosen DEF M!Look
  <2> QED BY <2>2, <2>3, <2>4, <2>5
<1>2. CASE M!Install(p)
  <2>1. CASE M!Failure(p)
    BY <1>2, <2>1, MigFailed DEF M!Install
  <2>2. CASE ~M!Failure(p)
    BY <1>2, <2>2, MigInstalled DEF M!Install
  <2> QED BY <2>1, <2>2
<1>3. CASE M!EnableTimer(p)
  BY <1>3, MigTimerSet
<1>4. CASE M!Register(p)
  <2>1. CASE M!Failure(p) /\ UNCHANGED owner
    BY <1>4, <2>1, MigFailed DEF M!Register
  <2>2. CASE ~(M!Failure(p) /\ UNCHANGED owner)
    BY <1>4, <2>2, MigRegistered DEF M!Register
  <2> QED BY <2>1, <2>2
<1>5. CASE M!StopPm2(p)
  BY <1>5, MigStopped
<1>6. CASE M!Enable(p)
  <2>1. CASE M!Failure(p) /\ UNCHANGED enabledUnits
    BY <1>6, <2>1, MigFailed DEF M!Enable
  <2>2. CASE ~(M!Failure(p) /\ UNCHANGED enabledUnits)
    BY <1>6, <2>2, MigEnabled DEF M!Enable
  <2> QED BY <2>1, <2>2
<1>7. CASE M!Start(p)
  <2>1. CASE M!Failure(p) /\ UNCHANGED active
    BY <1>7, <2>1, MigFailed DEF M!Start
  <2>2. CASE ~(M!Failure(p) /\ UNCHANGED active)
    BY <1>7, <2>2, MigStarted DEF M!Start
  <2> QED BY <2>1, <2>2
<1>8. CASE M!End(p)
  BY <1>8, MigEnded
<1>9. CASE M!Dies(p)
  BY <1>9, MigDied
<1> QED BY <1>1, <1>2, <1>3, <1>4, <1>5, <1>6, <1>7, <1>8, <1>9 DEF M!Step

\* Every step of the specification.
LEMMA MigStep ==
  ASSUME SoundLists, MigInv, M!Next
  PROVE  Preserved
<1>1. CASE \E p \in Migrators : M!Step(p) \/ M!Dies(p)
  BY <1>1, MigMoves
<1>2. CASE \E p \in Migrators, w \in {All} \cup M!Names, d \in BOOLEAN : M!Begin(p, w, d)
  BY <1>2, MigBegun
<1>3. CASE \E s \in M!Units : M!TimerFires(s)
  BY <1>3, MigFired
<1> QED BY <1>1, <1>2, <1>3, Zenon DEF M!Next

\* What changes nothing disturbs nothing.
LEMMA MigStutter ==
  ASSUME UNCHANGED M!vars
  PROVE  /\ MigInv => MigInv'
         /\ ApartInv => ApartInv'
<1>1. UNCHANGED <<M!Pm2, M!World, M!Local, hurt, broke, migrations, failures>>
  BY DEF M!vars
<1>2. MigInv => MigInv'
  <2>1. MigTypes /\ MigPlace /\ Spared /\ MigReports => MigTypes' /\ MigPlace' /\ Spared' /\ MigReports'
    BY <1>1 DEF MigTypes, MigPlace, Reached, Spared, MigReports, Reports, M!UnitOf, M!Cur,
       M!Pm2, M!World, M!Local
  <2>2. Brought /\ Once /\ Owners => Brought' /\ Once' /\ Owners'
    BY <1>1 DEF Brought, Once, Owners, Doing, M!Hurt, M!Cur, M!Pm2, M!World, M!Local
  <2>3. Timed => Timed'
    BY <1>1 DEF Timed, LeftTimer, M!Hurt, M!UnitOf, M!Cur, M!World, M!Local
  <2> QED BY <2>1, <2>2, <2>3 DEF MigInv
<1>3. Claims /\ Somewhere => Claims' /\ Somewhere'
  BY <1>1 DEF Claims, Claim, Somewhere, Follows, M!Hurt, M!UnitOf, M!Cur, M!Pm2, M!World, M!Local
<1> QED BY <1>2, <1>3 DEF ApartInv

\* The inductive invariant of migrations: what each step has made sure of, and
\* for every unit and name who is about to do what is still to be done.
THEOREM MigInvariant == M!Spec => []MigInv
<1>1. M!Init => MigInv
  BY MigInit, BootAssumption DEF ApartInv
<1>2. MigInv /\ [M!Next]_M!vars => MigInv'
  BY MigStep, MigStutter, BootAssumption DEF Preserved
<1> QED BY <1>1, <1>2, PTL DEF M!Spec

\* A migration keeps its types; an application with a legacy template stays as it
\* is under PM2; what runs as a service is not run by PM2 as well, unless PM2 did
\* not stop it or its timer ran before that; and success means that no step
\* failed and all that was asked for is in the store and runs and starts at boot,
\* unless a migration that failed had left it there (Migrate.js:254 to 340): for
\* any lists and processes, and failures and deaths at any step.
THEOREM Migrated ==
  M!Spec => [](/\ M!TypeOK /\ M!LegacyKeepsSource
               /\ M!RunsOnce /\ M!SuccessIsComplete)
<1>1. ASSUME MigInv PROVE M!TypeOK
  BY <1>1 DEF MigInv, MigTypes, MigSteps, MigPlace, Reached, M!TypeOK
<1>2. ASSUME MigInv PROVE M!LegacyKeepsSource
  BY <1>2 DEF MigInv, Spared, M!LegacyKeepsSource
<1>3. ASSUME MigInv PROVE M!RunsOnce
  <2> SUFFICES ASSUME M!Quiet, NEW u \in active
               PROVE  /\ owner[u] \in pm2 => M!Hurt(owner[u], {"kept", "stop"})
                      /\ owner[u] = None => u \in timers /\ LeftTimer(u)
    BY DEF M!RunsOnce, LeftTimer
  <2>1. u \in M!Units /\ Once /\ Timed
    BY <1>3 DEF MigInv, MigTypes
  <2> QED BY <2>1 DEF Once, Timed, Doing, M!Quiet
<1>4. ASSUME MigInv PROVE M!SuccessIsComplete
  <2>3. ASSUME NEW p \in Migrators, res[p] = "ok" PROVE ~broke[p]
    BY <1>4, <2>3 DEF MigInv, MigReports, Reports
  <2> SUFFICES ASSUME NEW p \in Migrators, M!Quiet, res[p] = "ok", ~dry[p], NEW e \in asked[p]
               PROVE  /\ owner[e.unit] # None
                      /\ \/ e.unit \in enabledUnits \cap active
                         \/ M!Hurt(owner[e.unit], {"stop", "enable", "start"})
    BY <2>3 DEF M!SuccessIsComplete
  <2>1. e.unit \in M!Units
    <3>1. e \in M!ToSet(list) /\ list \in Lists
      BY <1>4 DEF MigInv, MigTypes
    <3> QED BY <3>1 DEF M!Units, M!Entries
  <2>2. owner[e.unit] # None
    <3>1. M!ToSet(todo[p]) = {}
      BY <1>4, Members DEF MigInv, MigTypes, MigReports, Reports
    <3> QED BY <1>4, <3>1 DEF MigInv, MigReports, Reports
  <2> QED BY <1>4, <2>1, <2>2 DEF MigInv, Brought, Doing, M!Quiet
<1>5. MigInv => M!TypeOK /\ M!LegacyKeepsSource /\ M!RunsOnce /\ M!SuccessIsComplete
  BY <1>1, <1>2, <1>3, <1>4
<1> QED BY <1>5, MigInvariant, PTL

\* What PM2 ran before goes on running, there or as its own service; only where
\* a migration of it failed or died after PM2 was stopped may it be down, and then
\* it is in the store with its unit installed; as long as no two names that share
\* a unit are migrated at the same time (Migrate.js:304 to 331).
THEOREM GoesOnRunning == M!Spec /\ []Apart => []M!RunsSomewhere
<1>1. M!Init => ApartInv
  BY MigInit, BootAssumption
<1>2. ApartInv /\ Apart /\ [M!Next]_M!vars => ApartInv'
  BY MigStep, MigStutter, BootAssumption DEF ApartInv, Preserved
<1>3. ApartInv => M!RunsSomewhere
  BY DEF ApartInv, Somewhere, Follows, M!RunsSomewhere, M!Quiet
<1> QED BY <1>1, <1>2, <1>3, PTL DEF M!Spec
-----------------------------------------------------------------------------
(* What outlives a reboot and what comes over from PM2, in steps that come  *)
(* in any order.                                                           *)

\* What PM2 ran goes on running, once, at whatever step a migration fails or dies
\* and whatever reboots or is dumped meanwhile, but for the applications of
\* NothingIsLost that Migrate.js leaves down or running twice; as long as no two
\* names that share a unit are migrated at the same time.
THEOREM NothingLost == HostSpec /\ []Apart => []NothingIsLost
<1>1. [SnapshotSteps \/ MigrateSteps]_<<vars, migrateVars>> => [Next]_vars /\ [M!Next]_M!vars
  BY DEF SnapshotSteps, MigrateSteps, migrateVars, M!vars, M!Pm2, M!World, M!Local
<1> QED BY <1>1, Typed, Migrated, GoesOnRunning, PTL
        DEF HostSpec, Spec, M!Spec, NothingIsLost
=============================================================================
