-------------------------- MODULE ReloadLockProofs --------------------------
(***************************************************************************)
(* HeldByWorker for any number of processes, commands, failures and units  *)
(* of time: while nothing failed, a stamp in the lock file is that of a    *)
(* reload under way.  The invariant is inductive together with the types,  *)
(* because the file and its holder change together and a holder leaves     *)
(* "work" and "unlock" by emptying the file.  KeptOutBriefly rests on the  *)
(* stamp being no younger than the last reload that went to work: nobody   *)
(* but who goes to work makes it younger.  The second part is about the    *)
(* command layer that reloads are a part of.                               *)
(***************************************************************************)
EXTENDS Cli, FiniteSetTheorems, WellFoundedInduction, TLAPS

\* The variables keep their types (Common.lockReload, unlockReload).
THEOREM TypeCorrect == Spec => []TypeOK
<1>1. ASSUME Init PROVE TypeOK
  <2> USE ReloadAssumption, <1>1 DEF ReloadAssumption, Init
  <2>1. stamped \in BOOLEAN
    OBVIOUS
  <2>6. age \in 0..Timeout
    OBVIOUS
  <2>2. pc \in [Procs -> {"idle", "read", "write", "work", "unlock"}]
    OBVIOUS
  <2>3. form \in [Procs -> {"plain", "env", "force"}]
    OBVIOUS
  <2>4. refused \in [Procs -> BOOLEAN]
    OBVIOUS
  <2>5. holder \in Procs \cup {None} /\ since \in 0..Timeout /\ ops \in 0..MaxOps /\ faults \in 0..MaxFaults
    OBVIOUS
  <2> QED BY <2>1, <2>6, <2>2, <2>3, <2>4, <2>5 DEF TypeOK
<1>2. TypeOK /\ [Next]_vars => TypeOK'
  <2> SUFFICES ASSUME TypeOK, [Next]_vars PROVE TypeOK'
    OBVIOUS
  <2> USE ReloadAssumption DEF ReloadAssumption, TypeOK, File
  <2>1. ASSUME NEW p \in Procs, NEW f \in Forms, Begin(p, f) PROVE TypeOK'
    BY <2>1 DEF Begin, Goto
  <2>2. ASSUME NEW p \in Procs, Read(p) PROVE TypeOK'
    <3>1. pc' \in [Procs -> {"idle", "read", "write", "work", "unlock"}]
      BY <2>2 DEF Read, Goto
    <3>2. since' = since \/ since' = 0
      BY <2>2 DEF Read
    <3>3. since' \in 0..Timeout
      BY <3>2
    <3>4. refused' = refused \/ refused' = [refused EXCEPT ![p] = TRUE]
      BY <2>2, Zenon DEF Read
    <3>5. refused' \in [Procs -> BOOLEAN]
      BY <3>4
    <3> QED BY <2>2, <3>1, <3>3, <3>5 DEF Read
  <2>3. ASSUME NEW p \in Procs, Write(p) PROVE TypeOK'
    <3>1. stamped' \in BOOLEAN /\ holder' \in Procs \cup {None}
      BY <2>3 DEF Write
    <3>4. age' \in 0..Timeout /\ since' \in 0..Timeout
      BY <2>3 DEF Write
    <3>2. pc' \in [Procs -> {"idle", "read", "write", "work", "unlock"}]
      BY <2>3 DEF Write, Goto
    <3>3. faults' \in 0..MaxFaults
      BY <2>3 DEF Write, CanFail
    <3> QED BY <2>3, <3>1, <3>2, <3>3, <3>4 DEF Write
  <2>4. ASSUME NEW p \in Procs, Work(p) PROVE TypeOK'
    BY <2>4 DEF Work, Goto
  <2>5. ASSUME NEW p \in Procs, Unlock(p) PROVE TypeOK'
    <3>1. stamped' \in BOOLEAN /\ age' \in 0..Timeout /\ holder' \in Procs \cup {None}
      BY <2>5 DEF Unlock
    <3>2. pc' \in [Procs -> {"idle", "read", "write", "work", "unlock"}]
      BY <2>5 DEF Unlock, Goto
    <3>3. faults' \in 0..MaxFaults
      BY <2>5 DEF Unlock, CanFail
    <3> QED BY <2>5, <3>1, <3>2, <3>3 DEF Unlock
  <2>6. ASSUME NEW p \in Procs, Dies(p) PROVE TypeOK'
    BY <2>6 DEF Dies, Goto, CanFail
  <2>7. CASE Tick
    <3>1. age' \in 0..Timeout /\ since' \in 0..Timeout
      BY <2>7 DEF Tick
    <3> QED BY <2>7, <3>1 DEF Tick
  <2>8. CASE UNCHANGED vars
    BY <2>8 DEF vars
  <2> QED BY <2>1, <2>2, <2>3, <2>4, <2>5, <2>6, <2>7, <2>8 DEF Next, Step
<1> QED BY <1>1, <1>2, PTL DEF Spec

\* One step keeps a free or rightly held lock free or rightly held.
LEMMA HeldStep == TypeOK /\ HeldByWorker /\ [Next]_vars => HeldByWorker'
<1> SUFFICES ASSUME TypeOK, HeldByWorker, [Next]_vars PROVE HeldByWorker'
  OBVIOUS
<1> USE ReloadAssumption DEF ReloadAssumption, TypeOK, HeldByWorker, File
<1>1. ASSUME NEW p \in Procs, NEW f \in Forms, Begin(p, f) PROVE HeldByWorker'
  BY <1>1 DEF Begin, Goto
<1>2. ASSUME NEW p \in Procs, Read(p) PROVE HeldByWorker'
  BY <1>2 DEF Read, Goto
<1>3. ASSUME NEW p \in Procs, Write(p) PROVE HeldByWorker'
  <2>1. CASE holder' = p
    BY <1>3, <2>1 DEF Write, Goto
  <2>2. CASE CanFail
    BY <1>3, <2>2 DEF CanFail
  <2> QED BY <1>3, <2>1, <2>2 DEF Write
<1>4. ASSUME NEW p \in Procs, Work(p) PROVE HeldByWorker'
  BY <1>4 DEF Work, Goto
<1>5. ASSUME NEW p \in Procs, Unlock(p) PROVE HeldByWorker'
  BY <1>5 DEF Unlock, Goto, CanFail
<1>6. ASSUME NEW p \in Procs, Dies(p) PROVE HeldByWorker'
  BY <1>6 DEF Dies, Goto, CanFail
<1>7. CASE Tick
  BY <1>7 DEF Tick
<1>8. CASE UNCHANGED vars
  BY <1>8 DEF vars
<1> QED BY <1>1, <1>2, <1>3, <1>4, <1>5, <1>6, <1>7, <1>8 DEF Next, Step

\* Every way out of a reload empties the lock file: without a failure no
\* lock is left behind to keep others out (API.reload).
THEOREM LockHeldByWorker == Spec => []HeldByWorker
<1>1. Init => HeldByWorker
  BY DEF Init, HeldByWorker
<1> QED BY <1>1, TypeCorrect, HeldStep, PTL DEF Spec

\* A stamp is written by a reload that goes to work, and those who come later
\* do not make it younger.
StampIsOld == stamped => since <= age
LEMMA StampStep == TypeOK /\ StampIsOld /\ [Next]_vars => StampIsOld'
<1> SUFFICES ASSUME TypeOK, StampIsOld, [Next]_vars PROVE StampIsOld'
  OBVIOUS
<1> USE ReloadAssumption DEF ReloadAssumption, TypeOK, StampIsOld, File
<1>1. ASSUME NEW p \in Procs, NEW f \in Forms, Begin(p, f) PROVE StampIsOld'
  BY <1>1 DEF Begin
<1>2. ASSUME NEW p \in Procs, Read(p) PROVE StampIsOld'
  <2>1. since' = since \/ since' = 0
    BY <1>2 DEF Read
  <2>2. UNCHANGED <<stamped, age>>
    BY <1>2 DEF Read
  <2>3. since \in 0..Timeout /\ age \in 0..Timeout
    OBVIOUS
  <2> HIDE DEF TypeOK
  <2> QED BY <2>1, <2>2, <2>3
<1>3. ASSUME NEW p \in Procs, Write(p) PROVE StampIsOld'
  <2>1. since' = 0
    BY <1>3 DEF Write
  <2>2. age' = 0 \/ age' = age
    BY <1>3 DEF Write
  <2>3. age \in Nat
    OBVIOUS
  <2> HIDE DEF TypeOK
  <2> QED BY <2>1, <2>2, <2>3
<1>4. ASSUME NEW p \in Procs, Work(p) \/ Dies(p) PROVE StampIsOld'
  BY <1>4 DEF Work, Dies
<1>5. ASSUME NEW p \in Procs, Unlock(p) PROVE StampIsOld'
  BY <1>5 DEF Unlock
<1>6. CASE Tick
  BY <1>6 DEF Tick
<1>7. CASE UNCHANGED vars
  BY <1>7 DEF vars
<1> QED BY <1>1, <1>2, <1>3, <1>4, <1>5, <1>6, <1>7 DEF Next, Step

\* Who is refused is refused by a reload that went to work less than Timeout ago,
\* whatever became of it (Common.lockReload).
LEMMA RefusedStep ==
  ASSUME TypeOK, StampIsOld, Next, NEW p \in Procs, ~refused[p], refused'[p]
  PROVE  since < Timeout
<1>1. PICK q \in Procs : Read(q) /\ refused' = [refused EXCEPT ![q] = TRUE] /\ KeepsOut(q)
  <2>1. ASSUME NEW q \in Procs, NEW f \in Forms, Begin(q, f) PROVE FALSE
    BY <2>1 DEF Begin, TypeOK
  <2>2. ASSUME NEW q \in Procs, Write(q) \/ Work(q) \/ Unlock(q) \/ Dies(q) PROVE FALSE
    BY <2>2 DEF Write, Work, Unlock, Dies
  <2>3. CASE Tick
    BY <2>3 DEF Tick
  <2>4. ASSUME NEW q \in Procs, Read(q)
        PROVE  refused' = [refused EXCEPT ![q] = TRUE] /\ KeepsOut(q)
    BY <2>4 DEF Read
  <2> QED BY <2>1, <2>2, <2>3, <2>4, Zenon DEF Next, Step
<1> QED BY <1>1, ReloadAssumption DEF KeepsOut, Fresh, StampIsOld, TypeOK, ReloadAssumption
THEOREM RefusedBriefly == Spec => KeptOutBriefly
<1>1. Init => StampIsOld
  BY DEF Init, StampIsOld
<1>2. TypeOK /\ StampIsOld /\ [Next]_vars
        => [\A p \in Procs : ~refused[p] /\ refused'[p] => since < Timeout]_vars
  BY RefusedStep
<1> QED BY <1>1, <1>2, TypeCorrect, StampStep, PTL DEF Spec, KeptOutBriefly

-----------------------------------------------------------------------------
(***************************************************************************)
(* The command layer, for any words, users, services and failures.         *)
(* Commands hold nothing while they run: what keeps an act off a service   *)
(* its words did not match is that ids are not used twice, and what keeps  *)
(* a failure from being answered with success is that it is noted down     *)
(* before the command goes on.                                             *)
(***************************************************************************)
\* The ids, units and names that the code passes around as strings: no two ids,
\* no two units are the same, and no app is named like an id or a unit.
SoundWords ==
    /\ \A i, j \in Nat : C!Id(i) = C!Id(j) => i = j
    /\ \A m, n \in Names : C!Canon(m) = C!Canon(n) => m = n
    /\ \A m, n \in Names, i \in Nat :
          C!Canon(n) # C!Id(i) /\ C!Canon(n) # m /\ C!Id(i) # n
SoundStart == \A s \in Starts : s.apps \in Seq(Names)

\* A command under way is a record with the fields of Idle.
IsCommand(r) ==
    r \in [pc : {r.pc}, cmd : {r.cmd}, todo : {r.todo}, new : {r.new},
           ids : {r.ids}, saw : {r.saw}, err : {r.err}]
CmdTypes ==
    /\ reg \in [Names -> Nat] /\ next \in Nat \ {0}
    /\ proc = [p \in Users |-> proc[p]] /\ \A p \in Users : IsCommand(proc[p])
    /\ failed \in [Users -> BOOLEAN]
    /\ answer = [p \in Users |-> answer[p]]

\* No id is given twice, and next is above them all.
IdsDiffer ==
    /\ \A n \in Names : reg[n] < next
    /\ \A m, n \in Names : reg[m] = reg[n] /\ reg[m] # 0 => m = n

\* What went wrong is noted down, unless the command scales or has ended.
Noted(p) ==
    /\ proc[p].pc # "idle" /\ proc[p].cmd.do # "scale" /\ failed[p] => proc[p].err
    /\ proc[p].pc = "size" => proc[p].cmd.do = "scale"
    /\ proc[p].pc = "count" => ~failed[p]
AllNoted == \A p \in Users : Noted(p)

\* The ids of a lookup stand for what was found, whoever owns it now: an id that
\* was once an entry's is that entry's or nobody's.
Stands(p, i) ==
    \/ \E n \in Names : <<n, 0>> \in proc[p].saw /\ i = C!Canon(n)
    \/ \E n \in Names, k \in Nat \ {0} : <<n, k>> \in proc[p].saw /\ i = C!Id(k)
    \/ i = C!Target(p) /\ C!Target(p) \in C!Numerals
Looked(p) ==
    proc[p].pc = "act" =>
        /\ \A i \in proc[p].ids : Stands(p, i)
        /\ \A n \in Names, k \in Nat \ {0} : <<n, k>> \in proc[p].saw =>
              k < next /\ \A m \in Names : reg[m] = k => m = n
AllLooked == \A p \in Users : Looked(p)
CmdInv == CmdTypes /\ IdsDiffer /\ AllNoted /\ AllLooked

\* A step of p, which goes on with its command or ends it, and its record then.
Onward(p, r) ==
    /\ IsCommand(r) /\ r.pc \notin {"idle", "size", "count"} /\ r.cmd = proc[p].cmd
    /\ proc[p].err => r.err
CmdMove(p) ==
    /\ \A q \in Users \ {p} : proc'[q] = proc[q] /\ failed'[q] = failed[q]
    /\ proc' = [q \in Users |-> proc'[q]] /\ failed' \in [Users -> BOOLEAN]
    /\ answer' = [q \in Users |-> answer'[q]]
    /\ \/ /\ proc'[p] = C!Idle
          /\ answer'[p] = "ok" => C!NoTarget(p) \/ C!Count(p) \/ C!Size(p)
       \/ /\ Onward(p, proc'[p])
          /\ failed'[p] => failed[p] \/ proc'[p].err \/ proc[p].cmd.do = "scale"

\* At first every installed app has the id of its place in the list.
LEMMA CmdInit ==
  ASSUME SoundStart, C!Init
  PROVE  CmdInv
<1>0. PICK apps \in Seq(Names) :
        /\ reg = [n \in Names |->
                    IF n \in C!Range(apps)
                    THEN CHOOSE i \in 1..Len(apps) : apps[i] = n ELSE 0]
        /\ next = 1 + Len(apps)
  BY DEF SoundStart, C!Init
<1>1. \A n \in Names : /\ reg[n] \in Nat /\ reg[n] < next
                       /\ reg[n] # 0 => /\ reg[n] \in 1 .. Len(apps)
                                        /\ apps[reg[n]] = n
  <2> SUFFICES ASSUME NEW n \in Names
               PROVE  /\ reg[n] \in Nat /\ reg[n] < next
                      /\ reg[n] # 0 => /\ reg[n] \in 1 .. Len(apps)
                                       /\ apps[reg[n]] = n
    OBVIOUS
  <2>0. Len(apps) \in Nat /\ next = 1 + Len(apps)
    BY <1>0
  <2>1. CASE n \in C!Range(apps)
    <3> DEFINE c == CHOOSE i \in 1 .. Len(apps) : apps[i] = n
    <3>1. reg[n] = c
      BY <1>0, <2>1
    <3>2. \E i \in 1 .. Len(apps) : apps[i] = n
      BY <2>1 DEF C!Range
    <3>3. c \in 1 .. Len(apps) /\ apps[c] = n
      BY <3>2
    <3> HIDE DEF c
    <3> QED BY <3>1, <3>3, <2>0
  <2>2. CASE n \notin C!Range(apps)
    BY <1>0, <2>0, <2>2
  <2> QED BY <2>1, <2>2
<1>2. CmdTypes
  <2>1. reg = [n \in Names |-> reg[n]]
    BY <1>0
  <2>2. reg \in [Names -> Nat] /\ next \in Nat \ {0}
    BY <2>1, <1>0, <1>1
  <2>3. /\ proc = [p \in Users |-> proc[p]] /\ \A p \in Users : IsCommand(proc[p])
        /\ failed \in [Users -> BOOLEAN] /\ answer = [p \in Users |-> answer[p]]
    BY DEF C!Init, C!Idle, IsCommand
  <2> QED BY <2>2, <2>3 DEF CmdTypes
<1>3. IdsDiffer
  BY <1>1 DEF IdsDiffer
<1>4. AllNoted /\ AllLooked
  BY DEF C!Init, C!Idle, AllNoted, Noted, AllLooked, Looked
<1> QED BY <1>2, <1>3, <1>4 DEF CmdInv

\* What a command keeps where only its step changes.
LEMMA WithFields ==
  ASSUME CmdTypes, NEW p \in Users, NEW l
  PROVE  LET s == C!With(p, l) IN
         /\ IsCommand(s) /\ s.pc = l /\ s.cmd = proc[p].cmd /\ s.todo = proc[p].todo
         /\ s.new = proc[p].new /\ s.ids = proc[p].ids /\ s.saw = proc[p].saw
          /\ s.err = proc[p].err
<1>1. C!With(p, l) = [proc[p] EXCEPT !.pc = l]
  BY DEF C!With
<1>2. IsCommand(proc[p])
  BY DEF CmdTypes
<1> QED BY <1>1, <1>2 DEF IsCommand

\* A command that goes on with r.
LEMMA GoesOn ==
  ASSUME CmdTypes, NEW p \in Users, NEW r, Onward(p, r), C!Go(p, r),
         UNCHANGED <<answer, failed>>
  PROVE  CmdMove(p) /\ proc'[p] = r
<1>1. /\ proc'[p] = r /\ \A q \in Users \ {p} : proc'[q] = proc[q]
      /\ proc' = [q \in Users |-> proc'[q]]
  BY DEF CmdTypes, C!Go
<1> QED BY <1>1 DEF CmdTypes, CmdMove

\* A command that ends.
LEMMA GoesIdle ==
  ASSUME CmdTypes, NEW p \in Users, NEW how, C!End(p, how),
         failed' \in [Users -> BOOLEAN], \A q \in Users \ {p} : failed'[q] = failed[q],
         how = "ok" => C!NoTarget(p) \/ C!Count(p) \/ C!Size(p)
  PROVE  CmdMove(p) /\ proc'[p] = C!Idle
<1>1. /\ proc'[p] = C!Idle /\ (\A q \in Users \ {p} : proc'[q] = proc[q])
      /\ proc' = [q \in Users |-> proc'[q]]
  BY DEF CmdTypes, C!Go, C!End
<1>2. answer'[p] = how /\ answer' = [q \in Users |-> answer'[q]]
  BY DEF CmdTypes, C!End
<1> QED BY <1>1, <1>2 DEF CmdMove

\* A command that failed ends, or scales on.
LEMMA GoesWrong ==
  ASSUME CmdTypes, NEW p \in Users, C!Fails(p)
  PROVE  CmdMove(p) /\ proc'[p].pc # "act"
<1>1. failed' \in [Users -> BOOLEAN] /\ \A q \in Users \ {p} : failed'[q] = failed[q]
  BY DEF CmdTypes, C!Fails
<1>2. CASE proc[p].cmd.do = "scale"
  <2> DEFINE w == C!With(p, "target")
             r == [w EXCEPT !.todo = Tail(w.todo), !.ids = {}]
  <2>1. C!Go(p, r) /\ UNCHANGED answer
    BY <1>2 DEF C!Fails, C!Cmd
  <2>2. IsCommand(r) /\ r.pc = "target" /\ r.cmd = proc[p].cmd /\ r.err = proc[p].err
    <3>1. IsCommand(w) /\ w.pc = "target" /\ w.cmd = proc[p].cmd /\ w.err = proc[p].err
      BY WithFields
    <3> HIDE DEF w
    <3> QED BY <3>1 DEF IsCommand
  <2> HIDE DEF r
  <2>3. /\ proc'[p] = r /\ \A q \in Users \ {p} : proc'[q] = proc[q]
        /\ proc' = [q \in Users |-> proc'[q]]
    BY <2>1 DEF CmdTypes, C!Go
  <2> QED BY <1>1, <1>2, <2>1, <2>2, <2>3 DEF CmdTypes, CmdMove, Onward
<1>3. CASE proc[p].cmd.do # "scale"
  <2>1. C!End(p, "error")
    BY <1>3 DEF C!Fails, C!Cmd
  <2> QED BY <1>1, <2>1, GoesIdle DEF C!Idle
<1> QED BY <1>2, <1>3

\* Every step of a command; only a lookup or an act leaves it at its acts.
Quietly(p) ==
    /\ CmdMove(p)
    /\ proc'[p].pc = "act" => C!Lookup(p) \/ C!LookupSpace(p) \/ C!Act(p)

\* The next word of the line, or the end of the words.
LEMMA NextMoves ==
  ASSUME CmdTypes, NEW p \in Users, C!NextTarget(p)
  PROVE  Quietly(p)
<1>1. PICK l \in {"lookup", "path", "name"} : C!Go(p, C!With(p, l))
  BY DEF C!NextTarget
<1>2. Onward(p, C!With(p, l)) /\ C!With(p, l).pc # "act"
  BY WithFields DEF Onward
<1>3. UNCHANGED <<answer, failed>>
  BY DEF C!NextTarget, C!ghosts
<1> QED BY <1>1, <1>2, <1>3, GoesOn DEF Quietly

\* The end of the words answers with success only when no error was noted.
LEMMA NoTargetMoves ==
  ASSUME CmdTypes, NEW p \in Users, C!NoTarget(p)
  PROVE  Quietly(p)
<1>1. UNCHANGED failed
  BY DEF C!NoTarget, C!ghosts
<1>2. CASE proc[p].new # <<>>
  <2>1. C!Go(p, C!With(p, "new")) /\ UNCHANGED answer
    BY <1>2 DEF C!NoTarget
  <2>2. Onward(p, C!With(p, "new")) /\ C!With(p, "new").pc # "act"
    BY WithFields DEF Onward
  <2> QED BY <1>1, <2>1, <2>2, GoesOn DEF Quietly
<1>3. CASE proc[p].new = <<>>
  <2>1. C!End(p, IF proc[p].err THEN "error" ELSE "ok")
    BY <1>3 DEF C!NoTarget
  <2>2. CmdMove(p) /\ proc'[p] = C!Idle
    BY <1>1, <2>1, GoesIdle DEF CmdTypes
  <2> QED BY <2>2 DEF Quietly, C!Idle
<1> QED BY <1>2, <1>3

\* A start that asks whether its word is a name or a namespace.
LEMMA StartMoves ==
  ASSUME CmdTypes, NEW p \in Users, C!StartName(p) \/ C!StartSpace(p)
  PROVE  Quietly(p)
<1>1. PICK l \in {"lookup", "space", "path"} : C!Go(p, C!With(p, l))
  BY DEF C!StartName, C!StartSpace
<1>2. Onward(p, C!With(p, l)) /\ C!With(p, l).pc # "act"
  BY WithFields DEF Onward
<1>3. UNCHANGED <<answer, failed>>
  BY DEF C!StartName, C!StartSpace
<1> QED BY <1>1, <1>2, <1>3, GoesOn DEF Quietly

\* A start of a path.
LEMMA PathMoves ==
  ASSUME CmdTypes, NEW p \in Users, C!StartPath(p)
  PROVE  Quietly(p)
<1> DEFINE u == C!With(p, "lookup")
           w == C!With(p, "new")
           a(t) == [u EXCEPT !.todo = t]
           b(t, n) == [w EXCEPT !.todo = t, !.new = n]
<1>1. \/ C!Fails(p)
      \/ (\E t : C!Go(p, a(t))) /\ UNCHANGED <<answer, failed>>
      \/ (\E t, n : C!Go(p, b(t, n))) /\ UNCHANGED <<answer, failed>>
  BY DEF C!StartPath
<1>2. ASSUME NEW t PROVE Onward(p, a(t)) /\ a(t).pc # "act"
  <2>1. IsCommand(u) /\ u.pc = "lookup" /\ u.cmd = proc[p].cmd /\ u.err = proc[p].err
    BY WithFields
  <2> HIDE DEF u
  <2> QED BY <2>1 DEF IsCommand, Onward
<1>3. ASSUME NEW t, NEW n PROVE Onward(p, b(t, n)) /\ b(t, n).pc # "act"
  <2>1. IsCommand(w) /\ w.pc = "new" /\ w.cmd = proc[p].cmd /\ w.err = proc[p].err
    BY WithFields
  <2> HIDE DEF w
  <2> QED BY <2>1 DEF IsCommand, Onward
<1> HIDE DEF a, b
<1> QED BY <1>1, <1>2, <1>3, GoesOn, GoesWrong DEF Quietly

\* A lookup of _operate, by name or by namespace.
LEMMA LookupMoves ==
  ASSUME CmdTypes, NEW p \in Users, C!Lookup(p) \/ C!LookupSpace(p)
  PROVE  Quietly(p)
<1> DEFINE w == C!With(p, "act")
           a(i, s) == [w EXCEPT !.ids = i, !.saw = s]
<1>1. \/ C!Fails(p)
      \/ (\E i, s : C!Go(p, a(i, s))) /\ UNCHANGED <<answer, failed>>
      \/ C!Go(p, C!With(p, "lookspace")) /\ UNCHANGED <<answer, failed>>
  BY DEF C!Lookup, C!LookupSpace
<1>2. ASSUME NEW i, NEW s PROVE Onward(p, a(i, s))
  <2>1. IsCommand(w) /\ w.pc = "act" /\ w.cmd = proc[p].cmd /\ w.err = proc[p].err
    BY WithFields
  <2> HIDE DEF w
  <2> QED BY <2>1 DEF IsCommand, Onward
<1>3. Onward(p, C!With(p, "lookspace"))
  BY WithFields DEF Onward
<1> HIDE DEF a
<1> QED BY <1>1, <1>2, <1>3, GoesOn, GoesWrong DEF Quietly

\* The apps of a file are set against the list.
LEMMA ListMoves ==
  ASSUME CmdTypes, NEW p \in Users, C!ListApps(p)
  PROVE  Quietly(p)
<1> DEFINE w == C!With(p, "target")
           a(t, n) == [w EXCEPT !.todo = t, !.new = n]
<1>1. (\E t, n : C!Go(p, a(t, n))) /\ UNCHANGED <<answer, failed>>
  BY Zenon DEF C!ListApps
<1>2. ASSUME NEW t, NEW n PROVE Onward(p, a(t, n)) /\ a(t, n).pc # "act"
  <2>1. IsCommand(w) /\ w.pc = "target" /\ w.cmd = proc[p].cmd /\ w.err = proc[p].err
    BY WithFields
  <2> HIDE DEF w
  <2> QED BY <2>1 DEF IsCommand, Onward
<1> HIDE DEF a
<1> QED BY <1>1, <1>2, GoesOn DEF Quietly

\* kill, which has nothing to look for.
LEMMA CountMoves ==
  ASSUME CmdTypes, NEW p \in Users, C!Count(p)
  PROVE  Quietly(p)
<1> DEFINE w == C!With(p, "lookup")
           r == [w EXCEPT !.todo = <<"all">>]
<1>1. UNCHANGED failed /\ (C!End(p, "ok") \/ (C!Go(p, r) /\ UNCHANGED answer))
  <2>1. PICK seen \in C!Lists :
          IF seen = {} THEN C!End(p, "ok") ELSE C!Go(p, r) /\ UNCHANGED answer
    BY DEF C!Count
  <2>2. UNCHANGED failed
    BY DEF C!Count
  <2>3. CASE seen = {}
    BY <2>1, <2>2, <2>3, Zenon
  <2>4. CASE seen # {}
    BY <2>1, <2>2, <2>4, Zenon
  <2> QED BY <2>3, <2>4
<1>2. Onward(p, r) /\ r.pc # "act"
  <2>1. IsCommand(w) /\ w.pc = "lookup" /\ w.cmd = proc[p].cmd /\ w.err = proc[p].err
    BY WithFields
  <2> HIDE DEF w
  <2> QED BY <2>1 DEF IsCommand, Onward
<1>3. CASE C!End(p, "ok")
  BY <1>1, <1>3, GoesIdle DEF CmdTypes, Quietly, C!Idle
<1>4. CASE C!Go(p, r) /\ UNCHANGED answer
  BY <1>1, <1>2, <1>4, GoesOn DEF Quietly
<1> QED BY <1>1, <1>3, <1>4

\* scale, which alone may end with success after something failed.
LEMMA SizeMoves ==
  ASSUME CmdTypes, NEW p \in Users, C!Size(p)
  PROVE  Quietly(p)
<1> DEFINE w == C!With(p, "target")
           a(t) == [w EXCEPT !.todo = t]
<1>1. \/ /\ \E how : C!End(p, how)
         /\ failed' = [failed EXCEPT ![p] = TRUE]
      \/ (\E t : C!Go(p, a(t))) /\ UNCHANGED <<answer, failed>>
  BY DEF C!Size
<1>2. ASSUME NEW t PROVE Onward(p, a(t)) /\ a(t).pc # "act"
  <2>1. IsCommand(w) /\ w.pc = "target" /\ w.cmd = proc[p].cmd /\ w.err = proc[p].err
    BY WithFields
  <2> HIDE DEF w
  <2> QED BY <2>1 DEF IsCommand, Onward
<1> HIDE DEF a
<1>3. ASSUME NEW how, C!End(p, how), failed' = [failed EXCEPT ![p] = TRUE]
      PROVE  Quietly(p)
  <2>1. failed' \in [Users -> BOOLEAN] /\ \A q \in Users \ {p} : failed'[q] = failed[q]
    BY <1>3 DEF CmdTypes
  <2>2. CmdMove(p) /\ proc'[p] = C!Idle
    BY <1>3, <2>1, GoesIdle
  <2> QED BY <2>2 DEF Quietly, C!Idle
<1> QED BY <1>1, <1>2, <1>3, GoesOn DEF Quietly

\* An exception ends the command.
LEMMA CrashMoves ==
  ASSUME CmdTypes, NEW p \in Users, C!Crash(p)
  PROVE  Quietly(p)
<1>1. C!End(p, "crash") /\ failed' = [failed EXCEPT ![p] = TRUE]
  BY DEF C!Crash
<1>2. failed' \in [Users -> BOOLEAN] /\ \A q \in Users \ {p} : failed'[q] = failed[q]
  BY <1>1 DEF CmdTypes
<1>3. CmdMove(p) /\ proc'[p] = C!Idle
  BY <1>1, <1>2, GoesIdle
<1> QED BY <1>3 DEF Quietly, C!Idle

\* A target is done.
LEMMA ActedMoves ==
  ASSUME CmdTypes, NEW p \in Users, C!Acted(p)
  PROVE  Quietly(p)
<1> DEFINE w == C!With(p, "target")
           r == [w EXCEPT !.todo = Tail(w.todo), !.saw = {}]
<1>1. C!Go(p, r) /\ UNCHANGED <<answer, failed>>
  BY DEF C!Acted, C!ghosts
<1>2. Onward(p, r) /\ r.pc # "act"
  <2>1. IsCommand(w) /\ w.pc = "target" /\ w.cmd = proc[p].cmd /\ w.err = proc[p].err
    BY WithFields
  <2> HIDE DEF w
  <2> QED BY <2>1 DEF IsCommand, Onward
<1> QED BY <1>1, <1>2, GoesOn DEF Quietly

\* An act, whole, half or refused.
LEMMA ActMoves ==
  ASSUME CmdTypes, NEW p \in Users, C!Act(p)
  PROVE  Quietly(p)
<1> DEFINE w == proc[p]
           a(i) == [w EXCEPT !.ids = w.ids \ {i}]
<1>1. \/ C!Fails(p)
      \/ (\E i : C!Go(p, a(i))) /\ UNCHANGED <<answer, failed>>
  BY DEF C!Act, C!ActsOn
<1>2. ASSUME NEW i PROVE Onward(p, a(i))
  <2>1. IsCommand(w) /\ w.pc = "act"
    BY DEF CmdTypes, C!Act, C!At
  <2> QED BY <2>1 DEF IsCommand, Onward
<1> HIDE DEF a
<1> QED BY <1>1, <1>2, GoesOn, GoesWrong DEF Quietly

\* An app is prepared for the first time.
LEMMA NewMoves ==
  ASSUME CmdTypes, NEW p \in Users, C!StartNew(p)
  PROVE  Quietly(p)
<1> DEFINE l == IF Len(proc[p].new) = 1 THEN "target" ELSE "new"
           w == C!With(p, l)
           rest == [w EXCEPT !.new = Tail(w.new)]
           bad == [rest EXCEPT !.err = TRUE]
<1>1. \/ C!Fails(p)
      \/ C!Go(p, rest) /\ UNCHANGED <<answer, failed>>
      \/ C!Go(p, bad) /\ UNCHANGED answer /\ failed' = [failed EXCEPT ![p] = TRUE]
  BY DEF C!StartNew
<1>2. l \in {"target", "new"}
  OBVIOUS
<1> HIDE DEF l
<1>3. IsCommand(w) /\ w.pc = l /\ w.cmd = proc[p].cmd /\ w.err = proc[p].err
  BY WithFields
<1> HIDE DEF w
<1>4. Onward(p, rest) /\ rest.pc = l
  BY <1>2, <1>3 DEF IsCommand, Onward
<1> HIDE DEF rest
<1>5. Onward(p, bad) /\ bad.pc = l /\ bad.err
  BY <1>2, <1>4 DEF IsCommand, Onward
<1> HIDE DEF bad
<1>6. CASE C!Go(p, bad) /\ UNCHANGED answer /\ failed' = [failed EXCEPT ![p] = TRUE]
  <2>1. /\ proc'[p] = bad /\ \A q \in Users \ {p} : proc'[q] = proc[q]
        /\ proc' = [q \in Users |-> proc'[q]]
    BY <1>6 DEF CmdTypes, C!Go
  <2>2. failed' \in [Users -> BOOLEAN] /\ \A q \in Users \ {p} : failed'[q] = failed[q]
    BY <1>6 DEF CmdTypes
  <2> QED BY <1>2, <1>5, <1>6, <2>1, <2>2 DEF CmdTypes, CmdMove, Quietly
<1> QED BY <1>1, <1>2, <1>4, <1>6, GoesOn, GoesWrong DEF Quietly

\* All of them.
LEMMA CmdMoves ==
  ASSUME CmdTypes, NEW p \in Users, C!Move(p)
  PROVE  Quietly(p)
  BY NextMoves, NoTargetMoves, StartMoves, PathMoves, LookupMoves, ActMoves, ActedMoves,
     ListMoves, NewMoves, CountMoves, SizeMoves, CrashMoves, Zenon DEF C!Move

\* The entries: one goes at a time, or a new one gets the next id.
LEMMA EntriesMove ==
  ASSUME CmdTypes, NEW p \in Users, C!Move(p)
  PROVE  \/ UNCHANGED <<reg, next>>
         \/ \E n : reg' = [reg EXCEPT ![n] = 0] /\ UNCHANGED next
         \/ \E n : /\ reg' = [reg EXCEPT ![n] = IF @ = 0 THEN next ELSE @]
                   /\ next' = IF reg[n] = 0 THEN next + 1 ELSE next
<1>1. CASE C!Act(p)
  BY <1>1 DEF C!Act, C!ActsOn, C!Whole, C!Half, C!Undone, C!services
<1>2. CASE C!StartNew(p)
  BY <1>2 DEF C!StartNew, C!FreshId, C!services
<1>3. CASE ~C!Act(p) /\ ~C!StartNew(p)
  BY <1>3, Zenon DEF C!Move, C!NextTarget, C!NoTarget, C!StartName, C!StartSpace,
     C!StartPath, C!Lookup, C!LookupSpace, C!Acted, C!ListApps, C!Count, C!Size,
     C!Crash, C!Still, C!services
<1> QED BY <1>1, <1>2, <1>3

\* Ids stay apart, and no id that was given before is given again.
IdsStay ==
    /\ reg' \in [Names -> Nat] /\ next' \in Nat \ {0} /\ next <= next' /\ IdsDiffer'
    /\ \A n \in Names : reg'[n] \in {0, reg[n]} \/ reg'[n] >= next
\* Ids stay apart, and an entry keeps its id, loses it or gets a new one.
LEMMA IdsMove ==
  ASSUME CmdTypes, IdsDiffer, NEW p \in Users, C!Move(p)
  PROVE  IdsStay
<1>1. CASE UNCHANGED <<reg, next>>
  BY <1>1 DEF CmdTypes, IdsDiffer, IdsStay
<1>2. ASSUME NEW n, reg' = [reg EXCEPT ![n] = 0], UNCHANGED next PROVE IdsStay
  <2>1. reg' \in [Names -> Nat] /\ \A m \in Names : reg'[m] \in {0, reg[m]}
    BY <1>2 DEF CmdTypes
  <2>2. next' = next /\ next \in Nat \ {0}
    BY <1>2 DEF CmdTypes
  <2>3. \A m \in Names : reg'[m] < next'
    BY <2>1, <2>2 DEF IdsDiffer
  <2>4. ASSUME NEW m \in Names, NEW k \in Names, reg'[m] = reg'[k], reg'[m] # 0
        PROVE  m = k
    BY <2>1, <2>4 DEF IdsDiffer
  <2> QED BY <2>1, <2>2, <2>3, <2>4 DEF IdsStay, IdsDiffer
<1>3. ASSUME NEW n, reg' = [reg EXCEPT ![n] = IF reg[n] = 0 THEN next ELSE reg[n]],
             next' = IF reg[n] = 0 THEN next + 1 ELSE next
      PROVE  IdsStay
  <2>1. CASE n \in Names /\ reg[n] = 0
    BY <1>3, <2>1 DEF CmdTypes, IdsDiffer, IdsStay
  <2>2. CASE n \notin Names \/ reg[n] # 0
    <3>1. reg' = reg /\ next' \in {next, next + 1}
      BY <1>3, <2>2 DEF CmdTypes
    <3> QED BY <3>1 DEF CmdTypes, IdsDiffer, IdsStay
  <2> QED BY <2>1, <2>2
<1> QED BY <1>1, <1>2, <1>3, EntriesMove

\* What was looked up stays so for whoever does not move.
LEMMA OthersLooked ==
  ASSUME CmdTypes, IdsStay, NEW q \in Users, Looked(q), proc'[q] = proc[q]
  PROVE  Looked(q)'
<1> SUFFICES ASSUME proc[q].pc = "act"
             PROVE  /\ \A i \in proc[q].ids : Stands(q, i)'
                    /\ \A n \in Names, k \in Nat \ {0} : <<n, k>> \in proc[q].saw =>
                          k < next' /\ \A m \in Names : reg'[m] = k => m = n
  BY DEF Looked
<1>1. ASSUME NEW i \in proc[q].ids PROVE Stands(q, i)'
  <2>1. Stands(q, i)
    BY DEF Looked
  <2> QED BY <2>1 DEF Stands, C!Target
<1>2. ASSUME NEW n \in Names, NEW k \in Nat \ {0}, <<n, k>> \in proc[q].saw
      PROVE  k < next' /\ \A m \in Names : reg'[m] = k => m = n
  <2>1. k < next /\ \A m \in Names : reg[m] = k => m = n
    BY <1>2 DEF Looked
  <2> QED BY <2>1 DEF CmdTypes, IdsStay
<1> QED BY <1>1, <1>2

\* The ids that a lookup keeps stand for what it found.
LEMMA LookupLooks ==
  ASSUME CmdTypes, IdsDiffer, IdsStay, NEW p \in Users,
         C!Lookup(p) \/ C!LookupSpace(p)
  PROVE  Looked(p)'
<1> DEFINE w == C!With(p, "act")
           a(i, s) == [w EXCEPT !.ids = i, !.saw = s]
           saw(S) == {<<n, reg[n]>> : n \in S}
<1>1. UNCHANGED <<reg, next>>
  BY DEF C!Lookup, C!LookupSpace, C!Still, C!services
<1>2. \/ proc'[p].pc # "act"
      \/ \E S \in SUBSET Names : C!Go(p, a(C!IdsOf(S), saw(S)))
      \/ C!Target(p) \in C!Numerals /\ C!Go(p, a({C!Target(p)}, {}))
  <2>1. CASE C!Fails(p)
    BY <2>1, GoesWrong
  <2>2. CASE C!Go(p, C!With(p, "lookspace"))
    <3>1. proc'[p].pc = "lookspace"
      BY <2>2, WithFields DEF CmdTypes, C!Go
    <3> QED BY <3>1
  <2>3. CASE ~C!Fails(p) /\ ~C!Go(p, C!With(p, "lookspace")) /\ C!Lookup(p)
    <3>1. PICK seen \in C!Lists :
            \/ C!ResetsId(p) /\ C!Go(p, a({C!Target(p)}, {}))
            \/ C!Go(p, a(C!IdsOf(C!Matching(C!Target(p), seen)),
                      saw(C!Matching(C!Target(p), seen))))
      BY <2>3 DEF C!Lookup
    <3>2. C!Matching(C!Target(p), seen) \subseteq Names
      <4>1. seen \subseteq Names
        BY DEF C!Lists, C!Registered
      <4> QED BY <4>1, Zenon DEF C!Matching, C!ByName
    <3> QED BY <3>1, <3>2 DEF C!ResetsId
  <2>4. CASE ~C!Fails(p) /\ ~C!Go(p, C!With(p, "lookspace")) /\ C!LookupSpace(p)
    <3>1. PICK seen \in C!Lists :
            \/ C!Target(p) \in C!Numerals /\ C!Go(p, a({C!Target(p)}, {}))
            \/ C!Go(p, a(C!IdsOf(C!BySpace(C!Target(p), seen)),
                      saw(C!BySpace(C!Target(p), seen))))
      BY <2>4 DEF C!LookupSpace
    <3>2. C!BySpace(C!Target(p), seen) \subseteq Names
      BY DEF C!Lists, C!Registered, C!BySpace
    <3> QED BY <3>1, <3>2
  <2> QED BY <2>1, <2>2, <2>3, <2>4
<1>3. ASSUME NEW i, NEW s, C!Go(p, a(i, s))
      PROVE  /\ proc'[p].ids = i /\ proc'[p].saw = s /\ proc'[p].todo = proc[p].todo
  <2>1. proc'[p] = a(i, s)
    BY <1>3 DEF CmdTypes, C!Go
  <2>2. IsCommand(w) /\ w.todo = proc[p].todo
    BY WithFields
  <2> HIDE DEF w
  <2> QED BY <2>1, <2>2 DEF IsCommand
<1> HIDE DEF a
<1>4. ASSUME NEW S \in SUBSET Names, C!Go(p, a(C!IdsOf(S), saw(S))) PROVE Looked(p)'
  <2>1. proc'[p].ids = C!IdsOf(S) /\ proc'[p].saw = saw(S)
    BY <1>3, <1>4
  <2>2. ASSUME NEW i \in proc'[p].ids PROVE Stands(p, i)'
    <3>1. PICK n \in S : i = C!IdOf(n)
      BY <2>1, <2>2 DEF C!IdsOf
    <3>2. <<n, reg[n]>> \in proc'[p].saw /\ n \in Names /\ reg[n] \in Nat
      BY <2>1 DEF CmdTypes
    <3> QED BY <3>1, <3>2 DEF C!IdOf, Stands
  <2>3. ASSUME NEW n \in Names, NEW k \in Nat \ {0}, <<n, k>> \in proc'[p].saw
        PROVE  k < next' /\ \A m \in Names : reg'[m] = k => m = n
    <3>1. reg[n] = k
      BY <2>1, <2>3
    <3> QED BY <1>1, <3>1 DEF IdsDiffer
  <2> QED BY <2>2, <2>3 DEF Looked
<1>5. CASE C!Target(p) \in C!Numerals /\ C!Go(p, a({C!Target(p)}, {}))
  <2>1. /\ proc'[p].ids = {C!Target(p)} /\ proc'[p].saw = {}
        /\ proc'[p].todo = proc[p].todo
    BY <1>3, <1>5
  <2>2. C!Target(p)' = C!Target(p) /\ C!Numerals' = C!Numerals
    BY <2>1 DEF C!Target, C!Numerals, C!Id
  <2> QED BY <1>5, <2>1, <2>2 DEF Looked, Stands
<1> QED BY <1>2, <1>4, <1>5 DEF Looked

\* An act drops an id and leaves what was found.
LEMMA ActLooks ==
  ASSUME CmdTypes, IdsStay, NEW p \in Users, Looked(p), C!Act(p)
  PROVE  Looked(p)'
<1> DEFINE w == proc[p]
           a(i) == [w EXCEPT !.ids = w.ids \ {i}]
<1>1. \/ C!Fails(p)
      \/ \E i : C!Go(p, a(i))
  BY DEF C!Act, C!ActsOn
<1>2. CASE C!Fails(p)
  BY <1>2, GoesWrong DEF Looked
<1>3. ASSUME NEW i, C!Go(p, a(i)) PROVE Looked(p)'
  <2>1. proc'[p] = a(i)
    BY <1>3 DEF CmdTypes, C!Go
  <2>2. IsCommand(w) /\ w.pc = "act"
    BY DEF CmdTypes, C!Act, C!At
  <2>3. proc'[p].ids \subseteq proc[p].ids /\ proc'[p].saw = proc[p].saw
        /\ proc'[p].todo = proc[p].todo
    BY <2>1, <2>2 DEF IsCommand
  <2>4. ASSUME NEW j \in proc'[p].ids PROVE Stands(p, j)'
    <3>1. Stands(p, j)
      BY <2>2, <2>3 DEF Looked
    <3> QED BY <2>3, <3>1 DEF Stands, C!Target
  <2>5. ASSUME NEW n \in Names, NEW k \in Nat \ {0}, <<n, k>> \in proc'[p].saw
        PROVE  k < next' /\ \A m \in Names : reg'[m] = k => m = n
    <3>1. k < next /\ \A m \in Names : reg[m] = k => m = n
      BY <2>2, <2>3, <2>5 DEF Looked
    <3> QED BY <3>1 DEF CmdTypes, IdsStay
  <2> QED BY <2>4, <2>5 DEF Looked
<1> QED BY <1>1, <1>2, <1>3

\* A step of a command keeps the invariant.
LEMMA MoveKeepsInv ==
  ASSUME CmdInv, NEW p \in Users, C!Move(p)
  PROVE  CmdInv'
<1>1. CmdTypes /\ Quietly(p) /\ IdsStay
  BY CmdMoves, IdsMove DEF CmdInv
<1>2. \A q \in Users : IsCommand(proc'[q])
  <2>1. IsCommand(proc'[p])
    BY <1>1 DEF Quietly, CmdMove, Onward, IsCommand, C!Idle
  <2> QED BY <1>1, <2>1 DEF Quietly, CmdMove, CmdTypes
<1>3. CmdTypes'
  BY <1>1, <1>2 DEF Quietly, CmdMove, CmdTypes, IsCommand, IdsStay
<1>4. AllNoted'
  <2> SUFFICES ASSUME NEW q \in Users PROVE Noted(q)'
    BY DEF AllNoted
  <2>1. Noted(q)
    BY DEF CmdInv, AllNoted
  <2>2. CASE q # p
    BY <1>1, <2>1, <2>2 DEF Quietly, CmdMove, Noted
  <2>3. CASE q = p
    <3>1. CASE proc'[p] = C!Idle
      BY <2>3, <3>1 DEF C!Idle, Noted
    <3>2. CASE proc'[p] # C!Idle
      <4>1. proc[p].pc # "idle"
        BY DEF C!Move, C!NextTarget, C!NoTarget, C!StartName, C!StartSpace, C!StartPath,
           C!Lookup, C!LookupSpace, C!Acted, C!ListApps, C!Count, C!Size, C!Crash, C!Act,
           C!StartNew, C!At
      <4> QED BY <1>1, <2>1, <2>3, <3>2, <4>1 DEF Quietly, CmdMove, Onward, Noted
    <3> QED BY <3>1, <3>2
  <2> QED BY <2>2, <2>3
<1>5. AllLooked'
  <2> SUFFICES ASSUME NEW q \in Users PROVE Looked(q)'
    BY DEF AllLooked
  <2>1. Looked(q)
    BY DEF CmdInv, AllLooked
  <2>2. CASE q # p
    BY <1>1, <2>1, <2>2, OthersLooked DEF Quietly, CmdMove
  <2>3. CASE q = p
    BY <1>1, <2>1, <2>3, LookupLooks, ActLooks DEF Quietly, Looked, CmdInv
  <2> QED BY <2>2, <2>3
<1> QED BY <1>1, <1>3, <1>4, <1>5 DEF CmdInv, IdsStay

\* So does its beginning.
LEMMA BeginKeepsInv ==
  ASSUME CmdInv, NEW p \in Users, NEW c, C!Begin(p, c)
  PROVE  CmdInv'
<1> DEFINE t == IF c.do \in {"stop", "delete"} THEN c.on \o c.file ELSE c.on
           r == [C!Idle EXCEPT !.cmd = c, !.todo = t, !.pc = C!FirstStep(c)]
<1>1. /\ C!Go(p, r) /\ failed' = [failed EXCEPT ![p] = FALSE]
      /\ answer' = [answer EXCEPT ![p] = "none"] /\ UNCHANGED <<reg, next>>
  BY DEF C!Begin, C!services
<1> HIDE DEF t
<1>2. IsCommand(r) /\ r.cmd = c /\ r.pc = C!FirstStep(c)
  BY DEF C!Idle, IsCommand
<1> HIDE DEF r
<1>3. /\ C!FirstStep(c) # "act"
      /\ C!FirstStep(c) = "size" => c.do = "scale"
  BY DEF C!FirstStep
<1>4. /\ proc'[p] = r /\ \A q \in Users \ {p} : proc'[q] = proc[q]
      /\ proc' = [q \in Users |-> proc'[q]]
  BY <1>1 DEF CmdInv, CmdTypes, C!Go
<1>5. CmdTypes'
  <2>1. \A q \in Users : IsCommand(proc'[q])
    BY <1>2, <1>4 DEF CmdInv, CmdTypes
  <2> QED BY <1>1, <1>4, <2>1 DEF CmdInv, CmdTypes, IsCommand
<1>6. AllNoted'
  BY <1>1, <1>2, <1>3, <1>4 DEF CmdInv, CmdTypes, AllNoted, Noted
<1>7. AllLooked'
  <2> SUFFICES ASSUME NEW q \in Users PROVE Looked(q)'
    BY DEF AllLooked
  <2>1. IdsStay
    BY <1>1 DEF CmdInv, CmdTypes, IdsDiffer, IdsStay
  <2>2. CASE q # p
    BY <1>4, <2>1, <2>2, OthersLooked DEF CmdInv, AllLooked
  <2>3. CASE q = p
    BY <1>2, <1>3, <1>4, <2>3 DEF Looked
  <2> QED BY <2>2, <2>3
<1> QED BY <1>1, <1>5, <1>6, <1>7 DEF CmdInv, IdsDiffer

\* So does a step that changes nothing.
LEMMA CmdStutter ==
  ASSUME CmdInv, UNCHANGED <<reg, next, proc, answer, failed>>
  PROVE  CmdInv'
<1>1. CmdTypes' /\ IdsDiffer'
  BY DEF CmdInv, CmdTypes, IsCommand, IdsDiffer
<1>2. AllNoted'
  BY DEF CmdInv, AllNoted, Noted
<1>3. AllLooked'
  <2>1. IdsStay
    BY DEF CmdInv, CmdTypes, IdsDiffer, IdsStay
  <2> QED BY <2>1, OthersLooked DEF CmdInv, AllLooked
<1> QED BY <1>1, <1>2, <1>3 DEF CmdInv

\* The inductive invariant of commands: what went wrong is noted down, and the ids
\* of a lookup are no other service's.
THEOREM CmdInvariant ==
  ASSUME SoundStart
  PROVE  C!Spec => []CmdInv
<1>1. C!Init => CmdInv
  BY CmdInit
<1>2. CmdInv /\ [C!Next]_C!vars => CmdInv'
  <2>1. ASSUME CmdInv, NEW n \in Names, C!Exits(n) PROVE CmdInv'
    BY <2>1, CmdStutter DEF C!Exits
  <2>2. ASSUME CmdInv, UNCHANGED C!vars PROVE CmdInv'
    BY <2>2, CmdStutter DEF C!vars
  <2> QED BY <2>1, <2>2, MoveKeepsInv, BeginKeepsInv DEF C!Next
<1> QED BY <1>1, <1>2, PTL DEF C!Spec

\* An act reaches a service that the words of its command matched when they were
\* looked up, whatever other commands remove and register meanwhile: an id is
\* resolved again (_resolveEntry, SystemdClient.js:404), but never leads to
\* another service.
THEOREM TouchesMatches ==
  ASSUME SoundStart, SoundWords
  PROVE  C!Spec => [][C!ActsOnMatches]_C!vars
<1>1. ASSUME CmdInv, C!Next PROVE C!ActsOnMatches
  <2> SUFFICES ASSUME NEW p \in Users, C!At(p, "act"), proc[p].ids # {}, proc'[p] # proc[p],
                      hit' # None
               PROVE  C!Matched(p, hit')
    BY DEF C!ActsOnMatches
  <2>1. CmdTypes
    BY <1>1 DEF CmdInv
  <2>2. C!Act(p)
    <3>1. ASSUME NEW q \in Users, C!Move(q) PROVE q = p
      BY <2>1, <3>1, CmdMoves DEF Quietly, CmdMove
    <3>2. ASSUME NEW q \in Users, NEW c, C!Begin(q, c) PROVE FALSE
      BY <2>1, <3>2 DEF C!Begin, C!Go, C!At, CmdTypes
    <3>3. ASSUME NEW n \in Names, C!Exits(n) PROVE FALSE
      BY <3>3 DEF C!Exits
    <3>4. C!Move(p)
      BY <1>1, <3>1, <3>2, <3>3 DEF C!Next
    <3> QED BY <3>4 DEF C!Move, C!NextTarget, C!NoTarget, C!StartName, C!StartSpace,
               C!StartPath, C!Lookup, C!LookupSpace, C!Acted, C!ListApps, C!Count, C!Size,
               C!Crash, C!StartNew, C!At
  <2>3. PICK i \in proc[p].ids : hit' \in C!Entry(i)
    BY <2>2 DEF C!Act, C!ActsOn
  <2>4. Stands(p, i) /\ (\A n \in Names, k \in Nat \ {0} : <<n, k>> \in proc[p].saw =>
                            \A m \in Names : reg[m] = k => m = n)
    BY <1>1 DEF CmdInv, AllLooked, Looked, C!At
  <2>5. CASE \E n \in Names : <<n, 0>> \in proc[p].saw /\ i = C!Canon(n)
    BY <2>1, <2>3, <2>5 DEF SoundWords, CmdTypes, C!Entry, C!Registered, C!Matched
  <2>6. CASE \E n \in Names, k \in Nat \ {0} : <<n, k>> \in proc[p].saw /\ i = C!Id(k)
    <3>1. PICK n \in Names, k \in Nat \ {0} : <<n, k>> \in proc[p].saw /\ i = C!Id(k)
      BY <2>6
    <3>2. hit' \in Names /\ C!Id(reg[hit']) = i
      BY <2>1, <2>3, <3>1 DEF SoundWords, CmdTypes, C!Entry, C!Registered
    <3>3. reg[hit'] = k
      BY <2>1, <3>1, <3>2 DEF SoundWords, CmdTypes
    <3> QED BY <2>4, <3>1, <3>2, <3>3 DEF C!Matched
  <2>7. CASE i = C!Target(p) /\ C!Target(p) \in C!Numerals
    <3>1. PICK k \in Nat : i = C!Id(k)
      BY <2>7 DEF C!Numerals
    <3> QED BY <2>1, <2>3, <2>7, <3>1 DEF SoundWords, CmdTypes, C!Entry,
               C!Registered, C!Matched
  <2> QED BY <2>4, <2>5, <2>6, <2>7 DEF Stands
<1>2. CmdInv /\ [C!Next]_C!vars => [C!ActsOnMatches]_C!vars
  BY <1>1
<1> QED BY <1>2, CmdInvariant, PTL DEF C!Spec

\* A command of which any part failed does not end with success, however many
\* targets or apps of a file it goes on with; only scale, which does not look,
\* may (CLI.js).
THEOREM TruthAtEnd ==
  ASSUME SoundStart
  PROVE  C!Spec => [][C!EndsTruly]_C!vars
<1>1. ASSUME CmdInv, C!Next PROVE C!EndsTruly
  <2> SUFFICES ASSUME NEW p \in Users, proc[p].pc # "idle", proc'[p].pc = "idle",
                         failed'[p],
                      proc[p].cmd.do # "scale", answer'[p] = "ok"
               PROVE  FALSE
    BY DEF C!EndsTruly, C!Ends, C!At, C!Cmd
  <2>1. CmdTypes /\ Noted(p)
    BY <1>1 DEF CmdInv, AllNoted
  <2>2. C!Move(p)
    <3>1. ASSUME NEW q \in Users, C!Move(q) PROVE q = p
      BY <2>1, <3>1, CmdMoves DEF Quietly, CmdMove
    <3>2. ASSUME NEW q \in Users, NEW c, C!Begin(q, c) PROVE FALSE
      BY <2>1, <3>2 DEF C!Begin, C!Go, C!At, CmdTypes
    <3>3. ASSUME NEW n \in Names, C!Exits(n) PROVE FALSE
      BY <3>3 DEF C!Exits
    <3> QED BY <1>1, <3>1, <3>2, <3>3 DEF C!Next
  <2>3. C!NoTarget(p) \/ C!Count(p) \/ C!Size(p)
    BY <2>1, <2>2, CmdMoves DEF Quietly, CmdMove, Onward
  <2>4. CASE C!NoTarget(p)
    <3>1. failed[p]
      BY <2>4 DEF C!NoTarget, C!ghosts
    <3>2. CASE C!Go(p, C!With(p, "new"))
      BY <2>1, <3>2, WithFields DEF CmdTypes, C!Go
    <3>3. CASE C!End(p, IF proc[p].err THEN "error" ELSE "ok")
      <4>1. ~proc[p].err
        BY <2>1, <3>3 DEF CmdTypes, C!End
      <4> QED BY <2>1, <3>1, <4>1 DEF Noted
    <3> QED BY <2>4, <3>2, <3>3 DEF C!NoTarget
  <2>5. CASE C!Count(p) \/ C!Size(p)
    BY <2>1, <2>5 DEF C!Count, C!Size, C!At, Noted
  <2> QED BY <2>3, <2>4, <2>5
<1>2. CmdInv /\ [C!Next]_C!vars => [C!EndsTruly]_C!vars
  BY <1>1
<1> QED BY <1>2, CmdInvariant, PTL DEF C!Spec
-----------------------------------------------------------------------------
(***************************************************************************)
(* EndsDone: a command that nobody else works beside keeps, for each       *)
(* service its words meant, either what it asks for or a word, an id or an *)
(* app that will lead it there.                                            *)
(***************************************************************************)

\* What is typed: sequences of words, files of apps, scripts of apps.
Said == (UNION {C!Range(c.on) : c \in Commands}) \cup Names \cup BadApps \cup {"all"}
SoundCommands ==
    /\ \A c \in Commands :
          /\ c.on \in Seq(Said) /\ c.file \in Seq(Names \cup BadApps)
          /\ c.do = "kill" => c.file = <<>>
    /\ \A t \in DOMAIN AppOf : AppOf[t] \in Names \cup {None}

\* A word means one thing: no app is named like a namespace, a script or a
\* shortcut, and a number is none of these.
Spaces == {"default"} \cup {Space[n] : n \in Names}
OneMeaning ==
    /\ \A n \in Names : n # "all" /\ n \notin DOMAIN Regex /\ n \notin DOMAIN AppOf
    /\ \A m, n \in Names : Path[m] # n
    /\ \A m \in Names, s \in Spaces : s # m /\ s # C!Canon(m) /\ s # Path[m]
    /\ \A t \in C!Numerals :
          /\ t # "all" /\ t \notin DOMAIN Regex /\ t \notin DOMAIN AppOf
          /\ t \notin Spaces /\ \A m \in Names : Path[m] # t

\* The lookup of a word finds a service, if it is whole.
Listed(n) == reg[n] # 0 \/ up[n]
Called(t, n) ==
    \/ n = t
    \/ reg[n] = 0 /\ C!Canon(n) = t
    \/ reg[n] # 0 /\ Path[n] = t
    \/ C!SpaceOf(n) = t
    \/ t \in C!Numerals /\ reg[n] # 0 /\ C!Id(reg[n]) = t
OfFile(c) == c.file # <<>> /\ C!ActOf(c) \in {"stop", "delete"}
ByPath(c, t) == c.do = "start" /\ c.file = <<>> /\ t \in DOMAIN AppOf
Means(c, t, n) ==
    IF ByPath(c, t) THEN AppOf[t] = n
    ELSE IF OfFile(c) THEN n = t /\ Listed(n)
    ELSE \/ n = t
         \/ Listed(n) /\ \/ t = "all"
                         \/ t # "all" /\ t \in DOMAIN Regex /\ n \in Regex[t]
                         \/ t # "all" /\ t \notin DOMAIN Regex /\ Called(t, n)

\* What leads the command r to n.
Held(r, n) == C!IdOf(n) \in r.ids /\ (reg[n] # 0 \/ unit[n])
Sought(c, ts, n) == \E t \in C!Range(ts) : Means(c, t, n)
Pending(r, n) ==
    \/ r.err
    \/ n \in C!Range(r.new)
    \/ n \in Names /\ \/ C!Done(r.cmd, n)
                      \/ r.pc # "act" /\ Sought(r.cmd, r.todo, n)
                      \/ r.pc = "act" /\ (Held(r, n) \/ Sought(r.cmd, Tail(r.todo), n))

\* What each step of a command relies on, w the services it means.
Apps(c) == Names \cup {n \in BadApps : c.file # <<>>}
Staged(r, w) ==
    /\ r.cmd \in Commands
    /\ r.todo \in Seq(Said) /\ r.new \in Seq(Apps(r.cmd))
    /\ r.new # <<>> \/ r.pc \in {"new", "list"} => C!ActOf(r.cmd) \notin {"stop", "delete"}
    /\ r.pc = "new" => r.new # <<>> /\ (r.cmd.file = <<>> => Tail(r.new) = <<>>)
    /\ r.cmd.file = <<>> /\ r.pc # "new" => r.new = <<>>
    /\ r.pc = "count" => r.cmd.do = "kill" /\ w = C!Known
    /\ r.pc = "list" => r.cmd.file # <<>> /\ w = C!Range(r.cmd.file)
    /\ r.pc \in {"name", "space", "path", "lookup", "lookspace", "act"} => r.todo # <<>>
    /\ r.pc \in {"name", "space", "path"} => r.cmd.do = "start" /\ r.cmd.file = <<>>
    /\ r.pc \in {"name", "space"} => Head(r.todo) \notin DOMAIN AppOf
    /\ r.pc \in {"lookup", "lookspace"} => ~ByPath(r.cmd, Head(r.todo))
    /\ r.pc = "lookspace" => Head(r.todo) # "all" /\ Head(r.todo) \notin DOMAIN Regex
Plan(r, w) ==
    /\ Staged(r, w)
    /\ r.pc \notin {"count", "list"} => \A n \in w : Pending(r, n)

World ==
    /\ unit \in [Names -> BOOLEAN] /\ up \in [Names -> BOOLEAN]
    /\ \A n \in Names : up[n] => unit[n]
Busy(p) == proc[p].pc # "idle"
Alone ==
    /\ alone \in [Users -> BOOLEAN] /\ wanted = [p \in Users |-> wanted[p]]
    /\ \A p, q \in Users : alone[p] /\ Busy(p) /\ Busy(q) => p = q
AllPlanned ==
    \A p \in Users :
        alone[p] /\ Busy(p) /\ proc[p].cmd.do # "scale" => Plan(proc[p], wanted[p])
DoneInv == CmdInv /\ World /\ Alone /\ AllPlanned

-----------------------------------------------------------------------------
(* Sequences.                                                              *)

\* What is left of a list, and what comes next.
LEMMA RestOf ==
  ASSUME NEW E, NEW l \in Seq(E), l # <<>>
  PROVE  /\ Head(l) \in E /\ Tail(l) \in Seq(E)
         /\ C!Range(l) = {Head(l)} \cup C!Range(Tail(l))
<1>1. Len(l) \in Nat \ {0} /\ l[1] = Head(l) /\ DOMAIN l = 1 .. Len(l)
  OBVIOUS
<1>2. Tail(l) \in Seq(E) /\ Len(Tail(l)) = Len(l) - 1
  OBVIOUS
<1>3. \A i \in 1 .. (Len(l) - 1) : Tail(l)[i] = l[i + 1]
  OBVIOUS
<1>4. DOMAIN Tail(l) = 1 .. (Len(l) - 1)
  BY <1>2
<1>5. ASSUME NEW x \in C!Range(l) PROVE x = Head(l) \/ x \in C!Range(Tail(l))
  <2>1. PICK i \in 1 .. Len(l) : x = l[i]
    BY <1>1 DEF C!Range
  <2>2. CASE i = 1
    BY <1>1, <2>1, <2>2
  <2>3. CASE i # 1
    <3>1. i - 1 \in 1 .. (Len(l) - 1) /\ (i - 1) + 1 = i
      BY <1>1, <2>3
    <3>2. x = Tail(l)[i - 1]
      BY <1>3, <2>1, <3>1
    <3> QED BY <1>4, <3>1, <3>2 DEF C!Range
  <2> QED BY <2>2, <2>3
<1>6. ASSUME NEW x \in C!Range(Tail(l)) PROVE x \in C!Range(l)
  <2>1. PICK i \in 1 .. (Len(l) - 1) : x = Tail(l)[i]
    BY <1>4 DEF C!Range
  <2>2. i + 1 \in 1 .. Len(l) /\ x = l[i + 1]
    BY <1>1, <1>3, <2>1
  <2> QED BY <1>1, <2>2 DEF C!Range
<1>7. Head(l) \in C!Range(l) /\ Head(l) \in E
  <2>1. 1 \in DOMAIN l
    BY <1>1
  <2> QED BY <1>1, <2>1 DEF C!Range
<1> QED BY <1>2, <1>5, <1>6, <1>7

\* Two lists one after the other, a list of one, and of none.
LEMMA Both ==
  ASSUME NEW E, NEW k \in Seq(E), NEW l \in Seq(E)
  PROVE  k \o l \in Seq(E) /\ C!Range(k \o l) = C!Range(k) \cup C!Range(l)
<1>1. /\ k \o l \in Seq(E) /\ Len(k \o l) = Len(k) + Len(l)
      /\ Len(k) \in Nat /\ Len(l) \in Nat
  OBVIOUS
<1>2. \A i \in 1 .. (Len(k) + Len(l)) :
         (k \o l)[i] = IF i <= Len(k) THEN k[i] ELSE l[i - Len(k)]
  OBVIOUS
<1>3. DOMAIN (k \o l) = 1 .. (Len(k) + Len(l)) /\ DOMAIN k = 1 .. Len(k)
      /\ DOMAIN l = 1 .. Len(l)
  BY <1>1
<1>4. ASSUME NEW x \in C!Range(k \o l) PROVE x \in C!Range(k) \cup C!Range(l)
  <2>1. PICK i \in 1 .. (Len(k) + Len(l)) : x = (k \o l)[i]
    BY <1>3 DEF C!Range
  <2>2. CASE i <= Len(k)
    <3>1. i \in 1 .. Len(k) /\ x = k[i]
      BY <1>1, <1>2, <2>1, <2>2
    <3> QED BY <1>3, <3>1 DEF C!Range
  <2>3. CASE ~(i <= Len(k))
    <3>1. i - Len(k) \in 1 .. Len(l) /\ x = l[i - Len(k)]
      BY <1>1, <1>2, <2>1, <2>3
    <3> QED BY <1>3, <3>1 DEF C!Range
  <2> QED BY <2>2, <2>3
<1>5. ASSUME NEW x \in C!Range(k) PROVE x \in C!Range(k \o l)
  <2>1. PICK i \in 1 .. Len(k) : x = k[i]
    BY <1>3 DEF C!Range
  <2>2. i \in 1 .. (Len(k) + Len(l)) /\ x = (k \o l)[i]
    BY <1>1, <1>2, <2>1
  <2> QED BY <1>3, <2>2 DEF C!Range
<1>6. ASSUME NEW x \in C!Range(l) PROVE x \in C!Range(k \o l)
  <2>1. PICK i \in 1 .. Len(l) : x = l[i]
    BY <1>3 DEF C!Range
  <2>2. /\ i + Len(k) \in 1 .. (Len(k) + Len(l)) /\ ~(i + Len(k) <= Len(k))
        /\ (i + Len(k)) - Len(k) = i
    BY <1>1, <2>1
  <2>3. x = (k \o l)[i + Len(k)]
    BY <1>2, <2>1, <2>2
  <2> QED BY <1>3, <2>2, <2>3 DEF C!Range
<1> QED BY <1>1, <1>4, <1>5, <1>6

LEMMA Singles ==
  ASSUME NEW x
  PROVE  C!Range(<<x>>) = {x} /\ C!Range(<<>>) = {} /\ Tail(<<x>>) = <<>>
<1>1. DOMAIN <<x>> = {1} /\ <<x>>[1] = x /\ DOMAIN <<>> = {}
  OBVIOUS
<1> QED BY <1>1 DEF C!Range

\* Only the empty list has no elements.
LEMMA NoElements ==
  ASSUME NEW E, NEW l \in Seq(E)
  PROVE  C!Range(l) \subseteq E /\ (C!Range(l) = {} => l = <<>>)
<1>1. C!Range(l) \subseteq E
  BY DEF C!Range
<1>2. ASSUME l # <<>> PROVE C!Range(l) # {}
  BY <1>2, RestOf
<1> QED BY <1>1, <1>2

LEMMA SameCount == \A S : C!Cardinality(S) = Cardinality(S)
  BY Zenon DEF C!Cardinality, Cardinality

\* Every order of a finite set is a list of all its elements.
LEMMA Ordered ==
  ASSUME NEW S, IsFiniteSet(S), NEW s \in C!SetToSeqs(S)
  PROVE  s \in Seq(S) /\ C!Range(s) = S
<1> DEFINE n == Cardinality(S)
<1>1. n \in Nat /\ s \in [1..n -> S]
      /\ \A i, j \in 1..n : i # j => s[i] # s[j]
  BY FS_CardinalityType, SameCount, Zenon DEF C!SetToSeqs
<1>2. Cardinality(1..n) = n
  BY <1>1, FS_Interval
<1> HIDE DEF n
<1>3. s \in Injection(1..n, S)
  BY <1>1, Zenon DEF Injection, IsInjective
<1>4. s \in Surjection(1..n, S)
  BY <1>2, <1>3, FS_Injection DEF n
<1>5. \A x \in S : \E i \in 1..n : s[i] = x
  BY <1>4 DEF Surjection
<1> QED BY <1>1, <1>5 DEF C!Range

LEMMA OrderOfOne ==
  ASSUME NEW x
  PROVE  C!SetToSeq({x}) = <<x>>
<1>1. Cardinality({x}) = 1
  BY FS_Singleton
<1>2. C!SetToSeq({x}) = CHOOSE f \in [1..1 -> {x}] : C!IsInjective(f)
  BY <1>1, SameCount DEF C!SetToSeq
<1>3. \A f \in [1..1 -> {x}] : f = <<x>>
  OBVIOUS
<1>4. \E f \in [1..1 -> {x}] : C!IsInjective(f)
  <2>1. [i \in 1..1 |-> x] \in [1..1 -> {x}] /\ C!IsInjective([i \in 1..1 |-> x])
    BY DEF C!IsInjective
  <2> QED BY <2>1
<1> QED BY <1>2, <1>3, <1>4

\* A set of numbers that is not empty has a least one.
LEMMA Least ==
  ASSUME NEW T, T \subseteq Nat, T # {}
  PROVE  \E m \in T : \A n \in T : m <= n
<1>1. PICK m \in T : \A n \in T : <<n, m>> \notin OpToRel(<, Nat)
  BY NatLessThanWellFounded, WFMin
<1>2. ASSUME NEW n \in T PROVE m <= n
  <2>1. m \in Nat /\ n \in Nat
    OBVIOUS
  <2>2. ~(n < m)
    BY <1>1, <2>1 DEF OpToRel
  <2> QED BY <2>1, <2>2
<1> QED BY <1>2

\* What Without leaves of a list is all of it that is not in S: by the least prefix
\* of which that could be wrong.
LEMMA LeftOver ==
  ASSUME NEW E, NEW l \in Seq(E), NEW S
  PROVE  /\ C!Without(l, S) \in Seq(E)
         /\ \A x \in C!Range(l) : x \notin S => x \in C!Range(C!Without(l, S))
<1> DEFINE step(F, i) ==
             IF i = 0 THEN << >>
             ELSE IF l[i] \in S THEN F[i - 1] ELSE Append(F[i - 1], l[i])
           Sol(F, n) == F = [i \in 0 .. n |-> step(F, i)]
           T == {n \in 0 .. Len(l) : ~ \E F : Sol(F, n)}
<1>1. T = {}
  <2> SUFFICES ASSUME T # {} PROVE FALSE
    OBVIOUS
  <2>0. T \subseteq Nat
    OBVIOUS
  <2>1. PICK m \in T : \A n \in T : m <= n
    <3> HIDE DEF T
    <3> QED BY <2>0, Least
  <2>2. m \in 0 .. Len(l) /\ m \in Nat
    OBVIOUS
  <2>3. CASE m = 0
    <3>1. Sol([i \in 0 .. 0 |-> << >>], 0)
      OBVIOUS
    <3> QED BY <3>1, <2>3
  <2>4. CASE m # 0
    <3>1. m - 1 \in 0 .. Len(l) /\ m - 1 \notin T
      <4> HIDE DEF T
      <4> QED BY <2>1, <2>2, <2>4
    <3>2. PICK F : Sol(F, m - 1)
      BY <3>1
    <3> DEFINE G == [i \in 0 .. m |-> IF i = m THEN step(F, m) ELSE F[i]]
    <3>3. Sol(G, m)
      <4>1. ASSUME NEW i \in 0 .. m PROVE G[i] = step(G, i)
        <5>1. CASE i = m
          <6>1. m - 1 \in 0 .. m /\ m - 1 # m
            BY <2>2, <2>4
          <6>2. G[m - 1] = F[m - 1]
            BY <6>1
          <6> QED BY <5>1, <6>2, <2>4
        <5>2. CASE i # m
          <6>1. i \in 0 .. m - 1
            BY <5>2, <2>2
          <6>2. F[i] = step(F, i)
            BY <3>2, <6>1
          <6>3. i # 0 => i - 1 \in 0 .. m /\ i - 1 # m
            BY <6>1, <2>2
          <6> QED BY <5>2, <6>1, <6>2, <6>3
        <5> QED BY <5>1, <5>2
      <4> QED BY <4>1
    <3> QED BY <3>3
  <2> QED BY <2>3, <2>4
<1> DEFINE F == CHOOSE H : Sol(H, Len(l))
<1>3. Sol(F, Len(l))
  <2>1. Len(l) \in 0 .. Len(l)
    OBVIOUS
  <2>2. \E H : Sol(H, Len(l))
    BY <1>1, <2>1
  <2> HIDE DEF Sol
  <2> QED BY <2>2
<1>4. C!Without(l, S) = F[Len(l)]
  BY DEF C!Without
<1> HIDE DEF F
<1> DEFINE Right(n) == /\ F[n] \in Seq(E)
                       /\ \A i \in 1 .. n : l[i] \notin S => l[i] \in C!Range(F[n])
           U == {n \in 0 .. Len(l) : ~Right(n)}
<1>5. U = {}
  <2> SUFFICES ASSUME U # {} PROVE FALSE
    OBVIOUS
  <2>0. U \subseteq Nat
    OBVIOUS
  <2>1. PICK m \in U : \A n \in U : m <= n
    <3> HIDE DEF U
    <3> QED BY <2>0, Least
  <2>2. m \in 0 .. Len(l) /\ m \in Nat /\ ~Right(m)
    OBVIOUS
  <2>3. F[m] = step(F, m)
    BY <1>3, <2>2
  <2>4. CASE m = 0
    <3>1. F[m] = << >>
      BY <2>3, <2>4
    <3>2. 1 .. m = {}
      BY <2>4
    <3> QED BY <3>1, <3>2, <2>2
  <2>5. CASE m # 0
    <3>1. m - 1 \in 0 .. Len(l) /\ m - 1 \notin U
      <4> HIDE DEF U
      <4> QED BY <2>1, <2>2, <2>5
    <3>2. Right(m - 1)
      BY <3>1
    <3>3. l[m] \in E
      BY <2>2, <2>5
    <3>4. F[m] = IF l[m] \in S THEN F[m - 1] ELSE Append(F[m - 1], l[m])
      BY <2>3, <2>5
    <3>5. ASSUME NEW i \in 1 .. m PROVE i = m \/ i \in 1 .. (m - 1)
      BY <2>2, <2>5
    <3> DEFINE q == F[m - 1]
    <3>6. q \in Seq(E) /\ \A i \in 1 .. (m - 1) : l[i] \notin S => l[i] \in C!Range(q)
      BY <3>2
    <3>7. CASE l[m] \in S
      <4>1. F[m] = q
        BY <3>4, <3>7
      <4> HIDE DEF q
      <4> QED BY <2>2, <3>5, <3>6, <3>7, <4>1
    <3>8. CASE l[m] \notin S
      <4>1. F[m] = Append(q, l[m])
        BY <3>4, <3>8
      <4> HIDE DEF q, U, step
      <4>2. Append(q, l[m]) = q \o <<l[m]>> /\ <<l[m]>> \in Seq(E)
        BY <3>3, <3>6
      <4>3. F[m] \in Seq(E) /\ C!Range(F[m]) = C!Range(q) \cup {l[m]}
        <5>1. F[m] = q \o <<l[m]>>
          BY <4>1, <4>2
        <5>2. C!Range(q \o <<l[m]>>) = C!Range(q) \cup C!Range(<<l[m]>>)
              /\ q \o <<l[m]>> \in Seq(E)
          BY <3>6, <4>2, Both
        <5> QED BY <5>1, <5>2, Singles
      <4> QED BY <2>2, <3>5, <3>6, <4>3
    <3> QED BY <3>7, <3>8
  <2> QED BY <2>4, <2>5
<1>6. Right(Len(l))
  <2>1. Len(l) \in 0 .. Len(l)
    OBVIOUS
  <2> QED BY <1>5, <2>1
<1>7. ASSUME NEW x \in C!Range(l), x \notin S PROVE x \in C!Range(F[Len(l)])
  <2>1. PICK i \in 1 .. Len(l) : l[i] = x
    BY DEF C!Range
  <2> QED BY <1>6, <1>7, <2>1
<1> HIDE DEF Sol
<1> QED BY <1>4, <1>6, <1>7

-----------------------------------------------------------------------------
(* What words and ids lead to.                                             *)

\* The id of a service leads to it.
LEMMA EntryOf ==
  ASSUME SoundWords, CmdTypes, IdsDiffer, NEW n \in Names, reg[n] # 0 \/ unit[n]
  PROVE  C!Entry(C!IdOf(n)) = {n}
<1>1. \A m \in Names : reg[m] \in Nat
  BY DEF CmdTypes
<1>2. CASE reg[n] = 0
  <2>1. C!IdOf(n) = C!Canon(n)
    BY <1>2 DEF C!IdOf
  <2>2. {m \in Names : C!Canon(m) = C!Canon(n) /\ (reg[m] # 0 \/ unit[m])} = {n}
    BY DEF SoundWords
  <2> QED BY <2>1, <2>2 DEF C!Entry
<1>3. CASE reg[n] # 0
  <2>1. C!IdOf(n) = C!Id(reg[n])
    BY <1>3 DEF C!IdOf
  <2>2. {m \in Names : C!Canon(m) = C!Id(reg[n]) /\ (reg[m] # 0 \/ unit[m])} = {}
    BY <1>1 DEF SoundWords
  <2>3. {m \in C!Registered : C!Id(reg[m]) = C!Id(reg[n])} = {n}
    BY <1>1, <1>3 DEF SoundWords, IdsDiffer, C!Registered
  <2> QED BY <2>1, <2>2, <2>3 DEF C!Entry
<1> QED BY <1>2, <1>3

\* A whole list has every service that is registered or runs.
Whole(seen) == seen \in C!Lists /\ C!Sighted(seen)
LEMMA WholeLists ==
  ASSUME World, NEW seen, Whole(seen)
  PROVE  /\ seen \subseteq Names
         /\ \A n \in seen : reg[n] # 0 \/ unit[n]
         /\ \A n \in Names : Listed(n) => n \in seen
  BY DEF World, Whole, Listed, C!Lists, C!Sighted, C!Registered

\* Shapes of words that are told apart.
LEMMA Distinct ==
  ASSUME SoundWords, OneMeaning, NEW n \in Names
  PROVE  /\ n # "all" /\ n \notin DOMAIN Regex /\ n \notin C!Numerals
         /\ \A m \in Names : C!Canon(m) # n /\ Path[m] # n /\ C!SpaceOf(m) # n
         /\ \A m \in Names : C!SpaceOf(m) # C!Canon(n) /\ C!SpaceOf(m) # Path[n]
         /\ C!Canon(n) \notin C!Numerals /\ Path[n] \notin C!Numerals
         /\ C!SpaceOf(n) \notin C!Numerals
<1>1. \A m \in Names : C!SpaceOf(m) \in Spaces
  BY DEF C!SpaceOf, Spaces
<1>2. \A t \in C!Numerals : \E i \in Nat : t = C!Id(i)
  BY DEF C!Numerals
<1> QED BY <1>1, <1>2 DEF SoundWords, OneMeaning

\* A lookup finds what its word means, or nothing, and then it goes on.
LEMMA LookupFinds ==
  ASSUME SoundWords, OneMeaning, CmdTypes, World, NEW seen, Whole(seen), NEW c, NEW t,
         ~ByPath(c, t), NEW n \in Names, Means(c, t, n)
  PROVE  \/ n \in C!Matching(t, seen)
         \/ C!Matching(t, seen) = {} /\ ~OfFile(c) /\ t # "all" /\ t \notin DOMAIN Regex
<1> USE WholeLists
<1>1. CASE t = "all"
  <2>1. n # t
    BY <1>1, Distinct
  <2>2. Listed(n)
    BY <2>1 DEF Means
  <2> QED BY <1>1, <2>2 DEF C!Matching
<1>2. CASE t # "all" /\ t \in DOMAIN Regex
  <2>1. n # t
    BY <1>2, Distinct
  <2>2. Listed(n) /\ n \in Regex[t]
    BY <1>2, <2>1 DEF Means
  <2> QED BY <1>2, <2>2 DEF C!Matching
<1>3. CASE t # "all" /\ t \notin DOMAIN Regex
  <2>1. C!Matching(t, seen) = C!ByName(t, seen)
    BY <1>3 DEF C!Matching
  <2>2. CASE n \in seen /\ (n = t \/ (reg[n] = 0 /\ C!Canon(n) = t) \/ (reg[n] # 0 /\ Path[n] = t))
    BY <2>1, <2>2 DEF C!ByName
  <2>3. CASE n = t /\ n \notin seen
    <3>1. C!ByName(t, seen) = {}
      BY <2>3, Distinct DEF C!ByName
    <3>2. ~OfFile(c)
      BY <2>3 DEF Means
    <3> QED BY <1>3, <2>1, <3>1, <3>2
  <2>4. CASE Listed(n) /\ n # t /\ C!SpaceOf(n) = t
    <3>1. C!ByName(t, seen) = {}
      BY <2>4, Distinct DEF C!ByName
    <3>2. ~OfFile(c)
      BY <2>4 DEF Means
    <3> QED BY <1>3, <2>1, <3>1, <3>2
  <2>5. CASE Listed(n) /\ n # t /\ t \in C!Numerals
    <3>1. C!ByName(t, seen) = {}
      BY <2>5, Distinct DEF C!ByName
    <3>2. ~OfFile(c)
      BY <2>5 DEF Means
    <3> QED BY <1>3, <2>1, <3>1, <3>2
  <2> QED BY <1>3, <2>2, <2>3, <2>4, <2>5 DEF Means, Called
<1> QED BY <1>1, <1>2, <1>3

\* So does the lookup of a namespace, which leaves numbers for ids.
LEMMA SpaceFinds ==
  ASSUME SoundWords, OneMeaning, CmdTypes, World, NEW seen, Whole(seen), NEW c, NEW t,
         ~ByPath(c, t), t # "all", t \notin DOMAIN Regex, NEW n \in Names, Means(c, t, n)
  PROVE  \/ n \in C!BySpace(t, seen)
         \/ C!BySpace(t, seen) = {} /\ t \notin C!Numerals
         \/ C!BySpace(t, seen) = {} /\ reg[n] # 0 /\ C!IdOf(n) = t
<1> USE WholeLists
<1>1. CASE n = t
  BY <1>1, Distinct DEF C!BySpace
<1>2. CASE n # t
  <2>1. Listed(n) /\ Called(t, n)
    BY <1>2 DEF Means
  <2>2. CASE C!SpaceOf(n) = t
    BY <2>1, <2>2 DEF C!BySpace
  <2>3. CASE C!Canon(n) = t \/ Path[n] = t
    BY <2>3, Distinct DEF C!BySpace
  <2>4. CASE t \in C!Numerals /\ reg[n] # 0 /\ C!Id(reg[n]) = t
    BY <2>4, Distinct DEF C!BySpace, C!IdOf
  <2> QED BY <1>2, <2>1, <2>2, <2>3, <2>4 DEF Called
<1> QED BY <1>1, <1>2

\* What a word means as its command begins, its lookup will find.
LEMMA MeaningMeans ==
  ASSUME SoundWords, OneMeaning, SoundCommands, CmdTypes, World, NEW c \in Commands,
         c.file = <<>>, NEW t, NEW n \in C!Meaning(c, t)
  PROVE  n \in Names /\ Means(c, t, n)
<1>1. CASE ByPath(c, t)
  <2>1. C!Meaning(c, t) = IF AppOf[t] = None THEN {} ELSE {AppOf[t]}
    BY <1>1 DEF C!Meaning, C!HasExt, ByPath
  <2> QED BY <1>1, <2>1 DEF Means, SoundCommands, ByPath
<1>2. CASE ~ByPath(c, t)
  <2>0. ~OfFile(c)
    BY DEF OfFile
  <2>1. C!Meaning(c, t) =
          IF C!Matching(t, C!Known) # {} \/ ~(C!Word(t) \/ t \in C!Numerals)
          THEN C!Matching(t, C!Known)
          ELSE IF C!BySpace(t, C!Known) # {} THEN C!BySpace(t, C!Known)
          ELSE IF t \in C!Numerals THEN C!Entry(t) ELSE {}
    BY <1>2 DEF C!Meaning, C!HasExt, ByPath
  <2>2. \A m \in C!Known : m \in Names /\ Listed(m)
    BY DEF C!Known, C!Registered, Listed
  <2>3. CASE n \in C!Matching(t, C!Known)
    BY <1>2, <2>0, <2>2, <2>3 DEF C!Matching, C!ByName, Means, Called
  <2>4. CASE n \in C!BySpace(t, C!Known) /\ (C!Word(t) \/ t \in C!Numerals)
    <3>1. t # "all" /\ t \notin DOMAIN Regex
      BY <2>4 DEF C!Word, OneMeaning
    <3> QED BY <1>2, <2>0, <2>2, <2>4, <3>1 DEF C!BySpace, Means, Called
  <2>5. CASE n \in C!Entry(t) /\ t \in C!Numerals
    <3>1. t # "all" /\ t \notin DOMAIN Regex
      BY <2>5 DEF OneMeaning
    <3>2. PICK i \in Nat : t = C!Id(i)
      BY <2>5 DEF C!Numerals
    <3>3. n \in Names /\ reg[n] # 0 /\ C!Id(reg[n]) = t
      BY <2>5, <3>2 DEF SoundWords, C!Entry, C!Registered
    <3> QED BY <1>2, <2>0, <2>5, <3>1, <3>3 DEF Means, Called, Listed
  <2> QED BY <2>1, <2>3, <2>4, <2>5
<1> QED BY <1>1, <1>2

-----------------------------------------------------------------------------
(* The steps of a command that nobody works beside.                        *)

Hypotheses == SoundStart /\ SoundWords /\ OneMeaning /\ SoundCommands
Mine(p) ==
    /\ CmdInv /\ World /\ Plan(proc[p], wanted[p])
    /\ proc[p].pc # "idle" /\ proc[p].cmd.do # "scale"
    /\ alone \in [Users -> BOOLEAN] /\ alone'[p]

\* Its lists are whole.
LEMMA ReadsWhole ==
  ASSUME NEW p \in Users, Mine(p), NEW seen \in C!Lists, C!Reads(p, seen)
  PROVE  Whole(seen)
<1>1. ASSUME alone' = [alone EXCEPT ![p] = FALSE] PROVE FALSE
  BY <1>1 DEF Mine
<1> QED BY <1>1 DEF C!Reads, Whole

\* What is pending stays so where only the step of the command changes.
LEMMA StepsOn ==
  ASSUME NEW p \in Users, Mine(p), NEW l, C!Go(p, C!With(p, l)), l # "act", proc[p].pc # "act",
         proc[p].pc \notin {"count", "list"}, Staged(proc'[p], wanted[p])
  PROVE  Plan(proc'[p], wanted[p])
<1>1. proc'[p] = C!With(p, l) /\ CmdTypes
  BY DEF Mine, CmdInv, CmdTypes, C!Go
<1>2. LET s == C!With(p, l) IN
      /\ s.pc = l /\ s.cmd = proc[p].cmd /\ s.todo = proc[p].todo /\ s.new = proc[p].new
      /\ s.err = proc[p].err
  BY <1>1, WithFields
<1>3. \A n \in wanted[p] : Pending(proc[p], n)
  BY DEF Mine, Plan
<1> QED BY <1>1, <1>2, <1>3 DEF Plan, Pending

\* The next word, and the end of the words.
LEMMA NextPlanned ==
  ASSUME Hypotheses, NEW p \in Users, Mine(p), C!NextTarget(p)
  PROVE  Plan(proc'[p], wanted[p])
<1> DEFINE c == proc[p].cmd
           t == Head(proc[p].todo)
<1>1. PICK l \in {"lookup", "path", "name"} :
        /\ C!Go(p, C!With(p, l))
        /\ l = "lookup" => ~ByPath(c, t)
        /\ l \in {"path", "name"} => c.do = "start" /\ c.file = <<>>
        /\ l = "name" => t \notin DOMAIN AppOf
  <2>1. t \in C!Numerals => t \notin DOMAIN AppOf
    BY DEF Hypotheses, OneMeaning
  <2> QED BY <2>1 DEF C!NextTarget, C!Target, C!Cmd, C!HasExt, ByPath
<1>2. proc[p].pc = "target" /\ proc[p].todo # <<>>
  BY DEF C!NextTarget, C!At
<1>3. proc'[p] = C!With(p, l) /\ CmdTypes
  BY <1>1 DEF Mine, CmdInv, CmdTypes, C!Go
<1>4. Staged(proc'[p], wanted[p])
  BY <1>1, <1>2, <1>3, WithFields DEF Mine, Plan, Staged
<1> QED BY <1>1, <1>2, <1>4, StepsOn

LEMMA NoTargetPlanned ==
  ASSUME Hypotheses, NEW p \in Users, Mine(p), C!NoTarget(p), proc'[p].pc # "idle"
  PROVE  Plan(proc'[p], wanted[p])
<1>1. proc[p].pc = "target" /\ CmdTypes
  BY DEF C!NoTarget, C!At, Mine, CmdInv
<1>2. proc[p].new # <<>>
  <2>1. ASSUME C!End(p, IF proc[p].err THEN "error" ELSE "ok") PROVE FALSE
    BY <1>1, <2>1 DEF C!End, C!Go, CmdTypes, C!Idle
  <2> QED BY <2>1 DEF C!NoTarget
<1>3. C!Go(p, C!With(p, "new"))
  BY <1>2 DEF C!NoTarget
<1>4. proc'[p] = C!With(p, "new")
  BY <1>1, <1>3 DEF CmdTypes, C!Go
<1>5. Staged(proc'[p], wanted[p])
  BY <1>1, <1>2, <1>4, WithFields DEF Mine, Plan, Staged
<1> QED BY <1>1, <1>3, <1>5, StepsOn

\* A start asks whether its word is a name or a namespace.
LEMMA StartPlanned ==
  ASSUME Hypotheses, NEW p \in Users, Mine(p), C!StartName(p) \/ C!StartSpace(p)
  PROVE  Plan(proc'[p], wanted[p])
<1>1. PICK l \in {"lookup", "space", "path"} : C!Go(p, C!With(p, l))
  BY DEF C!StartName, C!StartSpace
<1>2. proc[p].pc \in {"name", "space"}
  BY DEF C!StartName, C!StartSpace, C!At
<1>3. proc'[p] = C!With(p, l) /\ CmdTypes
  BY <1>1 DEF Mine, CmdInv, CmdTypes, C!Go
<1>4. Staged(proc'[p], wanted[p])
  BY <1>1, <1>2, <1>3, WithFields DEF Mine, Plan, Staged, ByPath
<1> QED BY <1>1, <1>2, <1>4, StepsOn

\* The first word is dropped when what it means is met otherwise.
LEMMA Dropped ==
  ASSUME Hypotheses, NEW p \in Users, Mine(p),
         proc[p].pc \in {"path", "lookup", "lookspace", "act"}
  PROVE  LET r == proc[p] IN
         /\ r.todo \in Seq(Said) /\ r.todo # <<>> /\ Tail(r.todo) \in Seq(Said)
         /\ C!Range(r.todo) = {Head(r.todo)} \cup C!Range(Tail(r.todo))
         /\ Head(r.todo) = C!Target(p) /\ Head(r.todo) \in Said
<1>1. proc[p].todo \in Seq(Said) /\ proc[p].todo # <<>>
  BY DEF Mine, Plan, Staged
<1> QED BY <1>1, RestOf DEF C!Target

\* A start of a path: the entry that has it, or a new app.
LEMMA PathPlanned ==
  ASSUME Hypotheses, NEW p \in Users, Mine(p), C!StartPath(p), proc'[p].pc # "idle"
  PROVE  Plan(proc'[p], wanted[p])
<1> DEFINE r == proc[p]
           c == proc[p].cmd
           t == C!Target(p)
           u == C!With(p, "lookup")
           w == C!With(p, "new")
           again == [u EXCEPT !.todo = C!SetToSeq(C!SameScript(t)) \o Tail(u.todo)]
           fresh == [w EXCEPT !.todo = Tail(w.todo), !.new = <<AppOf[t]>>]
<1>0. CmdTypes /\ r.pc = "path" /\ Staged(r, wanted[p])
  BY DEF C!StartPath, C!At, Mine, CmdInv, Plan
<1>a. c \in Commands /\ c.do = "start" /\ c.file = <<>> /\ r.new = <<>> /\ ~OfFile(c)
  BY <1>0 DEF Staged, OfFile
<1>b. /\ r.todo \in Seq(Said) /\ Tail(r.todo) \in Seq(Said)
      /\ C!Range(r.todo) = {t} \cup C!Range(Tail(r.todo))
      /\ Head(r.todo) = t
  BY <1>0, Dropped
<1>1. \/ C!Go(p, again) /\ C!SameScript(t) # {}
      \/ C!Go(p, fresh) /\ t \in DOMAIN AppOf /\ AppOf[t] # None
  <2>1. ASSUME C!Fails(p) PROVE FALSE
    BY <1>0, <1>a, <2>1 DEF C!Fails, C!Cmd, C!End, C!Go, CmdTypes, C!Idle
  <2> QED BY <2>1 DEF C!StartPath
<1>2. t \in DOMAIN AppOf /\ AppOf[t] \in Names
  BY <1>1 DEF C!SameScript, C!Registered, Hypotheses, SoundCommands
<1>3. \A n \in wanted[p] : Pending(r, n)
  BY <1>0 DEF Mine, Plan
<1>4. \A n : Means(c, t, n) => n = AppOf[t]
  BY <1>2, <1>a DEF Means, ByPath
<1>5. CASE C!Go(p, again) /\ C!SameScript(t) # {}
  <2>1. C!SameScript(t) = {AppOf[t]}
    BY <1>2, <1>5 DEF C!SameScript
  <2>2. C!SetToSeq(C!SameScript(t)) = <<AppOf[t]>>
    BY <2>1, OrderOfOne
  <2>3. IsCommand(u) /\ u.pc = "lookup" /\ u.cmd = c /\ u.err = r.err /\ u.new = r.new
        /\ u.todo = r.todo
    BY <1>0, WithFields
  <2> DEFINE l == <<AppOf[t]>> \o Tail(r.todo)
  <2>4. proc'[p] = [u EXCEPT !.todo = l]
    BY <1>0, <1>5, <2>2, <2>3 DEF C!Go, CmdTypes
  <2>5. l \in Seq(Said) /\ C!Range(l) = {AppOf[t]} \cup C!Range(Tail(r.todo))
    <3>1. AppOf[t] \in Said
      BY <1>2 DEF Said
    <3>2. ASSUME NEW x \in Said PROVE <<x>> \in Seq(Said)
      OBVIOUS
    <3>3. <<AppOf[t]>> \in Seq(Said)
      BY <3>1, <3>2
    <3>4. Tail(r.todo) \in Seq(Said)
      BY <1>b
    <3>5. l \in Seq(Said) /\ C!Range(l) = C!Range(<<AppOf[t]>>) \cup C!Range(Tail(r.todo))
      <4> DEFINE k == <<AppOf[t]>>
                 m == Tail(r.todo)
      <4>1. l = k \o m /\ k \in Seq(Said) /\ m \in Seq(Said)
        BY <3>3, <3>4
      <4> HIDE DEF k, m, l
      <4>2. k \o m \in Seq(Said) /\ C!Range(k \o m) = C!Range(k) \cup C!Range(m)
        BY <4>1, Both
      <4>3. l \in Seq(Said) /\ C!Range(l) = C!Range(k) \cup C!Range(m)
        BY <4>1, <4>2
      <4> QED BY <4>3 DEF k, m
    <3>6. C!Range(<<AppOf[t]>>) = {AppOf[t]}
      BY Singles
    <3> QED BY <3>5, <3>6
  <2>6. Head(l) = AppOf[t] /\ l # <<>>
    BY <1>b, <1>2
  <2> HIDE DEF u, l
  <2>7. /\ proc'[p].pc = "lookup" /\ proc'[p].cmd = c /\ proc'[p].err = r.err
        /\ proc'[p].new = r.new /\ proc'[p].todo = l
    BY <2>3, <2>4 DEF IsCommand
  <2>8. ~ByPath(c, AppOf[t]) /\ Means(c, AppOf[t], AppOf[t])
    BY <1>2, <1>a DEF ByPath, Means, Hypotheses, OneMeaning
  <2>9. Staged(proc'[p], wanted[p])
    BY <1>0, <1>a, <2>5, <2>6, <2>7, <2>8 DEF Staged
  <2>10. ASSUME NEW n \in wanted[p] PROVE Pending(proc'[p], n)
    BY <1>0, <1>3, <1>4, <1>a, <1>b, <2>5, <2>7, <2>8 DEF Pending, Sought
  <2> QED BY <2>7, <2>9, <2>10 DEF Plan
<1>6. CASE C!Go(p, fresh)
  <2>1. IsCommand(w) /\ w.pc = "new" /\ w.cmd = c /\ w.err = r.err /\ w.todo = r.todo
    BY <1>0, WithFields
  <2>2. proc'[p] = fresh
    BY <1>0, <1>6 DEF C!Go, CmdTypes
  <2> DEFINE l == <<AppOf[t]>>
  <2>3. l \in Seq(Names) /\ C!Range(l) = {AppOf[t]} /\ l # <<>> /\ Tail(l) = <<>>
    BY <1>2, Singles
  <2> HIDE DEF w, l
  <2>4. /\ proc'[p].pc = "new" /\ proc'[p].cmd = c /\ proc'[p].err = r.err
        /\ proc'[p].new = l /\ proc'[p].todo = Tail(r.todo)
    BY <2>1, <2>2 DEF IsCommand, l
  <2>5. l \in Seq(Apps(c))
    BY <1>2, <2>3 DEF Apps, l
  <2>6. Staged(proc'[p], wanted[p])
    BY <1>a, <1>b, <2>3, <2>4, <2>5 DEF Staged, C!ActOf
  <2>7. ASSUME NEW n \in wanted[p] PROVE Pending(proc'[p], n)
    <3>1. C!Range(r.new) = {}
      BY <1>a, Singles
    <3> QED BY <1>0, <1>3, <1>4, <1>b, <2>3, <2>4, <3>1 DEF Pending, Sought
  <2> QED BY <2>4, <2>6, <2>7 DEF Plan
<1> QED BY <1>1, <1>5, <1>6

\* The ids of what a lookup found.
LEMMA LookupPlanned ==
  ASSUME Hypotheses, NEW p \in Users, Mine(p), C!Lookup(p), proc'[p].pc # "idle"
  PROVE  Plan(proc'[p], wanted[p])
<1> DEFINE r == proc[p]
           c == proc[p].cmd
           t == C!Target(p)
           w == C!With(p, "act")
           a(i, s) == [w EXCEPT !.ids = i, !.saw = s]
<1>0. CmdTypes /\ r.pc = "lookup" /\ Staged(r, wanted[p]) /\ World
  BY DEF C!Lookup, C!At, Mine, CmdInv, Plan
<1>b. /\ r.todo \in Seq(Said) /\ r.todo # <<>>
      /\ C!Range(r.todo) = {t} \cup C!Range(Tail(r.todo))
      /\ Head(r.todo) = t /\ ~ByPath(c, t)
  BY <1>0, Dropped DEF Staged
<1>1. PICK seen \in C!Lists :
        /\ C!Reads(p, seen)
        /\ \/ c.do = "reset" /\ \E i, s : C!Go(p, a(i, s))
           \/ /\ C!Matching(t, seen) # {} \/ OfFile(c)
              /\ \E s : C!Go(p, a(C!IdsOf(C!Matching(t, seen)), s))
           \/ /\ C!Matching(t, seen) = {} /\ ~OfFile(c) /\ (C!Word(t) \/ t \in C!Numerals)
              /\ C!Go(p, C!With(p, "lookspace"))
           \/ C!Fails(p)
  BY DEF C!Lookup, C!FileAct, OfFile, C!Cmd, C!ResetsId
<1>c. Whole(seen)
  BY <1>1, ReadsWhole
<1>2. ~C!Fails(p)
  BY <1>0 DEF C!Fails, C!Cmd, C!End, C!Go, CmdTypes, C!Idle, Mine
<1>3. \A n \in wanted[p] : Pending(r, n)
  BY <1>0 DEF Mine, Plan
<1>4. ASSUME NEW i, NEW s, C!Go(p, a(i, s))
      PROVE  /\ proc'[p].pc = "act" /\ proc'[p].cmd = c /\ proc'[p].err = r.err
             /\ proc'[p].new = r.new /\ proc'[p].todo = r.todo /\ proc'[p].ids = i
             /\ Staged(proc'[p], wanted[p])
  <2>1. proc'[p] = a(i, s)
    BY <1>0, <1>4 DEF CmdTypes, C!Go
  <2>2. /\ IsCommand(w) /\ w.pc = "act" /\ w.cmd = c /\ w.err = r.err /\ w.new = r.new
        /\ w.todo = r.todo
    BY <1>0, WithFields
  <2> HIDE DEF w
  <2>3. /\ proc'[p].pc = "act" /\ proc'[p].cmd = c /\ proc'[p].err = r.err
        /\ proc'[p].new = r.new /\ proc'[p].todo = r.todo /\ proc'[p].ids = i
    BY <2>1, <2>2 DEF IsCommand
  <2>4. Staged(proc'[p], wanted[p])
    BY <1>0, <1>b, <2>3 DEF Staged
  <2> QED BY <2>3, <2>4
<1> HIDE DEF a
<1>5. CASE c.do = "reset" /\ \E i, s : C!Go(p, a(i, s))
  <2>1. PICK i, s : C!Go(p, a(i, s))
    BY <1>5
  <2>2. ASSUME NEW n \in Names PROVE C!Done(c, n)
    BY <1>5 DEF C!Done, C!ActOf
  <2>3. ASSUME NEW n \in wanted[p] PROVE Pending(proc'[p], n)
    BY <1>0, <1>3, <1>4, <2>1, <2>2 DEF Pending
  <2> QED BY <1>4, <2>1, <2>3 DEF Plan
<1>6. CASE /\ C!Matching(t, seen) # {} \/ OfFile(c)
           /\ \E s : C!Go(p, a(C!IdsOf(C!Matching(t, seen)), s))
  <2>1. PICK s : C!Go(p, a(C!IdsOf(C!Matching(t, seen)), s))
    BY <1>6
  <2>2. ASSUME NEW n \in Names, Means(c, t, n) PROVE Held(proc'[p], n)
    <3>1. n \in C!Matching(t, seen)
      BY <1>0, <1>6, <1>b, <1>c, <2>2, LookupFinds DEF Hypotheses
    <3>2. n \in seen
      BY <3>1 DEF C!Matching, C!ByName
    <3>3. reg[n] # 0 \/ unit[n]
      BY <1>0, <1>c, <3>2, WholeLists
    <3> QED BY <1>4, <2>1, <3>1, <3>3 DEF Held, C!IdsOf
  <2>3. ASSUME NEW n \in wanted[p] PROVE Pending(proc'[p], n)
    BY <1>0, <1>3, <1>4, <1>b, <2>1, <2>2 DEF Pending, Sought
  <2> QED BY <1>4, <2>1, <2>3 DEF Plan
<1>7. CASE /\ C!Matching(t, seen) = {} /\ ~OfFile(c) /\ (C!Word(t) \/ t \in C!Numerals)
           /\ C!Go(p, C!With(p, "lookspace"))
  <2>1. t # "all" /\ t \notin DOMAIN Regex
    BY <1>7 DEF C!Word, Hypotheses, OneMeaning
  <2>2. proc'[p] = C!With(p, "lookspace")
    BY <1>0, <1>7 DEF CmdTypes, C!Go
  <2>3. Staged(proc'[p], wanted[p])
    BY <1>0, <1>b, <2>1, <2>2, WithFields DEF Staged
  <2> QED BY <1>0, <1>7, <2>3, StepsOn
<1> QED BY <1>1, <1>2, <1>5, <1>6, <1>7

\* The ids of a namespace, or a number for the id it is.
LEMMA LookupSpacePlanned ==
  ASSUME Hypotheses, NEW p \in Users, Mine(p), C!LookupSpace(p), proc'[p].pc # "idle"
  PROVE  Plan(proc'[p], wanted[p])
<1> DEFINE r == proc[p]
           c == proc[p].cmd
           t == C!Target(p)
           w == C!With(p, "act")
           a(i, s) == [w EXCEPT !.ids = i, !.saw = s]
<1>0. CmdTypes /\ r.pc = "lookspace" /\ Staged(r, wanted[p]) /\ World
  BY DEF C!LookupSpace, C!At, Mine, CmdInv, Plan
<1>b. /\ r.todo \in Seq(Said) /\ r.todo # <<>>
      /\ C!Range(r.todo) = {t} \cup C!Range(Tail(r.todo))
      /\ Head(r.todo) = t /\ ~ByPath(c, t) /\ t # "all" /\ t \notin DOMAIN Regex
  BY <1>0, Dropped DEF Staged
<1>1. PICK seen \in C!Lists :
        /\ C!Reads(p, seen)
        /\ \/ /\ C!BySpace(t, seen) # {}
              /\ \E s : C!Go(p, a(C!IdsOf(C!BySpace(t, seen)), s))
           \/ /\ C!BySpace(t, seen) = {} /\ t \in C!Numerals
              /\ \E s : C!Go(p, a({t}, s))
           \/ C!Fails(p)
  BY DEF C!LookupSpace
<1>c. Whole(seen)
  BY <1>1, ReadsWhole
<1>2. ~C!Fails(p)
  BY <1>0 DEF C!Fails, C!Cmd, C!End, C!Go, CmdTypes, C!Idle, Mine
<1>3. \A n \in wanted[p] : Pending(r, n)
  BY <1>0 DEF Mine, Plan
<1>4. ASSUME NEW i, NEW s, C!Go(p, a(i, s))
      PROVE  /\ proc'[p].pc = "act" /\ proc'[p].cmd = c /\ proc'[p].err = r.err
             /\ proc'[p].new = r.new /\ proc'[p].todo = r.todo /\ proc'[p].ids = i
             /\ Staged(proc'[p], wanted[p])
  <2>1. proc'[p] = a(i, s)
    BY <1>0, <1>4 DEF CmdTypes, C!Go
  <2>2. /\ IsCommand(w) /\ w.pc = "act" /\ w.cmd = c /\ w.err = r.err /\ w.new = r.new
        /\ w.todo = r.todo
    BY <1>0, WithFields
  <2> HIDE DEF w
  <2>3. /\ proc'[p].pc = "act" /\ proc'[p].cmd = c /\ proc'[p].err = r.err
        /\ proc'[p].new = r.new /\ proc'[p].todo = r.todo /\ proc'[p].ids = i
    BY <2>1, <2>2 DEF IsCommand
  <2>4. Staged(proc'[p], wanted[p])
    BY <1>0, <1>b, <2>3 DEF Staged
  <2> QED BY <2>3, <2>4
<1> HIDE DEF a
<1>5. CASE /\ C!BySpace(t, seen) # {}
           /\ \E s : C!Go(p, a(C!IdsOf(C!BySpace(t, seen)), s))
  <2>1. PICK s : C!Go(p, a(C!IdsOf(C!BySpace(t, seen)), s))
    BY <1>5
  <2>2. ASSUME NEW n \in Names, Means(c, t, n) PROVE Held(proc'[p], n)
    <3>1. n \in C!BySpace(t, seen)
      BY <1>0, <1>5, <1>b, <1>c, <2>2, SpaceFinds DEF Hypotheses
    <3>2. n \in seen
      BY <3>1 DEF C!BySpace
    <3>3. reg[n] # 0 \/ unit[n]
      BY <1>0, <1>c, <3>2, WholeLists
    <3> QED BY <1>4, <2>1, <3>1, <3>3 DEF Held, C!IdsOf
  <2>3. ASSUME NEW n \in wanted[p] PROVE Pending(proc'[p], n)
    BY <1>0, <1>3, <1>4, <1>b, <2>1, <2>2 DEF Pending, Sought
  <2> QED BY <1>4, <2>1, <2>3 DEF Plan
<1>6. CASE /\ C!BySpace(t, seen) = {} /\ t \in C!Numerals
           /\ \E s : C!Go(p, a({t}, s))
  <2>1. PICK s : C!Go(p, a({t}, s))
    BY <1>6
  <2>2. ASSUME NEW n \in Names, Means(c, t, n) PROVE Held(proc'[p], n)
    <3>1. reg[n] # 0 /\ C!IdOf(n) = t
      BY <1>0, <1>6, <1>b, <1>c, <2>2, SpaceFinds DEF Hypotheses
    <3> QED BY <1>4, <2>1, <3>1 DEF Held
  <2>3. ASSUME NEW n \in wanted[p] PROVE Pending(proc'[p], n)
    BY <1>0, <1>3, <1>4, <1>b, <2>1, <2>2 DEF Pending, Sought
  <2> QED BY <1>4, <2>1, <2>3 DEF Plan
<1> QED BY <1>1, <1>2, <1>5, <1>6

\* A target is done: it has no ids left.
LEMMA ActedPlanned ==
  ASSUME Hypotheses, NEW p \in Users, Mine(p), C!Acted(p)
  PROVE  Plan(proc'[p], wanted[p])
<1> DEFINE r == proc[p]
           w == C!With(p, "target")
           r2 == [w EXCEPT !.todo = Tail(w.todo), !.saw = {}]
<1>0. CmdTypes /\ r.pc = "act" /\ r.ids = {} /\ Staged(r, wanted[p])
  BY DEF C!Acted, C!At, Mine, CmdInv, Plan
<1>1. proc'[p] = r2
  BY <1>0 DEF C!Acted, C!Go, CmdTypes
<1>2. /\ IsCommand(w) /\ w.pc = "target" /\ w.cmd = r.cmd /\ w.err = r.err
      /\ w.new = r.new /\ w.todo = r.todo
  BY <1>0, WithFields
<1>3. Tail(r.todo) \in Seq(Said)
  BY <1>0, Dropped
<1>4. \A n \in wanted[p] : Pending(r, n)
  BY <1>0 DEF Mine, Plan
<1> HIDE DEF w
<1>5. /\ proc'[p].pc = "target" /\ proc'[p].cmd = r.cmd /\ proc'[p].err = r.err
      /\ proc'[p].new = r.new /\ proc'[p].todo = Tail(r.todo)
  BY <1>1, <1>2 DEF IsCommand
<1>6. Staged(proc'[p], wanted[p])
  BY <1>0, <1>3, <1>5 DEF Staged
<1>7. ASSUME NEW n \in wanted[p] PROVE Pending(proc'[p], n)
  BY <1>0, <1>4, <1>5 DEF Pending, Held
<1> QED BY <1>5, <1>6, <1>7 DEF Plan

\* kill looks all of them up.
LEMMA CountPlanned ==
  ASSUME Hypotheses, NEW p \in Users, Mine(p), C!Count(p), proc'[p].pc # "idle"
  PROVE  Plan(proc'[p], wanted[p])
<1> DEFINE r == proc[p]
           c == proc[p].cmd
           w == C!With(p, "lookup")
<1>0. CmdTypes /\ r.pc = "count" /\ Staged(r, wanted[p])
  BY DEF C!Count, C!At, Mine, CmdInv, Plan
<1>1. c \in Commands /\ c.do = "kill" /\ c.file = <<>> /\ r.new = <<>> /\ wanted[p] = C!Known
  BY <1>0 DEF Staged, Hypotheses, SoundCommands
<1>2. C!Go(p, [w EXCEPT !.todo = <<"all">>])
  <2>1. ~C!End(p, "ok")
    BY <1>0 DEF C!End, C!Go, CmdTypes, C!Idle
  <2>2. PICK seen \in C!Lists :
          IF seen = {} THEN C!End(p, "ok")
          ELSE C!Go(p, [w EXCEPT !.todo = <<"all">>]) /\ UNCHANGED answer
    BY DEF C!Count
  <2>3. CASE seen = {}
    BY <2>1, <2>2, <2>3, Zenon
  <2>4. CASE seen # {}
    BY <2>2, <2>4, Zenon
  <2> QED BY <2>3, <2>4
<1>3. proc'[p] = [w EXCEPT !.todo = <<"all">>]
  BY <1>0, <1>2 DEF C!Go, CmdTypes
<1>4. IsCommand(w) /\ w.pc = "lookup" /\ w.cmd = c /\ w.new = <<>>
  BY <1>0, <1>1, WithFields
<1> DEFINE l == <<"all">>
<1>5. l \in Seq(Said) /\ l # <<>> /\ Head(l) = "all" /\ C!Range(l) = {"all"}
  <2>1. "all" \in Said
    BY DEF Said
  <2>2. ASSUME NEW x \in Said PROVE <<x>> \in Seq(Said) /\ <<x>> # <<>> /\ Head(<<x>>) = x
    OBVIOUS
  <2> QED BY <2>1, <2>2, Singles
<1> HIDE DEF w
<1>6. /\ proc'[p].pc = "lookup" /\ proc'[p].cmd = c /\ proc'[p].new = <<>>
      /\ proc'[p].todo = l
  BY <1>3, <1>4 DEF IsCommand
<1> HIDE DEF l
<1>7. Staged(proc'[p], wanted[p])
  BY <1>0, <1>1, <1>5, <1>6 DEF Staged, ByPath
<1>8. ASSUME NEW n \in wanted[p] PROVE Pending(proc'[p], n)
  <2>1. n \in Names /\ Listed(n)
    BY <1>1 DEF C!Known, C!Registered, Listed
  <2>2. Means(c, "all", n)
    BY <1>1, <2>1 DEF Means, ByPath, OfFile
  <2> QED BY <1>5, <1>6, <2>1, <2>2 DEF Pending, Sought
<1> QED BY <1>6, <1>7, <1>8 DEF Plan

\* The apps of a file: those that are listed go by name, the others are new.
LEMMA ListPlanned ==
  ASSUME Hypotheses, NEW p \in Users, Mine(p), C!ListApps(p)
  PROVE  Plan(proc'[p], wanted[p])
<1> DEFINE r == proc[p]
           c == proc[p].cmd
           w == C!With(p, "target")
           a(s, l) == [w EXCEPT !.todo = s, !.new = l]
<1>0. CmdTypes /\ World /\ r.pc = "list" /\ Staged(r, wanted[p])
  BY DEF C!ListApps, C!At, Mine, CmdInv, Plan
<1>1. /\ c \in Commands /\ c.file \in Seq(Names \cup BadApps) /\ c.file # <<>>
      /\ wanted[p] = C!Range(c.file) /\ C!ActOf(c) \notin {"stop", "delete"}
  BY <1>0 DEF Staged, Hypotheses, SoundCommands
<1>2. PICK seen \in C!Lists :
        /\ C!Reads(p, seen)
        /\ \E s \in C!SetToSeqs(C!Range(c.file) \cap seen) :
             C!Go(p, a(s, C!Without(c.file, seen)))
  BY Zenon DEF C!ListApps, C!Cmd
<1>3. PICK s \in C!SetToSeqs(C!Range(c.file) \cap seen) :
        C!Go(p, a(s, C!Without(c.file, seen)))
  BY <1>2, Zenon
<1>4. seen \subseteq Names
  BY <1>0, <1>2, ReadsWhole, WholeLists
<1>5. IsFiniteSet(C!Range(c.file) \cap seen)
  <2>1. IsFiniteSet(1 .. Len(c.file))
    <3>1. Len(c.file) \in Int /\ 1 \in Int
      BY <1>1
    <3> QED BY <3>1, FS_Interval
  <2>2. C!Range(c.file) = {c.file[i] : i \in 1 .. Len(c.file)}
    BY <1>1 DEF C!Range
  <2>3. IsFiniteSet(C!Range(c.file))
    <3>1. [i \in 1 .. Len(c.file) |-> c.file[i]]
            \in Surjection(1 .. Len(c.file), C!Range(c.file))
      BY <2>2 DEF Surjection
    <3> QED BY <2>1, <3>1, FS_Surjection
  <2> QED BY <2>3, FS_Subset
<1>6. s \in Seq(Said) /\ C!Range(s) = C!Range(c.file) \cap seen
  <2>1. s \in Seq(C!Range(c.file) \cap seen) /\ C!Range(s) = C!Range(c.file) \cap seen
    BY <1>3, <1>5, Ordered
  <2>2. C!Range(c.file) \cap seen \subseteq Said
    BY <1>4 DEF Said
  <2> QED BY <2>1, <2>2
<1> DEFINE l == C!Without(c.file, seen)
<1>7. /\ l \in Seq(Names \cup BadApps)
      /\ \A x \in C!Range(c.file) : x \notin seen => x \in C!Range(l)
  BY <1>1, LeftOver
<1>8. Apps(c) = Names \cup BadApps
  BY <1>1 DEF Apps
<1>9. proc'[p] = a(s, l)
  BY <1>0, <1>3 DEF C!Go, CmdTypes
<1>10. IsCommand(w) /\ w.pc = "target" /\ w.cmd = c
  BY <1>0, WithFields
<1> HIDE DEF w, l
<1>11. /\ proc'[p].pc = "target" /\ proc'[p].cmd = c /\ proc'[p].new = l
       /\ proc'[p].todo = s
  BY <1>9, <1>10 DEF IsCommand
<1>12. Staged(proc'[p], wanted[p])
  BY <1>1, <1>6, <1>7, <1>8, <1>11 DEF Staged
<1>13. ASSUME NEW n \in wanted[p] PROVE Pending(proc'[p], n)
  <2>1. CASE n \in seen
    <3>1. n \in C!Range(s) /\ n \in Names
      BY <1>1, <1>4, <1>6, <2>1
    <3>2. Means(c, n, n)
      BY <1>1 DEF Means, ByPath, OfFile
    <3> QED BY <1>11, <3>1, <3>2 DEF Pending, Sought
  <2>2. CASE n \notin seen
    BY <1>1, <1>7, <1>11, <2>2 DEF Pending
  <2> QED BY <2>1, <2>2
<1> QED BY <1>11, <1>12, <1>13 DEF Plan

-----------------------------------------------------------------------------
(* What a plan relies on changes with the services.                        *)

\* A service that a step leaves alone.
Untouched(n) == reg'[n] = reg[n] /\ unit'[n] = unit[n] /\ up'[n] = up[n]
LEMMA Stays ==
  ASSUME NEW r, NEW n, n \in Names => Untouched(n), Pending(r, n)
  PROVE  Pending(r, n)'
<1>1. CASE n \in Names
  <2>1. Untouched(n)
    BY <1>1
  <2>2. C!Done(r.cmd, n) => C!Done(r.cmd, n)'
    BY <2>1 DEF Untouched, C!Done, C!ActOf
  <2>3. ASSUME NEW t, Means(r.cmd, t, n) PROVE Means(r.cmd, t, n)'
    BY <2>1, <2>3 DEF Untouched, Means, Called, Listed, ByPath, OfFile, C!ActOf,
       C!SpaceOf, C!Canon, C!Id, C!Numerals
  <2>4. Held(r, n) => Held(r, n)'
    BY <2>1 DEF Untouched, Held, C!IdOf, C!Canon, C!Id
  <2>5. ASSUME NEW l, Sought(r.cmd, l, n) PROVE Sought(r.cmd, l, n)'
    BY <2>3, <2>5 DEF Sought, C!Range
  <2> QED BY <2>2, <2>4, <2>5 DEF Pending, C!Range
<1>2. CASE n \notin Names
  BY <1>2 DEF Pending, C!Range
<1> QED BY <1>1, <1>2

\* The plan of a record that a step leaves, from what is pending after it.
LEMMA Renewed ==
  ASSUME NEW p \in Users, NEW r, NEW w, proc'[p] = r, wanted'[p] = w, Staged(r, w),
         r.pc = "count" => UNCHANGED C!Known,
         r.pc \notin {"count", "list"} => \A n \in w : Pending(r, n)'
  PROVE  Plan(proc[p], wanted[p])'
<1>1. Staged(proc[p], wanted[p])'
  BY DEF Staged, Apps, ByPath, C!ActOf, Said, C!Range
<1>2. ASSUME NEW n \in w, r.pc \notin {"count", "list"} PROVE Pending(proc[p], n)'
  <2>1. Pending(r, n)'
    BY <1>2
  <2>2. C!Done(r.cmd, n)' => C!Done(proc[p].cmd, n)'
    BY DEF C!Done, C!ActOf
  <2>3. ASSUME NEW t, Means(r.cmd, t, n)' PROVE Means(proc[p].cmd, t, n)'
    BY <2>3 DEF Means, ByPath, OfFile, C!ActOf
  <2>4. Held(r, n)' => Held(proc[p], n)'
    BY DEF Held
  <2>5. Sought(r.cmd, r.todo, n)' => Sought(proc[p].cmd, proc[p].todo, n)'
    BY <2>3 DEF Sought, C!Range
  <2>6. Sought(r.cmd, Tail(r.todo), n)' => Sought(proc[p].cmd, Tail(proc[p].todo), n)'
    BY <2>3 DEF Sought, C!Range
  <2> QED BY <2>1, <2>2, <2>4, <2>5, <2>6 DEF Pending, C!Range
<1> QED BY <1>1, <1>2 DEF Plan

\* A step that changes no service.
LEMMA Carried ==
  ASSUME NEW p \in Users, NEW r, NEW w, proc'[p] = r, wanted'[p] = w, Plan(r, w),
         UNCHANGED C!services
  PROVE  Plan(proc[p], wanted[p])'
<1>1. UNCHANGED C!Known /\ \A n \in Names : Untouched(n)
  BY DEF C!services, C!Known, C!Registered, Untouched
<1>2. r.pc \notin {"count", "list"} => \A n \in w : Pending(r, n)'
  BY <1>1, Stays DEF Plan
<1> QED BY <1>1, <1>2, Renewed DEF Plan

\* An act changes the service that its id leads to, and fulfils what is asked of it,
\* or ends the command.
LEMMA ActPlanned ==
  ASSUME Hypotheses, NEW p \in Users, Mine(p), C!Act(p), proc'[p].pc # "idle"
  PROVE  Plan(proc[p], wanted[p])'
<1> DEFINE r == proc[p]
           c == proc[p].cmd
           a(i) == [r EXCEPT !.ids = r.ids \ {i}]
<1>0. /\ CmdTypes /\ IdsDiffer /\ World /\ r.pc = "act" /\ Staged(r, wanted[p])
      /\ wanted'[p] = wanted[p] /\ \A n \in wanted[p] : Pending(r, n)
  BY DEF C!Act, C!At, Mine, CmdInv, Plan
<1>1. ~C!Fails(p)
  BY <1>0 DEF C!Fails, C!Cmd, C!End, C!Go, CmdTypes, C!Idle, Mine
<1>2. PICK i \in r.ids :
        /\ C!Go(p, a(i))
        /\ \/ c.do = "reset" /\ UNCHANGED C!services
           \/ \E m \in C!Entry(i) : C!Whole(p, m)
  <2>1. PICK i \in r.ids :
          IF c.do = "reset"
          THEN C!Go(p, [r EXCEPT !.ids = @ \ {i}]) /\ UNCHANGED C!services
          ELSE IF C!Entry(i) = {} THEN C!Fails(p)
          ELSE \E m \in C!Entry(i) :
                 \/ C!Whole(p, m) /\ C!Go(p, [r EXCEPT !.ids = @ \ {i}])
                 \/ C!Fails(p)
    BY Zenon DEF C!Act, C!ActsOn, C!Cmd, C!services
  <2> QED BY <1>1, <2>1, Zenon
<1>3. IsCommand(r)
  BY <1>0 DEF CmdTypes
<1>4. PICK r2 : r2 = a(i)
  OBVIOUS
<1>5. proc'[p] = r2
  BY <1>0, <1>2, <1>4 DEF C!Go, CmdTypes
<1>6. /\ r2.pc = "act" /\ r2.cmd = c /\ r2.err = r.err /\ r2.new = r.new
      /\ r2.todo = r.todo /\ r2.ids = r.ids \ {i}
  BY <1>0, <1>3, <1>4 DEF IsCommand
<1> HIDE DEF a
<1>7. Staged(r2, wanted[p])
  BY <1>0, <1>6 DEF Staged
<1>8. PICK cc : cc = c
  OBVIOUS
<1>9. ASSUME NEW n \in wanted[p], C!Done(cc, n)', n \in Names PROVE Pending(r2, n)'
  BY <1>6, <1>8, <1>9 DEF Pending
<1>10. CASE c.do = "reset" /\ UNCHANGED C!services
  <2>1. ASSUME NEW n \in Names PROVE C!Done(cc, n)'
    BY <1>8, <1>10 DEF C!Done, C!ActOf
  <2>2. ASSUME NEW n \in wanted[p] PROVE Pending(r2, n)'
    BY <1>0, <1>6, <1>9, <2>1 DEF Pending, C!Range
  <2> QED BY <1>0, <1>5, <1>6, <1>7, <2>2, Renewed
<1>11. ASSUME NEW m \in C!Entry(i), C!Whole(p, m) PROVE Plan(proc[p], wanted[p])'
  <2>1. m \in Names
    BY DEF C!Entry, C!Registered
  <2>2. C!Done(cc, m)'
    BY <1>0, <1>8, <1>11, <2>1 DEF C!Whole, C!Done, C!ActOf, C!Cmd, World, CmdTypes
  <2>3. \A n \in Names \ {m} : Untouched(n)
    BY <1>0, <1>11, <2>1 DEF C!Whole, Untouched, World, CmdTypes
  <2>4. ASSUME NEW n \in wanted[p], n # m PROVE Pending(r2, n)
    <3>1. Held(r, n) /\ n \in Names => Held(r2, n)
      <4>1. ASSUME Held(r, n), n \in Names PROVE C!IdOf(n) # i
        <5>1. C!Entry(C!IdOf(n)) = {n}
          BY <1>0, <4>1, EntryOf DEF Hypotheses, Held
        <5> QED BY <2>4, <5>1
      <4> QED BY <1>6, <4>1 DEF Held
    <3> QED BY <1>0, <1>6, <3>1 DEF Pending
  <2>5. ASSUME NEW n \in wanted[p] PROVE Pending(r2, n)'
    <3>1. CASE n = m
      BY <1>9, <2>1, <2>2, <3>1
    <3>2. CASE n # m
      BY <2>3, <2>4, <3>2, Stays
    <3> QED BY <3>1, <3>2
  <2> QED BY <1>0, <1>5, <1>6, <1>7, <2>5, Renewed
<1> QED BY <1>2, <1>10, <1>11

\* A new app runs when it is started, or what went wrong is noted down.
LEMMA NewPlanned ==
  ASSUME Hypotheses, NEW p \in Users, Mine(p), C!StartNew(p), proc'[p].pc # "idle"
  PROVE  Plan(proc[p], wanted[p])'
<1> DEFINE r == proc[p]
           c == proc[p].cmd
           m == Head(r.new)
           l == IF Len(r.new) = 1 THEN "target" ELSE "new"
           w == C!With(p, l)
           rest == [w EXCEPT !.new = Tail(w.new)]
           bad == [rest EXCEPT !.err = TRUE]
<1>0. /\ CmdTypes /\ World /\ r.pc = "new" /\ Staged(r, wanted[p])
      /\ wanted'[p] = wanted[p] /\ \A n \in wanted[p] : Pending(r, n)
  BY DEF C!StartNew, C!At, Mine, CmdInv, Plan
<1>1. ~C!Fails(p)
  BY <1>0 DEF C!Fails, C!Cmd, C!End, C!Go, CmdTypes, C!Idle, Mine
<1>2. \/ C!Go(p, bad)
      \/ /\ ~(m \in BadApps /\ c.file # <<>>)
         /\ reg' = [reg EXCEPT ![m] = IF reg[m] = 0 THEN next ELSE reg[m]]
         /\ unit' = [unit EXCEPT ![m] = TRUE] /\ up' = [up EXCEPT ![m] = TRUE]
         /\ C!Go(p, rest)
  BY <1>1, Zenon DEF C!StartNew, C!Cmd, C!FreshId
<1>3. /\ r.new \in Seq(Apps(c)) /\ r.new # <<>> /\ (c.file = <<>> => Tail(r.new) = <<>>)
      /\ C!ActOf(c) \notin {"stop", "delete"} /\ c \in Commands /\ r.todo \in Seq(Said)
  BY <1>0 DEF Staged
<1>4. /\ m \in Apps(c) /\ Tail(r.new) \in Seq(Apps(c))
      /\ C!Range(r.new) = {m} \cup C!Range(Tail(r.new))
  BY <1>3, RestOf
<1>5. l \in {"target", "new"} /\ (l = "target" <=> Tail(r.new) = <<>>)
  <2> DEFINE k == r.new
             E == Apps(c)
  <2>1. k \in Seq(E) /\ k # <<>>
    BY <1>3
  <2> HIDE DEF k, E
  <2>2. Len(k) \in Nat \ {0} /\ Len(Tail(k)) = Len(k) - 1 /\ Tail(k) \in Seq(E)
    BY <2>1
  <2>3. Tail(k) = <<>> <=> Len(Tail(k)) = 0
    <3>1. ASSUME NEW s \in Seq(E) PROVE s = <<>> <=> Len(s) = 0
      OBVIOUS
    <3> QED BY <2>2, <3>1
  <2>4. Len(k) = 1 <=> Tail(k) = <<>>
    BY <2>2, <2>3
  <2> QED BY <2>4 DEF k
<1> HIDE DEF l
<1>6. /\ IsCommand(w) /\ w.pc = l /\ w.cmd = c /\ w.err = r.err /\ w.new = r.new
      /\ w.todo = r.todo
  BY <1>0, WithFields
<1> HIDE DEF w
<1>7. /\ IsCommand(rest) /\ rest.pc = l /\ rest.cmd = c /\ rest.err = r.err
      /\ rest.new = Tail(r.new) /\ rest.todo = r.todo
  BY <1>6 DEF IsCommand
<1> HIDE DEF rest
<1>8. /\ bad.pc = l /\ bad.cmd = c /\ bad.err /\ bad.new = Tail(r.new)
      /\ bad.todo = r.todo
  BY <1>7 DEF IsCommand
<1> HIDE DEF bad
<1>9. ASSUME NEW r2, r2.pc = l, r2.cmd = c, r2.new = Tail(r.new), r2.todo = r.todo
      PROVE  Staged(r2, wanted[p])
  BY <1>3, <1>4, <1>5, <1>9 DEF Staged
<1>10. CASE C!Go(p, bad)
  <2>1. PICK r2 : r2 = bad
    OBVIOUS
  <2>2. proc'[p] = r2
    BY <1>0, <1>10, <2>1 DEF C!Go, CmdTypes
  <2>3. Staged(r2, wanted[p]) /\ r2.err /\ r2.pc = l
    BY <1>8, <1>9, <2>1
  <2>4. ASSUME NEW n \in wanted[p] PROVE Pending(r2, n)'
    BY <2>3 DEF Pending
  <2> QED BY <1>0, <1>5, <2>2, <2>3, <2>4, Renewed
<1>11. CASE /\ ~(m \in BadApps /\ c.file # <<>>)
            /\ reg' = [reg EXCEPT ![m] = IF reg[m] = 0 THEN next ELSE reg[m]]
            /\ unit' = [unit EXCEPT ![m] = TRUE] /\ up' = [up EXCEPT ![m] = TRUE]
            /\ C!Go(p, rest)
  <2>1. PICK r2, cc : r2 = rest /\ cc = c
    OBVIOUS
  <2>2. proc'[p] = r2
    BY <1>0, <1>11, <2>1 DEF C!Go, CmdTypes
  <2>3. /\ Staged(r2, wanted[p]) /\ r2.pc = l /\ r2.err = r.err /\ r2.new = Tail(r.new)
        /\ r2.todo = r.todo /\ r2.cmd = c
    BY <1>7, <1>9, <2>1
  <2>4. PICK x : x = m
    OBVIOUS
  <2>5. x \in Names
    BY <1>4, <1>11, <2>4 DEF Apps
  <2>6. C!Done(cc, x)'
    BY <1>0, <1>3, <1>11, <2>1, <2>4, <2>5 DEF C!Done, C!ActOf, World
  <2>7. \A n \in Names \ {x} : Untouched(n)
    BY <1>0, <1>11, <2>4, <2>5 DEF Untouched, World, CmdTypes
  <2>8. ASSUME NEW n \in wanted[p] PROVE Pending(r2, n)'
    <3>1. CASE n = x
      BY <2>1, <2>3, <2>5, <2>6, <3>1 DEF Pending
    <3>2. CASE n # x
      <4>1. Pending(r2, n)
        BY <1>0, <1>4, <1>5, <2>3, <2>4, <3>2 DEF Pending
      <4> QED BY <2>7, <3>2, <4>1, Stays
    <3> QED BY <3>1, <3>2
  <2> QED BY <1>0, <1>5, <2>2, <2>3, <2>8, Renewed
<1> QED BY <1>2, <1>10, <1>11

\* Every step of a command that works alone.
LEMMA MovePlanned ==
  ASSUME Hypotheses, NEW p \in Users, Mine(p), C!Move(p), proc'[p].pc # "idle"
  PROVE  Plan(proc[p], wanted[p])'
<1> DEFINE Quiet == \/ C!NextTarget(p) \/ C!NoTarget(p) \/ C!StartName(p) \/ C!StartSpace(p)
                    \/ C!StartPath(p) \/ C!Lookup(p) \/ C!LookupSpace(p) \/ C!Acted(p)
                    \/ C!ListApps(p) \/ C!Count(p)
<1>1. CmdTypes /\ Noted(p) /\ proc[p].cmd.do # "scale"
  BY DEF Mine, CmdInv, AllNoted
<1>2. CASE Quiet
  <2>1. Plan(proc'[p], wanted[p])
    BY <1>2, NextPlanned, NoTargetPlanned, StartPlanned, PathPlanned, LookupPlanned,
       LookupSpacePlanned, ActedPlanned, ListPlanned, CountPlanned
  <2>2. wanted'[p] = wanted[p] /\ UNCHANGED C!services
    BY <1>2, Zenon DEF C!NextTarget, C!NoTarget, C!StartName, C!StartSpace, C!StartPath,
       C!Lookup, C!LookupSpace, C!Acted, C!ListApps, C!Count, C!Still, C!ghosts
  <2>3. PICK r, w : r = proc'[p] /\ w = wanted[p]
    OBVIOUS
  <2> QED BY <2>1, <2>2, <2>3, Carried
<1>3. CASE C!Act(p)
  BY <1>3, ActPlanned
<1>4. CASE C!StartNew(p)
  BY <1>4, NewPlanned
<1>5. CASE C!Size(p)
  BY <1>1, <1>5 DEF C!Size, C!At, Noted
<1>6. CASE C!Crash(p)
  BY <1>1, <1>6 DEF C!Crash, C!End, C!Go, C!Idle, CmdTypes
<1> QED BY <1>2, <1>3, <1>4, <1>5, <1>6 DEF C!Move

\* What a step of a command does to the services, and to those who work alone.
LEMMA MoveKeepsWorld ==
  ASSUME CmdTypes, World, Alone, NEW p \in Users, C!Move(p)
  PROVE  /\ World' /\ wanted' = wanted /\ alone' \in [Users -> BOOLEAN] /\ Busy(p)
         /\ \A q \in Users : alone'[q] => alone[q]
<1>1. CASE C!Act(p)
  <2>1. World'
    BY <1>1, Zenon DEF C!Act, C!ActsOn, C!Whole, C!Half, C!Undone, C!services, World
  <2> QED BY <1>1, <2>1 DEF C!Act, C!At, Alone, Busy
<1>2. CASE C!StartNew(p)
  <2>1. World'
    BY <1>2 DEF C!StartNew, C!services, World
  <2> QED BY <1>2, <2>1 DEF C!StartNew, C!At, Alone, Busy
<1>3. CASE ~C!Act(p) /\ ~C!StartNew(p)
  <2>1. UNCHANGED C!services /\ wanted' = wanted /\ Busy(p)
    BY <1>3, Zenon DEF C!Move, C!NextTarget, C!NoTarget, C!StartName, C!StartSpace,
       C!StartPath, C!Lookup, C!LookupSpace, C!Acted, C!ListApps, C!Count, C!Size,
       C!Crash, C!Still, C!ghosts, C!At, Busy
  <2>2. alone' = alone \/ alone' = [alone EXCEPT ![p] = FALSE]
    BY <1>3, Zenon DEF C!Move, C!NextTarget, C!NoTarget, C!StartName, C!StartSpace,
       C!StartPath, C!Lookup, C!LookupSpace, C!Acted, C!ListApps, C!Count, C!Size,
       C!Crash, C!Still, C!ghosts, C!Reads
  <2>3. World'
    BY <2>1 DEF World, C!services
  <2> QED BY <2>1, <2>2, <2>3 DEF Alone
<1> QED BY <1>1, <1>2, <1>3

LEMMA MoveKeepsDone ==
  ASSUME Hypotheses, DoneInv, NEW p \in Users, C!Move(p)
  PROVE  DoneInv'
<1>1. /\ CmdInv /\ CmdTypes /\ World /\ Alone /\ AllPlanned
  BY DEF DoneInv, CmdInv
<1>2. /\ World' /\ wanted' = wanted /\ alone' \in [Users -> BOOLEAN] /\ Busy(p)
      /\ \A q \in Users : alone'[q] => alone[q]
  BY <1>1, MoveKeepsWorld
<1>3. CmdMove(p)
  BY <1>1, CmdMoves DEF Quietly
<1>4. \A q \in Users : Busy(q)' => Busy(q)
  BY <1>2, <1>3 DEF CmdMove, Busy
<1>5. Alone'
  BY <1>1, <1>2, <1>4 DEF Alone
<1>6. ASSUME NEW q \in Users, alone'[q], Busy(q)', proc'[q].cmd.do # "scale"
      PROVE  Plan(proc[q], wanted[q])'
  <2>1. q = p
    BY <1>1, <1>2, <1>4, <1>6 DEF Alone
  <2>2. proc'[p] # C!Idle
    BY <1>6, <2>1 DEF Busy, C!Idle
  <2>3. proc'[p].cmd = proc[p].cmd
    BY <1>3, <2>2 DEF CmdMove, Onward
  <2>4. Plan(proc[p], wanted[p])
    BY <1>1, <1>2, <1>6, <2>1, <2>3 DEF AllPlanned
  <2>5. Mine(p) /\ proc'[p].pc # "idle"
    BY <1>1, <1>2, <1>6, <2>1, <2>3, <2>4 DEF Mine, Busy, Alone
  <2>6. Plan(proc[p], wanted[p])'
    BY <2>5, MovePlanned
  <2> QED BY <2>1, <2>6
<1>7. AllPlanned'
  BY <1>6 DEF AllPlanned
<1>8. CmdInv'
  BY <1>1, MoveKeepsInv
<1> QED BY <1>2, <1>5, <1>7, <1>8 DEF DoneInv

\* A command begins with all that its words mean ahead of it.
LEMMA BeginPlanned ==
  ASSUME Hypotheses, CmdTypes, World, NEW p \in Users, NEW c \in Commands, C!Begin(p, c),
         c.do # "scale"
  PROVE  Plan(proc'[p], C!Meant(c))
<1> DEFINE l == IF c.do \in {"stop", "delete"} THEN c.on \o c.file ELSE c.on
           w == C!Meant(c)
           r == [C!Idle EXCEPT !.cmd = c, !.todo = l, !.pc = C!FirstStep(c)]
<1>1. proc'[p] = r
  BY DEF C!Begin, C!Go, CmdTypes
<1>2. /\ c.on \in Seq(Said) /\ c.file \in Seq(Names \cup BadApps)
      /\ c.file \in Seq(Said)
  BY DEF Hypotheses, SoundCommands, Said
<1>3. c.on \o c.file \in Seq(Said)
      /\ C!Range(c.on \o c.file) = C!Range(c.on) \cup C!Range(c.file)
  <2> DEFINE k == c.on
             m == c.file
  <2>1. k \in Seq(Said) /\ m \in Seq(Said)
    BY <1>2
  <2> HIDE DEF k, m
  <2>2. k \o m \in Seq(Said) /\ C!Range(k \o m) = C!Range(k) \cup C!Range(m)
    BY <2>1, Both
  <2> QED BY <2>2 DEF k, m
<1>4. /\ l \in Seq(Said) /\ C!Range(c.on) \subseteq C!Range(l)
      /\ c.do \in {"stop", "delete"} => C!Range(c.file) \subseteq C!Range(l)
  BY <1>2, <1>3
<1> HIDE DEF l
<1>5. /\ r.cmd = c /\ r.todo = l /\ r.pc = C!FirstStep(c) /\ r.new = <<>> /\ ~r.err
  BY DEF C!Idle
<1> HIDE DEF r, w
<1>6. /\ C!FirstStep(c) \in {"count", "list", "target"}
      /\ C!FirstStep(c) = "count" <=> c.do = "kill"
      /\ C!FirstStep(c) = "list" <=> c.file # <<>> /\ c.do \notin {"kill", "stop", "delete"}
  <2>1. CASE c.do = "kill"
    BY <2>1 DEF C!FirstStep, Hypotheses, SoundCommands
  <2>2. CASE c.do # "kill" /\ c.file # <<>> /\ c.do \notin {"stop", "delete"}
    BY <2>2 DEF C!FirstStep
  <2>3. CASE c.do # "kill" /\ ~(c.file # <<>> /\ c.do \notin {"stop", "delete"})
    BY <2>3 DEF C!FirstStep
  <2> QED BY <2>1, <2>2, <2>3
<1>7. Staged(r, w)
  <2>1. r.new \in Seq(Apps(c))
    BY <1>5
  <2>2. c.do = "kill" => w = C!Known
    BY DEF C!Meant, w
  <2>3. c.do \notin {"kill", "stop", "delete"} /\ c.file # <<>> => w = C!Range(c.file)
    BY DEF C!Meant, w
  <2>4. c.do \notin {"kill", "stop", "delete"} => C!ActOf(c) \notin {"stop", "delete"}
    BY DEF C!ActOf
  <2> QED BY <1>4, <1>5, <1>6, <2>1, <2>2, <2>3, <2>4 DEF Staged
<1>8. ASSUME NEW n \in w, r.pc \notin {"count", "list"} PROVE Pending(r, n)
  <2>1. CASE c.file # <<>>
    <3>1. c.do \in {"stop", "delete"} /\ n \in C!Range(c.file) /\ n \in C!Known
      BY <1>5, <1>6, <1>8, <2>1 DEF C!Meant, w
    <3>2. n \in Names /\ Listed(n)
      BY <3>1 DEF C!Known, C!Registered, Listed
    <3>3. Means(c, n, n)
      BY <2>1, <3>1, <3>2 DEF Means, ByPath, OfFile
    <3> QED BY <1>4, <1>5, <1>6, <1>8, <3>1, <3>2, <3>3 DEF Pending, Sought
  <2>2. CASE c.file = <<>>
    <3>1. n \in UNION {C!Meaning(c, c.on[i]) : i \in 1 .. Len(c.on)}
      BY <1>5, <1>6, <1>8, <2>2 DEF C!Meant, w
    <3>2. PICK i \in 1 .. Len(c.on) : n \in C!Meaning(c, c.on[i])
      BY <3>1
    <3>3. n \in Names /\ Means(c, c.on[i], n)
      BY <2>2, <3>2, MeaningMeans DEF Hypotheses
    <3>4. c.on[i] \in C!Range(l)
      <4>1. DOMAIN c.on = 1 .. Len(c.on)
        BY <1>2
      <4>2. c.on[i] \in C!Range(c.on)
        BY <4>1 DEF C!Range
      <4> QED BY <1>4, <4>2
    <3> QED BY <1>5, <1>6, <1>8, <3>3, <3>4 DEF Pending, Sought
  <2> QED BY <2>1, <2>2
<1>9. Plan(r, w)
  BY <1>7, <1>8 DEF Plan
<1> QED BY <1>1, <1>9 DEF w

LEMMA BeginKeepsDone ==
  ASSUME Hypotheses, DoneInv, NEW p \in Users, NEW c \in Commands, C!Begin(p, c)
  PROVE  DoneInv'
<1>1. /\ CmdInv /\ CmdTypes /\ World /\ Alone /\ AllPlanned
  BY DEF DoneInv, CmdInv
<1>2. /\ \A q \in Users \ {p} : proc'[q] = proc[q] /\ wanted'[q] = wanted[q]
      /\ proc'[p].cmd = c /\ wanted'[p] = C!Meant(c)
      /\ wanted' = [q \in Users |-> wanted'[q]] /\ UNCHANGED C!services
  BY <1>1 DEF C!Begin, C!Go, CmdTypes, Alone, C!Idle
<1>3. /\ alone' \in [Users -> BOOLEAN]
      /\ alone'[p] => \A q \in Users \ {p} : ~Busy(q)
      /\ \A q \in Users \ {p} : alone'[q] => ~Busy(q)
  BY <1>1 DEF C!Begin, C!At, Busy, Alone
<1>4. Alone' /\ World'
  BY <1>1, <1>2, <1>3 DEF Alone, World, Busy, C!services
<1>5. ASSUME NEW q \in Users, alone'[q], Busy(q)', proc'[q].cmd.do # "scale"
      PROVE  Plan(proc[q], wanted[q])'
  <2>1. q = p
    BY <1>2, <1>3, <1>5 DEF Busy
  <2>2. Plan(proc'[p], C!Meant(c))
    BY <1>1, <1>2, <1>5, <2>1, BeginPlanned
  <2>3. PICK r, w : r = proc'[p] /\ w = C!Meant(c)
    OBVIOUS
  <2>4. Plan(proc[p], wanted[p])'
    BY <1>2, <2>2, <2>3, Carried
  <2> QED BY <2>1, <2>4
<1>6. AllPlanned'
  BY <1>5 DEF AllPlanned
<1>7. CmdInv'
  BY <1>1, BeginKeepsInv
<1> QED BY <1>4, <1>6, <1>7 DEF DoneInv

\* Outside zm2 a service exits, and then nobody works alone.
LEMMA ExitsKeepsDone ==
  ASSUME DoneInv, NEW n \in Names, C!Exits(n)
  PROVE  DoneInv'
<1>1. CmdInv'
  BY CmdStutter DEF DoneInv, C!Exits
<1>2. World' /\ Alone' /\ AllPlanned'
  BY DEF DoneInv, C!Exits, World, Alone, AllPlanned, Busy
<1> QED BY <1>1, <1>2 DEF DoneInv

LEMMA DoneStutter ==
  ASSUME DoneInv, UNCHANGED C!vars
  PROVE  DoneInv'
<1>1. CmdInv' /\ World' /\ Alone'
  BY CmdStutter DEF DoneInv, C!vars, World, Alone, Busy
<1>2. ASSUME NEW q \in Users, alone'[q], Busy(q)', proc'[q].cmd.do # "scale"
      PROVE  Plan(proc[q], wanted[q])'
  <2>1. PICK r, w : r = proc'[q] /\ w = wanted[q]
    OBVIOUS
  <2>2. Plan(r, w) /\ wanted'[q] = w /\ UNCHANGED C!services
    BY <1>2, <2>1 DEF DoneInv, AllPlanned, C!vars, C!services, Busy
  <2> QED BY <2>1, <2>2, Carried
<1> QED BY <1>1, <1>2 DEF DoneInv, AllPlanned

LEMMA DoneAtFirst ==
  ASSUME Hypotheses, C!Init
  PROVE  DoneInv
<1>1. CmdInv
  BY CmdInit DEF Hypotheses
<1>2. World
  BY DEF C!Init, World
<1>3. Alone /\ AllPlanned
  BY DEF C!Init, C!Idle, Alone, AllPlanned, Busy
<1> QED BY <1>1, <1>2, <1>3 DEF DoneInv

-----------------------------------------------------------------------------
\* The inductive invariant: a command that nobody works beside, and whose lists were
\* whole, keeps for each service that its words meant what will lead it there.
THEOREM CommandsPlan ==
  ASSUME Hypotheses
  PROVE  C!Spec => []DoneInv
<1>1. C!Init => DoneInv
  BY DoneAtFirst
<1>2. DoneInv /\ [C!Next]_C!vars => DoneInv'
  BY MoveKeepsDone, BeginKeepsDone, ExitsKeepsDone, DoneStutter DEF C!Next
<1> QED BY <1>1, <1>2, PTL DEF C!Spec

\* A command that no other ran beside and whose lists were whole ends with success
\* only when each service its words meant is in the state it asks for (_operate,
\* _startJson, the exit codes of CLI.js), where a word means one thing.
THEOREM DoneAtEnd ==
  ASSUME Hypotheses
  PROVE  C!Spec => [][C!EndsDone]_C!vars
<1>1. ASSUME DoneInv, C!Next PROVE C!EndsDone
  <2> SUFFICES ASSUME NEW p \in Users, Busy(p), proc'[p].pc = "idle", answer'[p] = "ok",
                      alone'[p], proc[p].cmd.do # "scale", NEW n \in wanted[p]
               PROVE  C!Done(proc[p].cmd, n)
    BY DEF C!EndsDone, C!Ends, C!At, C!Cmd, Busy
  <2>1. CmdInv /\ CmdTypes /\ World /\ Alone /\ AllPlanned /\ Noted(p)
    BY <1>1 DEF DoneInv, CmdInv, AllNoted
  <2>2. C!Move(p)
    <3>1. ASSUME NEW q \in Users, C!Move(q) PROVE q = p
      BY <2>1, <3>1, CmdMoves DEF Quietly, CmdMove, Busy
    <3>2. ASSUME NEW q \in Users, NEW c, C!Begin(q, c) PROVE FALSE
      <4>1. (q # p /\ proc'[p] = proc[p]) \/ proc'[p].pc = C!FirstStep(c)
        BY <2>1, <3>2 DEF C!Begin, C!Go, C!Idle, CmdTypes
      <4> QED BY <4>1 DEF Busy, C!FirstStep
    <3>3. ASSUME NEW m \in Names, C!Exits(m) PROVE FALSE
      BY <3>3 DEF C!Exits, Busy
    <3> QED BY <1>1, <3>1, <3>2, <3>3 DEF C!Next
  <2>3. alone[p] /\ alone \in [Users -> BOOLEAN]
    BY <2>1, <2>2, MoveKeepsWorld DEF Alone
  <2>4. Plan(proc[p], wanted[p]) /\ Mine(p)
    BY <2>1, <2>3 DEF AllPlanned, Mine, Busy
  <2>5. C!NoTarget(p) \/ C!Count(p) \/ C!Size(p)
    BY <2>1, <2>2, CmdMoves DEF Quietly, CmdMove, Onward
  <2>6. CASE C!NoTarget(p)
    <3>1. proc[p].pc = "target" /\ proc[p].todo = <<>>
      BY <2>6 DEF C!NoTarget, C!At
    <3>2. ~C!Go(p, C!With(p, "new"))
      BY <2>1, WithFields DEF CmdTypes, C!Go
    <3>3. proc[p].new = <<>> /\ C!End(p, IF proc[p].err THEN "error" ELSE "ok")
      BY <2>6, <3>2 DEF C!NoTarget
    <3>4. ~proc[p].err
      BY <2>1, <3>3 DEF CmdTypes, C!End
    <3>5. Pending(proc[p], n)
      BY <2>4, <3>1 DEF Plan
    <3>6. C!Range(proc[p].new) = {} /\ C!Range(proc[p].todo) = {}
      BY <3>1, <3>3, Singles
    <3> QED BY <3>1, <3>4, <3>5, <3>6 DEF Pending, Sought
  <2>7. CASE C!Count(p)
    <3>1. proc[p].pc = "count" /\ n \in C!Known
      BY <2>4, <2>7 DEF C!Count, C!At, Plan, Staged
    <3>2. PICK seen \in C!Lists :
            /\ C!Reads(p, seen)
            /\ IF seen = {} THEN C!End(p, "ok")
               ELSE C!Go(p, [C!With(p, "lookup") EXCEPT !.todo = <<"all">>])
      BY <2>7, Zenon DEF C!Count
    <3>3. n \in seen
      <4>1. Whole(seen)
        BY <2>4, <3>2, ReadsWhole
      <4>2. n \in Names /\ Listed(n)
        BY <3>1 DEF C!Known, C!Registered, Listed
      <4> QED BY <2>1, <4>1, <4>2, WholeLists
    <3> DEFINE w == C!With(p, "lookup")
    <3>4. proc'[p] = [w EXCEPT !.todo = <<"all">>]
      BY <2>1, <3>2, <3>3 DEF C!Go, CmdTypes
    <3>5. IsCommand(w) /\ w.pc = "lookup"
      BY <2>1, WithFields
    <3> HIDE DEF w
    <3>6. proc'[p].pc = "lookup"
      BY <3>4, <3>5 DEF IsCommand
    <3> QED BY <3>6
  <2>8. CASE C!Size(p)
    BY <2>1, <2>8 DEF C!Size, C!At, Noted
  <2> QED BY <2>5, <2>6, <2>7, <2>8
<1>2. DoneInv /\ [C!Next]_C!vars => [C!EndsDone]_C!vars
  BY <1>1
<1> QED BY <1>2, CommandsPlan, PTL DEF C!Spec

\* Beside the reloads: each step of the host is a step of the commands, or changes
\* nothing of theirs.
THEOREM ActAsAsked ==
  ASSUME Hypotheses
  PROVE  HostSpec => ActsAsAsked
<1>1. C!vars = cmdVars
  BY DEF C!vars, cmdVars
<1>2. HostSpec => C!Spec
  <2>1. [LockSteps \/ CommandSteps]_<<vars, cmdVars>> => [C!Next]_C!vars
    BY DEF LockSteps, CommandSteps, C!vars, cmdVars
  <2> QED BY <2>1, PTL DEF HostSpec, C!Spec
<1>3. C!Spec => [][C!EndsDone]_C!vars
  BY DoneAtEnd
<1>4. C!Spec => [][C!EndsTruly]_C!vars
  BY TruthAtEnd DEF Hypotheses
<1>5. C!Spec => [][C!ActsOnMatches]_C!vars
  BY TouchesMatches DEF Hypotheses
<1>6. /\ [C!EndsDone]_C!vars /\ [C!EndsTruly]_C!vars /\ [C!ActsOnMatches]_C!vars
      => [C!EndsDone /\ C!EndsTruly /\ C!ActsOnMatches]_cmdVars
  BY DEF C!vars, cmdVars
<1> QED BY <1>2, <1>3, <1>4, <1>5, <1>6, PTL DEF ActsAsAsked

=============================================================================
