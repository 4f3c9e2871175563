---------------------------- MODULE CommandLayer ----------------------------
(***************************************************************************)
(* From the words of a command line to the services it acts on (API.js,    *)
(* the queries of SystemdClient.js, the commands of CLI.js).  A command    *)
(* never holds what it reads: it looks the services up, keeps their ids    *)
(* and resolves each id again when it acts on it, while other zm2          *)
(* processes do the same.                                                  *)
(*                                                                         *)
(* A service is known by the name n of its app: its unit is zm2-n.  What   *)
(* an act does inside (files, timers, the steps of a removal) is the       *)
(* subject of Lifecycle; here an act succeeds, fails before it did         *)
(* anything, or fails half way.                                            *)
(***************************************************************************)
EXTENDS Naturals, Sequences, FiniteSets, SequencesExt

CONSTANTS
    Names,       \* names of apps
    Modules,     \* the apps that are modules
    Space,       \* name -> namespace of the app
    Path,        \* name -> script of the app
    AppOf,       \* path -> name an app started from it gets, or None: no script
    Regex,       \* "/.../" -> the names it matches
    BadApps,     \* apps of a file whose script does not exist
    Commands,    \* what users type: [do, on, file, force, to]
    Procs,       \* zm2 processes
    Starts,      \* at first: [apps registered and running, units no entry describes]
    MaxOps, MaxFaults,
    None

\* Ids are what the code passes around: a numeral for a registered service,
\* "zm2-n.service" for a unit without an entry.
Id(k) == ToString(k)
Canon(n) == "zm2-" \o n \o ".service"
Numerals == {Id(k) : k \in 0..9}

VARIABLES
    reg,      \* name -> pm_id of its entry, 0 when there is none
    unit,     \* name -> is its unit installed
    up,       \* name -> is it running
    next,     \* the id the store gives next
    proc,     \* process -> its command under way
    answer,   \* process -> how its last command ended
    hit,      \* the service the last act touched, None if none
    ops, faults,
    wanted,   \* ghost: the services the command means, as it began
    failed,   \* ghost: something the command did has failed
    alone     \* ghost: no other command ran meanwhile, no list was blind

vars == <<reg, unit, up, next, proc, answer, hit, ops, faults,
          wanted, failed, alone>>
services == <<reg, unit, up, next>>
ghosts == <<wanted, failed, alone>>

Idle == [pc |-> "idle", cmd |-> None, todo |-> <<>>, new |-> <<>>,
         ids |-> {}, saw |-> {}, err |-> FALSE]

Init ==
    /\ \E s \in Starts :
         /\ reg = [n \in Names |->
                     IF n \in Range(s.apps)
                     THEN CHOOSE i \in 1..Len(s.apps) : s.apps[i] = n ELSE 0]
         /\ unit = [n \in Names |-> n \in Range(s.apps) \cup s.found]
         /\ next = 1 + Len(s.apps)
    /\ up = unit
    /\ proc = [p \in Procs |-> Idle]
    /\ answer = [p \in Procs |-> "none"]
    /\ hit = None /\ ops = 0 /\ faults = 0
    /\ wanted = [p \in Procs |-> {}]
    /\ failed = [p \in Procs |-> FALSE]
    /\ alone = [p \in Procs |-> TRUE]

-----------------------------------------------------------------------------
(* The list of services: every entry, and the units systemd has loaded.    *)
(* A loaded unit that does not run may have been unloaded.                 *)

Registered == {n \in Names : reg[n] # 0}
Lists == {Registered \cup F : F \in SUBSET {n \in Names : unit[n]}}
Sighted(seen) == {n \in Names : up[n] /\ unit[n]} \subseteq seen

IdOf(n) == IF reg[n] # 0 THEN Id(reg[n]) ELSE Canon(n)
IdsOf(S) == {IdOf(n) : n \in S}

\* Id of a service, its name or the path of its script.
ByName(t, seen) ==
    {n \in seen : \/ n = t
                  \/ reg[n] = 0 /\ Canon(n) = t
                  \/ reg[n] # 0 /\ Path[n] = t}
SpaceOf(n) == IF reg[n] # 0 THEN Space[n] ELSE "default"
BySpace(t, seen) == {n \in seen : SpaceOf(n) = t}
Matching(t, seen) ==
    IF t = "all" THEN seen
    ELSE IF t \in DOMAIN Regex THEN Regex[t] \cap seen
    ELSE ByName(t, seen)

\* The service an id stands for when an act resolves it: the unit of that
\* name, then the entry of that number, of that name, then a bare unit.
Entry(i) ==
    LET canon  == {n \in Names : Canon(n) = i /\ (reg[n] # 0 \/ unit[n])}
        byId   == {n \in Registered : Id(reg[n]) = i}
        byName == {n \in Registered : n = i}
        bare   == {n \in Names : unit[n] /\ n = i}
    IN  IF canon # {} THEN canon
        ELSE IF byId # {} THEN byId
        ELSE IF byName # {} THEN byName ELSE bare

-----------------------------------------------------------------------------
(* What a command means, read off its words and the services as it begins. *)

Word(t) == t \notin Numerals /\ t # "all" /\ t \notin DOMAIN Regex
HasExt(t) == t \in DOMAIN AppOf

Known == Registered \cup {n \in Names : up[n]}
Meaning(c, t) ==
    IF c.do = "start" /\ HasExt(t) /\ c.file = <<>>
    THEN IF AppOf[t] = None THEN {} ELSE {AppOf[t]}
    ELSE IF Matching(t, Known) # {} \/ ~(Word(t) \/ t \in Numerals)
    THEN Matching(t, Known)
    ELSE IF BySpace(t, Known) # {} THEN BySpace(t, Known)
    ELSE IF t \in Numerals THEN Entry(t) ELSE {}
Meant(c) ==
    IF c.do = "kill" THEN Known
    ELSE IF c.file # <<>>
    THEN IF c.do \in {"stop", "delete"} THEN Range(c.file) \cap Known
         ELSE Range(c.file)
    ELSE UNION {Meaning(c, c.on[i]) : i \in 1..Len(c.on)}

\* The act a command performs on each service.
ActOf(c) == IF c.do \in {"kill", "scale"} THEN "delete" ELSE c.do
Done(c, n) ==
    CASE ActOf(c) = "stop"   -> ~up[n]
      [] ActOf(c) = "delete" -> reg[n] = 0 /\ ~unit[n]
      [] ActOf(c) = "reset"  -> TRUE
      [] OTHER               -> up[n]

-----------------------------------------------------------------------------
(* Moves of a process.                                                     *)

At(p, pc) == proc[p].pc = pc
Go(p, r) == proc' = [proc EXCEPT ![p] = r]
With(p, pc) == [proc[p] EXCEPT !.pc = pc]
Target(p) == Head(proc[p].todo)
Cmd(p) == proc[p].cmd
FileAct(p) == Cmd(p).file # <<>> /\ ActOf(Cmd(p)) \in {"stop", "delete"}

End(p, how) == Go(p, Idle) /\ answer' = [answer EXCEPT ![p] = how]

\* An error ends the command; scale alone goes on to its next removal.
Fails(p) ==
    /\ failed' = [failed EXCEPT ![p] = TRUE]
    /\ IF Cmd(p).do = "scale"
       THEN /\ Go(p, [With(p, "target") EXCEPT !.todo = Tail(@), !.ids = {}])
            /\ UNCHANGED answer
       ELSE End(p, "error")
Still == UNCHANGED <<services, hit, ops>>

\* A read of the list: whole, or blind because systemctl failed, which is
\* not an error: the units or the states of the services are missing.
Reads(p, seen) ==
    \/ /\ Sighted(seen)
       /\ UNCHANGED <<faults, alone>>
    \/ /\ faults < MaxFaults /\ faults' = faults + 1
       /\ seen = Registered \/ Sighted(seen)
       /\ alone' = [alone EXCEPT ![p] = FALSE]

\* The metadata cannot be read: an exception ends the process.
Crash(p) ==
    /\ proc[p].pc \in {"name", "space", "lookup", "lookspace", "path", "list",
                       "count", "size"}
    /\ faults < MaxFaults /\ faults' = faults + 1
    /\ failed' = [failed EXCEPT ![p] = TRUE]
    /\ End(p, "crash") /\ Still /\ UNCHANGED <<wanted, alone>>

\* Where a command begins: files that start apps read the list first.
FirstStep(c) ==
    CASE c.do = "kill"  -> "count"
      [] c.do = "scale" -> "size"
      [] c.file # <<>> /\ c.do \notin {"stop", "delete"} -> "list"
      [] OTHER -> "target"
Begin(p, c) ==
    /\ At(p, "idle") /\ ops < MaxOps /\ ops' = ops + 1
    /\ Go(p, [Idle EXCEPT
               !.cmd = c,
               !.todo = IF c.do \in {"stop", "delete"} THEN c.on \o c.file ELSE c.on,
               !.pc = FirstStep(c)])
    /\ answer' = [answer EXCEPT ![p] = "none"]
    /\ wanted' = [wanted EXCEPT ![p] = Meant(c)]
    /\ failed' = [failed EXCEPT ![p] = FALSE]
    /\ LET busy == {q \in Procs \ {p} : ~At(q, "idle")} IN
         alone' = [q \in Procs |-> IF q = p THEN busy = {}
                                   ELSE alone[q] /\ q \notin busy]
    /\ UNCHANGED <<services, hit, faults>>

\* The next word of the line.  A start first tries the words as a name, then
\* as a namespace, then as a path; the others go to _operate.
NextTarget(p) ==
    /\ At(p, "target") /\ proc[p].todo # <<>>
    /\ LET t == Target(p)
           start == Cmd(p).do = "start" /\ Cmd(p).file = <<>>
       IN Go(p, With(p, IF ~start \/ t \in Numerals THEN "lookup"
                        ELSE IF HasExt(t) \/ t \in DOMAIN Regex THEN "path"
                        ELSE "name"))
    /\ Still /\ UNCHANGED <<answer, faults, ghosts>>

\* No words are left: the apps of the file that were not registered follow.
NoTarget(p) ==
    /\ At(p, "target") /\ proc[p].todo = <<>>
    /\ IF proc[p].new # <<>>
       THEN Go(p, With(p, "new")) /\ UNCHANGED answer
       ELSE End(p, IF proc[p].err THEN "error" ELSE "ok")
    /\ Still /\ UNCHANGED <<faults, ghosts>>

StartName(p) ==
    /\ At(p, "name")
    /\ \E seen \in Lists :
         /\ Reads(p, seen)
         /\ Go(p, With(p, IF ByName(Target(p), seen) # {} THEN "lookup"
                          ELSE "space"))
    /\ Still /\ UNCHANGED <<answer, wanted, failed>>

StartSpace(p) ==
    /\ At(p, "space")
    /\ IF Target(p) = "all"
       THEN Go(p, With(p, "lookup")) /\ UNCHANGED <<faults, alone>>
       ELSE \E seen \in Lists :
              /\ Reads(p, seen)
              /\ Go(p, With(p, IF BySpace(Target(p), seen) # {} THEN "lookup"
                               ELSE "path"))
    /\ Still /\ UNCHANGED <<answer, wanted, failed>>

\* The app of the path's name, if its entry has that path.
SameScript(t) ==
    {n \in Registered : t \in DOMAIN AppOf /\ Path[n] = t /\ AppOf[t] = n}
StartPath(p) ==
    /\ At(p, "path")
    /\ LET t == Target(p) IN
       \E seen \in Lists :
         /\ Reads(p, seen)
         /\ \E blind \in {FALSE, faults' # faults} :
            IF \E n \in SameScript(t) : ~up[n] \/ blind
            THEN /\ Go(p, [With(p, "lookup") EXCEPT
                             !.todo = SetToSeq(SameScript(t)) \o Tail(@)])
                 /\ UNCHANGED <<answer, failed>>
            ELSE IF \/ SameScript(t) # {} /\ ~Cmd(p).force
                    \/ t \notin DOMAIN AppOf \/ AppOf[t] = None
            THEN Fails(p)
            ELSE /\ Go(p, [With(p, "new") EXCEPT !.todo = Tail(@),
                                                 !.new = <<AppOf[t]>>])
                 /\ UNCHANGED <<answer, failed>>
    /\ Still /\ UNCHANGED wanted

-----------------------------------------------------------------------------
(* _operate: the ids of one target, then an act on each.                   *)

\* reset takes a number for an id without looking.
ResetsId(p) == Cmd(p).do = "reset" /\ Target(p) \in Numerals
Lookup(p) ==
    /\ At(p, "lookup")
    /\ LET t == Target(p)
           found(seen) == Matching(t, seen)
       IN \E seen \in Lists :
         /\ Reads(p, seen)
         /\ IF ResetsId(p)
            THEN /\ Go(p, [With(p, "act") EXCEPT !.ids = {t}, !.saw = {}])
                 /\ UNCHANGED <<answer, failed>>
            ELSE IF found(seen) # {} \/ FileAct(p)
            THEN /\ Go(p, [With(p, "act") EXCEPT
                             !.ids = IdsOf(found(seen)),
                             !.saw = {<<n, reg[n]>> : n \in found(seen)}])
                 /\ UNCHANGED <<answer, failed>>
            ELSE IF Cmd(p).do # "reset" /\ (Word(t) \/ t \in Numerals)
            THEN Go(p, With(p, "lookspace")) /\ UNCHANGED <<answer, failed>>
            ELSE Fails(p)
    /\ Still /\ UNCHANGED wanted

LookupSpace(p) ==
    /\ At(p, "lookspace")
    /\ LET t == Target(p) IN
       \E seen \in Lists :
         /\ Reads(p, seen)
         /\ IF BySpace(t, seen) # {}
            THEN /\ Go(p, [With(p, "act") EXCEPT
                             !.ids = IdsOf(BySpace(t, seen)),
                             !.saw = {<<n, reg[n]>> : n \in BySpace(t, seen)}])
                 /\ UNCHANGED <<answer, failed>>
            ELSE IF t \in Numerals
            THEN /\ Go(p, [With(p, "act") EXCEPT !.ids = {t}, !.saw = {}])
                 /\ UNCHANGED <<answer, failed>>
            ELSE Fails(p)
    /\ Still /\ UNCHANGED wanted

\* What an act does to a service: nothing (no unit, or it fails), half of
\* it, or all of it.
Undone(n) == UNCHANGED services
Half(p, n) ==
    /\ unit[n]
    /\ CASE ActOf(Cmd(p)) = "delete" ->
              /\ unit' = [unit EXCEPT ![n] = FALSE]
              /\ up' = [up EXCEPT ![n] = FALSE]
         [] OTHER -> up' = [up EXCEPT ![n] = FALSE] /\ UNCHANGED unit
    /\ UNCHANGED <<reg, next>>
Whole(p, n) ==
    /\ unit[n]
    /\ CASE ActOf(Cmd(p)) = "stop" ->
              up' = [up EXCEPT ![n] = FALSE] /\ UNCHANGED <<reg, unit, next>>
         [] ActOf(Cmd(p)) = "delete" ->
              /\ reg' = [reg EXCEPT ![n] = 0]
              /\ unit' = [unit EXCEPT ![n] = FALSE]
              /\ up' = [up EXCEPT ![n] = FALSE]
              /\ UNCHANGED next
         [] OTHER -> up' = [up EXCEPT ![n] = TRUE] /\ UNCHANGED <<reg, unit, next>>

ActsOn(p, i, n) ==
    /\ hit' = n
    /\ \/ /\ Whole(p, n)
          /\ Go(p, [proc[p] EXCEPT !.ids = @ \ {i}])
          /\ UNCHANGED <<answer, faults, failed>>
       \/ /\ \/ ~unit[n] /\ Undone(n) /\ UNCHANGED faults
             \/ /\ faults < MaxFaults /\ faults' = faults + 1
                /\ Undone(n) \/ Half(p, n)
          /\ Fails(p)

Act(p) ==
    /\ At(p, "act")
    /\ \E i \in proc[p].ids :
         IF Cmd(p).do = "reset"
         THEN /\ Go(p, [proc[p] EXCEPT !.ids = @ \ {i}])
              /\ hit' = None
              /\ UNCHANGED <<services, answer, faults, failed>>
         ELSE IF Entry(i) = {}
         THEN /\ Fails(p) /\ hit' = None /\ UNCHANGED <<services, faults>>
         ELSE \E n \in Entry(i) : ActsOn(p, i, n)
    /\ UNCHANGED <<ops, wanted, alone>>

\* Mutants: the target is done before its last service, or never dropped.
ActedEarly(p) ==
    /\ At(p, "act") /\ Cardinality(proc[p].ids) <= 1
    /\ Go(p, [With(p, "target") EXCEPT !.todo = Tail(@), !.saw = {}])
    /\ Still /\ UNCHANGED <<answer, faults, ghosts>>
Acted(p) ==
    /\ At(p, "act") /\ proc[p].ids = {}
    /\ Go(p, [With(p, "target") EXCEPT !.todo = Tail(@), !.saw = {}])
    /\ Still /\ UNCHANGED <<answer, faults, ghosts>>

-----------------------------------------------------------------------------
(* Files, kill and scale.                                                  *)

\* The elements of l that are not in S: SelectSeq, written out because the prover
\* knows nothing of that one.
Without(l, S) ==
    LET F[i \in 0..Len(l)] ==
            IF i = 0 THEN <<>>
            ELSE IF l[i] \in S THEN F[i - 1] ELSE Append(F[i - 1], l[i])
    IN  F[Len(l)]

\* _startJson: the registered apps of the file are operated by name, in the
\* order of the list; the others are started afterwards.
ListApps(p) ==
    /\ At(p, "list")
    /\ \E seen \in Lists :
         /\ Reads(p, seen)
         /\ \E s \in SetToSeqs(Range(Cmd(p).file) \cap seen) :
              Go(p, [With(p, "target") EXCEPT
                       !.todo = s,
                       !.new = Without(Cmd(p).file, seen)])
    /\ Still /\ UNCHANGED <<answer, wanted, failed>>

\* prepare: unit and entry are made, or the unit alone, or nothing.
FreshReused ==
    CHOOSE i \in 1..9 : /\ \A n \in Names : reg[n] < i
                        /\ (i = 1 \/ \E n \in Names : reg[n] = i - 1)
FreshId == next
StartNew(p) ==
    /\ At(p, "new")
    /\ LET n == Head(proc[p].new)
           rest == [With(p, IF Len(proc[p].new) = 1 THEN "target" ELSE "new")
                       EXCEPT !.new = Tail(@)]
       IN
       \/ /\ n \in BadApps /\ Cmd(p).file # <<>>
          /\ Go(p, [rest EXCEPT !.err = TRUE])
          /\ failed' = [failed EXCEPT ![p] = TRUE]
          /\ hit' = None
          /\ UNCHANGED <<services, answer, faults>>
       \/ /\ ~(n \in BadApps /\ Cmd(p).file # <<>>)
          /\ reg' = [reg EXCEPT ![n] = IF @ = 0 THEN FreshId ELSE @]
          /\ next' = IF reg[n] = 0 THEN next + 1 ELSE next
          /\ unit' = [unit EXCEPT ![n] = TRUE]
          /\ up' = [up EXCEPT ![n] = TRUE]
          /\ hit' = n
          /\ Go(p, rest) /\ UNCHANGED <<answer, faults, failed>>
       \/ /\ ~(n \in BadApps /\ Cmd(p).file # <<>>)
          /\ faults < MaxFaults /\ faults' = faults + 1
          /\ UNCHANGED <<reg, next>>
          /\ \/ UNCHANGED <<unit, up>>
             \/ /\ unit' = [unit EXCEPT ![n] = TRUE]
                /\ \E b \in BOOLEAN : up' = [up EXCEPT ![n] = b]
          /\ hit' = n
          /\ Fails(p)
    /\ UNCHANGED <<ops, wanted, alone>>

\* kill deletes all, if there is anything.
Count(p) ==
    /\ At(p, "count")
    /\ \E seen \in Lists :
         /\ Reads(p, seen)
         /\ IF seen = {}
            THEN End(p, "ok")
            ELSE Go(p, [With(p, "lookup") EXCEPT !.todo = <<"all">>])
                 /\ UNCHANGED answer
    /\ Still /\ UNCHANGED <<wanted, failed>>

\* scale: fewer are deleted one by one, more are refused one by one (the
\* refusals are not looked at), "-n" takes one service for a list.
Size(p) ==
    /\ At(p, "size")
    /\ LET t == Cmd(p).on[1]
           to == Cmd(p).to
       IN \E seen \in Lists :
         /\ Reads(p, seen)
         /\ LET S == ByName(t, seen) IN
            IF S = {} \/ to = ToString(Cardinality(S))
            THEN /\ End(p, "error")
                 /\ failed' = [failed EXCEPT ![p] = TRUE]
            ELSE IF to \notin Numerals
            THEN /\ End(p, IF to = "+" THEN "ok" ELSE "crash")
                 /\ failed' = [failed EXCEPT ![p] = TRUE]
            ELSE IF \E k \in 0..Cardinality(S) - 1 : to = ToString(k)
            THEN \E s \in SetToSeqs(S) :
                   /\ Go(p, [With(p, "target") EXCEPT
                        !.todo = [i \in 1..(Cardinality(S) - (CHOOSE k \in 0..9 :
                                              to = ToString(k))) |-> IdOf(s[i])]])
                   /\ UNCHANGED <<answer, failed>>
            ELSE /\ End(p, "ok") /\ failed' = [failed EXCEPT ![p] = TRUE]
    /\ Still /\ UNCHANGED wanted

-----------------------------------------------------------------------------
(* Outside zm2, a service exits or is started by systemd.                  *)

Exits(n) ==
    /\ up[n] /\ faults < MaxFaults /\ faults' = faults + 1
    /\ up' = [up EXCEPT ![n] = FALSE]
    /\ alone' = [p \in Procs |-> FALSE]
    /\ UNCHANGED <<reg, unit, next, proc, answer, hit, ops, wanted, failed>>

Move(p) ==
    \/ NextTarget(p) \/ NoTarget(p) \/ StartName(p) \/ StartSpace(p)
    \/ StartPath(p) \/ Lookup(p) \/ LookupSpace(p) \/ Act(p) \/ Acted(p)
    \/ ListApps(p) \/ StartNew(p) \/ Count(p) \/ Size(p) \/ Crash(p)
Next ==
    \/ \E p \in Procs : Move(p) \/ \E c \in Commands : Begin(p, c)
    \/ \E n \in Names : Exits(n)
Spec == Init /\ [][Next]_vars

-----------------------------------------------------------------------------
TypeOK ==
    /\ reg \in [Names -> 0..9] /\ next \in 1..9
    /\ unit \in [Names -> BOOLEAN] /\ up \in [Names -> BOOLEAN]
    /\ \A p \in Procs : proc[p].cmd \in Commands \cup {None}
    /\ answer \in [Procs -> {"none", "ok", "error", "crash"}]
    /\ \A n \in Names : up[n] => unit[n]

\* A command touches the services its words matched when it looked them up,
\* and only those: between the lookup and the act another command may remove
\* a service and register others, and the id must not lead to one of them
\* (_operate, _resolveEntry).
Matched(p, n) ==
    \/ <<n, reg[n]>> \in proc[p].saw
    \/ <<n, 0>> \in proc[p].saw
    \/ Target(p) \in Numerals /\ (Id(reg[n]) = Target(p) \/ n = Target(p))
ActsOnMatches ==
    \A p \in Procs :
        At(p, "act") /\ proc[p].ids # {} /\ proc'[p] # proc[p] /\ hit' # None
        => Matched(p, hit')

\* A command that no other ran beside and whose lists were whole ends with
\* success only when every service its words meant as it began is in the
\* state it asks for (exit codes of CLI.js).
Ends(p) == ~At(p, "idle") /\ proc'[p].pc = "idle"
EndsDone ==
    \A p \in Procs :
        Ends(p) /\ answer'[p] = "ok" /\ alone'[p] /\ Cmd(p).do # "scale"
        => \A n \in wanted[p] : Done(Cmd(p), n)

\* A command of which any part failed does not end with success, however many
\* targets or apps of a file it goes on with (start of several apps, stop and
\* delete of several targets).
EndsTruly ==
    \A p \in Procs :
        Ends(p) /\ failed'[p] /\ Cmd(p).do # "scale" => answer'[p] # "ok"

\* "delete all" does not delete modules: "When using shortcuts like 'all', do
\* not delete modules" (_operate).
DeleteAllSparesModules ==
    \A p \in Procs, n \in Modules :
        At(p, "act") /\ proc'[p] # proc[p] /\ Cmd(p).do = "delete"
        /\ Target(p) = "all" /\ hit' = n => reg'[n] = reg[n]

\* kill stops the services and keeps them: "stop all zm2 managed services".
KillOnlyStops ==
    \A p \in Procs :
        proc'[p] # proc[p] /\ proc[p].cmd # None
        /\ (\E n \in Names : reg[n] # 0 /\ reg'[n] = 0) => Cmd(p).do # "kill"

\* A scale that reports success has done something or had nothing to do.
ScaleScales ==
    \A p \in Procs :
        Ends(p) /\ Cmd(p).do = "scale" /\ answer'[p] = "ok" => ~failed'[p]
=============================================================================
