---------------------------- MODULE RuntimeFiles ----------------------------
(***************************************************************************)
(* How update-node rewrites the files of an application: RuntimeConfig     *)
(* inspects the unit, its environment file and what systemd made of them,  *)
(* replaces the executable of ExecStart and puts the runtime's bin         *)
(* directory first in PATH.  (NodeRuntimeUpdater takes inspect and plan as *)
(* one step each; here they are opened.)                                   *)
(*                                                                         *)
(* A file is a sequence of lines, a line a record of what its readers tell *)
(* apart.  The environment file has three of them with grammars of their   *)
(* own: UnitGenerator writes it, RuntimeConfig reads it line by line, and  *)
(* for systemd a quoted value may go on over several lines.                *)
(***************************************************************************)
EXTENDS Naturals, Sequences, SequencesExt, FiniteSetsExt

CONSTANTS UnitFiles,     \* unit files an application may have
          Environments,  \* environments: sequences of [key, value], see Line
          Edits,         \* environment files somebody wrote by hand
          NoFile,        \* there is no environment file
          Runtimes,      \* what update-node installs: [exe, bin]
          NodeExes,      \* absolute paths of executables named node or nodejs
          BasePath,      \* DEFAULT_PATH, as entries
          Bare,          \* directory -> the same without a final slash
          Blank, Quote,  \* directories with a blank, with a single quote
          MaxUpdates, MaxEdits

VARIABLES unit,          \* the unit file
          loaded,        \* the unit systemd has read
          dropIn,        \* and whether it has a drop-in besides
          env,           \* the environment file
          instances,     \* of the registered entry
          last,          \* the runtime the files were written for last, if any
          updates, edits
files == <<unit, env>>
vars == <<files, loaded, dropIn, instances, last, updates, edits>>

None == "none"
-----------------------------------------------------------------------------
(* Unit files *)

Section(u, i) ==
    LET heads == {j \in 1 .. i : u[j].kind = "section"}
    IN  IF heads = {} THEN None ELSE u[Max(heads)].key
Assigns(u, key) == {i \in DOMAIN u : u[i].kind = "assign" /\ u[i].key = key}
Values(u, key) == {u[i].value : i \in Assigns(u, key)}

Managed == "managed"     \* the environment file ZM2 writes for the application
Instance == "instance"   \* NAME=%i
ServiceKeys == {"ExecStart", "EnvironmentFile", "Environment",
                "PassEnvironment", "UnsetEnvironment"}

\* parseUnitSource does not throw.
Parses(u, isTemplate) ==
    /\ \A i \in DOMAIN u : u[i].kind # "bad"
    /\ \A i \in DOMAIN u : u[i].kind = "assign" => Section(u, i) # None
    /\ \A k \in ServiceKeys : \A i \in Assigns(u, k) : Section(u, i) = "Service"
    /\ \A k \in {"ExecStart", "EnvironmentFile"} : \E i \in DOMAIN u : Assigns(u, k) = {i}
    /\ Values(u, "EnvironmentFile") = {Managed}
    /\ Assigns(u, "PassEnvironment") \cup Assigns(u, "UnsetEnvironment") = {}
    /\ IF isTemplate
       THEN Values(u, "Environment") = {Instance} /\ \E i \in DOMAIN u : Assigns(u, "Environment") = {i}
       ELSE Assigns(u, "Environment") = {}

Exec(u) == CHOOSE e \in Values(u, "ExecStart") : TRUE

\* inspect: what systemd has read agrees with the unit file.
Inspects ==
    /\ Parses(unit, instances > 1) /\ Exec(unit) \in NodeExes
    /\ ~dropIn
    /\ \A k \in {"ExecStart", "EnvironmentFile", "Environment"} :
           Values(loaded, k) = Values(unit, k)

-----------------------------------------------------------------------------
(* Environment files *)

Line(key, style, entries, quote) ==
    [kind |-> "assign", key |-> key, style |-> style, entries |-> entries, quote |-> quote]

\* encodeEnvValue
Encoded(entries, style) ==
    LET has(S) == ToSet(entries) \cap S # {} IN
    CASE style = "single" /\ ~has(Quote) -> "single"
      [] style = "plain" /\ ~has(Blank \cup Quote) -> "plain"
      [] OTHER -> "double"
PathLine(entries, style) == Line("PATH", Encoded(entries, style), entries, "whole")

\* updatePathValue: decodePathEntries does not throw, and what comes out.
Decodes(line) == line.style = "double" \/ ToSet(line.entries) \cap Quote = {}
Same(e, bin) == Bare[e] = Bare[bin]
\* The other entries: SelectSeq, written out because the prover knows nothing of it.
Kept(entries, bin) ==
    LET F[i \in 0..Len(entries)] ==
            IF i = 0 THEN <<>>
            ELSE IF Same(entries[i], bin) THEN F[i - 1] ELSE Append(F[i - 1], entries[i])
    IN  F[Len(entries)]
UpdatedPathKeeps(line, bin) ==     \* mutant: bin stays where it was as well
    [line EXCEPT !.entries = <<bin>> \o @]
UpdatedPath(line, bin) ==
    LET others == Kept(line.entries, bin)
        odd == \/ line.style = "single" /\ bin \in Quote
               \/ line.style = "plain" /\ bin \in Blank \cup Quote
        first == line.entries # <<>> /\ Same(line.entries[1], bin)
    IN  IF line.entries = <<>> THEN PathLine(<<bin>> \o BasePath, line.style)
        ELSE IF first /\ Len(others) = Len(line.entries) - 1 THEN line
        ELSE [line EXCEPT !.entries = <<bin>> \o others,
                          !.style = IF odd THEN "double" ELSE @]

\* The lines buildEnvContent takes for assignments of PATH, and whether it
\* throws: each line is looked at alone, and a quote that does not both begin
\* and end its line is seen only in the PATH that is rewritten.
PathLines(f) == {i \in DOMAIN f : f[i].kind = "assign" /\ f[i].key = "PATH"}
Theirs(f) == f[Max(PathLines(f))]
EnvParses(f) ==
    f # NoFile =>
        /\ \A i \in DOMAIN f : f[i].kind # "bad"
        /\ PathLines(f) # {} =>
              Theirs(f).quote \in {"whole", "goes"} /\ Decodes(Theirs(f))

BuildEnv(f, bin) ==
    IF f = NoFile THEN <<PathLine(<<bin>> \o BasePath, "plain")>>
    ELSE IF PathLines(f) = {} THEN Append(f, PathLine(<<bin>> \o BasePath, "plain"))
    ELSE [f EXCEPT ![Max(PathLines(f))] = UpdatedPath(@, bin)]

\* UnitGenerator.generateEnvFile: a value with a blank or a quote, or of more
\* than one line, is put in double quotes.
GenerateEnvFile(e) ==
    LET lines(x) ==
          IF x.more = <<>>
          THEN <<Line(x.key, Encoded(x.entries, "plain"), x.entries, "whole")>>
          ELSE <<Line(x.key, "double", x.entries, "opens")>>
               \o [i \in DOMAIN x.more |->
                     [x.more[i] EXCEPT !.quote = IF i = Len(x.more) THEN "closes" ELSE "goes"]]
    IN  FlattenSeq([i \in DOMAIN e |-> lines(e[i])])

\* What systemd reads: the last assignment of a key counts, and the lines
\* after an open quote belong to its value up to the one that closes it.
Inside(f, i) ==
    \E j \in 1 .. i - 1 : f[j].quote = "opens" /\ \A k \in j + 1 .. i - 1 : f[k].quote # "closes"
Starts(f) == {i \in DOMAIN f : f[i].kind = "assign" /\ ~Inside(f, i)}
Final(f, k) == Max({i \in Starts(f) : f[i].key = k})
GoesOn(f, i) == {f[j] : j \in {j \in i + 1 .. Len(f) : \A m \in i + 1 .. j : Inside(f, m)}}
Torn(l) == l.style # "double" /\ ToSet(l.entries) \cap Quote # {}
Assigned(f, i) ==
    [entries |-> IF Torn(f[i]) THEN <<None>> ELSE f[i].entries,
     rest |-> IF f[i].quote = "opens" THEN GoesOn(f, i) ELSE {}]
Read(f) ==
    IF f = NoFile THEN <<>>
    ELSE [k \in {f[i].key : i \in Starts(f)} |-> Assigned(f, Final(f, k))]

-----------------------------------------------------------------------------
Init ==
    /\ unit \in UnitFiles /\ loaded \in UnitFiles
    /\ dropIn = FALSE /\ instances \in 1 .. 2
    /\ env \in Edits \cup {GenerateEnvFile(e) : e \in Environments}
    /\ last = {} /\ updates = 0 /\ edits = 0

\* plan and apply for an application inspect accepts, then the updater's
\* daemon-reload.
Update(rt) ==
    /\ updates < MaxUpdates /\ updates' = updates + 1
    /\ Inspects /\ EnvParses(env)
    /\ unit' = [i \in DOMAIN unit |->
                  IF i \in Assigns(unit, "ExecStart") THEN [unit[i] EXCEPT !.value = rt.exe]
                  ELSE unit[i]]
    /\ env' = BuildEnv(env, rt.bin)
    /\ loaded' = unit' /\ last' = {rt}
    /\ UNCHANGED <<dropIn, instances, edits>>

\* Anything else is an error, and nothing is written.
Refuse ==
    /\ updates < MaxUpdates /\ updates' = updates + 1
    /\ ~(Inspects /\ EnvParses(env))
    /\ UNCHANGED <<files, loaded, dropIn, instances, last, edits>>

\* zm2 start --update-env, an administrator with an editor or a drop-in, and
\* daemon-reload on behalf of anybody.
Regenerate(e) == env' = GenerateEnvFile(e) /\ UNCHANGED <<unit, loaded, dropIn>>
EditEnv(f) == env' = f /\ UNCHANGED <<unit, loaded, dropIn>>
EditUnit(u) == unit' = u /\ UNCHANGED <<env, loaded, dropIn>>
DropIn == dropIn' = TRUE /\ loaded' = unit /\ UNCHANGED files
Reload == loaded' = unit /\ UNCHANGED <<files, dropIn>>
Others ==
    /\ edits < MaxEdits /\ edits' = edits + 1 /\ last' = {}
    /\ \/ \E e \in Environments : Regenerate(e)
       \/ \E f \in Edits : EditEnv(f)
       \/ \E u \in UnitFiles : EditUnit(u)
       \/ DropIn \/ Reload
    /\ UNCHANGED <<instances, updates>>

Next == Others \/ Refuse \/ \E rt \in Runtimes : Update(rt)
Spec == Init /\ [][Next]_vars

-----------------------------------------------------------------------------
Updates(rt) == updates' # updates /\ last' = {rt} /\ Inspects /\ EnvParses(env)

\* The application's environment but for PATH, and its PATH, as systemd reads
\* them.
Rest(f) == [k \in DOMAIN Read(f) \ {"PATH"} |-> Read(f)[k]]
PathOf(f) == IF "PATH" \in DOMAIN Read(f) THEN Read(f)["PATH"].entries ELSE <<>>

\* Nothing but the executable and PATH changes for the application: neither
\* another variable, however it is quoted, nor another directive (plan,
\* buildEnvContent).  This is so as long as no line of a longer value reads as
\* an assignment of PATH: where one does it is rewritten in PATH's stead, as
\* Apps_lines.cfg shows.
OthersKept ==
    \A rt \in Runtimes : Updates(rt) =>
        /\ Rest(env') = Rest(env)
        /\ DOMAIN unit' = DOMAIN unit
        /\ \A i \in DOMAIN unit :
               unit'[i] = IF i \in Assigns(unit, "ExecStart")
                          THEN [unit[i] EXCEPT !.value = unit'[i].value] ELSE unit[i]

\* It finds the runtime before everything else in its PATH, and once; what
\* else it found there it still finds, in the same order (updatePathValue).
RuntimeIsFirst ==
    \A rt \in Runtimes : Updates(rt) =>
        LET former == IF PathOf(env) = <<>> THEN BasePath ELSE PathOf(env) IN
        PathOf(env') = <<Head(PathOf(env'))>> \o Kept(former, rt.bin)
        /\ Same(Head(PathOf(env')), rt.bin)

\* An update leaves systemd with the runtime's executable and nothing that
\* takes its place (inspect: no drop-in, no second command).
NothingOverrides ==
    \A rt \in Runtimes : Updates(rt) =>
        ~dropIn' /\ Values(loaded', "ExecStart") = {rt.exe}
                /\ Values(loaded', "Environment") \subseteq {Instance}

\* The same update again changes nothing, so that it restarts nothing
\* (NodeRuntimeUpdater skips an application for which plan has no change).
SecondIsNone ==
    \A rt \in Runtimes : Updates(rt) /\ last = {rt} => UNCHANGED files
=============================================================================
