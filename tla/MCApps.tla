------------------------------- MODULE MCApps -------------------------------
(* The files of an application for TLC, in scenes of their own: "start" is    *)
(* what a start command writes for its options, "runtime" how update-node    *)
(* rewrites it, "lines" the same for values of more than one line.           *)
EXTENDS Apps, TLC

CONSTANTS rt1, rt2, x1, x2, blank, quoted, slashed, usr, bin, old, tool, word,
          Scenes

VARIABLE scene

-----------------------------------------------------------------------------
(* Start commands.                                                          *)

Strings == STRING
MCNames == {"a.b", "a-b", "plain"}
MCSanitized == "a.b" :> "a-b" @@ "a-b" :> "a-b" @@ "plain" :> "plain"
MCUsers == {[name |-> "root", id |-> 0, gid |-> 0], [name |-> "alice", id |-> 1, gid |-> 1],
            [name |-> "bob", id |-> 2, gid |-> 2]}
MCGroups == {[name |-> "alice", id |-> 1], [name |-> "bob", id |-> 2],
             [name |-> "root", id |-> 0], [name |-> "staff", id |-> 3]}

NoOptions == [k \in Fields |-> Undefined]
Conf(options) == [name |-> "", script |-> "js", interpreter |-> "", args |-> <<>>, options |-> options]
Plain == Conf(NoOptions)
Command(c, root, write) == [confs |-> c, uid |-> Undefined, root |-> root, write |-> write]

User(name) == Str(0, name)
Samples == [k \in Keys |->
    CASE k \in Durations -> {Num(0), Num(-1500), Num(400), Num(1499), Str(0, ""), Str(2500, ""), Str(5, "s"), True}
      [] k = "max_memory_restart" -> {Num(1600000), Num(-1600000), Str(500, "M"), Str(700, "K"), Str(0, "K"), Str(5, "x"), Str(2000000, "")}
      [] k = "min_uptime" -> {Num(50), Num(100), Str(10, "s"), Str(1, "m"), Str(10, "x")}
      [] k = "max_restarts" -> {Num(0), Num(-1), Str(10, "")}
      [] k = "stop_exit_codes" -> {Num(3), Arr(<<0, 143>>), Str(0, "x")}
      [] k = "autostart" -> {True}
      [] k = "autorestart" -> {True, False, Num(0)}
      [] k = "cron_restart" -> {Str(0, "pattern"), Str(0, "no pattern"), Num(0), Str(0, "")}
      [] k = "uid" -> {User("alice"), Str(1, ""), Num(1), User("ghost")}
      [] OTHER -> {User("staff"), Num(3), User("ghost")}]
\* Every pair of options, each with every value.
Pairs == UNION {UNION {{[NoOptions EXCEPT ![k] = v, ![l] = w] : v \in Samples[k], w \in Samples[l]} :
                       l \in Keys} : k \in Keys}
WithUser == {[NoOptions EXCEPT !["user"] = User("bob"), !["uid"] = u, !["gid"] = g] :
                u \in {Undefined, User("alice")}, g \in {Undefined, User("staff")}}
Optioned == {Command(<<Conf(o)>>, TRUE, TRUE) : o \in Pairs \cup WithUser}
       \cup {Command(<<Conf(o)>>, FALSE, FALSE) : o \in WithUser}

\* Two applications in a file, each good, refused, without script, without
\* interpreter, a command line, or a program with arguments.
AppKinds == {Plain, [Plain EXCEPT !.options["max_restarts"] = Num(-1)], [Plain EXCEPT !.script = "gone"],
          [Plain EXCEPT !.script = "py"], [Plain EXCEPT !.interpreter = "ruby"],
          [Plain EXCEPT !.script = "line"], [Plain EXCEPT !.script = "bash", !.args = <<"-c", "line">>],
          [Plain EXCEPT !.script = "bash", !.args = <<"-c", "line", "more">>],
          [Plain EXCEPT !.args = <<"one", "", "spaced", "more">>]}
Filed == {Command(<<k, [l EXCEPT !.name = "a-b"]>>, TRUE, TRUE) : k \in AppKinds, l \in AppKinds}

\* --uid for a file whose application names a user or none.
With(o) == Command(<<Conf(o)>>, TRUE, FALSE)
Overriding == {[With([NoOptions EXCEPT !["uid"] = u]) EXCEPT !.uid = User("bob")] :
                  u \in {Undefined, User("alice")}}

AllCommands == Optioned \cup Filed \cup Overriding

\* Options the documentation describes and the unit does not have as it says.
StatedCommands ==
    Overriding \cup
    {With([NoOptions EXCEPT !["kill_signal"] = Str(0, "SIGTERM")]),
     With([NoOptions EXCEPT !["stop_exit_codes"] = Arr(<<143>>)]),
     With([NoOptions EXCEPT !["uid"] = User("alice"), !["gid"] = User("root")]),
     With([NoOptions EXCEPT !["max_memory_restart"] = Str(400, "K")]),
     Command(<<[Plain EXCEPT !.args = <<"spaced">>]>>, TRUE, FALSE),
     Command(<<[Plain EXCEPT !.name = "a.b"], [Plain EXCEPT !.name = "a-b"]>>, TRUE, FALSE)}

-----------------------------------------------------------------------------
(* Units and environment files.                                             *)

L(kind, key, value) == [kind |-> kind, key |-> key, value |-> value]
Unit(service) ==
    <<L("section", "Unit", ""), L("assign", "After", "network"), L("section", "Service", "")>>
    \o service \o <<L("section", "Install", ""), L("assign", "WantedBy", "multi")>>
Exec == L("assign", "ExecStart", old)
EnvFile == L("assign", "EnvironmentFile", "managed")
\* As ZM2 writes it, for one process and as a legacy template, and as it may
\* have become: another program, a second file, a directive of its own.
SomeUnits ==
    {Unit(<<Exec, EnvFile>>), Unit(<<L("assign", "Environment", "instance"), EnvFile, Exec>>),
     Unit(<<EnvFile, L("assign", "ExecStart", tool)>>), Unit(<<Exec, EnvFile, EnvFile>>),
     Unit(<<Exec, EnvFile, L("assign", "Environment", "other")>>)}

V(key, entries) == [key |-> key, entries |-> entries, more |-> <<>>]
Text(key) == [kind |-> "assign", key |-> key, style |-> "plain", entries |-> <<word>>, quote |-> "goes"]
Several(key, more) == [V(key, <<word>>) EXCEPT !.more = more]
PlainPaths == {<<usr>>, <<usr, x1, bin>>, <<blank, slashed>>, <<quoted, x2>>, <<x1, usr, x1>>, <<>>}
PlainEnvironments ==
    {<<V("PORT", <<word>>), V("PATH", p)>> : p \in PlainPaths} \cup {<<V("PORT", <<word>>)>>}
    \cup {<<Several("CERT", <<Text("A"), Text("B")>>), V("PATH", <<usr>>)>>,
          <<Several("CERT", <<[Text("") EXCEPT !.kind = "bad"], Text("B")>>), V("PATH", <<usr>>)>>}
WithLines == {<<V("PATH", <<usr>>), Several("SCRIPT", <<Text("PATH"), Text("B")>>)>>}
P(style, entries) == [Text("PATH") EXCEPT !.style = style, !.entries = entries, !.quote = "whole"]
Note == [P("plain", <<>>) EXCEPT !.kind = "note", !.key = ""]
Written ==
    {NoFile, <<Note>>, <<P("plain", <<usr>>), Note, P("single", <<bin, x1>>)>>,
     <<P("plain", <<quoted>>)>>, <<P("single", <<>>)>>, <<P("plain", <<blank, x2>>)>>}

TheEnvironments == PlainEnvironments \cup WithLines
TheRuntimes == {[exe |-> rt1, bin |-> x1], [exe |-> rt2, bin |-> quoted],
                [exe |-> rt2, bin |-> blank]}
TheBasePath == <<usr, bin>>
TheBare == [d \in {x1, x2, usr, bin, blank, quoted, slashed, word} |->
               IF d = slashed THEN x1 ELSE d]

\* A line of a value that reads like an assignment of PATH.
Traps == {Runtime!GenerateEnvFile(e) : e \in WithLines}

-----------------------------------------------------------------------------
MCInit ==
    /\ scene \in Scenes
    /\ Init /\ (scene # "start" => cmd = CHOOSE c \in Commands : TRUE)
    /\ Runtime!Init
    /\ scene = "start" => env = NoFile /\ instances = 1 /\ unit = Unit(<<Exec, EnvFile>>) /\ loaded = unit
    /\ scene = "lines" => env \in Traps /\ instances = 1
MCNext ==
    /\ UNCHANGED scene
    /\ \/ scene = "start" /\ Next /\ UNCHANGED runtimeVars
       \/ scene \in {"runtime", "lines"} /\ Runtime!Next /\ UNCHANGED vars
MCSpec == MCInit /\ [][MCNext]_<<vars, runtimeVars, scene>>

-----------------------------------------------------------------------------
\* "Only the absolute executable path in ExecStart is replaced, and the
\* runtime's bin directory is prepended to the application PATH"
\* (README.md:335).
OnlyPathChanges == [][Runtime!OthersKept]_runtimeVars
=============================================================================
