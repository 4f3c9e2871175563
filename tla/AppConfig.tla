----------------------------- MODULE AppConfig -----------------------------
(***************************************************************************)
(* How the options of an application become the directives of its unit:    *)
(* Common.verifyConfs for every application of a start command, the schema *)
(* (tools/Config.js), Common.prepareAppConf, and UnitGenerator.generate.   *)
(* A value of an option keeps its JavaScript type, because the code tests  *)
(* truth, type and isNaN; names, paths and texts are members of small      *)
(* sets.                                                                   *)
(***************************************************************************)
EXTENDS Integers, Sequences, FiniteSets

CONSTANTS
    Kilo,        \* 1024
    Texts,       \* texts of scripts, arguments and options
    Commands,    \* start commands, see SoundCommand
    Names,       \* names of applications
    Sanitized,   \* name -> the name with - for what a unit name may not have
    Rendered,    \* the name rendered from a script
    Users,       \* /etc/passwd: records [name, id, gid]
    Groups,      \* /etc/group: records [name, id]
    Found,       \* programs in PATH
    BashIsUsual  \* bash is /bin/bash or /usr/bin/bash

None == ""

Value(type, n, text, items) == [type |-> type, n |-> n, text |-> text, items |-> items]
Undefined == Value("undefined", 0, None, <<>>)
Num(n) == Value("number", n, None, <<>>)
NaN == Value("number", 0, "NaN", <<>>)
True == Value("boolean", 1, None, <<>>)
False == Value("boolean", 0, None, <<>>)
Str(n, text) == Value("string", n, text, <<>>)  \* digits, then text
Arr(items) == Value("array", 0, None, items)

Values == [type : {"undefined", "number", "boolean", "string", "array"},
           n : Int, text : Texts, items : Seq(Nat)]
IsValue(v) ==
    \/ v \in {Undefined, NaN, True, False}
    \/ v = Num(v.n) /\ v.n \in Int
    \/ v = Str(v.n, v.text) /\ v.n \in Nat /\ v.text \in Texts
    \/ v = Arr(v.items) /\ v.items \in Seq(Nat)

Truthy(v) == v \notin {Undefined, Num(0), NaN, False}

\* !isNaN(v): an array of one number is a number to it.
IsNumeric(v) ==
    \/ v.type \in {"number", "string"} /\ v.text = None
    \/ v.type = "array" /\ Len(v.items) < 2
ToNumber(v) ==
    IF v.type # "array" THEN Num(v.n)
    ELSE IF v.items = <<>> THEN NaN ELSE Num(v.items[1])

Durations == {"restart_delay", "kill_timeout", "listen_timeout"}
Keys == Durations \cup {"max_memory_restart", "min_uptime", "max_restarts", "stop_exit_codes",
                        "autostart", "autorestart", "cron_restart", "uid", "gid"}
\* What a configuration file may say; the schema has no kill_signal, and
\* knows user as an alias of uid.
Fields == Keys \cup {"user", "kill_signal"}

Types(k) ==
    CASE k \in Durations \cup {"max_restarts"} -> {"number"}
      [] k \in {"max_memory_restart", "min_uptime", "cron_restart", "uid", "gid"} -> {"string", "number"}
      [] k = "stop_exit_codes" -> {"array", "number"}
      [] OTHER -> {"boolean"}
Seed == [K |-> Kilo, M |-> Kilo * Kilo, s |-> 1000, m |-> 60 * 1000]
Units(k) == IF k = "max_memory_restart" THEN {"K", "M"} ELSE {"s", "m"}
Scaled == {"max_memory_restart", "min_uptime"}
\* The schema has a minimum for two keys.
TooSmall(k, n) == (k = "min_uptime" /\ n < 100) \/ (k = "max_restarts" /\ n < 0)
Default(k) == IF k \in {"autostart", "autorestart"} THEN True ELSE Undefined

\* conf[k] || (conf[k] = json[alias]) for every alias, the last of which is
\* the name in camel case: the key itself only when it is one word.
Looked(json, k) ==
    IF Truthy(json[k]) THEN json[k]
    ELSE IF k = "uid" /\ Truthy(json["user"]) THEN json["user"]
    ELSE IF k \in {"autostart", "autorestart", "uid", "gid"} THEN json[k] ELSE Undefined

\* Config._valid: the value, as a number where it is one and the key allows
\* a number; none when it is refused.
Valid(k, v) ==
    LET w == IF v.type # "boolean" /\ "number" \in Types(k) /\ IsNumeric(v) THEN ToNumber(v) ELSE v
        refused == \/ w.type \notin Types(k)
                   \/ w.type = "string" /\ k \in Scaled /\ w.text \notin Units(k)
                   \/ w.type = "number" /\ w # NaN /\ TooSmall(k, w.n)
    IN IF refused THEN {}
       ELSE IF w.type = "string" /\ k \in Scaled THEN {Num(w.n * Seed[w.text])}
       ELSE {w}

\* Config.validateJSON: none, or the options that are left.
ValidateJSON(json) ==
    LET given == {k \in Keys : Looked(json, k) # Undefined}
        value(k) == CHOOSE w \in Valid(k, Looked(json, k)) : TRUE
    IN IF \E k \in given : Valid(k, Looked(json, k)) = {} THEN {}
       ELSE {[k \in Fields |-> IF k \in given THEN value(k)
                               ELSE IF k \in Keys THEN Default(k) ELSE Undefined]}

\* getUsers and getGroups have every line under its name and its number.
Entry(table, v) ==
    {u \in table : v.text = u.name \/ (v.text = None /\ v.type \in {"number", "string"} /\ v.n = u.id)}

\* The user, and its own group unless one is given; none when they do not
\* exist or the caller is not root.
ResolveUserOwnGroup(json, root) ==    \* mutant: the group that was asked for is lost
    {[json EXCEPT !["uid"] = Num(u.id), !["gid"] = Num(u.gid)] :
        u \in Entry(Users, IF Truthy(json["uid"]) THEN json["uid"] ELSE json["user"])}
ResolveUser(json, root) ==
    IF \A k \in {"uid", "gid", "user"} : ~Truthy(json[k]) THEN {json}
    ELSE IF ~root THEN {}
    ELSE UNION {{[json EXCEPT !["uid"] = Num(u.id), !["gid"] = Num(g)] :
                    g \in IF Truthy(json["gid"]) THEN {x.id : x \in Entry(Groups, json["gid"])}
                          ELSE {u.gid}} :
                u \in Entry(Users, IF Truthy(json["uid"]) THEN json["uid"] ELSE json["user"])}

CronRefused(json) == json["cron_restart"].text = "no pattern"

\* A configuration: a name (None for none), a script ("line" is a command line
\* with spaces), its interpreter (None for none), its arguments, its options.
NameOf(conf) == IF conf.name = None THEN Rendered ELSE conf.name
AsCommand(conf) ==
    IF conf.script # "line" THEN conf
    ELSE IF "bash" \in Found THEN [conf EXCEPT !.script = "bash", !.args = <<"-c", "line">>]
    ELSE IF "sh" \in Found THEN [conf EXCEPT !.script = "sh", !.args = <<"-c", "line">>]
    ELSE conf

\* Common.verifyConfs for one configuration: none, or the verified one.
VerifyConf(conf, root) ==
    UNION {{[AsCommand(conf) EXCEPT !.name = NameOf(conf), !.options = o] : o \in ValidateJSON(json)} :
           json \in {x \in ResolveUser(conf.options, root) : ~CronRefused(x)}}

\* Common.sink.resolveInterpreter: none when it is not available.
Interpreters == [js |-> "node", py |-> "python"]
ResolveInterpreter(conf) ==
    LET better == IF conf.script \in DOMAIN Interpreters THEN Interpreters[conf.script] ELSE "none"
        chosen == IF conf.interpreter # None THEN conf.interpreter
                  ELSE IF better = "python" /\ "python" \notin Found /\ "python3" \in Found THEN "python3"
                  ELSE better
    IN IF chosen = "none" \/ chosen \in Found THEN {chosen}
       ELSE IF chosen = "node" THEN {"builtin node"} ELSE {}

\* Common.prepareAppConf: none when the script or the interpreter is missing.
PrepareAppConf(conf) ==
    IF conf.script \in {"js", "py"} \cup Found
    THEN {[conf EXCEPT !.interpreter = i] : i \in ResolveInterpreter(conf)}
    ELSE {}

Round(n, d) == (2 * n + d) \div (2 * d)
\* 0 stands for a directive that is left out.
MsToSec(v) ==
    IF ~Truthy(v) THEN 0 ELSE IF Round(v.n, 1000) < 1 THEN 1 ELSE Round(v.n, 1000)

\* Megabytes, -1 for none.
ParseMemory(v) == IF Truthy(v) THEN Round(v.n, Kilo * Kilo) ELSE -1

\* The words systemd makes of an argument that ExecStart= has; an empty one
\* is left out. What follows -c of a shell is joined and quoted to one word.
Words(arg) ==
    IF arg = None THEN <<>> ELSE IF arg \in {"line", "spaced"} THEN <<"first", "rest">> ELSE <<arg>>
AllWords(args) ==
    LET upto[i \in 0..Len(args)] == IF i = 0 THEN <<>> ELSE upto[i - 1] \o Words(args[i])
    IN upto[Len(args)]
Joined(args) == IF Len(args) = 1 THEN args[1] ELSE "joined"
BuildExecStart(conf) ==
    LET isBashC == conf.script \in {"bash", "sh"} /\ BashIsUsual /\ Len(conf.args) >= 2 /\ conf.args[1] = "-c"
    IN IF isBashC THEN <<"-c", Joined(Tail(conf.args))>>
       ELSE AllWords(conf.args)

ServiceName(conf) == Sanitized[conf.name]

RestartOf(o) == IF o["autorestart"] = False THEN "no" ELSE "on-failure"

\* UnitGenerator.generate, and what _prepare does with the unit.
Generate(conf) ==
    LET o == conf.options IN
    [User |-> IF Truthy(o["user"]) THEN o["user"] ELSE IF Truthy(o["uid"]) THEN o["uid"] ELSE Undefined,
     Group |-> IF Truthy(o["gid"]) THEN o["gid"] ELSE Undefined,
     Program |-> IF conf.interpreter = "none" THEN conf.script ELSE conf.interpreter,
     Args |-> BuildExecStart(conf),
     Restart |-> RestartOf(o),
     Secs |-> [k \in Durations \cup {"min_uptime"} |-> MsToSec(o[k])],
     StartLimitBurst |-> IF Truthy(o["max_restarts"]) THEN o["max_restarts"].n ELSE 0,
     KillSignal |-> Truthy(o["kill_signal"]),
     MemoryMax |-> ParseMemory(o["max_memory_restart"]),
     SuccessExitStatus |-> IF o["stop_exit_codes"].type = "array" THEN o["stop_exit_codes"].items ELSE <<>>,
     Timer |-> Truthy(o["cron_restart"]),
     Enabled |-> TRUE]
NoUnit == [Program |-> None]

-----------------------------------------------------------------------------
(* What commands are given.                                                *)

Configurations == [name : Names \cup {None}, script : Texts, interpreter : Texts,
                   args : Seq(Texts), options : [Fields -> Values]]

\* Limits are no arrays, who is named is a text or a number, with root nobody
\* else, and a command line is given where bash is the usual one.
SoundConf(conf) ==
    LET o == conf.options IN
    /\ conf \in Configurations /\ \A k \in Fields : IsValue(o[k])
    /\ \A k \in Durations \cup Scaled : o[k].type # "array"
    /\ \A k \in {"uid", "gid", "user"} :
           o[k].type \in {"undefined", "number", "string"} /\ o[k] # NaN
    /\ \A u \in Entry(Users, o["uid"]) :
           u.id = 0 /\ Truthy(o["user"]) => u \in Entry(Users, o["user"])
    /\ conf.script = "line" => BashIsUsual

\* The applications of a command have names of their own.
SoundCommand(c) ==
    /\ c \in [confs : Seq(Configurations), uid : Values, root : BOOLEAN, write : BOOLEAN]
    /\ c.confs # <<>> /\ \A i \in DOMAIN c.confs : SoundConf(c.confs[i])
    /\ \A i, j \in DOMAIN c.confs : NameOf(c.confs[i]) = NameOf(c.confs[j]) => i = j

\* The lines of /etc/passwd and /etc/group.
SoundTable(table) ==
    /\ \A x, y \in table : x.name = y.name \/ x.id = y.id => x = y
    /\ \A x \in table : x.name # None
SoundTables ==
    /\ Users \subseteq [name : Texts, id : Nat, gid : Nat] /\ SoundTable(Users)
    /\ Groups \subseteq [name : Texts, id : Nat] /\ SoundTable(Groups)
    /\ \E u \in Users : u.id = 0 /\ u.gid = 0
    /\ \A u \in Users : \E g \in Groups : g.id = u.gid

ASSUME AppConfigAssumption ==
    /\ Kilo \in Nat \ {0} /\ Rendered \in Names /\ Sanitized \in [Names -> Names]
    /\ {None, "NaN", "bash", "sh", "-c", "line", "none", "builtin node"} \subseteq Texts
    /\ Names \subseteq Texts \ {None} /\ Found \subseteq Texts \ {"line"}
    /\ BashIsUsual \in BOOLEAN /\ SoundTables
    /\ \A c \in Commands : SoundCommand(c)

\* No command asks for root's group but for users who have it anyway.
GroupOfUser(o) ==
    o["gid"] # Undefined =>
        \A u \in Entry(Users, IF Truthy(o["uid"]) THEN o["uid"] ELSE o["user"]),
           g \in Entry(Groups, o["gid"]) : u.id = 0 \/ g.id = 0 => g.id = u.gid
SoundGroups == \A c \in Commands : \A i \in DOMAIN c.confs : GroupOfUser(c.confs[i].options)

-----------------------------------------------------------------------------
VARIABLES
    cmd,      \* the command: [confs, uid (--uid of a file), root, write]
    phase,    \* "verify", "start", "done" or "refused"
    at,       \* the configuration it is at
    confs,    \* those it has verified
    units,    \* service -> unit
    names,    \* service -> name in the registry, None for none
    former    \* the units of the first start, when what -w wrote is started again

vars == <<cmd, phase, at, confs, units, names, former>>

Services == {Sanitized[n] : n \in Names}
NoUnits == [s \in Services |-> NoUnit]

Init ==
    /\ cmd \in Commands /\ phase = "verify" /\ at = 1 /\ confs = <<>>
    /\ units = NoUnits /\ names = [s \in Services |-> None] /\ former = NoUnits

Advance ==
    /\ phase' = IF at = Len(cmd.confs) THEN "start" ELSE "verify"
    /\ at' = IF at = Len(cmd.confs) THEN 1 ELSE at + 1
\* All configurations are verified before any is started.
Verify ==
    /\ phase = "verify"
    /\ \/ /\ VerifyConf(cmd.confs[at], cmd.root) = {}
          /\ phase' = "refused" /\ UNCHANGED <<at, confs>>
       \/ \E c \in VerifyConf(cmd.confs[at], cmd.root) : confs' = Append(confs, c) /\ Advance
    /\ UNCHANGED <<cmd, units, names, former>>

\* --uid replaces the user of every application of a file, unresolved.
Overridden(conf) ==
    IF Truthy(cmd.uid) THEN [conf EXCEPT !.options["uid"] = cmd.uid] ELSE conf

\* prepareAppConf, then SystemdClient._prepare: unit, enable, start, registry.
Start ==
    /\ phase = "start" /\ at <= Len(confs)
    /\ \/ PrepareAppConf(confs[at]) = {} /\ UNCHANGED <<units, names>>
       \/ \E c \in PrepareAppConf(Overridden(confs[at])) :
            /\ units' = [units EXCEPT ![ServiceName(c)] = Generate(c)]
            /\ names' = [names EXCEPT ![ServiceName(c)] = c.name]
    /\ at' = at + 1
    /\ UNCHANGED <<cmd, phase, confs, former>>

Done ==
    /\ phase = "start" /\ at > Len(confs) /\ phase' = "done"
    /\ UNCHANGED <<cmd, at, confs, units, names, former>>

\* The file that -w wrote, verified configuration and all, is started.
StartWritten ==
    /\ phase = "done" /\ cmd.write /\ former = NoUnits /\ units # NoUnits
    /\ former' = units
    /\ cmd' = [cmd EXCEPT !.confs = confs, !.write = FALSE]
    /\ phase' = "verify" /\ at' = 1 /\ confs' = <<>>
    /\ UNCHANGED <<units, names>>

Next == Verify \/ Start \/ Done \/ StartWritten
Spec == Init /\ [][Next]_vars
-----------------------------------------------------------------------------
TypeOK ==
    /\ cmd.confs \in Seq(Configurations)
    /\ cmd.root \in BOOLEAN /\ cmd.write \in BOOLEAN
    /\ phase \in {"verify", "start", "done", "refused"} /\ at \in 1..(Len(cmd.confs) + 1)
    /\ Len(confs) <= Len(cmd.confs)
    /\ DOMAIN units = Services /\ names \in [Services -> Names \cup {None}]

\* The configurations of the command whose units are there.
Started ==
    {i \in DOMAIN cmd.confs :
        phase = "done" /\ names[Sanitized[NameOf(cmd.confs[i])]] = NameOf(cmd.confs[i])}
UnitOf(i) == units[Sanitized[NameOf(cmd.confs[i])]]
Asked(i, k) == cmd.confs[i].options[k]
Amount(v) == IF v.text \in DOMAIN Seed THEN v.n * Seed[v.text] ELSE v.n

\* A command one of whose configurations is refused starts none of its
\* applications (verifyConfs returns before the first of them is started).
AllOrNothing ==
    (\E i \in DOMAIN cmd.confs : VerifyConf(cmd.confs[i], cmd.root) = {}) => units = former

\* An application that cannot be prepared does not keep the others of its
\* file from being started (apps_errored).
OthersStart ==
    phase = "done" =>
        \A i \in DOMAIN confs : PrepareAppConf(confs[i]) # {} => names[ServiceName(confs[i])] # None

\* The limits of a unit are those that were asked, to half a second, a second
\* at least, and to half a megabyte; what is not asked, or is asked to be zero,
\* has none.
Near(n, m, d) == 2 * n * m <= 2 * d + m /\ 2 * d <= 2 * n * m + m
Limited(secs, d) == IF d = 0 THEN secs = 0 ELSE IF d < 1000 THEN secs = 1 ELSE Near(secs, 1000, d)
LimitsAsAsked ==
    \A i \in Started :
        /\ \A k \in Durations \cup {"min_uptime"} : Limited(UnitOf(i).Secs[k], Amount(Asked(i, k)))
        /\ LET m == Amount(Asked(i, "max_memory_restart")) IN
           IF m = 0 THEN UnitOf(i).MemoryMax = -1 ELSE Near(UnitOf(i).MemoryMax, Kilo * Kilo, m)

\* An application is restarted after a failure unless autorestart is false,
\* whatever else is said.
RestartAsAsked ==
    \A i \in Started : (UnitOf(i).Restart = "no") <=> (Asked(i, "autorestart") = False)

\* Who a value names, by name or number.
Named(table, v) == {x \in table : v.text = x.name \/ (v.text = None /\ v.n = x.id)}

\* The user and the group that the processes of a unit have: systemd takes
\* root, and the first group of the user, where nothing is said.
UserId(unit) == IF unit.User = Undefined THEN 0 ELSE (CHOOSE u \in Named(Users, unit.User) : TRUE).id
OwnGroup(id) == (CHOOSE u \in Users : u.id = id).gid
GroupId(unit) == IF unit.Group = Undefined THEN OwnGroup(UserId(unit)) ELSE unit.Group.n
AskedGroup(i) ==
    IF Asked(i, "gid") = Undefined THEN OwnGroup(UserId(UnitOf(i)))
    ELSE (CHOOSE g \in Named(Groups, Asked(i, "gid")) : TRUE).id

\* An application whose configuration names its user runs as that user, with
\* the group it names or else that user's, where no --uid overrides it.
RightsAsAsked ==
    ~Truthy(cmd.uid) => \A i \in Started :
        LET u == IF Asked(i, "uid") = Undefined THEN Asked(i, "user") ELSE Asked(i, "uid") IN
        IF u = Undefined THEN UnitOf(i).User = Undefined
        ELSE UserId(UnitOf(i)) = (CHOOSE x \in Named(Users, u) : TRUE).id /\ GroupId(UnitOf(i)) = AskedGroup(i)

\* A unit is only written for a program that is there (systemd would fail
\* again and again where the command could have said so).
ProgramExists == \A s \in Services : units[s].Program \in Found \cup {"js", "py", "builtin node", None}

\* A command line given as script reaches its shell as one argument.
CommandIsOneArgument ==
    \A i \in Started : cmd.confs[i].script = "line" => UnitOf(i).Args = <<"-c", "line">>

\* What -w wrote starts the same application again.
Same(s) ==
    /\ [units[s] EXCEPT !.User = Undefined, !.Group = Undefined] =
           [former[s] EXCEPT !.User = Undefined, !.Group = Undefined]
    /\ UserId(units[s]) = UserId(former[s]) /\ GroupId(units[s]) = GroupId(former[s])
SameAgain ==
    former # NoUnits =>
        /\ phase # "refused"
        /\ phase = "done" => \A s \in Services : units[s] = former[s] \/ Same(s)

\* A unit runs as whom it was asked, is restarted as it was asked and has the
\* limits that were asked; its program is there, and a command line given as
\* script reaches its shell as one argument.  (Other arguments are split again:
\* ArgsAsAsked.)  A command of which one configuration is refused writes none
\* (verifyConfs, prepareAppConf, generate).
UnitAsAsked ==
    /\ TypeOK
    /\ AllOrNothing /\ OthersStart /\ ProgramExists /\ CommandIsOneArgument
    /\ LimitsAsAsked /\ RestartAsAsked /\ RightsAsAsked /\ SameAgain
-----------------------------------------------------------------------------
(* What the documentation says, and the code does not do. *)

\* README.md:271, `kill_signal` is KillSignal.
SignalAsAsked == \A i \in Started : Truthy(Asked(i, "kill_signal")) => UnitOf(i).KillSignal

\* README.md:272, `stop_exit_codes` is SuccessExitStatus.
CodesAsAsked ==
    \A i \in Started : Asked(i, "stop_exit_codes").type = "array" =>
        UnitOf(i).SuccessExitStatus = Asked(i, "stop_exit_codes").items

\* README.md:274, `gid` is Group.
GroupAsAsked ==
    \A i \in Started : Asked(i, "gid") # Undefined => GroupId(UnitOf(i)) = AskedGroup(i)

\* types/index.d.ts:464, the limit may be given in kilobytes: then it is a
\* limit an application can live under.
MemoryIsPositive == \A i \in Started : UnitOf(i).MemoryMax # 0

\* CLI.js:45, --uid runs the script with the rights of that user.
RightsOfUid ==
    \A i \in Started : Truthy(cmd.uid) =>
        /\ UserId(UnitOf(i)) = (CHOOSE u \in Named(Users, cmd.uid) : TRUE).id
        /\ GroupId(UnitOf(i)) = OwnGroup(UserId(UnitOf(i)))

\* types/index.d.ts:421, the strings of args are arguments of the script.
ArgsAsAsked == \A i \in Started : UnitOf(i).Args = cmd.confs[i].args

\* types/index.d.ts:411, the name of an application finds it later.
NameFindsIt ==
    phase = "done" => \A i \in DOMAIN confs :
        PrepareAppConf(confs[i]) # {} => \E s \in Services : names[s] = confs[i].name
=============================================================================
