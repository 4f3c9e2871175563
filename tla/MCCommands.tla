----------------------------- MODULE MCCommands -----------------------------
(* The reload lock and the command layer for TLC, in scenes of their own:    *)
(* "lock" reloads, forces and dies, "words" is one user who types every form *)
(* of a command, "race" two processes that remove and start services.        *)
EXTENDS Cli, TLC

CONSTANTS p1, p2, p3

VARIABLE scene

-----------------------------------------------------------------------------
(* The app a in the namespace "web", the app b named like its script, an app *)
(* named "1", and a unit u without an entry.                                 *)

Four == {"a", "b", "1", "u"}
Word(d, words) == [do |-> d, on |-> words, file |-> <<>>, force |-> FALSE, to |-> ""]

Spaces == [n \in Four |-> IF n \in {"a", "b"} THEN "web" ELSE "default"]
Paths == [n \in Four |-> IF n = "1" THEN "b.js" ELSE n \o ".js"]
Scripts == [t \in {"a.js", "b.js", "no.js"} |->
              CASE t = "a.js" -> "a" [] t = "b.js" -> "b" [] OTHER -> None]
Patterns == ("/[ab]/" :> {"a", "b"})

Targets == {<<"all">>, <<"a">>, <<"web">>, <<"1", "b.js">>, <<"2">>, <<"zm2-u.service">>,
            <<"/[ab]/", "u">>}
WithFile(d) == [Word(d, <<>>) EXCEPT !.file = <<"a", "b">>]
EveryCommand ==
    {Word(d, w) : d \in {"stop", "delete", "restart", "start"}, w \in Targets}
    \cup {Word("start", <<"no.js">>), Word("start", <<"b.js", "a">>),
          [Word("start", <<"a.js">>) EXCEPT !.force = TRUE]}
    \cup {Word("reload", <<"web">>), Word("reset", <<"2">>), Word("reset", <<"u">>)}
    \cup {WithFile(d) : d \in {"start", "restart", "stop", "delete"}}
    \cup {[WithFile("start") EXCEPT !.file = <<"bad", "b">>]}
    \cup {Word("kill", <<>>)}
    \cup {[Word("scale", <<"b.js">>) EXCEPT !.to = k] : k \in {"0", "1", "2", "+", "-"}}
SomeCommands ==
    {Word("delete", <<"all">>), Word("stop", <<"web">>), Word("delete", <<"2">>),
     Word("start", <<"b.js">>), Word("restart", <<"/[ab]/">>), Word("delete", <<"b">>),
     WithFile("start"), Word("stop", <<"zm2-b.service">>)}
TheCommands == EveryCommand \cup SomeCommands

Strays == [apps |-> <<"a", "1">>, found |-> {"u"}]
Pair == [apps |-> <<"a", "b">>, found |-> {}]
Stray == [apps |-> <<>>, found |-> {"u"}]
TheStarts == {Strays, Pair, Stray}

-----------------------------------------------------------------------------
MCInit ==
    /\ scene \in {"lock", "words", "race"}
    /\ Init
    /\ C!Init /\ (unit["u"] <=> scene = "words")

\* Who types what.
Types(p, c) ==
    IF scene = "words" THEN p = p1 /\ commands < 2 /\ c \in EveryCommand
    ELSE c \in SomeCommands
MCCommandSteps ==
    /\ \/ \E p \in Users : C!Move(p) \/ \E c \in Commands : Types(p, c) /\ C!Begin(p, c)
       \/ \E n \in Names : C!Exits(n)
    /\ UNCHANGED vars
MCNext ==
    /\ UNCHANGED scene
    /\ IF scene = "lock" THEN LockSteps ELSE MCCommandSteps
MCSpec == MCInit /\ [][MCNext]_<<vars, cmdVars, scene>>

\* What comments and descriptions say and the code does not do (README, under
\* Divergences).
DeleteAllSparesModules == [][scene = "words" => C!DeleteAllSparesModules]_cmdVars
KillOnlyStops == [][scene = "words" => C!KillOnlyStops]_cmdVars
ScaleScales == [][scene = "words" => C!ScaleScales]_cmdVars

=============================================================================
