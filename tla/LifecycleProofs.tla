-------------------------- MODULE LifecycleProofs --------------------------
(***************************************************************************)
(* What the commands of zm2 promise, for any number of zm2 processes,      *)
(* services, configurations, failures and reboots.                         *)
(*                                                                         *)
(* A command is a sequence of calls, so a promise about its end is an      *)
(* invariant of every point of it: each call that matters is either still  *)
(* to be made, or what it leaves is still there (Lasting).  It stays there *)
(* because whoever makes calls on the same service meanwhile, without      *)
(* opposing the command, has no call in its plan that takes it back        *)
(* (Planned, Unopposed).                                                   *)
(***************************************************************************)
EXTENDS Lifecycle, FiniteSetTheorems, TLAPS

-----------------------------------------------------------------------------
(* Sequences of calls.                                                     *)

Elems(q) == {q[i] : i \in 1 .. Len(q)}

LEMMA ElemsOfTail ==
  ASSUME NEW S, NEW q \in Seq(S), q # <<>>
  PROVE  /\ Tail(q) \in Seq(S) /\ Head(q) \in S /\ Head(q) \in Elems(q)
         /\ Elems(q) \subseteq S
         /\ \A x \in Elems(q) : x = Head(q) \/ x \in Elems(Tail(q))
         /\ \A x \in Elems(Tail(q)) : x \in Elems(q)
BY SMT DEF Elems

LEMMA Concatenation ==
  ASSUME NEW S, NEW q \in Seq(S), NEW r \in Seq(S)
  PROVE  /\ q \o r \in Seq(S) /\ Len(q \o r) = Len(q) + Len(r)
         /\ \A i \in 1 .. Len(q) : (q \o r)[i] = q[i]
         /\ \A j \in 1 .. Len(r) : (q \o r)[Len(q) + j] = r[j]
         /\ \A i \in 1 .. Len(q \o r) :
               i \in 1 .. Len(q) \/ \E j \in 1 .. Len(r) : i = Len(q) + j
         /\ Len(q) \in Nat /\ Len(r) \in Nat
<1>1. /\ q \o r \in Seq(S) /\ Len(q \o r) = Len(q) + Len(r)
      /\ Len(q) \in Nat /\ Len(r) \in Nat
  BY SMT
<1>2. /\ \A i \in 1 .. Len(q) : (q \o r)[i] = q[i]
      /\ \A j \in 1 .. Len(r) : (q \o r)[Len(q) + j] = r[j]
  BY SMT
<1>3. ASSUME NEW i \in 1 .. Len(q \o r)
      PROVE  i \in 1 .. Len(q) \/ \E j \in 1 .. Len(r) : i = Len(q) + j
  <2>1. CASE i <= Len(q)
    BY <1>1, <2>1
  <2>2. CASE i > Len(q)
    <3>1. i - Len(q) \in 1 .. Len(r) /\ i = Len(q) + (i - Len(q))
      BY <1>1, <2>2
    <3> QED BY <3>1
  <2> QED BY <1>1, <2>1, <2>2
<1> QED BY <1>1, <1>2, <1>3

LEMMA ElemsOfConcatenation ==
  ASSUME NEW S, NEW q \in Seq(S), NEW r \in Seq(S)
  PROVE  Elems(q \o r) = Elems(q) \cup Elems(r)
<1>1. ASSUME NEW i \in 1 .. Len(q \o r) PROVE (q \o r)[i] \in Elems(q) \cup Elems(r)
  <2>1. CASE i \in 1 .. Len(q)
    BY <2>1, Concatenation DEF Elems
  <2>2. CASE \E j \in 1 .. Len(r) : i = Len(q) + j
    BY <2>2, Concatenation DEF Elems
  <2> QED BY <2>1, <2>2, Concatenation
<1>2. ASSUME NEW i \in 1 .. Len(q) PROVE q[i] \in Elems(q \o r)
  <2>1. i \in 1 .. Len(q \o r) /\ (q \o r)[i] = q[i]
    BY Concatenation
  <2> QED BY <2>1, Zenon DEF Elems
<1>3. ASSUME NEW j \in 1 .. Len(r) PROVE r[j] \in Elems(q \o r)
  <2>1. Len(q) + j \in 1 .. Len(q \o r) /\ (q \o r)[Len(q) + j] = r[j]
    BY Concatenation
  <2> QED BY <2>1, Zenon DEF Elems
<1>4. Elems(q \o r) \subseteq Elems(q) \cup Elems(r)
  BY <1>1, Zenon DEF Elems
<1>5. Elems(q) \cup Elems(r) \subseteq Elems(q \o r)
  BY <1>2, <1>3, Zenon DEF Elems
<1> QED BY <1>4, <1>5

\* The order in which a command makes its calls, as far as it matters: the entry
\* changes last, nothing is removed of a service that has still to be stopped or
\* its timer to be, and nothing is started before its unit has been written.
Removals == {Unlinks[f] : f \in Files}
MayFollow(a, b) ==
    /\ a \in {"register", "unregister"} => b = "show"
    /\ a \in Removals => b \notin {"stop_timer", "disable_timer", "stop", "disable"}
    /\ a = "arm" => b \notin {"unit", "timer"}
    /\ a \in {"start", "restart"} => b # "unit"
InOrder(q) == \A i, j \in 1 .. Len(q) : i < j => MayFollow(q[i], q[j])
CallsInOrder(q) == \A i, j \in 1 .. Len(q) : i < j => MayFollow(q[i].do, q[j].do)

LEMMA OrderOfTail ==
  ASSUME NEW S, NEW q \in Seq(S), q # <<>>, CallsInOrder(q)
  PROVE  /\ CallsInOrder(Tail(q))
         /\ \A x \in Elems(Tail(q)) : MayFollow(Head(q).do, x.do)
<1>1. /\ Len(q) \in Nat /\ Len(q) >= 1 /\ Len(Tail(q)) = Len(q) - 1 /\ Head(q) = q[1]
      /\ \A i \in 1 .. Len(Tail(q)) : Tail(q)[i] = q[i + 1]
  BY SMT
<1>2. CallsInOrder(Tail(q))
  BY <1>1, SMT DEF CallsInOrder
<1>3. ASSUME NEW i \in 1 .. Len(Tail(q)) PROVE MayFollow(Head(q).do, Tail(q)[i].do)
  BY <1>1, SMT DEF CallsInOrder
<1> QED BY <1>2, <1>3, Zenon DEF Elems

LEMMA OrderOfConcatenation ==
  ASSUME NEW S, NEW q \in Seq(S), NEW r \in Seq(S), InOrder(q), InOrder(r),
         \A x \in Elems(q), y \in Elems(r) : MayFollow(x, y)
  PROVE  InOrder(q \o r)
<1> SUFFICES ASSUME NEW i \in 1 .. Len(q \o r), NEW j \in 1 .. Len(q \o r), i < j
             PROVE  MayFollow((q \o r)[i], (q \o r)[j])
  BY DEF InOrder
<1>1. CASE i \in 1 .. Len(q) /\ j \in 1 .. Len(q)
  BY <1>1, Concatenation DEF InOrder
<1>2. ASSUME i \in 1 .. Len(q), NEW k \in 1 .. Len(r), j = Len(q) + k
      PROVE  MayFollow((q \o r)[i], (q \o r)[j])
  <2>1. q[i] \in Elems(q) /\ r[k] \in Elems(r)
    BY <1>2, Zenon DEF Elems
  <2> QED BY <1>2, <2>1, Concatenation
<1>3. ASSUME NEW l \in 1 .. Len(r), NEW k \in 1 .. Len(r), i = Len(q) + l, j = Len(q) + k
      PROVE  MayFollow((q \o r)[i], (q \o r)[j])
  <2>1. l < k
    BY <1>3, Concatenation
  <2> QED BY <1>3, <2>1, Concatenation DEF InOrder
<1>4. ~(j \in 1 .. Len(q) /\ \E l \in 1 .. Len(r) : i = Len(q) + l)
  BY Concatenation
<1> QED BY <1>1, <1>2, <1>3, <1>4, Concatenation

\* The calls of a command on one service.
LEMMA CallsOn ==
  ASSUME NEW s \in Services, NEW q \in Seq(Calls), InOrder(q)
  PROVE  /\ On(s, q) \in Seq([do : Calls, svc : Services])
         /\ CallsInOrder(On(s, q))
         /\ Elems(On(s, q)) = {[do |-> d, svc |-> s] : d \in Elems(q)}
<1>1. q \in [1 .. Len(q) -> Calls] /\ Len(q) \in Nat /\ DOMAIN q = 1 .. Len(q)
  BY SMT
<1>2. On(s, q) = [i \in 1 .. Len(q) |-> [do |-> q[i], svc |-> s]]
  BY <1>1, Zenon DEF On
<1>3. \A i \in 1 .. Len(q) : [do |-> q[i], svc |-> s] \in [do : Calls, svc : Services]
  BY <1>1
<1>4. On(s, q) \in Seq([do : Calls, svc : Services]) /\ Len(On(s, q)) = Len(q)
  BY <1>1, <1>2, <1>3, SMT
<1>5. \A i \in 1 .. Len(q) : On(s, q)[i] = [do |-> q[i], svc |-> s]
  BY <1>2, Zenon
<1>6. ASSUME NEW i \in 1 .. Len(q) PROVE On(s, q)[i].do = q[i]
  <2>1. [do |-> q[i], svc |-> s].do = q[i]
    OBVIOUS
  <2> QED BY <1>5, <2>1, Zenon
<1>7. CallsInOrder(On(s, q))
  BY <1>4, <1>6, Zenon DEF InOrder, CallsInOrder
<1>8. Elems(On(s, q)) \subseteq {[do |-> d, svc |-> s] : d \in Elems(q)}
  BY <1>4, <1>5, Zenon DEF Elems
<1>9. {[do |-> d, svc |-> s] : d \in Elems(q)} \subseteq Elems(On(s, q))
  <2> SUFFICES ASSUME NEW i \in 1 .. Len(q)
               PROVE  [do |-> q[i], svc |-> s] \in Elems(On(s, q))
    BY Zenon DEF Elems
  <2> QED BY <1>4, <1>5, Zenon DEF Elems
<1> QED BY <1>4, <1>7, <1>8, <1>9


-----------------------------------------------------------------------------
(* The calls of each command.                                              *)

Made(q, D) == q \in Seq(Calls) /\ InOrder(q) /\ Elems(q) = D

LEMMA RemovalNames == Removals = {"unlink_unit", "unlink_env", "unlink_timer", "unlink_cron"}
<1>1. /\ Unlinks["unit"] = "unlink_unit" /\ Unlinks["env"] = "unlink_env"
      /\ Unlinks["timer"] = "unlink_timer" /\ Unlinks["cron"] = "unlink_cron"
  BY DEF Unlinks
<1> QED BY <1>1, SMT DEF Removals, Files

LEMMA CallNames ==
  Calls = {"reload", "enable", "disable", "start", "restart", "stop", "arm", "stop_timer",
           "disable_timer", "show", "register", "unregister", "unit", "env", "timer", "cron",
           "unlink_unit", "unlink_env", "unlink_timer", "unlink_cron"}
BY RemovalNames, SMT DEF Calls, Removals, Files

LEMMA MadeTogether ==
  ASSUME NEW q, NEW D, NEW r, NEW E, Made(q, D), Made(r, E),
         \A x \in D, y \in E : MayFollow(x, y)
  PROVE  Made(q \o r, D \cup E)
<1>1. q \in Seq(Calls) /\ r \in Seq(Calls) /\ Elems(q) = D /\ Elems(r) = E
      /\ InOrder(q) /\ InOrder(r)
  BY DEF Made
<1>2. q \o r \in Seq(Calls)
  BY <1>1, SMT
<1>3. Elems(q \o r) = D \cup E
  BY <1>1, ElemsOfConcatenation, Zenon
<1>4. InOrder(q \o r)
  BY <1>1, OrderOfConcatenation, Zenon
<1> QED BY <1>2, <1>3, <1>4 DEF Made

LEMMA Pieces ==
  /\ Made(<<>>, {})
  /\ Made(<<"env">>, {"env"})
  /\ Made(<<"unregister">>, {"unregister"})
  /\ Made(<<"stop", "disable">>, {"stop", "disable"})
  /\ Made(<<"stop_timer", "disable_timer">>, {"stop_timer", "disable_timer"})
  /\ Made(<<"register", "show">>, {"register", "show"})
  /\ Made(<<"restart", "show">>, {"restart", "show"})
  /\ Made(<<"enable", "restart", "show">>, {"enable", "restart", "show"})
  /\ Made(<<"enable", "start", "show">>, {"enable", "start", "show"})
  /\ Made(<<"timer", "cron", "reload", "arm">>, {"timer", "cron", "reload", "arm"})
  /\ Made(<<"env", "unit", "reload", "enable", "start">>,
          {"env", "unit", "reload", "enable", "start"})
  /\ Made(<<"unlink_timer", "unlink_cron", "unlink_unit", "unlink_env", "reload">>,
          {"unlink_timer", "unlink_cron", "unlink_unit", "unlink_env", "reload"})
<1> USE RemovalNames, CallNames DEF Made, InOrder, Elems, MayFollow
<1>1. Made(<<>>, {})
  BY SMT
<1>2. Made(<<"env">>, {"env"}) /\ Made(<<"unregister">>, {"unregister"})
  BY SMT
<1>3. Made(<<"stop", "disable">>, {"stop", "disable"})
  BY SMT
<1>4. Made(<<"stop_timer", "disable_timer">>, {"stop_timer", "disable_timer"})
  BY SMT
<1>5. Made(<<"register", "show">>, {"register", "show"})
  BY SMT
<1>6. Made(<<"restart", "show">>, {"restart", "show"})
  BY SMT
<1>7. Made(<<"enable", "restart", "show">>, {"enable", "restart", "show"})
  BY SMT
<1>8. Made(<<"enable", "start", "show">>, {"enable", "start", "show"})
  BY SMT
<1>9. Made(<<"timer", "cron", "reload", "arm">>, {"timer", "cron", "reload", "arm"})
  BY SMT
<1>10. Made(<<"env", "unit", "reload", "enable", "start">>,
            {"env", "unit", "reload", "enable", "start"})
  BY SMT
<1>11. Made(<<"unlink_timer", "unlink_cron", "unlink_unit", "unlink_env", "reload">>,
            {"unlink_timer", "unlink_cron", "unlink_unit", "unlink_env", "reload"})
  BY SMT
<1> QED BY <1>1, <1>2, <1>3, <1>4, <1>5, <1>6, <1>7, <1>8, <1>9, <1>10, <1>11

\* What each command may call, and which of its calls leave something that has
\* to last.  A timer that is not there need not be stopped.
Plan(o) ==
    CASE o.kind = "prepare" ->
             {"env", "unit", "reload", "enable", "start", "register", "show"}
             \cup (IF o.conf.cron THEN {"timer", "cron", "arm"} ELSE {})
      [] o.kind \in {"start", "httpstart", "restart", "reload"} ->
             {"enable", "restart", "start", "show"} \cup (IF o.conf = None THEN {} ELSE {"env"})
      [] o.kind \in {"stop", "killall"} -> {"stop", "disable"}
      [] o.kind = "delete" ->
             {"stop_timer", "disable_timer", "stop", "disable", "reload", "unregister"}
             \cup Removals
Needed(o) ==
    CASE o.kind = "prepare" -> {"env", "unit", "enable", "register"}
                               \cup (IF o.conf.cron THEN {"timer", "cron", "arm"} ELSE {})
      [] o.kind = "stop" -> {"stop", "disable"}
      [] o.kind = "delete" -> {"stop", "disable", "unregister"} \cup Removals
      [] OTHER -> {}
Timer == {"stop_timer", "disable_timer"}

\* The program is made of D, calls of the plan that include those needed.
Follows(q, o, D) == Made(q, D) /\ D \subseteq Plan(o) /\ Needed(o) \subseteq D

LEMMA PreparePlan ==
  ASSUME NEW o, o.kind = "prepare"
  PROVE  \E D : Follows(PrepareCalls(o.conf), o, D)
<1> DEFINE A == {"env", "unit", "reload", "enable", "start"}
           B == IF o.conf.cron THEN {"timer", "cron", "reload", "arm"} ELSE {}
           C == {"register", "show"}
           b == IF o.conf.cron THEN <<"timer", "cron", "reload", "arm">> ELSE <<>>
<1>1. Made(b, B)
  BY Pieces
<1>2. Made(<<"env", "unit", "reload", "enable", "start">> \o b, A \cup B)
  <2>1. \A x \in A, y \in B : MayFollow(x, y)
    BY RemovalNames, SMT DEF MayFollow
  <2> HIDE DEF b, B
  <2> QED BY <1>1, <2>1, Pieces, MadeTogether
<1>3. Made(PrepareCalls(o.conf), (A \cup B) \cup C)
  <2>1. \A x \in A \cup B, y \in C : MayFollow(x, y)
    BY RemovalNames, SMT DEF MayFollow
  <2>2. Made((<<"env", "unit", "reload", "enable", "start">> \o b) \o <<"register", "show">>,
             (A \cup B) \cup C)
    <3> HIDE DEF b, B
    <3> QED BY <1>2, <2>1, Pieces, MadeTogether
  <2> QED BY <2>2 DEF PrepareCalls
<1>4. (A \cup B) \cup C \subseteq Plan(o) /\ Needed(o) \subseteq (A \cup B) \cup C
  BY SMT DEF Plan, Needed
<1> QED BY <1>3, <1>4 DEF Follows

LEMMA StartPlan ==
  ASSUME NEW o, o.kind \in {"start", "httpstart", "restart", "reload"}
  PROVE  /\ \E D : Follows(RestartCalls(o.conf), o, D)
         /\ \E D : Follows(StartCalls(o.conf, "restart"), o, D)
         /\ \E D : Follows(StartCalls(o.conf, "start"), o, D)
<1> DEFINE A == IF o.conf = None THEN {} ELSE {"env"}
           a == IF o.conf = None THEN <<>> ELSE <<"env">>
<1>1. Made(a, A)
  BY Pieces
<1>2. ASSUME NEW D \in SUBSET {"enable", "restart", "start", "show"}, NEW q, Made(q, D)
      PROVE  \E E : Follows(a \o q, o, E)
  <2>1. \A x \in A, y \in D : MayFollow(x, y)
    BY RemovalNames, SMT DEF MayFollow
  <2>2. Made(a \o q, A \cup D)
    <3> HIDE DEF a, A
    <3> QED BY <1>1, <1>2, <2>1, MadeTogether
  <2>3. A \cup D \subseteq Plan(o) /\ Needed(o) \subseteq A \cup D
    BY SMT DEF Plan, Needed
  <2> QED BY <2>2, <2>3 DEF Follows
<1>3. \E E : Follows(a \o <<"restart", "show">>, o, E)
  BY <1>2, Pieces
<1>4. \E E : Follows(a \o <<"enable", "restart", "show">>, o, E)
  BY <1>2, Pieces
<1>5. \E E : Follows(a \o <<"enable", "start", "show">>, o, E)
  BY <1>2, Pieces
<1> QED BY <1>3, <1>4, <1>5 DEF RestartCalls, StartCalls

LEMMA StopPlan ==
  ASSUME NEW o, o.kind = "stop"
  PROVE  \E D : Follows(StopCalls, o, D)
BY Pieces, SMT DEF StopCalls, Follows, Plan, Needed

LEMMA DeletePlan ==
  ASSUME NEW o, NEW s, o.kind = "delete"
  PROVE  \E D : /\ Follows(DeleteCalls(s), o, D)
                /\ disk[s].timer # None => Timer \subseteq D
<1> DEFINE A == IF disk[s].timer # None THEN Timer ELSE {}
           a == IF disk[s].timer # None THEN <<"stop_timer", "disable_timer">> ELSE <<>>
           B == {"stop", "disable"}
           c == <<"unlink_timer", "unlink_cron", "unlink_unit", "unlink_env", "reload">>
           C == {"unlink_timer", "unlink_cron", "unlink_unit", "unlink_env", "reload"}
<1>1. Made(a, A)
  BY Pieces DEF Timer
<1>2. \A x \in A, y \in B : MayFollow(x, y)
  BY RemovalNames, SMT DEF MayFollow, Timer
<1>3. \A x \in A \cup B, y \in C : MayFollow(x, y)
  BY RemovalNames, SMT DEF MayFollow, Timer
<1>4. \A x \in (A \cup B) \cup C, y \in {"unregister"} : MayFollow(x, y)
  BY RemovalNames, SMT DEF MayFollow, Timer
<1>5. /\ ((A \cup B) \cup C) \cup {"unregister"} \subseteq Plan(o)
      /\ Needed(o) \subseteq ((A \cup B) \cup C) \cup {"unregister"}
  BY RemovalNames, SMT DEF Plan, Needed, Timer
<1>6. disk[s].timer # None => Timer \subseteq ((A \cup B) \cup C) \cup {"unregister"}
  OBVIOUS
<1>7. Made(((a \o StopCalls) \o c) \o <<"unregister">>,
           ((A \cup B) \cup C) \cup {"unregister"})
  <2> HIDE DEF a, A
  <2>1. Made(a \o StopCalls, A \cup B)
    BY <1>1, <1>2, Pieces, MadeTogether DEF StopCalls
  <2>2. Made((a \o StopCalls) \o c, (A \cup B) \cup C)
    BY <1>3, <2>1, Pieces, MadeTogether
  <2> QED BY <1>4, <2>2, Pieces, MadeTogether
<1> QED BY <1>5, <1>6, <1>7 DEF Follows, DeleteCalls, RemoveCalls


\* The program of a command that is begun.
Program(q, o) ==
    /\ q \in Seq([do : Calls, svc : Services]) /\ CallsInOrder(q)
    /\ \A x \in Elems(q) : x.svc \in o.svcs /\ x.do \in Plan(o)
    /\ \A s \in o.svcs, d \in Needed(o) : [do |-> d, svc |-> s] \in Elems(q)
    /\ o.kind = "delete" =>
          \A s \in o.svcs, d \in Timer :
              disk[s].timer # None => [do |-> d, svc |-> s] \in Elems(q)

LEMMA ProgramOn ==
  ASSUME NEW o, NEW s \in Services, NEW D, NEW q, o.svcs = {s}, Follows(q, o, D),
         o.kind = "delete" /\ disk[s].timer # None => Timer \subseteq D
  PROVE  Program(On(s, q), o)
<1>1. /\ On(s, q) \in Seq([do : Calls, svc : Services]) /\ CallsInOrder(On(s, q))
      /\ Elems(On(s, q)) = {[do |-> d, svc |-> s] : d \in D}
  BY CallsOn, Zenon DEF Follows, Made
<1>2. ASSUME NEW x \in Elems(On(s, q)) PROVE x.svc \in o.svcs /\ x.do \in Plan(o)
  BY <1>1, SMT DEF Follows
<1>3. \A d \in D : [do |-> d, svc |-> s] \in Elems(On(s, q))
  BY <1>1, Zenon
<1> QED BY <1>1, <1>2, <1>3, Zenon DEF Follows, Program

LEMMA KillPlan ==
  ASSUME NEW o, o.kind = "killall", o.svcs \subseteq Services, NEW f \in Orders(o.svcs)
  PROVE  Program([i \in DOMAIN f |-> [do |-> "stop", svc |-> f[i]]], o)
<1> DEFINE n == Cardinality(o.svcs)
           q == [i \in DOMAIN f |-> [do |-> "stop", svc |-> f[i]]]
<1>1. n \in Nat
  BY LifecycleAssumption, FS_Subset, FS_CardinalityType, Zenon DEF LifecycleAssumption
<1>2. f \in [1 .. n -> o.svcs] /\ DOMAIN f = 1 .. n
  BY DEF Orders
<1>3. "stop" \in Calls
  BY CallNames
<1>4. \A i \in 1 .. n : [do |-> "stop", svc |-> f[i]] \in [do : Calls, svc : Services]
  BY <1>2, <1>3
<1>5. q = [i \in 1 .. n |-> [do |-> "stop", svc |-> f[i]]]
  BY <1>2, Zenon
<1> HIDE DEF n, q
<1>6. q \in Seq([do : Calls, svc : Services]) /\ Len(q) = n
  BY <1>1, <1>4, <1>5, SMT
<1>7. \A i \in 1 .. n : q[i] = [do |-> "stop", svc |-> f[i]]
  BY <1>5, Zenon
<1>8. CallsInOrder(q)
  <2>1. MayFollow("stop", "stop")
    BY RemovalNames DEF MayFollow
  <2>2. ASSUME NEW i \in 1 .. n PROVE q[i].do = "stop"
    <3>1. [do |-> "stop", svc |-> f[i]].do = "stop"
      OBVIOUS
    <3> QED BY <1>7, <3>1, Zenon
  <2> QED BY <1>6, <2>1, <2>2, Zenon DEF CallsInOrder
<1>9. ASSUME NEW x \in Elems(q) PROVE x.svc \in o.svcs /\ x.do \in Plan(o)
  <2>1. PICK i \in 1 .. n : x = [do |-> "stop", svc |-> f[i]]
    BY <1>6, <1>7, Zenon DEF Elems
  <2> QED BY <1>2, <2>1, SMT DEF Plan
<1>10. Needed(o) = {}
  BY DEF Needed
<1> QED BY <1>6, <1>8, <1>9, <1>10, Zenon DEF Program, q

LEMMA CommandShape ==
  ASSUME NEW o \in Commands, registered \subseteq Services
  PROVE  /\ o \in Op
         /\ o.kind = "killall" \/ \E s \in Services : o.svcs = {s}
         /\ o.kind = "prepare" => o.conf \in Confs
         /\ o.kind \in {"stop", "delete", "killall", "reload"} => o.conf = None
<1>1. Resolvable \subseteq Services
  BY DEF Resolvable
<1> QED BY <1>1, SMT DEF Commands, Op

LEMMA ProgramOf ==
  ASSUME NEW o \in Commands, registered \subseteq Services, NEW q \in Programs(o)
  PROVE  Program(q, o)
<1>1. CASE o.kind = "killall"
  BY <1>1, CommandShape, KillPlan, Zenon DEF Programs, Op
<1>2. CASE o.kind # "killall"
  <2>1. PICK s \in Services : o.svcs = {s}
    BY <1>2, CommandShape
  <2>2. (CHOOSE t \in Services : o.svcs = {t}) = s
    BY <2>1
  <2>3. o.kind \in {"prepare", "start", "httpstart", "restart", "reload", "stop", "delete"}
    BY <1>2, CommandShape DEF Op
  <2>4. CASE o.kind = "prepare"
    <3>1. q = On(s, PrepareCalls(o.conf))
      BY <2>2, <2>4 DEF Programs
    <3> QED BY <2>1, <2>4, <3>1, PreparePlan, ProgramOn
  <2>5. CASE o.kind \in {"start", "httpstart", "restart", "reload"}
    <3>1. \/ q = On(s, RestartCalls(o.conf))
          \/ q = On(s, StartCalls(o.conf, "restart"))
          \/ q = On(s, StartCalls(o.conf, "start"))
      BY <2>2, <2>5 DEF Programs
    <3>2. o.kind # "delete"
      BY <2>5
    <3> QED BY <2>1, <2>5, <3>1, <3>2, StartPlan, ProgramOn
  <2>6. CASE o.kind = "stop"
    <3>1. q = On(s, StopCalls)
      BY <2>2, <2>6 DEF Programs
    <3> QED BY <2>1, <2>6, <3>1, StopPlan, ProgramOn
  <2>7. CASE o.kind = "delete"
    <3>1. q = On(s, DeleteCalls(s))
      BY <2>2, <2>7 DEF Programs
    <3> QED BY <2>1, <2>7, <3>1, DeletePlan, ProgramOn
  <2> QED BY <2>3, <2>4, <2>5, <2>6, <2>7
<1> QED BY <1>1, <1>2


-----------------------------------------------------------------------------
(* The inductive invariant.                                                *)

\* The call of d on s is still to be made by p; what that call leaves.
Left(p, d, s) == [do |-> d, svc |-> s] \in Elems(todo[p])
Leaves(o, d, s) ==
    /\ d \in Files => disk[s][d] = o.conf
    /\ \A f \in Files : d = Unlinks[f] => disk[s][f] = None
    /\ d = "enable" => s \in enabled
    /\ d = "disable" => s \notin enabled
    /\ d = "register" => s \in registered
    /\ d = "unregister" => s \notin registered
    /\ d = "arm" => armed[s] = {"active", "enabled"}
    /\ d = "stop_timer" => "active" \notin armed[s]
    /\ d = "disable_timer" => "enabled" \notin armed[s]

\* Nobody worked against p's command, which has not failed or died.
Active(p) == unopposed[p] /\ (Busy(p) \/ answer[p] = "ok")

Shaped ==
    \A p \in Procs :
        /\ op[p] = None => ~unopposed[p] /\ answer[p] = "none" /\ ~Busy(p)
        /\ op[p] # None =>
              /\ op[p].kind = "prepare" => op[p].conf \in Confs
              /\ op[p].kind \in {"stop", "delete", "killall", "reload"} => op[p].conf = None
Planned ==
    \A p \in Procs :
        /\ CallsInOrder(todo[p])
        /\ \A x \in Elems(todo[p]) : x.svc \in op[p].svcs /\ x.do \in Plan(op[p])
Unopposed ==
    \A p, q \in Procs : p # q /\ unopposed[p] /\ Busy(q) => ~MayUndo(op[q], op[p])
Answered == \A p \in Procs : Busy(p) => answer[p] = "none"
Lasting ==
    \A p \in Procs : Active(p) =>
        \A s \in op[p].svcs, d \in Needed(op[p]) \ {"stop"} : Left(p, d, s) \/ Leaves(op[p], d, s)

IInv == TypeOK /\ Shaped /\ Answered /\ Planned /\ Unopposed /\ Lasting

-----------------------------------------------------------------------------
(* Steps.                                                                  *)

\* The calls that change more than a file or a process.
Order == {"enable", "disable", "register", "unregister", "arm", "stop_timer", "disable_timer"}

\* What the call of d on s changes of the files, the boot links, the entries
\* and the timers.
Touch(c, d, s) ==
    /\ \A t \in Services, f \in Files :
          disk'[t][f] = IF t = s /\ d = f THEN c
                        ELSE IF t = s /\ d = Unlinks[f] THEN None ELSE disk[t][f]
    /\ enabled' = IF d = "enable" THEN enabled \cup {s}
                  ELSE IF d = "disable" THEN enabled \ {s} ELSE enabled
    /\ registered' = IF d = "register" THEN registered \cup {s}
                     ELSE IF d = "unregister" THEN registered \ {s} ELSE registered
    /\ armed' = IF d = "arm" THEN [armed EXCEPT ![s] = {"active", "enabled"}]
                ELSE IF d = "stop_timer" THEN [armed EXCEPT ![s] = @ \ {"active"}]
                ELSE IF d = "disable_timer" THEN [armed EXCEPT ![s] = @ \ {"enabled"}]
                ELSE armed

\* A process that makes a call has a command, of which the call is the next.
LEMMA Caller ==
  ASSUME IInv, NEW p \in Procs, Busy(p)
  PROVE  /\ op[p] \in Op /\ op[p] # None
         /\ Head(todo[p]) \in [do : Calls, svc : Services]
         /\ Head(todo[p]).svc \in op[p].svcs /\ Head(todo[p]).do \in Plan(op[p])
         /\ Tail(todo[p]) \in Seq([do : Calls, svc : Services])
         /\ CallsInOrder(Tail(todo[p]))
         /\ \A x \in Elems(Tail(todo[p])) : x.svc \in op[p].svcs /\ x.do \in Plan(op[p])
         /\ \A x \in Elems(Tail(todo[p])) : MayFollow(Head(todo[p]).do, x.do)
         /\ \A d, s : Left(p, d, s) =>
               Head(todo[p]) = [do |-> d, svc |-> s]
               \/ [do |-> d, svc |-> s] \in Elems(Tail(todo[p]))
<1>1. todo[p] \in Seq([do : Calls, svc : Services]) /\ todo[p] # <<>>
  BY DEF IInv, TypeOK, Busy
<1>2. op[p] \in Op /\ op[p] # None
  BY DEF IInv, TypeOK, Shaped
<1>3. CallsInOrder(todo[p])
      /\ \A x \in Elems(todo[p]) : x.svc \in op[p].svcs /\ x.do \in Plan(op[p])
  BY DEF IInv, Planned
<1>4. /\ Head(todo[p]) \in [do : Calls, svc : Services] /\ Head(todo[p]) \in Elems(todo[p])
      /\ Tail(todo[p]) \in Seq([do : Calls, svc : Services])
      /\ \A x \in Elems(todo[p]) : x = Head(todo[p]) \/ x \in Elems(Tail(todo[p]))
      /\ \A x \in Elems(Tail(todo[p])) : x \in Elems(todo[p])
  BY <1>1, ElemsOfTail
<1>5. /\ CallsInOrder(Tail(todo[p]))
      /\ \A x \in Elems(Tail(todo[p])) : MayFollow(Head(todo[p]).do, x.do)
  BY <1>1, <1>3, OrderOfTail
<1> QED BY <1>2, <1>3, <1>4, <1>5, Zenon DEF Left

LEMMA FileNames ==
  /\ Files \subseteq Calls /\ \A f \in Files : Unlinks[f] \in Calls
  /\ \A f, g \in Files : f # Unlinks[g] /\ (Unlinks[f] = Unlinks[g] => f = g)
  /\ \A f \in Files : f \notin Order /\ Unlinks[f] \notin Order
<1>1. /\ Unlinks["unit"] = "unlink_unit" /\ Unlinks["env"] = "unlink_env"
      /\ Unlinks["timer"] = "unlink_timer" /\ Unlinks["cron"] = "unlink_cron"
  BY DEF Unlinks
<1> QED BY <1>1, CallNames, SMT DEF Files, Order

LEMMA Returned ==
  ASSUME IInv, NEW p \in Procs, Step(p)
  PROVE  /\ Busy(p) /\ Returns(p)
         /\ \E d \in Calls, s \in Services : Calling(p, d, s) /\ Touch(op[p].conf, d, s)
<1>a. /\ disk \in [Services -> [Files -> Content]]
      /\ armed \in [Services -> SUBSET {"active", "enabled"}]
  BY DEF IInv, TypeOK
<1>1. CASE WriteFile(p)
  <2>1. PICK s \in Services, f \in Files :
           Calling(p, f, s) /\ disk' = [disk EXCEPT ![s][f] = op[p].conf]
    BY <1>1, Zenon DEF WriteFile, Put
  <2>2. Touch(op[p].conf, f, s)
    <3>1. ASSUME NEW t \in Services, NEW g \in Files
          PROVE  disk'[t][g] = IF t = s /\ f = g THEN op[p].conf
                               ELSE IF t = s /\ f = Unlinks[g] THEN None ELSE disk[t][g]
      <4>1. disk'[t][g] = IF t = s /\ g = f THEN op[p].conf ELSE disk[t][g]
        BY <1>a, <2>1, SMT
      <4>2. f # Unlinks[g]
        BY FileNames
      <4> QED BY <4>1, <4>2
    <3>2. f \notin Order
      BY FileNames
    <3> QED BY <1>1, <3>1, <3>2, Zenon DEF WriteFile, Touch, Order
  <2> QED BY <1>1, <2>1, <2>2, FileNames, Zenon DEF WriteFile, Calling
<1>2. CASE Unlink(p)
  <2>1. PICK s \in Services, f \in Files :
           Calling(p, Unlinks[f], s) /\ disk' = [disk EXCEPT ![s][f] = None]
    BY <1>2, Zenon DEF Unlink, Put
  <2>2. Touch(op[p].conf, Unlinks[f], s)
    <3>1. ASSUME NEW t \in Services, NEW g \in Files
          PROVE  disk'[t][g] = IF t = s /\ Unlinks[f] = g THEN op[p].conf
                               ELSE IF t = s /\ Unlinks[f] = Unlinks[g] THEN None
                               ELSE disk[t][g]
      <4>1. disk'[t][g] = IF t = s /\ g = f THEN None ELSE disk[t][g]
        BY <1>a, <2>1, SMT
      <4>2. Unlinks[f] # g /\ (Unlinks[f] = Unlinks[g] <=> f = g)
        BY FileNames
      <4> QED BY <4>1, <4>2
    <3>2. Unlinks[f] \notin Order
      BY FileNames
    <3> QED BY <1>2, <3>1, <3>2, Zenon DEF Unlink, Touch, Order
  <2> QED BY <1>2, <2>1, <2>2, FileNames, Zenon DEF Unlink, Calling
<1>c. ASSUME NEW d \in Calls \ (Files \cup Removals), NEW s \in Services, UNCHANGED disk,
             enabled' = IF d = "enable" THEN enabled \cup {s}
                        ELSE IF d = "disable" THEN enabled \ {s} ELSE enabled,
             registered' = IF d = "register" THEN registered \cup {s}
                           ELSE IF d = "unregister" THEN registered \ {s} ELSE registered,
             armed' = IF d = "arm" THEN [armed EXCEPT ![s] = {"active", "enabled"}]
                      ELSE IF d = "stop_timer" THEN [armed EXCEPT ![s] = @ \ {"active"}]
                      ELSE IF d = "disable_timer" THEN [armed EXCEPT ![s] = @ \ {"enabled"}]
                      ELSE armed
      PROVE  Touch(op[p].conf, d, s)
  BY <1>c, Zenon DEF Touch, Removals
<1>d. Order \cup {"reload", "start", "restart", "stop", "show"} \subseteq
         Calls \ (Files \cup Removals)
  BY CallNames, RemovalNames, SMT DEF Files, Order
<1>3. CASE \/ DaemonReload(p) \/ Start(p) \/ Restart(p) \/ Stop(p) \/ Show(p)
  <2>1. PICK d \in {"reload", "start", "restart", "stop", "show"}, s \in Services :
            Calling(p, d, s)
    BY <1>3, Zenon DEF DaemonReload, Start, Restart, Stop, Show
  <2>2. Busy(p) /\ Returns(p) /\ UNCHANGED <<disk, enabled, registered, armed>>
    BY <1>3, Zenon DEF DaemonReload, Start, Restart, Stop, Show, Calling, world
  <2>3. Touch(op[p].conf, d, s)
    BY <1>c, <1>d, <2>1, <2>2, SMT DEF Order
  <2> QED BY <1>d, <2>1, <2>2, <2>3
<1>4. CASE Enable(p) \/ Disable(p)
  <2>1. PICK d \in {"enable", "disable"}, s \in Services :
           /\ Calling(p, d, s)
           /\ enabled' = IF d = "enable" THEN enabled \cup {s} ELSE enabled \ {s}
    BY <1>4, SMT DEF Enable, Disable
  <2>2. Busy(p) /\ Returns(p) /\ UNCHANGED <<disk, registered, armed>>
    BY <1>4, Zenon DEF Enable, Disable, Calling
  <2>3. Touch(op[p].conf, d, s)
    BY <1>c, <1>d, <2>1, <2>2, SMT DEF Order
  <2> QED BY <1>d, <2>1, <2>2, <2>3, SMT DEF Order
<1>5. CASE Register(p) \/ Unregister(p)
  <2>1. PICK d \in {"register", "unregister"}, s \in Services :
           /\ Calling(p, d, s)
           /\ registered' = IF d = "register" THEN registered \cup {s} ELSE registered \ {s}
    BY <1>5, SMT DEF Register, Unregister
  <2>2. Busy(p) /\ Returns(p) /\ UNCHANGED <<disk, enabled, armed>>
    BY <1>5, Zenon DEF Register, Unregister, Calling
  <2>3. Touch(op[p].conf, d, s)
    BY <1>c, <1>d, <2>1, <2>2, SMT DEF Order
  <2> QED BY <1>d, <2>1, <2>2, <2>3, SMT DEF Order
<1>6. CASE Arm(p) \/ StopTimer(p) \/ DisableTimer(p)
  <2>1. PICK d \in {"arm", "stop_timer", "disable_timer"}, s \in Services :
           /\ Calling(p, d, s)
           /\ armed' = IF d = "arm" THEN [armed EXCEPT ![s] = {"active", "enabled"}]
                       ELSE IF d = "stop_timer" THEN [armed EXCEPT ![s] = @ \ {"active"}]
                       ELSE [armed EXCEPT ![s] = @ \ {"enabled"}]
    BY <1>6, Zenon DEF Arm, StopTimer, DisableTimer
  <2>2. Busy(p) /\ Returns(p) /\ UNCHANGED <<disk, enabled, registered>>
    BY <1>6, Zenon DEF Arm, StopTimer, DisableTimer, Calling
  <2>3. Touch(op[p].conf, d, s)
    BY <1>c, <1>d, <2>1, <2>2, Zenon DEF Order
  <2> QED BY <1>d, <2>1, <2>2, <2>3, SMT DEF Order
<1> QED BY <1>1, <1>2, <1>3, <1>4, <1>5, <1>6, Zenon DEF Step


-----------------------------------------------------------------------------
(* The invariant is kept: types, commands and their programs.              *)

Names == [do : Calls, svc : Services]

LEMMA NoCalls == /\ <<>> \in Seq(Names) /\ CallsInOrder(<<>>) /\ Elems(<<>>) = {}
BY SMT DEF CallsInOrder, Elems

\* What a step does to the programs.
Turns(p) == /\ \/ Busy(p) /\ todo' = [todo EXCEPT ![p] = Tail(todo[p])]
               \/ Busy(p) /\ todo' = [todo EXCEPT ![p] = <<>>]
            /\ \E a \in {"none", "ok", "error"} : answer' = [answer EXCEPT ![p] = a]
            /\ UNCHANGED <<op, unopposed, ops>> /\ faults' \in 0 .. MaxFaults

LEMMA StepTurns ==
  ASSUME IInv, NEW p \in Procs, Step(p) \/ Refused(p) \/ Fails(p) \/ Dies(p)
  PROVE  Turns(p)
<1>a. faults \in 0 .. MaxFaults
  BY DEF IInv, TypeOK
<1>1. CASE Step(p)
  BY <1>a, <1>1, Returned, Zenon DEF Returns, Turns
<1>2. CASE Refused(p)
  BY <1>a, <1>2, Zenon DEF Refused, Ends, Turns, Calling
<1>3. CASE Fails(p) \/ Dies(p)
  <2>1. faults' \in 0 .. MaxFaults
    BY <1>a, <1>3, LifecycleAssumption DEF LifecycleAssumption, Fails, Dies, Fault
  <2> QED BY <1>3, <2>1, Zenon DEF Fails, Dies, Ends, Turns
<1> QED BY <1>1, <1>2, <1>3

\* systemd on its own leaves the commands alone; a reboot ends them all.
LEMMA Alone ==
  ASSUME IInv, \/ \E s \in Services : Exits(s) \/ CronFires(s) \/ CronRestarts(s)
               \/ Reboot
  PROVE  /\ UNCHANGED <<disk, enabled, registered, op, answer, unopposed, ops>>
         /\ faults' \in 0 .. MaxFaults
         /\ \/ UNCHANGED <<todo, armed>>
            \/ todo' = [p \in Procs |-> <<>>] /\ Reboot
<1>a. faults \in 0 .. MaxFaults
  BY DEF IInv, TypeOK
<1>1. Reboot => faults' \in 0 .. MaxFaults
  BY <1>a, LifecycleAssumption DEF LifecycleAssumption, Reboot, Fault
<1> QED BY <1>a, <1>1, Zenon DEF Exits, CronFires, CronRestarts, Reboot

LEMMA WorldTypes ==
  ASSUME IInv, Next
  PROVE  /\ disk' \in [Services -> [Files -> Content]]
         /\ loaded' \in [Services -> Content]
         /\ run' \in [Services -> Confs \cup {None}]
         /\ enabled' \subseteq Services /\ fired' \subseteq Services
         /\ armed' \in [Services -> SUBSET {"active", "enabled"}]
         /\ registered' \subseteq Services
<1>a. /\ disk \in [Services -> [Files -> Content]]
      /\ loaded \in [Services -> Content]
      /\ run \in [Services -> Confs \cup {None}]
      /\ enabled \subseteq Services /\ fired \subseteq Services
      /\ armed \in [Services -> SUBSET {"active", "enabled"}]
      /\ registered \subseteq Services
  BY DEF IInv, TypeOK
<1>b. \A s \in Services : /\ disk[s].unit \in Content /\ disk[s].timer \in Content
                          /\ Usable(s) \subseteq Confs
  BY <1>a, SMT DEF Files, Usable, Content
<1>c. disk' \in [Services -> [Files -> Content]] =>
         [s \in Services |-> disk'[s].unit] \in [Services -> Content]
  BY SMT DEF Files
<1>d. ASSUME NEW s \in Services, NEW f \in Files, NEW c \in Content
      PROVE  [disk EXCEPT ![s][f] = c] \in [Services -> [Files -> Content]]
  BY <1>a, SMT
<1>1. ASSUME NEW p \in Procs, NEW o \in Commands, Begin(p, o)
      PROVE  UNCHANGED world
  BY <1>1 DEF Begin
<1>2. ASSUME NEW p \in Procs, WriteFile(p) \/ Unlink(p) \/ Fails(p) \/ Dies(p)
      PROVE  disk' \in [Services -> [Files -> Content]] /\ registered' \subseteq Services
             /\ UNCHANGED <<loaded, run, enabled, armed, fired>>
  <2>1. Busy(p)
    BY <1>2, Zenon DEF WriteFile, Unlink, Fails, Dies, Calling
  <2>2. op[p].conf \in Content /\ None \in Content /\ Torn \in Content
    BY <2>1, Caller, SMT DEF Op, Content
  <2>3. UNCHANGED disk \/ \E s \in Services, f \in Files, c \in Content :
                             disk' = [disk EXCEPT ![s][f] = c]
    BY <1>2, <2>2, Zenon DEF WriteFile, Unlink, Fails, Dies, Interrupted, Put
  <2>4. disk' \in [Services -> [Files -> Content]]
    <3>1. CASE UNCHANGED disk
      BY <1>a, <3>1
    <3>2. ASSUME NEW s \in Services, NEW f \in Files, NEW c \in Content,
                 disk' = [disk EXCEPT ![s][f] = c]
          PROVE  disk' \in [Services -> [Files -> Content]]
      <4>1. [disk EXCEPT ![s][f] = c] \in [Services -> [Files -> Content]]
        BY <1>d
      <4> QED BY <3>2, <4>1
    <3> QED BY <2>3, <3>1, <3>2
  <2>5. registered' \subseteq Services
    BY <1>a, <1>2, SMT DEF WriteFile, Unlink, Fails, Dies
  <2> QED BY <1>2, <2>4, <2>5, Zenon DEF WriteFile, Unlink, Fails, Dies
<1>3. ASSUME NEW p \in Procs, \/ DaemonReload(p) \/ Enable(p) \/ Disable(p) \/ Arm(p)
                              \/ DisableTimer(p)
      PROVE  /\ loaded' \in [Services -> Content] /\ enabled' \subseteq Services
             /\ armed' \in [Services -> SUBSET {"active", "enabled"}]
             /\ UNCHANGED <<disk, run, fired, registered>>
  <2>1. loaded' \in [Services -> Content] /\ UNCHANGED <<disk, run, fired, registered>>
    BY <1>a, <1>c, <1>3, Zenon DEF DaemonReload, Enable, Disable, Arm, DisableTimer, Reread
  <2>2. enabled' \subseteq Services /\ armed' \in [Services -> SUBSET {"active", "enabled"}]
    BY <1>a, <1>3, SMT DEF DaemonReload, Enable, Disable, Arm, DisableTimer
  <2> QED BY <2>1, <2>2
<1>4. ASSUME NEW p \in Procs, \/ Start(p) \/ Restart(p) \/ Stop(p) \/ StopTimer(p) \/ Show(p)
                              \/ Register(p) \/ Unregister(p) \/ Refused(p)
      PROVE  /\ loaded' \in [Services -> Content] /\ run' \in [Services -> Confs \cup {None}]
             /\ armed' \in [Services -> SUBSET {"active", "enabled"}]
             /\ registered' \subseteq Services /\ UNCHANGED <<disk, enabled, fired>>
  <2>1. CASE Start(p) \/ Restart(p) \/ Stop(p)
    BY <1>a, <1>b, <2>1, SMT DEF Start, Restart, Stop, Restarted, Content
  <2>2. CASE StopTimer(p) \/ Register(p) \/ Unregister(p)
    BY <1>a, <2>2, SMT DEF StopTimer, Register, Unregister
  <2>3. CASE Show(p) \/ Refused(p)
    BY <1>a, <2>3, Zenon DEF Show, Refused, world
  <2> QED BY <1>4, <2>1, <2>2, <2>3
<1>5. ASSUME NEW s \in Services, Exits(s) \/ CronFires(s) \/ CronRestarts(s)
      PROVE  /\ loaded' \in [Services -> Content] /\ run' \in [Services -> Confs \cup {None}]
             /\ fired' \subseteq Services
             /\ UNCHANGED <<disk, enabled, armed, registered>>
  <2>1. CASE Exits(s)
    BY <1>a, <2>1, SMT DEF Exits, Content
  <2>2. CASE CronFires(s)
    BY <1>a, <2>2, SMT DEF CronFires
  <2>3. CASE CronRestarts(s)
    BY <1>a, <1>b, <2>3, SMT DEF CronRestarts, Restarted, Content
  <2> QED BY <1>5, <2>1, <2>2, <2>3
<1>6. CASE Reboot
  <2>1. UNCHANGED <<disk, enabled, registered>> /\ fired' = {}
    BY <1>6 DEF Reboot
  <2>2. loaded' \in [Services -> Content]
    BY <1>a, <1>c, <1>6, Zenon DEF Reboot, Reread
  <2>3. run' \in [Services -> Confs \cup {None}]
    BY <1>b, <1>6, SMT DEF Reboot, Content
  <2>4. armed' \in [Services -> SUBSET {"active", "enabled"}]
    BY <1>a, <1>6, SMT DEF Reboot
  <2> QED BY <1>a, <2>1, <2>2, <2>3, <2>4
<1> QED
  <2> USE <1>a
  <2>1. ASSUME NEW p \in Procs, Step(p) \/ Refused(p) \/ Fails(p) \/ Dies(p)
        PROVE  /\ disk' \in [Services -> [Files -> Content]]
               /\ loaded' \in [Services -> Content]
               /\ run' \in [Services -> Confs \cup {None}]
               /\ enabled' \subseteq Services /\ fired' \subseteq Services
               /\ armed' \in [Services -> SUBSET {"active", "enabled"}]
               /\ registered' \subseteq Services
    BY <1>2, <1>3, <1>4, <2>1, Zenon DEF Step
  <2> QED BY <1>1, <1>5, <1>6, <2>1, Zenon DEF Next, Goes, world


LEMMA Begins ==
  ASSUME IInv, NEW p \in Procs, NEW o \in Commands, Begin(p, o)
  PROVE  /\ \E q : Program(q, o) /\ todo' = [todo EXCEPT ![p] = q]
         /\ op' = [op EXCEPT ![p] = o] /\ answer' = [answer EXCEPT ![p] = "none"]
         /\ ops' \in [Procs -> 0 .. MaxOps] /\ ~Busy(p) /\ UNCHANGED <<world, faults>>
         /\ \A r \in Procs : unopposed'[r] =
               IF r = p THEN \A q \in Procs : Busy(q) => ~MayUndo(op[q], o)
                        ELSE unopposed[r] /\ ~MayUndo(o, op[r])
         /\ unopposed' \in [Procs -> BOOLEAN]
         /\ o \in Op /\ o # None
         /\ o.kind = "prepare" => o.conf \in Confs
         /\ o.kind \in {"stop", "delete", "killall", "reload"} => o.conf = None
<1>a. registered \subseteq Services /\ ops \in [Procs -> 0 .. MaxOps]
  BY DEF IInv, TypeOK
<1>1. PICK q \in Programs(o) : todo' = [todo EXCEPT ![p] = q]
  BY Zenon DEF Begin
<1>2. Program(q, o)
  BY <1>a, <1>1, ProgramOf
<1>3. ops' \in [Procs -> 0 .. MaxOps]
  <2>1. ops[p] < MaxOps /\ ops' = [ops EXCEPT ![p] = ops[p] + 1]
    BY DEF Begin
  <2>2. ops[p] + 1 \in 0 .. MaxOps
    BY <1>a, <2>1, LifecycleAssumption DEF LifecycleAssumption
  <2> QED BY <1>a, <2>1, <2>2
<1>4. /\ o \in Op /\ o # None /\ (o.kind = "prepare" => o.conf \in Confs)
      /\ o.kind \in {"stop", "delete", "killall", "reload"} => o.conf = None
  BY <1>a, CommandShape, LifecycleAssumption, Zenon DEF LifecycleAssumption
<1>5. unopposed' = [r \in Procs |->
                      IF r = p THEN \A q2 \in Procs : Busy(q2) => ~MayUndo(op[q2], o)
                               ELSE unopposed[r] /\ ~MayUndo(o, op[r])]
  BY Zenon DEF Begin
<1>6. unopposed' \in [Procs -> BOOLEAN]
  BY <1>5, Zenon
<1>7. \A r \in Procs : unopposed'[r] =
               IF r = p THEN \A q2 \in Procs : Busy(q2) => ~MayUndo(op[q2], o)
                        ELSE unopposed[r] /\ ~MayUndo(o, op[r])
  BY <1>5, Zenon
<1> QED BY <1>1, <1>2, <1>3, <1>4, <1>6, <1>7, Zenon DEF Begin

\* Every step begins a command, is one of a process, or one of systemd.
LEMMA StepCases ==
  ASSUME Next
  PROVE  \/ \E p \in Procs, o \in Commands : Begin(p, o)
         \/ \E p \in Procs : Step(p) \/ Refused(p) \/ Fails(p) \/ Dies(p)
         \/ \E s \in Services : Exits(s) \/ CronFires(s) \/ CronRestarts(s)
         \/ Reboot
BY Zenon DEF Next, Goes

LEMMA TypeStep ==
  ASSUME IInv, Next
  PROVE  TypeOK'
<1>a. /\ todo \in [Procs -> Seq(Names)] /\ op \in [Procs -> Op \cup {None}]
      /\ answer \in [Procs -> {"none", "ok", "error"}]
      /\ unopposed \in [Procs -> BOOLEAN]
      /\ ops \in [Procs -> 0..MaxOps] /\ faults \in 0..MaxFaults
  BY DEF IInv, TypeOK, Names
<1>1. ASSUME NEW p \in Procs, NEW o \in Commands, Begin(p, o)
      PROVE  /\ todo' \in [Procs -> Seq(Names)] /\ op' \in [Procs -> Op \cup {None}]
             /\ answer' \in [Procs -> {"none", "ok", "error"}]
             /\ unopposed' \in [Procs -> BOOLEAN]
             /\ ops' \in [Procs -> 0..MaxOps] /\ faults' \in 0..MaxFaults
  <2>1. PICK q : Program(q, o) /\ todo' = [todo EXCEPT ![p] = q]
    BY <1>1, Begins
  <2>2. q \in Seq(Names)
    BY <2>1 DEF Program, Names
  <2>3. /\ op' = [op EXCEPT ![p] = o] /\ answer' = [answer EXCEPT ![p] = "none"] /\ o \in Op
        /\ unopposed' \in [Procs -> BOOLEAN]
        /\ ops' \in [Procs -> 0..MaxOps] /\ UNCHANGED faults
    BY <1>1, Begins
  <2>4. todo' \in [Procs -> Seq(Names)]
    BY <1>a, <2>1, <2>2, Zenon
  <2> QED BY <1>a, <2>3, <2>4, Zenon
<1>2. ASSUME NEW p \in Procs, Turns(p)
      PROVE  /\ todo' \in [Procs -> Seq(Names)] /\ op' \in [Procs -> Op \cup {None}]
             /\ answer' \in [Procs -> {"none", "ok", "error"}]
             /\ unopposed' \in [Procs -> BOOLEAN]
             /\ ops' \in [Procs -> 0..MaxOps] /\ faults' \in 0..MaxFaults
  <2>1. Busy(p) => Tail(todo[p]) \in Seq(Names)
    BY Caller DEF Names
  <2>2. todo' \in [Procs -> Seq(Names)]
    BY <1>a, <1>2, <2>1, NoCalls, Zenon DEF Turns
  <2>3. answer' \in [Procs -> {"none", "ok", "error"}]
    BY <1>a, <1>2, Zenon DEF Turns
  <2> QED BY <1>a, <1>2, <2>2, <2>3, Zenon DEF Turns
<1>3. ASSUME \/ \E s \in Services : Exits(s) \/ CronFires(s) \/ CronRestarts(s)
             \/ Reboot
      PROVE  /\ todo' \in [Procs -> Seq(Names)] /\ op' \in [Procs -> Op \cup {None}]
             /\ answer' \in [Procs -> {"none", "ok", "error"}]
             /\ unopposed' \in [Procs -> BOOLEAN]
             /\ ops' \in [Procs -> 0..MaxOps] /\ faults' \in 0..MaxFaults
  BY <1>a, <1>3, Alone, NoCalls, Zenon
<1>4. /\ todo' \in [Procs -> Seq(Names)] /\ op' \in [Procs -> Op \cup {None}]
      /\ answer' \in [Procs -> {"none", "ok", "error"}]
      /\ unopposed' \in [Procs -> BOOLEAN]
      /\ ops' \in [Procs -> 0..MaxOps] /\ faults' \in 0..MaxFaults
  BY <1>1, <1>2, <1>3, StepCases, StepTurns
<1> QED BY <1>4, WorldTypes DEF TypeOK, Names

LEMMA ShapedStep ==
  ASSUME IInv, Next
  PROVE  Shaped'
<1>a. /\ todo \in [Procs -> Seq(Names)] /\ op \in [Procs -> Op \cup {None}]
      /\ answer \in [Procs -> {"none", "ok", "error"}] /\ Shaped
  BY DEF IInv, TypeOK, Names
<1>1. ASSUME NEW p \in Procs, NEW o \in Commands, Begin(p, o)
      PROVE  Shaped'
  <2> SUFFICES ASSUME NEW r \in Procs
               PROVE  /\ op'[r] = None => ~unopposed'[r] /\ answer'[r] = "none" /\ ~Busy(r)'
                      /\ op'[r] # None =>
                           /\ op'[r].kind = "prepare" => op'[r].conf \in Confs
                           /\ op'[r].kind \in {"stop", "delete", "killall", "reload"} =>
                                 op'[r].conf = None
    BY Zenon DEF Shaped
  <2>0. PICK q : /\ todo' = [todo EXCEPT ![p] = q] /\ op' = [op EXCEPT ![p] = o]
                 /\ answer' = [answer EXCEPT ![p] = "none"]
    BY <1>1, Begins
  <2>1. CASE r = p
    <3>1. /\ o # None /\ (o.kind = "prepare" => o.conf \in Confs)
          /\ o.kind \in {"stop", "delete", "killall", "reload"} => o.conf = None
      BY <1>1, Begins
    <3>2. op'[r] = o
      BY <1>a, <2>0, <2>1, Zenon
    <3> QED BY <3>1, <3>2, Zenon
  <2>2. CASE r # p
    <3>1. op'[r] = op[r] /\ answer'[r] = answer[r] /\ todo'[r] = todo[r]
      BY <1>a, <2>0, <2>2, Zenon
    <3>2. unopposed'[r] => unopposed[r]
      BY <1>1, <2>2, Begins, Zenon
    <3> QED BY <1>a, <3>1, <3>2, Zenon DEF Shaped, Busy
  <2> QED BY <2>1, <2>2
<1>2. ASSUME NEW p \in Procs, Turns(p)
      PROVE  Shaped'
  <2>1. op[p] # None /\ UNCHANGED <<op, unopposed>>
    BY <1>2, Caller DEF Turns
  <2>2. \A r \in Procs \ {p} : todo'[r] = todo[r] /\ answer'[r] = answer[r]
    BY <1>a, <1>2, Zenon DEF Turns
  <2> QED BY <1>a, <2>1, <2>2, Zenon DEF Shaped, Busy
<1>3. ASSUME \/ \E s \in Services : Exits(s) \/ CronFires(s) \/ CronRestarts(s)
             \/ Reboot
      PROVE  Shaped'
  BY <1>a, <1>3, Alone, Zenon DEF Shaped, Busy
<1> QED BY <1>1, <1>2, <1>3, StepCases, StepTurns

LEMMA PlannedStep ==
  ASSUME IInv, Next
  PROVE  Planned'
<1>a. todo \in [Procs -> Seq(Names)] /\ op \in [Procs -> Op \cup {None}] /\ Planned
  BY DEF IInv, TypeOK, Names
<1>1. ASSUME NEW p \in Procs, NEW o \in Commands, Begin(p, o)
      PROVE  Planned'
  <2>1. PICK q : Program(q, o) /\ todo' = [todo EXCEPT ![p] = q]
    BY <1>1, Begins
  <2>2. op' = [op EXCEPT ![p] = o]
    BY <1>1, Begins
  <2> QED BY <1>a, <2>1, <2>2, Zenon DEF Planned, Program, Plan
<1>2. ASSUME NEW p \in Procs, Turns(p)
      PROVE  Planned'
  <2>1. Busy(p) /\ op' = op
    BY <1>2 DEF Turns
  <2>2. CASE todo' = [todo EXCEPT ![p] = Tail(todo[p])]
    <3>1. /\ CallsInOrder(Tail(todo[p]))
          /\ \A x \in Elems(Tail(todo[p])) : x.svc \in op[p].svcs /\ x.do \in Plan(op[p])
      BY <2>1, Caller
    <3> QED BY <1>a, <2>1, <2>2, <3>1, Zenon DEF Planned, Plan
  <2>3. CASE todo' = [todo EXCEPT ![p] = <<>>]
    BY <1>a, <2>1, <2>3, NoCalls, Zenon DEF Planned, Plan
  <2> QED BY <1>2, <2>2, <2>3 DEF Turns
<1>3. ASSUME \/ \E s \in Services : Exits(s) \/ CronFires(s) \/ CronRestarts(s)
             \/ Reboot
      PROVE  Planned'
  <2>1. op' = op /\ (todo' = todo \/ todo' = [p \in Procs |-> <<>>])
    BY <1>3, Alone
  <2> QED BY <1>a, <2>1, NoCalls, Zenon DEF Planned, Plan
<1> QED BY <1>1, <1>2, <1>3, StepCases, StepTurns

LEMMA UnopposedStep ==
  ASSUME IInv, Next
  PROVE  Unopposed'
<1>a. todo \in [Procs -> Seq(Names)] /\ op \in [Procs -> Op \cup {None}] /\ Unopposed
  BY DEF IInv, TypeOK, Names
<1>1. ASSUME NEW p \in Procs, NEW o \in Commands, Begin(p, o)
      PROVE  Unopposed'
  <2>0. PICK calls : todo' = [todo EXCEPT ![p] = calls] /\ op' = [op EXCEPT ![p] = o]
    BY <1>1, Begins
  <2>1. /\ \A r \in Procs : r # p => op'[r] = op[r] /\ (Busy(r)' <=> Busy(r))
        /\ op'[p] = o
    BY <1>a, <2>0, Zenon DEF Busy
  <2>2. ASSUME NEW r \in Procs, NEW q \in Procs, r # q, unopposed'[r], Busy(q)'
        PROVE  ~MayUndo(op'[q], op'[r])
    <3>1. unopposed'[r] = IF r = p THEN \A q2 \in Procs : Busy(q2) => ~MayUndo(op[q2], o)
                          ELSE unopposed[r] /\ ~MayUndo(o, op[r])
      BY <1>1, Begins
    <3>2. CASE r = p
      BY <2>1, <2>2, <3>1, <3>2, Zenon
    <3>3. CASE r # p /\ q = p
      BY <2>1, <2>2, <3>1, <3>3, Zenon
    <3>4. CASE r # p /\ q # p
      BY <1>a, <2>1, <2>2, <3>1, <3>4, Zenon DEF Unopposed
    <3> QED BY <3>2, <3>3, <3>4
  <2> QED BY <2>2, Zenon DEF Unopposed, MayUndo
<1>2. ASSUME UNCHANGED <<op, unopposed>>, \A q \in Procs : Busy(q)' => Busy(q)
      PROVE  Unopposed'
  BY <1>a, <1>2, Zenon DEF Unopposed, MayUndo
<1>3. ASSUME NEW p \in Procs, Turns(p)
      PROVE  Unopposed'
  <2>1. \A q \in Procs : Busy(q)' => Busy(q)
    BY <1>a, <1>3, Zenon DEF Turns, Busy
  <2> QED BY <1>2, <1>3, <2>1 DEF Turns
<1>4. ASSUME \/ \E s \in Services : Exits(s) \/ CronFires(s) \/ CronRestarts(s)
             \/ Reboot
      PROVE  Unopposed'
  <2>1. UNCHANGED <<op, unopposed>> /\ \A q \in Procs : Busy(q)' => Busy(q)
    BY <1>4, Alone, Zenon DEF Busy
  <2> QED BY <1>2, <2>1
<1> QED BY <1>1, <1>3, <1>4, StepCases, StepTurns


LEMMA AnsweredStep ==
  ASSUME IInv, Next
  PROVE  Answered'
<1>a. /\ todo \in [Procs -> Seq(Names)] /\ answer \in [Procs -> {"none", "ok", "error"}]
      /\ Answered
  BY DEF IInv, TypeOK, Names
<1>1. ASSUME NEW p \in Procs, NEW o \in Commands, Begin(p, o)
      PROVE  Answered'
  <2>1. PICK q : todo' = [todo EXCEPT ![p] = q] /\ answer' = [answer EXCEPT ![p] = "none"]
    BY <1>1, Begins
  <2> QED BY <1>a, <2>1, Zenon DEF Answered, Busy
<1>2. ASSUME NEW p \in Procs, Step(p)
      PROVE  Answered'
  <2>1. /\ todo' = [todo EXCEPT ![p] = Tail(todo[p])]
        /\ answer' = [answer EXCEPT ![p] = IF Tail(todo[p]) = <<>> THEN "ok" ELSE "none"]
    BY <1>2, Returned, Zenon DEF Returns
  <2>2. todo'[p] = Tail(todo[p])
        /\ answer'[p] = IF Tail(todo[p]) = <<>> THEN "ok" ELSE "none"
    BY <1>a, <2>1, Zenon
  <2>3. \A q \in Procs \ {p} : todo'[q] = todo[q] /\ answer'[q] = answer[q]
    BY <1>a, <2>1, Zenon
  <2> QED BY <1>a, <2>2, <2>3, Zenon DEF Answered, Busy
<1>3. ASSUME NEW p \in Procs, Refused(p) \/ Fails(p) \/ Dies(p)
      PROVE  Answered'
  <2>1. /\ todo' = [todo EXCEPT ![p] = <<>>]
        /\ \E a : answer' = [answer EXCEPT ![p] = a]
    BY <1>3, Zenon DEF Refused, Fails, Dies, Ends
  <2>2. \A q \in Procs \ {p} : todo'[q] = todo[q] /\ answer'[q] = answer[q]
    BY <1>a, <2>1, Zenon
  <2>3. todo'[p] = <<>>
    BY <1>a, <2>1, Zenon
  <2> QED BY <1>a, <2>2, <2>3, Zenon DEF Answered, Busy
<1>4. ASSUME \/ \E s \in Services : Exits(s) \/ CronFires(s) \/ CronRestarts(s)
             \/ Reboot
      PROVE  Answered'
  BY <1>a, <1>4, Alone, Zenon DEF Answered, Busy
<1> QED BY <1>1, <1>2, <1>3, <1>4, StepCases

-----------------------------------------------------------------------------
(* What a call leaves lasts.                                               *)

\* Calls that set a service up, and calls that take one down.
Makes == {"env", "unit", "timer", "cron", "reload", "enable", "start", "restart", "arm",
          "register", "show"}
Unmakes == Timer \cup Removals \cup {"stop", "disable", "reload", "unregister"}

\* The call of d2, by a command with configuration c, takes back what d left.
Undoes(c, d2, o, d) ==
    \/ d \in Files /\ (d2 = Unlinks[d] \/ (d2 = d /\ c # o.conf))
    \/ \E f \in Files : d = Unlinks[f] /\ d2 = f
    \/ d = "enable" /\ d2 = "disable"
    \/ d = "disable" /\ d2 = "enable"
    \/ d = "register" /\ d2 = "unregister"
    \/ d = "unregister" /\ d2 = "register"
    \/ d = "arm" /\ d2 \in Timer
    \/ d \in Timer /\ d2 = "arm"

LEMMA Sides ==
  ASSUME NEW o
  PROVE  /\ o.kind \in Starters => Plan(o) \subseteq Makes /\ Needed(o) \subseteq Makes
         /\ o.kind \in Starters \ {"prepare"} /\ o.conf = None => Plan(o) \cap Files = {}
         /\ o.kind \in {"stop", "delete", "killall"} =>
               Plan(o) \subseteq Unmakes /\ Needed(o) \subseteq Unmakes
<1>1. CASE o.kind = "prepare"
  BY <1>1, SMT DEF Plan, Needed, Makes, Starters
<1>2. CASE o.kind \in {"start", "httpstart", "restart", "reload"}
  <2>1. Needed(o) = {}
    BY <1>2, SMT DEF Needed
  <2>2. Plan(o) = {"enable", "restart", "start", "show"}
                  \cup (IF o.conf = None THEN {} ELSE {"env"})
    BY <1>2, SMT DEF Plan
  <2> QED BY <1>2, <2>1, <2>2, SMT DEF Makes, Starters, Files
<1>3. CASE o.kind \in {"stop", "killall"}
  <2>1. Needed(o) \subseteq {"stop", "disable"} /\ Plan(o) = {"stop", "disable"}
    BY <1>3, SMT DEF Needed, Plan
  <2> QED BY <1>3, <2>1, SMT DEF Unmakes, Starters
<1>4. CASE o.kind = "delete"
  <2>1. Needed(o) = {"stop", "disable", "unregister"} \cup Removals
    BY <1>4, SMT DEF Needed
  <2>2. Plan(o) = {"stop_timer", "disable_timer", "stop", "disable", "reload", "unregister"}
                  \cup Removals
    BY <1>4, SMT DEF Plan
  <2> QED BY <1>4, <2>1, <2>2, SMT DEF Unmakes, Starters, Timer
<1> QED BY <1>1, <1>2, <1>3, <1>4, SMT DEF Starters

LEMMA SameSide ==
  ASSUME NEW c, NEW o, NEW d, NEW d2,
         \/ d \in Makes /\ d2 \in Makes /\ (d2 \in Files => c = o.conf)
         \/ d \in Unmakes /\ d2 \in Unmakes
  PROVE  ~Undoes(c, d2, o, d)
<1>1. /\ Unlinks["unit"] = "unlink_unit" /\ Unlinks["env"] = "unlink_env"
      /\ Unlinks["timer"] = "unlink_timer" /\ Unlinks["cron"] = "unlink_cron"
  BY DEF Unlinks
<1> QED BY <1>1, RemovalNames, SMT DEF Makes, Unmakes, Undoes, Files, Timer

\* What is needed of the command of p.
Matters(p) == (Needed(op[p]) \ {"stop"}) \cup (IF op[p].kind = "delete" THEN Timer ELSE {})

\* Nobody who makes calls on the services of p takes back what p's command did.
LEMMA NotUndone ==
  ASSUME IInv, NEW p \in Procs, NEW q \in Procs, unopposed[p], Busy(q), NEW s,
         s \in op[p].svcs, s \in op[q].svcs, NEW d \in Matters(p), NEW d2 \in Plan(op[q]),
         NEW c, q = p => c = op[p].conf
  PROVE  ~Undoes(c, d2, op[p], d)
<1>1. op[p] \in Op /\ op[q] \in Op
  BY DEF IInv, TypeOK, Shaped
<1>2. /\ op[p].kind \in Starters \/ op[p].kind \in {"stop", "delete", "killall"}
      /\ op[q].kind \in Starters \/ op[q].kind \in {"stop", "delete", "killall"}
  BY <1>1, SMT DEF Op, Starters
<1>3. /\ d \in Needed(op[p]) \/ (op[p].kind = "delete" /\ d \in Timer)
  BY SMT DEF Matters
<1>4. op[p].kind \in Starters => op[p].kind = "prepare"
  BY <1>3, SMT DEF Needed, Starters
<1>5. CASE q = p
  BY <1>2, <1>3, <1>5, Sides, SameSide, SMT DEF Unmakes, Starters
<1>6. CASE q # p
  <2>1. ~MayUndo(op[q], op[p]) /\ op[q].svcs \cap op[p].svcs # {}
    BY <1>6, Zenon DEF IInv, Unopposed
  <2>2. CASE op[p].kind \in Starters
    <3>1. op[q].kind \in Starters /\ op[q].conf = None
      BY <2>1, <2>2, Zenon DEF MayUndo
    <3>2. op[q].kind # "prepare"
      BY <1>1, <3>1, LifecycleAssumption DEF IInv, Shaped, LifecycleAssumption
    <3>3. d2 \in Makes /\ d2 \notin Files
      BY <3>1, <3>2, Sides, Zenon
    <3>4. d \in Makes
      BY <1>3, <2>2, Sides, SMT DEF Starters
    <3> QED BY <3>3, <3>4, SameSide, Zenon
  <2>3. CASE op[p].kind \in {"stop", "delete", "killall"}
    <3>1. op[q].kind \in {"stop", "delete", "killall"}
      BY <1>2, <2>1, <2>3, SMT DEF MayUndo, Starters
    <3>2. d2 \in Unmakes
      BY <3>1, Sides
    <3>3. d \in Unmakes
      BY <1>3, <2>3, Sides, Zenon DEF Unmakes
    <3> QED BY <3>2, <3>3, SameSide, Zenon
  <2> QED BY <1>2, <2>2, <2>3
<1> QED BY <1>5, <1>6

LEMMA Takes ==
  ASSUME IInv, NEW o, NEW d \in Calls, NEW s \in Services, Touch(o.conf, d, s)
  PROVE  Leaves(o, d, s)'
<1>a. armed \in [Services -> SUBSET {"active", "enabled"}]
  BY DEF IInv, TypeOK
<1>1. d \in Files => disk'[s][d] = o.conf
  BY Zenon DEF Touch
<1>2. \A f \in Files : d = Unlinks[f] => disk'[s][f] = None
  BY FileNames, Zenon DEF Touch
<1>3. /\ d = "enable" => s \in enabled'
      /\ d = "disable" => s \notin enabled'
      /\ d = "register" => s \in registered'
      /\ d = "unregister" => s \notin registered'
  BY SMT DEF Touch
<1>4. /\ d = "arm" => armed'[s] = {"active", "enabled"}
      /\ d = "stop_timer" => "active" \notin armed'[s]
      /\ d = "disable_timer" => "enabled" \notin armed'[s]
  BY <1>a, SMT DEF Touch
<1> QED BY <1>1, <1>2, <1>3, <1>4, Zenon DEF Leaves

LEMMA Keeps ==
  ASSUME IInv, NEW o, NEW d \in Calls, NEW s \in Services, Leaves(o, d, s),
         NEW c, NEW d2 \in Calls, NEW s2 \in Services, Touch(c, d2, s2),
         s = s2 => ~Undoes(c, d2, o, d)
  PROVE  Leaves(o, d, s)'
<1>a. armed \in [Services -> SUBSET {"active", "enabled"}]
  BY DEF IInv, TypeOK
<1>1. d \in Files => disk'[s][d] = o.conf
  BY Zenon DEF Touch, Leaves, Undoes
<1>2. \A f \in Files : d = Unlinks[f] => disk'[s][f] = None
  BY Zenon DEF Touch, Leaves, Undoes
<1>3. /\ d = "enable" => s \in enabled'
      /\ d = "disable" => s \notin enabled'
      /\ d = "register" => s \in registered'
      /\ d = "unregister" => s \notin registered'
  <2>1. /\ d = "enable" => s \in enabled /\ (s = s2 => d2 # "disable")
        /\ d = "disable" => s \notin enabled /\ (s = s2 => d2 # "enable")
        /\ d = "register" => s \in registered /\ (s = s2 => d2 # "unregister")
        /\ d = "unregister" => s \notin registered /\ (s = s2 => d2 # "register")
    BY Zenon DEF Leaves, Undoes
  <2> QED BY <2>1, SMT DEF Touch
<1>4. /\ d = "arm" => armed'[s] = {"active", "enabled"}
      /\ d = "stop_timer" => "active" \notin armed'[s]
      /\ d = "disable_timer" => "enabled" \notin armed'[s]
  <2>1. /\ d = "arm" => armed[s] = {"active", "enabled"}
                         /\ (s = s2 => d2 \notin {"stop_timer", "disable_timer"})
        /\ d = "stop_timer" => "active" \notin armed[s] /\ (s = s2 => d2 # "arm")
        /\ d = "disable_timer" => "enabled" \notin armed[s] /\ (s = s2 => d2 # "arm")
    BY Zenon DEF Leaves, Undoes, Timer
  <2> QED BY <1>a, <2>1, SMT DEF Touch
<1> QED BY <1>1, <1>2, <1>3, <1>4, Zenon DEF Leaves

LEMMA MattersAreCalls == ASSUME NEW p PROVE Matters(p) \subseteq Calls
<1>1. Needed(op[p]) \subseteq Calls
  BY CallNames, RemovalNames, SMT DEF Needed
<1> QED BY <1>1, CallNames, SMT DEF Matters, Timer

\* A call that does not finish does a part of what it does, or nothing.
LEMMA HalfDone ==
  ASSUME IInv, NEW q \in Procs, Fails(q) \/ Dies(q)
  PROVE  /\ Busy(q)
         /\ \/ UNCHANGED <<disk, enabled, registered, armed>>
            \/ \E d2 \in Calls, s2 \in Services : Calling(q, d2, s2) /\ Touch(Torn, d2, s2)
<1>a. disk \in [Services -> [Files -> Content]]
  BY DEF IInv, TypeOK
<1>1. Busy(q) /\ UNCHANGED <<enabled, armed>> /\ Interrupted(q)
  BY Zenon DEF Fails, Dies
<1>2. \/ UNCHANGED registered
      \/ \E s \in Services :
            \/ Calling(q, "register", s) /\ registered' = registered \cup {s}
            \/ Calling(q, "unregister", s) /\ registered' = registered \ {s}
  BY Zenon DEF Fails, Dies
<1>3. ASSUME NEW s \in Services, NEW f \in Files, Calling(q, f, s),
             disk' = [disk EXCEPT ![s][f] = Torn]
      PROVE  f \in Calls /\ Touch(Torn, f, s)
  <2>1. ASSUME NEW t \in Services, NEW g \in Files
        PROVE  disk'[t][g] = IF t = s /\ f = g THEN Torn
                             ELSE IF t = s /\ f = Unlinks[g] THEN None ELSE disk[t][g]
    <3>1. disk'[t][g] = IF t = s /\ g = f THEN Torn ELSE disk[t][g]
      BY <1>a, <1>3, SMT
    <3> QED BY <3>1, FileNames
  <2>2. UNCHANGED registered
    <3>1. ASSUME NEW t \in Services, NEW e \in {"register", "unregister"}, Calling(q, e, t)
          PROVE  FALSE
      <4>1. [do |-> e, svc |-> t] = [do |-> f, svc |-> s]
        BY <1>3, <3>1, Zenon DEF Calling
      <4>2. [do |-> e, svc |-> t].do = e /\ [do |-> f, svc |-> s].do = f
        OBVIOUS
      <4>3. e = f
        BY <4>1, <4>2, Zenon
      <4> QED BY <4>3, SMT DEF Files
    <3> QED BY <1>2, <3>1
  <2>3. f \notin Order
    BY FileNames
  <2> QED BY <1>1, <2>1, <2>2, <2>3, FileNames, Zenon DEF Touch, Order
<1>4. ASSUME UNCHANGED disk, NEW s \in Services, NEW d2 \in {"register", "unregister"},
             registered' = IF d2 = "register" THEN registered \cup {s} ELSE registered \ {s}
      PROVE  d2 \in Calls /\ Touch(Torn, d2, s)
  <2>1. \A f \in Files : d2 # f /\ d2 # Unlinks[f]
    BY FileNames, SMT DEF Order
  <2>2. d2 \in Calls
    BY CallNames, SMT
  <2>3. \A t \in Services, f \in Files :
           disk'[t][f] = IF t = s /\ d2 = f THEN Torn
                         ELSE IF t = s /\ d2 = Unlinks[f] THEN None ELSE disk[t][f]
    BY <1>4, <2>1, Zenon
  <2> QED BY <1>1, <1>4, <2>2, <2>3, SMT DEF Touch
<1>5. CASE UNCHANGED disk
  <2>1. CASE UNCHANGED registered
    BY <1>1, <1>5, <2>1
  <2>2. ASSUME NEW s \in Services,
               \/ Calling(q, "register", s) /\ registered' = registered \cup {s}
               \/ Calling(q, "unregister", s) /\ registered' = registered \ {s}
        PROVE  \E d2 \in Calls, s2 \in Services : Calling(q, d2, s2) /\ Touch(Torn, d2, s2)
    BY <1>4, <1>5, <2>2, SMT
  <2> QED BY <1>1, <1>2, <2>1, <2>2
<1>6. CASE \E s \in Services, f \in Files : Calling(q, f, s) /\ Put(s, f, Torn)
  BY <1>1, <1>3, <1>6, Zenon DEF Put
<1> QED BY <1>1, <1>5, <1>6, Zenon DEF Interrupted

\* What matters of a command is still to be done, or is done and stays.
LEMMA StillThere ==
  ASSUME IInv, Next, ~Reboot, NEW p \in Procs, Active(p)', NEW o, o = op[p], o # None,
         \A r \in Commands : ~Begin(p, r),
         NEW s \in o.svcs, NEW d \in Matters(p), Left(p, d, s) \/ Leaves(o, d, s)
  PROVE  op'[p] = o /\ (Left(p, d, s)' \/ Leaves(o, d, s)')
<1>a. /\ todo \in [Procs -> Seq(Names)] /\ op \in [Procs -> Op \cup {None}]
      /\ answer \in [Procs -> {"none", "ok", "error"}]
  BY DEF IInv, TypeOK, Names
<1>b. d \in Calls /\ s \in Services
  <2>1. op[p] \in Op
    BY <1>a
  <2> QED BY <2>1, MattersAreCalls DEF Op
<1>c. ASSUME UNCHANGED <<disk, enabled, registered, armed>>, todo'[p] = todo[p]
      PROVE  Left(p, d, s)' \/ Leaves(o, d, s)'
  BY <1>c, SMT DEF Left, Leaves
<1>1. ASSUME NEW q \in Procs, NEW r \in Commands, Begin(q, r)
      PROVE  op'[p] = o /\ (Left(p, d, s)' \/ Leaves(o, d, s)')
  <2>1. PICK calls : todo' = [todo EXCEPT ![q] = calls] /\ op' = [op EXCEPT ![q] = r]
    BY <1>1, Begins
  <2>2. q # p /\ UNCHANGED world
    BY <1>1, Begins
  <2>3. todo'[p] = todo[p] /\ op'[p] = op[p]
    BY <1>a, <2>1, <2>2, Zenon
  <2> QED BY <1>c, <2>2, <2>3 DEF world
<1>2. ASSUME NEW q \in Procs, Busy(q), UNCHANGED unopposed, unopposed'[p],
             NEW d2 \in Calls, NEW s2 \in Services, NEW c, Calling(q, d2, s2),
             Touch(c, d2, s2), q = p => c = o.conf, Leaves(o, d, s)
      PROVE  Leaves(o, d, s)'
  <2>1. Head(todo[q]).svc \in op[q].svcs /\ Head(todo[q]).do \in Plan(op[q])
    BY <1>2, Caller
  <2>2. Head(todo[q]) = [do |-> d2, svc |-> s2]
    BY <1>2 DEF Calling
  <2>3. s2 \in op[q].svcs /\ d2 \in Plan(op[q])
    BY <2>1, <2>2
  <2>4. s = s2 => ~Undoes(c, d2, o, d)
    BY <1>2, <2>3, NotUndone, Zenon
  <2> QED BY <1>2, <1>b, <2>4, Keeps
<1>3. ASSUME NEW q \in Procs, Step(q)
      PROVE  Left(p, d, s)' \/ Leaves(o, d, s)'
  <2>1. Busy(q) /\ todo' = [todo EXCEPT ![q] = Tail(todo[q])] /\ UNCHANGED <<op, unopposed>>
    BY <1>3, Returned, Zenon DEF Returns
  <2>2. PICK d2 \in Calls, s2 \in Services : Calling(q, d2, s2) /\ Touch(op[q].conf, d2, s2)
    BY <1>3, Returned
  <2>c. PICK c : c = op[q].conf
    OBVIOUS
  <2>3. CASE Leaves(o, d, s)
    BY <1>2, <2>1, <2>2, <2>3, <2>c DEF Active
  <2>4. CASE Left(p, d, s) /\ q # p
    <3>1. todo'[p] = todo[p]
      BY <1>a, <2>1, <2>4, Zenon
    <3> QED BY <2>4, <3>1, Zenon DEF Left
  <2>5. CASE Left(p, d, s) /\ q = p
    <3>1. \/ Head(todo[p]) = [do |-> d, svc |-> s]
          \/ [do |-> d, svc |-> s] \in Elems(Tail(todo[p]))
      BY <2>1, <2>5, Caller
    <3>2. todo'[p] = Tail(todo[p])
      BY <1>a, <2>1, <2>5, Zenon
    <3>3. CASE Head(todo[p]) = [do |-> d, svc |-> s]
      <4>1. [do |-> d, svc |-> s] = [do |-> d2, svc |-> s2]
        BY <2>2, <2>5, <3>3 DEF Calling
      <4>2. d = d2 /\ s = s2
        BY <4>1
      <4> QED BY <1>b, <2>2, <2>5, <4>2, Takes, Zenon
    <3> QED BY <3>1, <3>2, <3>3, Zenon DEF Left
  <2> QED BY <2>3, <2>4, <2>5
<1>4. ASSUME NEW q \in Procs, Refused(q)
      PROVE  Left(p, d, s)' \/ Leaves(o, d, s)'
  <2>1. /\ todo' = [todo EXCEPT ![q] = <<>>] /\ answer' = [answer EXCEPT ![q] = "error"]
        /\ UNCHANGED <<disk, enabled, registered, armed>>
    BY <1>4, Zenon DEF Refused, Ends, world
  <2>2. q # p
    BY <1>a, <2>1, SMT DEF Active, Busy
  <2>3. todo'[p] = todo[p]
    BY <1>a, <2>1, <2>2, Zenon
  <2> QED BY <1>c, <2>1, <2>3
<1>5. ASSUME NEW q \in Procs, Fails(q) \/ Dies(q)
      PROVE  Left(p, d, s)' \/ Leaves(o, d, s)'
  <2>1. /\ todo' = [todo EXCEPT ![q] = <<>>] /\ UNCHANGED <<op, unopposed>>
        /\ \E a \in {"error", "none"} : answer' = [answer EXCEPT ![q] = a]
    BY <1>5, Zenon DEF Fails, Dies, Ends
  <2>2. q # p
    BY <1>a, <2>1, SMT DEF Active, Busy
  <2>3. todo'[p] = todo[p]
    BY <1>a, <2>1, <2>2, Zenon
  <2>4. CASE UNCHANGED <<disk, enabled, registered, armed>>
    BY <1>c, <2>3, <2>4
  <2>5. ASSUME NEW d2 \in Calls, NEW s2 \in Services, Calling(q, d2, s2), Touch(Torn, d2, s2)
        PROVE  Left(p, d, s)' \/ Leaves(o, d, s)'
    <3>1. CASE Left(p, d, s)
      BY <2>3, <3>1, Zenon DEF Left
    <3>2. CASE Leaves(o, d, s)
      BY <1>2, <2>1, <2>2, <2>5, <3>2 DEF Active, Calling
    <3> QED BY <3>1, <3>2
  <2> QED BY <1>5, <2>4, <2>5, HalfDone
<1>7. (\E q \in Procs : Step(q) \/ Refused(q) \/ Fails(q) \/ Dies(q))
      \/ (\E t \in Services : Exits(t) \/ CronFires(t) \/ CronRestarts(t)) => op'[p] = o
  BY StepTurns, Alone, Zenon DEF Turns
<1>6. ASSUME NEW t \in Services, Exits(t) \/ CronFires(t) \/ CronRestarts(t)
      PROVE  Left(p, d, s)' \/ Leaves(o, d, s)'
  BY <1>c, <1>6, Zenon DEF Exits, CronFires, CronRestarts
<1> QED BY <1>1, <1>3, <1>4, <1>5, <1>6, <1>7, StepCases, Zenon

\* Whose command is unopposed and has not failed was so before, unless it begins.
LEMMA WasActive ==
  ASSUME IInv, Next, NEW p \in Procs, Active(p)', \A r \in Commands : ~Begin(p, r)
  PROVE  Active(p) /\ op[p] # None /\ op'[p] = op[p]
<1>a. /\ todo \in [Procs -> Seq(Names)] /\ op \in [Procs -> Op \cup {None}]
      /\ answer \in [Procs -> {"none", "ok", "error"}] /\ Shaped
  BY DEF IInv, TypeOK, Names
<1>1. ASSUME NEW q \in Procs, NEW r \in Commands, Begin(q, r)
      PROVE  Active(p) /\ op'[p] = op[p]
  <2>1. PICK calls : /\ todo' = [todo EXCEPT ![q] = calls] /\ op' = [op EXCEPT ![q] = r]
                     /\ answer' = [answer EXCEPT ![q] = "none"]
    BY <1>1, Begins
  <2>2. q # p /\ (unopposed'[p] => unopposed[p])
    <3>1. \A t \in Procs : unopposed'[t] =
             IF t = q THEN \A t2 \in Procs : Busy(t2) => ~MayUndo(op[t2], r)
                      ELSE unopposed[t] /\ ~MayUndo(r, op[t])
      BY <1>1, Begins
    <3>2. q # p
      BY <1>1
    <3> QED BY <3>1, <3>2, Zenon
  <2>3. todo'[p] = todo[p] /\ op'[p] = op[p] /\ answer'[p] = answer[p]
    BY <1>a, <2>1, <2>2, Zenon
  <2> QED BY <2>2, <2>3, Zenon DEF Active, Busy
<1>2. ASSUME NEW q \in Procs, Turns(q)
      PROVE  Active(p) /\ op'[p] = op[p]
  <2>1. Busy(q) /\ UNCHANGED <<op, unopposed>>
    BY <1>2 DEF Turns
  <2>2. q # p => todo'[p] = todo[p] /\ answer'[p] = answer[p]
    BY <1>a, <1>2, Zenon DEF Turns
  <2> QED BY <2>1, <2>2, Zenon DEF Active, Busy
<1>3. ASSUME \/ \E s \in Services : Exits(s) \/ CronFires(s) \/ CronRestarts(s)
             \/ Reboot
      PROVE  Active(p) /\ op'[p] = op[p]
  BY <1>a, <1>3, Alone, Zenon DEF Active, Busy
<1>4. Active(p) /\ op'[p] = op[p]
  BY <1>1, <1>2, <1>3, StepCases, StepTurns
<1> QED BY <1>a, <1>4, Zenon DEF Active, Shaped

\* What a reboot leaves of a command that had succeeded.
LEMMA AfterReboot ==
  ASSUME IInv, Reboot, NEW p \in Procs, Active(p)'
  PROVE  /\ \A d, s : ~Left(p, d, s)
         /\ UNCHANGED <<disk, enabled, registered>>
         /\ armed' = [s \in Services |->
                        IF "enabled" \in armed[s] /\ disk[s].timer \notin {None, Torn}
                        THEN {"active", "enabled"} ELSE armed[s] \ {"active"}]
<1>a. todo \in [Procs -> Seq(Names)] /\ Answered
  BY DEF IInv, TypeOK, Names
<1>1. todo'[p] = <<>> /\ UNCHANGED answer
  BY DEF Reboot
<1>2. todo[p] = <<>>
  BY <1>a, <1>1, SMT DEF Active, Busy, Answered
<1>3. \A d, s : ~Left(p, d, s)
  BY <1>2, NoCalls, Zenon DEF Left
<1> QED BY <1>3, Zenon DEF Reboot

LEMMA LastingStep ==
  ASSUME IInv, Next
  PROVE  Lasting'
<1>a. /\ todo \in [Procs -> Seq(Names)] /\ op \in [Procs -> Op \cup {None}] /\ Lasting
      /\ Shaped
  BY DEF IInv, TypeOK, Names
<1> SUFFICES ASSUME NEW p \in Procs, Active(p)', NEW s \in op'[p].svcs,
                    NEW d \in Needed(op'[p]) \ {"stop"}
             PROVE  Left(p, d, s)' \/ Leaves(op[p], d, s)'
  BY Zenon DEF Lasting, Needed
<1>1. ASSUME NEW o \in Commands, Begin(p, o)
      PROVE  Left(p, d, s)'
  <2>1. PICK q : Program(q, o) /\ todo' = [todo EXCEPT ![p] = q]
    BY <1>1, Begins
  <2>2. op'[p] = o
    <3>1. op' = [op EXCEPT ![p] = o]
      BY <1>1, Begins
    <3> QED BY <1>a, <3>1, Zenon
  <2>3. todo'[p] = q
    BY <1>a, <2>1, Zenon
  <2>4. [do |-> d, svc |-> s] \in Elems(q)
    BY <2>1, <2>2, Zenon DEF Program
  <2> QED BY <2>3, <2>4, Zenon DEF Left
<1>2. ASSUME \A r \in Commands : ~Begin(p, r)
      PROVE  Left(p, d, s)' \/ Leaves(op[p], d, s)'
  <2>1. Active(p) /\ op[p] # None /\ op'[p] = op[p]
    BY <1>2, WasActive
  <2>2. PICK o : o = op[p]
    OBVIOUS
  <2>3. s \in o.svcs /\ d \in Needed(o) \ {"stop"} /\ d \in Matters(p)
    BY <2>1, <2>2, Zenon DEF Matters
  <2>4. Left(p, d, s) \/ Leaves(o, d, s)
    BY <1>a, <2>1, <2>2, <2>3, Zenon DEF Lasting
  <2>5. Left(p, d, s)' \/ Leaves(o, d, s)'
    <3>1. CASE ~Reboot
      BY <1>2, <2>1, <2>2, <2>3, <2>4, <3>1, StillThere
    <3>2. CASE Reboot
      <4>1. Leaves(o, d, s) /\ UNCHANGED <<disk, enabled, registered>>
        BY <2>4, <3>2, AfterReboot
      <4>2. d \notin {"stop_timer", "disable_timer"}
        BY <2>3, RemovalNames, SMT DEF Needed
      <4>3. d = "arm" => armed'[s] = {"active", "enabled"}
        <5>1. SUFFICES ASSUME d = "arm" PROVE armed'[s] = {"active", "enabled"}
          OBVIOUS
        <5>2. o \in Op /\ o.kind = "prepare" /\ "timer" \in Needed(o) \ {"stop"}
          BY <1>a, <2>1, <2>2, <2>3, <5>1, RemovalNames, SMT DEF Needed
        <5>3. s \in Services /\ o.conf \in Confs
          BY <1>a, <2>1, <2>2, <2>3, <5>2, Zenon DEF Shaped, Op
        <5>4. Left(p, "timer", s) \/ Leaves(o, "timer", s)
          BY <1>a, <2>1, <2>2, <2>3, <5>2, Zenon DEF Lasting
        <5>5. disk[s]["timer"] = o.conf
          BY <3>2, <5>4, AfterReboot, SMT DEF Leaves, Files
        <5>6. disk[s].timer \notin {None, Torn}
          BY <5>3, <5>5, LifecycleAssumption, Zenon DEF LifecycleAssumption
        <5>7. armed[s] = {"active", "enabled"}
          BY <4>1, <5>1 DEF Leaves
        <5>8. armed'[s] = IF "enabled" \in armed[s] /\ disk[s].timer \notin {None, Torn}
                          THEN {"active", "enabled"} ELSE armed[s] \ {"active"}
          BY <3>2, <5>3, AfterReboot
        <5> QED BY <5>6, <5>7, <5>8
      <4> QED BY <4>1, <4>2, <4>3, SMT DEF Leaves
    <3> QED BY <3>1, <3>2
  <2> QED BY <2>1, <2>2, <2>5, Zenon DEF Leaves
<1> QED BY <1>1, <1>2

-----------------------------------------------------------------------------
(* The invariant, and what it says of any number of processes and timers.  *)

LEMMA InitInvariant == Init => IInv
<1> SUFFICES ASSUME Init PROVE IInv
  OBVIOUS
<1>1. TypeOK
  BY LifecycleAssumption, NoCalls, SMT
     DEF Init, TypeOK, LifecycleAssumption, NoFiles, Files, Content, Names
<1>2. Shaped /\ Answered
  BY Zenon DEF Init, Shaped, Answered, Busy
<1>3. Planned
  BY NoCalls, Zenon DEF Init, Planned
<1>4. Unopposed /\ Lasting
  BY Zenon DEF Init, Unopposed, Lasting, Busy, Active
<1> QED BY <1>1, <1>2, <1>3, <1>4 DEF IInv

LEMMA StepInvariant == IInv /\ [Next]_vars => IInv'
<1>1. ASSUME IInv, Next PROVE IInv'
  BY <1>1, TypeStep, ShapedStep, AnsweredStep, PlannedStep, UnopposedStep,
     LastingStep DEF IInv
<1>2. ASSUME IInv, UNCHANGED vars PROVE IInv'
  <2>1. TypeOK' /\ Shaped' /\ Answered'
    BY <1>2, Zenon DEF IInv, TypeOK, Shaped, Answered, vars, world, Busy
  <2>2. Planned' /\ Unopposed'
    BY <1>2, Zenon DEF IInv, Planned, Plan, Unopposed, MayUndo, vars, world, Busy
  <2>3. Lasting'
    <3>1. UNCHANGED <<disk, enabled, armed, registered, todo, op, answer, unopposed>>
      BY <1>2 DEF vars, world
    <3>2. \A p, d, s : Left(p, d, s)' <=> Left(p, d, s)
      BY <3>1, Zenon DEF Left
    <3>3. \A o, d, s : Leaves(o, d, s)' <=> Leaves(o, d, s)
      BY <3>1, SMT DEF Leaves
    <3>4. \A p : Active(p)' <=> Active(p)
      BY <3>1, Zenon DEF Active, Busy
    <3>5. Lasting
      BY <1>2 DEF IInv
    <3> SUFFICES ASSUME NEW p \in Procs, Active(p)', NEW s \in op'[p].svcs,
                        NEW d \in Needed(op'[p]) \ {"stop"}
                 PROVE  Left(p, d, s)' \/ Leaves(op[p], d, s)'
      BY Zenon DEF Lasting, Needed
    <3>6. PICK o : o = op[p]
      OBVIOUS
    <3>7. Left(p, d, s) \/ Leaves(o, d, s)
      BY <3>1, <3>4, <3>5, <3>6, Zenon DEF Lasting
    <3>8. Left(p, d, s)' \/ Leaves(o, d, s)'
      BY <3>2, <3>3, <3>7
    <3> QED BY <3>1, <3>6, <3>8, Zenon DEF Leaves
  <2> QED BY <2>1, <2>2, <2>3 DEF IInv
<1> QED BY <1>1, <1>2

\* Types, commands and programs are as they should be, and what is needed of an
\* unopposed command is to be done or done.
THEOREM Invariant == Spec => []IInv
<1> QED BY InitInvariant, StepInvariant, PTL DEF Spec

\* Every variable keeps its type.
THEOREM Typed == Spec => []TypeOK
<1>1. IInv => TypeOK
  BY DEF IInv
<1> QED BY <1>1, Invariant, PTL

\* What is needed of a command that succeeded has been done, and is there.
LEMMA AllDone ==
  ASSUME IInv, NEW p \in Procs, NEW k, Done(p, {k})
  PROVE  /\ op[p] \in Op /\ op[p].kind = k /\ Active(p) /\ ~Busy(p)
         /\ \A d, s : ~Left(p, d, s)
         /\ \A s \in op[p].svcs, d \in Needed(op[p]) \ {"stop"} : Leaves(op[p], d, s)
<1>1. Active(p) /\ op[p].kind = k /\ unopposed[p]
  BY DEF Done, Active
<1>2. todo[p] = <<>>
  BY SMT DEF Done, IInv, Answered, Busy
<1>3. \A d, s : ~Left(p, d, s)
  BY <1>2, NoCalls, Zenon DEF Left
<1>4. op[p] \in Op
  BY <1>1, Zenon DEF IInv, TypeOK, Shaped
<1>5. ~Busy(p)
  BY <1>2 DEF Busy
<1> QED BY <1>1, <1>3, <1>4, <1>5, Zenon DEF IInv, Lasting

\* An app reported to be started is there for good (StartedIsComplete): its files,
\* its boot link, its timer and its entry (_prepare).
THEOREM Started == Spec => []StartedIsComplete
<1>1. ASSUME IInv, NEW p \in Procs, Done(p, {"prepare"}), NEW s \in op[p].svcs
      PROVE  /\ disk[s].unit = op[p].conf /\ disk[s].env = op[p].conf
             /\ s \in enabled /\ s \in registered
             /\ op[p].conf.cron => /\ disk[s].timer = op[p].conf
                                   /\ disk[s].cron = op[p].conf
                                   /\ armed[s] = {"active", "enabled"}
  <2>1. op[p].kind = "prepare"
        /\ \A d \in Needed(op[p]) \ {"stop"} : Leaves(op[p], d, s)
    BY <1>1, AllDone
  <2>2. /\ {"env", "unit", "enable", "register"} \subseteq Needed(op[p]) \ {"stop"}
        /\ op[p].conf.cron => {"timer", "cron", "arm"} \subseteq Needed(op[p]) \ {"stop"}
    BY <2>1, SMT DEF Needed
  <2>3. /\ Leaves(op[p], "env", s) /\ Leaves(op[p], "unit", s)
        /\ Leaves(op[p], "enable", s) /\ Leaves(op[p], "register", s)
        /\ op[p].conf.cron => /\ Leaves(op[p], "timer", s) /\ Leaves(op[p], "cron", s)
                              /\ Leaves(op[p], "arm", s)
    BY <2>1, <2>2, SMT
  <2> QED BY <2>3, SMT DEF Leaves, Files
<1>2. IInv => StartedIsComplete
  BY <1>1, Zenon DEF StartedIsComplete
<1> QED BY <1>2, Invariant, PTL

\* An entry changes only as a process makes the call that changes it.
LEMMA EntryChange ==
  ASSUME IInv, Next, NEW p \in Procs, NEW s \in Services, Steps(p), unopposed[p],
         s \in registered' <=> s \notin registered
  PROVE  /\ Calling(p, IF s \in registered THEN "unregister" ELSE "register", s)
         /\ Active(p) /\ Busy(p)
         /\ op[p].kind = (IF s \in registered THEN "delete" ELSE "prepare")
         /\ s \in op[p].svcs
         /\ \A d \in Calls : Left(p, d, s) => d \in {"register", "unregister", "show"}
<1>a. todo \in [Procs -> Seq(Names)]
  BY DEF IInv, TypeOK, Names
<1> DEFINE e == IF s \in registered THEN "unregister" ELSE "register"
<1>1. Busy(p) /\ Calling(p, e, s)
  <2>1. ASSUME NEW q \in Procs, NEW r \in Commands, Begin(q, r)
        PROVE  FALSE
    BY <2>1, Begins DEF world
  <2>2. ASSUME NEW q \in Procs, Step(q) \/ Refused(q) \/ Fails(q) \/ Dies(q)
        PROVE  q = p
    BY <1>a, <2>2, StepTurns, Zenon DEF Turns, Steps
  <2>3. ASSUME \/ \E t \in Services : Exits(t) \/ CronFires(t) \/ CronRestarts(t)
               \/ Reboot
        PROVE  FALSE
    BY <2>3, Alone
  <2>4. CASE Step(p)
    <3>1. PICK d \in Calls, t \in Services : Calling(p, d, t) /\ Touch(op[p].conf, d, t)
      BY <2>4, Returned
    <3>2. d = e /\ t = s
      BY <3>1, SMT DEF Touch
    <3> QED BY <3>1, <3>2 DEF Calling
  <2>5. CASE Fails(p) \/ Dies(p)
    <3>1. \E t \in Services :
             \/ Calling(p, "register", t) /\ registered' = registered \cup {t}
             \/ Calling(p, "unregister", t) /\ registered' = registered \ {t}
      BY <2>5, SMT DEF Fails, Dies
    <3> QED BY <3>1, SMT DEF Calling
  <2>6. CASE Refused(p)
    BY <2>6 DEF Refused, world
  <2> QED BY <2>1, <2>2, <2>3, <2>4, <2>5, <2>6, StepCases
<1>2. Head(todo[p]) = [do |-> e, svc |-> s]
  BY <1>1 DEF Calling
<1>3. Head(todo[p]).do = e /\ Head(todo[p]).svc = s
  BY <1>2
<1>4. e \in Plan(op[p]) /\ s \in op[p].svcs /\ op[p] \in Op
  BY <1>1, <1>3, Caller
<1>5. op[p].kind = IF s \in registered THEN "delete" ELSE "prepare"
  BY <1>4, RemovalNames, SMT DEF Plan, Op
<1>6. ASSUME NEW d \in Calls, Left(p, d, s)
      PROVE  d \in {"register", "unregister", "show"}
  <2>1. \/ [do |-> e, svc |-> s] = [do |-> d, svc |-> s]
        \/ [do |-> d, svc |-> s] \in Elems(Tail(todo[p]))
    BY <1>1, <1>2, <1>6, Caller
  <2>2. CASE [do |-> e, svc |-> s] = [do |-> d, svc |-> s]
    BY <2>2
  <2>3. CASE [do |-> d, svc |-> s] \in Elems(Tail(todo[p]))
    <3>1. \A x \in Elems(Tail(todo[p])) : MayFollow(e, x.do)
      BY <1>1, <1>3, Caller
    <3>2. [do |-> d, svc |-> s].do = d
      OBVIOUS
    <3>3. MayFollow(e, d)
      BY <2>3, <3>1, <3>2
    <3> QED BY <3>3, SMT DEF MayFollow
  <2> QED BY <2>1, <2>2, <2>3
<1> QED BY <1>1, <1>4, <1>5, <1>6 DEF Active

\* An app gets its entry when its files, boot link and timer are there
\* (RegisteredLast; _prepare).
THEOREM Registers == Spec => RegisteredLast
<1>1. ASSUME IInv, Next, NEW p \in Procs, NEW s \in Services, Steps(p), unopposed[p],
             s \in registered' \ registered
      PROVE  /\ disk[s].unit = op[p].conf /\ disk[s].env = op[p].conf
             /\ s \in enabled
             /\ op[p].conf.cron => armed[s] = {"active", "enabled"}
  <2>1. /\ Active(p) /\ op[p].kind = "prepare" /\ s \in op[p].svcs
        /\ \A d \in Calls : Left(p, d, s) => d \in {"register", "unregister", "show"}
    BY <1>1, EntryChange
  <2>2. \A d \in Needed(op[p]) \ {"stop"} : Left(p, d, s) \/ Leaves(op[p], d, s)
    BY <1>1, <2>1, Zenon DEF IInv, Lasting
  <2>3. /\ {"env", "unit", "enable"} \subseteq Needed(op[p]) \ {"stop"}
        /\ op[p].conf.cron => "arm" \in Needed(op[p]) \ {"stop"}
    BY <2>1, SMT DEF Needed
  <2>4. /\ ~Left(p, "env", s) /\ ~Left(p, "unit", s) /\ ~Left(p, "enable", s)
        /\ ~Left(p, "arm", s)
    BY <2>1, CallNames, SMT
  <2>5. /\ Leaves(op[p], "env", s) /\ Leaves(op[p], "unit", s) /\ Leaves(op[p], "enable", s)
        /\ op[p].conf.cron => Leaves(op[p], "arm", s)
    BY <2>2, <2>3, <2>4, SMT
  <2> QED BY <2>5, SMT DEF Leaves, Files
<1>2. IInv /\ [Next]_vars =>
         [\A p \in Procs, s \in Services :
             Steps(p) /\ unopposed[p] /\ s \in registered' \ registered =>
                 /\ disk[s].unit = op[p].conf /\ disk[s].env = op[p].conf
                 /\ s \in enabled
                 /\ op[p].conf.cron => armed[s] = {"active", "enabled"}]_vars
  BY <1>1, Zenon
<1> QED BY <1>2, Invariant, PTL DEF Spec, RegisteredLast

-----------------------------------------------------------------------------
(* One process at a time, and services without timers.                     *)
(*                                                                         *)
(* What is promised of a cron timer is kept only while the commands come   *)
(* from one zm2 process: removeUnit looks for the timer before its first   *)
(* call, and a delete that found none unlinks the file of a timer that     *)
(* another process has set in the meantime, and leaves the timer on.  What *)
(* is promised of what runs is kept only where no trigger may come: one    *)
(* that has fired restarts the service whatever a command did meanwhile.   *)

OneAtWork == \A p, q \in Procs : op[p] # None /\ op[q] # None => p = q

SoleUnopposed == \A p \in Procs : op[p] # None => unopposed[p]
TimersGone ==
    \A p \in Procs : Active(p) /\ op[p].kind = "delete" =>
        \A s \in op[p].svcs, d \in Timer : Left(p, d, s) \/ Leaves(op[p], d, s)
TimerNeeds == \A s \in Services, f \in {"timer", "unit"} : armed[s] # {} => disk[s][f] # None
StartersResolve ==
    \A p \in Procs :
        Busy(p) /\ op[p].kind \in Starters \ {"prepare"} => op[p].svcs \subseteq Resolvable
OnTime ==
    \A p \in Procs :
        op[p] # None /\ op[p].kind = "prepare" /\ op[p].conf.cron => op[p].svcs \subseteq Timed
NoneArmed == \A s \in Services \ Timed : s \notin fired /\ armed[s] = {}
HasStopped ==
    \A p \in Procs : Active(p) /\ op[p].kind \in {"stop", "delete"} =>
        \A s \in op[p].svcs \ Timed : Left(p, "stop", s) \/ run[s] = None
Counted == \A p \in Procs : op[p] # None => ops[p] > 0

Alones == OneAtWork => SoleUnopposed /\ TimersGone /\ TimerNeeds /\ StartersResolve
Plains == OnTime /\ NoneArmed /\ HasStopped
Running == OneAtWork => \A s \in Services \ Timed : run[s] # None => s \in Resolvable
JInv == IInv /\ Counted /\ Alones /\ Plains /\ Running

\* What is known of a process that makes the call of d on s.
LEMMA CallFacts ==
  ASSUME IInv, NEW p \in Procs, NEW d, NEW s, Calling(p, d, s)
  PROVE  /\ op[p] \in Op /\ op[p] # None /\ Busy(p)
         /\ d \in Plan(op[p]) /\ s \in op[p].svcs
         /\ \A e : Left(p, e, s) => e = d \/ MayFollow(d, e)
<1>1. Busy(p) /\ Head(todo[p]) = [do |-> d, svc |-> s]
  BY DEF Calling
<1>2. Head(todo[p]).do = d /\ Head(todo[p]).svc = s
  BY <1>1
<1>3. op[p] \in Op /\ op[p] # None /\ d \in Plan(op[p]) /\ s \in op[p].svcs
  BY <1>1, <1>2, Caller
<1>4. ASSUME NEW e, Left(p, e, s)
      PROVE  e = d \/ MayFollow(d, e)
  <2>1. \/ [do |-> d, svc |-> s] = [do |-> e, svc |-> s]
        \/ [do |-> e, svc |-> s] \in Elems(Tail(todo[p]))
    BY <1>1, <1>4, Caller
  <2>2. CASE [do |-> d, svc |-> s] = [do |-> e, svc |-> s]
    BY <2>2
  <2>3. CASE [do |-> e, svc |-> s] \in Elems(Tail(todo[p]))
    <3>1. \A x \in Elems(Tail(todo[p])) : MayFollow(d, x.do)
      BY <1>1, <1>2, Caller
    <3>2. [do |-> e, svc |-> s].do = e
      OBVIOUS
    <3> QED BY <2>3, <3>1, <3>2
  <2> QED BY <2>1, <2>2, <2>3
<1> QED BY <1>1, <1>3, <1>4

\* A step of a process makes its call, or a part of it, or changes nothing here.
LEMMA CallOrNot ==
  ASSUME IInv, NEW p \in Procs, Step(p) \/ Refused(p) \/ Fails(p) \/ Dies(p)
  PROVE  \/ UNCHANGED <<disk, enabled, registered, armed>>
         \/ \E d \in Calls, s \in Services, c \in {op[p].conf, Torn} :
               Calling(p, d, s) /\ Touch(c, d, s)
<1>1. CASE Step(p)
  BY <1>1, Returned
<1>2. CASE Refused(p)
  BY <1>2 DEF Refused, world
<1>3. CASE Fails(p) \/ Dies(p)
  BY <1>3, HalfDone
<1> QED BY <1>1, <1>2, <1>3

\* The command that writes a unit or a timer has a configuration to write.
LEMMA Writer ==
  ASSUME IInv, NEW p \in Procs, NEW s, NEW f \in {"unit", "timer"}, Calling(p, f, s),
         NEW c \in {op[p].conf, Torn}
  PROVE  c # None
<1>1. op[p] \in Op /\ op[p] # None /\ f \in Plan(op[p])
  BY CallFacts
<1>2. op[p].kind = "prepare"
  BY <1>1, RemovalNames, SMT DEF Plan, Op
<1> QED BY <1>1, <1>2, LifecycleAssumption DEF IInv, Shaped, LifecycleAssumption

LEMMA SoleUnopposedStep ==
  ASSUME JInv, Next, OneAtWork'
  PROVE  OneAtWork /\ SoleUnopposed'
<1>a. op \in [Procs -> Op \cup {None}] /\ IInv
  BY DEF JInv, IInv, TypeOK
<1>1. ASSUME NEW p \in Procs, NEW o \in Commands, Begin(p, o)
      PROVE  OneAtWork /\ SoleUnopposed'
  <2>1. /\ op' = [op EXCEPT ![p] = o] /\ o # None /\ ~Busy(p)
        /\ \A r \in Procs : unopposed'[r] =
              IF r = p THEN \A q \in Procs : Busy(q) => ~MayUndo(op[q], o)
                       ELSE unopposed[r] /\ ~MayUndo(o, op[r])
    BY <1>a, <1>1, Begins
  <2>2. op'[p] = o /\ \A q \in Procs \ {p} : op'[q] = op[q]
    BY <1>a, <2>1, Zenon
  <2>3. \A q \in Procs : op[q] # None => q = p
    BY <2>1, <2>2, Zenon DEF OneAtWork
  <2>4. \A q \in Procs : ~Busy(q)
    <3>1. \A q \in Procs : Busy(q) => op[q] # None
      BY <1>a, Zenon DEF IInv, Shaped
    <3> QED BY <2>1, <2>3, <3>1, Zenon
  <2>5. unopposed'[p]
    BY <2>1, <2>4, Zenon
  <2>6. \A q \in Procs : op'[q] # None => q = p
    BY <2>1, <2>2, Zenon DEF OneAtWork
  <2> QED BY <2>3, <2>5, <2>6, Zenon DEF OneAtWork, SoleUnopposed
<1>2. ASSUME UNCHANGED <<op, unopposed>>
      PROVE  OneAtWork /\ SoleUnopposed'
  BY <1>2, Zenon DEF JInv, Alones, OneAtWork, SoleUnopposed
<1> QED BY <1>a, <1>1, <1>2, StepCases, StepTurns, Alone, Zenon DEF Turns

\* While one process is at work, a delete that unlinks has turned the timer off.
LEMMA OffBefore ==
  ASSUME JInv, OneAtWork, NEW p \in Procs, NEW s \in Services, NEW d,
         d \in {"unlink_unit", "unlink_timer", "unregister"}, Calling(p, d, s)
  PROVE  armed[s] = {} /\ op[p].kind = "delete" /\ ~Left(p, "stop", s)
<1>a. armed \in [Services -> SUBSET {"active", "enabled"}] /\ IInv
  BY DEF JInv, IInv, TypeOK
<1>1. /\ op[p] \in Op /\ op[p] # None /\ Busy(p) /\ d \in Plan(op[p]) /\ s \in op[p].svcs
      /\ \A e : Left(p, e, s) => e = d \/ MayFollow(d, e)
  BY <1>a, CallFacts
<1>2. op[p].kind = "delete"
  BY <1>1, SMT DEF Plan, Op
<1>3. unopposed[p] /\ TimersGone
  BY <1>1, Zenon DEF JInv, Alones, SoleUnopposed
<1>4. \A e \in {"stop_timer", "disable_timer", "stop"} : e # d /\ ~MayFollow(d, e)
  BY RemovalNames, SMT DEF MayFollow
<1>5. \A e \in {"stop_timer", "disable_timer", "stop"} : ~Left(p, e, s)
  BY <1>1, <1>4, Zenon
<1>6. \A e \in Timer : Leaves(op[p], e, s)
  BY <1>1, <1>2, <1>3, <1>5, Zenon DEF TimersGone, Active, Timer
<1>7. "active" \notin armed[s] /\ "enabled" \notin armed[s]
  BY <1>6, SMT DEF Timer, Leaves
<1> QED BY <1>a, <1>2, <1>5, <1>7, SMT

LEMMA TimersGoneStep ==
  ASSUME JInv, Next, OneAtWork
  PROVE  TimersGone'
<1>a. /\ todo \in [Procs -> Seq(Names)] /\ op \in [Procs -> Op \cup {None}] /\ IInv
      /\ TimersGone /\ TimerNeeds
  BY DEF JInv, IInv, TypeOK, Names, Alones
<1> SUFFICES ASSUME NEW p \in Procs, Active(p)', op'[p].kind = "delete",
                    NEW s \in op'[p].svcs, NEW d \in Timer
             PROVE  Left(p, d, s)' \/ Leaves(op[p], d, s)'
  BY Zenon DEF TimersGone, Timer
<1>1. ASSUME NEW o \in Commands, Begin(p, o)
      PROVE  Left(p, d, s)' \/ Leaves(o, d, s)'
  <2>1. PICK q : Program(q, o) /\ todo' = [todo EXCEPT ![p] = q]
    BY <1>a, <1>1, Begins
  <2>2. op' = [op EXCEPT ![p] = o] /\ UNCHANGED world /\ o \in Op
    BY <1>a, <1>1, Begins
  <2>3. op'[p] = o /\ todo'[p] = q
    BY <1>a, <2>1, <2>2, Zenon
  <2>4. CASE disk[s].timer # None
    <3>1. [do |-> d, svc |-> s] \in Elems(q)
      BY <2>1, <2>3, <2>4, Zenon DEF Program
    <3> QED BY <2>3, <3>1, Zenon DEF Left
  <2>5. CASE disk[s].timer = None
    <3>1. s \in Services
      BY <2>2, <2>3, Zenon DEF Op
    <3>2. disk[s]["timer"] = None
      BY <2>5, Zenon
    <3>3. armed[s] = {}
      BY <1>a, <3>1, <3>2, Zenon DEF TimerNeeds
    <3>4. armed'[s] = {}
      BY <2>2, <3>3 DEF world
    <3> QED BY <3>4, FileNames, SMT DEF Leaves, Timer, Order
  <2> QED BY <2>4, <2>5
<1>2. ASSUME \A r \in Commands : ~Begin(p, r)
      PROVE  op'[p] = op[p] /\ (Left(p, d, s)' \/ Leaves(op[p], d, s)')
  <2>1. Active(p) /\ op[p] # None /\ op'[p] = op[p]
    BY <1>a, <1>2, WasActive
  <2>2. PICK o : o = op[p]
    OBVIOUS
  <2>3. s \in o.svcs /\ d \in Matters(p) /\ o.kind = "delete" /\ s \in Services
    BY <1>a, <2>1, <2>2, Zenon DEF Matters, Op
  <2>4. \A e \in Timer : Left(p, e, s) \/ Leaves(o, e, s)
    BY <1>a, <2>1, <2>2, <2>3, Zenon DEF TimersGone
  <2>5. CASE ~Reboot
    <3>1. Left(p, d, s)' \/ Leaves(o, d, s)'
      BY <1>a, <1>2, <2>1, <2>2, <2>3, <2>4, <2>5, StillThere
    <3> QED BY <2>1, <2>2, <3>1, SMT DEF Leaves
  <2>6. CASE Reboot
    <3>1. /\ \A e \in Timer : Leaves(o, e, s)
          /\ armed' = [t \in Services |->
                        IF "enabled" \in armed[t] /\ disk[t].timer \notin {None, Torn}
                        THEN {"active", "enabled"} ELSE armed[t] \ {"active"}]
      BY <1>a, <2>4, <2>6, AfterReboot
    <3>2. "enabled" \notin armed[s]
      BY <3>1, SMT DEF Leaves, Timer
    <3>3. "active" \notin armed'[s] /\ "enabled" \notin armed'[s]
      BY <2>3, <3>1, <3>2, SMT
    <3>4. Leaves(o, d, s)'
      BY <3>3, FileNames, SMT DEF Leaves, Timer, Order
    <3> QED BY <2>1, <2>2, <3>4, SMT DEF Leaves
  <2> QED BY <2>5, <2>6
<1>3. ASSUME NEW o \in Commands, Begin(p, o)
      PROVE  Leaves(o, d, s)' => Leaves(op[p], d, s)'
  <2>1. op' = [op EXCEPT ![p] = o]
    BY <1>a, <1>3, Begins
  <2>2. op'[p] = o
    BY <1>a, <2>1, Zenon
  <2> QED BY <2>2, SMT DEF Leaves
<1> QED BY <1>1, <1>2, <1>3

LEMMA TimerNeedsStep ==
  ASSUME JInv, Next, OneAtWork
  PROVE  TimerNeeds'
<1>a. /\ armed \in [Services -> SUBSET {"active", "enabled"}] /\ IInv /\ TimerNeeds
      /\ SoleUnopposed
  BY DEF JInv, IInv, TypeOK, Alones
<1> SUFFICES ASSUME NEW s \in Services, NEW f \in {"timer", "unit"}, armed'[s] # {}
             PROVE  disk'[s][f] # None
  BY Zenon DEF TimerNeeds
<1>b. f \in Files
  BY SMT DEF Files
<1>1. ASSUME NEW p \in Procs, NEW d \in Calls, NEW t \in Services,
             NEW c \in {op[p].conf, Torn}, Calling(p, d, t), Touch(c, d, t)
      PROVE  disk'[s][f] # None
  <2>1. disk'[s][f] = IF s = t /\ d = f THEN c
                      ELSE IF s = t /\ d = Unlinks[f] THEN None ELSE disk[s][f]
    BY <1>1, <1>b, Zenon DEF Touch
  <2>2. CASE s = t /\ d = f
    BY <1>a, <1>1, <2>1, <2>2, Writer
  <2>3. CASE s = t /\ d = Unlinks[f]
    <3>1. d \in {"unlink_unit", "unlink_timer"}
      BY <2>3 DEF Unlinks
    <3>2. armed[s] = {}
      BY <1>1, <2>3, <3>1, OffBefore
    <3>3. armed'[s] = armed[s]
      BY <1>1, <3>1, SMT DEF Touch
    <3> QED BY <3>2, <3>3
  <2>4. CASE s = t /\ d = "arm"
    <3>1. /\ op[p] \in Op /\ op[p] # None /\ Busy(p) /\ d \in Plan(op[p]) /\ s \in op[p].svcs
          /\ \A e : Left(p, e, s) => e = d \/ MayFollow(d, e)
      BY <1>a, <1>1, <2>4, CallFacts
    <3>2. op[p].kind = "prepare" /\ op[p].conf.cron /\ op[p].conf \in Confs
      <4>1. op[p].kind = "prepare"
        BY <2>4, <3>1, RemovalNames, SMT DEF Plan, Op
      <4>2. op[p].conf.cron
        BY <2>4, <3>1, <4>1, SMT DEF Plan
      <4> QED BY <1>a, <3>1, <4>1, <4>2 DEF IInv, Shaped
    <3>3. f \in Needed(op[p]) \ {"stop"}
      BY <3>2, SMT DEF Needed
    <3>4. unopposed[p] /\ Active(p)
      BY <1>a, <3>1, Zenon DEF SoleUnopposed, Active
    <3>5. ~Left(p, f, s)
      BY <2>4, <3>1, SMT DEF MayFollow
    <3>6. Leaves(op[p], f, s)
      BY <1>a, <3>1, <3>3, <3>4, <3>5, Zenon DEF IInv, Lasting
    <3>7. disk[s][f] = op[p].conf
      BY <1>b, <3>6, Zenon DEF Leaves
    <3>8. disk'[s][f] = disk[s][f]
      BY <1>b, <2>1, <2>4, FileNames, SMT DEF Order
    <3> QED BY <3>2, <3>7, <3>8, LifecycleAssumption DEF LifecycleAssumption
  <2>5. CASE ~(s = t /\ d \in {f, Unlinks[f], "arm"})
    <3>1. armed'[s] \subseteq armed[s]
      BY <1>a, <1>1, <2>5, SMT DEF Touch
    <3>2. disk'[s][f] = disk[s][f]
      BY <2>1, <2>5, Zenon
    <3>3. disk[s][f] # None
      BY <1>a, <3>1, Zenon DEF TimerNeeds
    <3> QED BY <3>2, <3>3
  <2> QED BY <2>2, <2>3, <2>4, <2>5
<1>2. CASE UNCHANGED <<disk, armed>>
  BY <1>a, <1>2, Zenon DEF TimerNeeds
<1>3. CASE Reboot
  <2>1. armed[s] # {} /\ UNCHANGED disk
    BY <1>a, <1>3, SMT DEF Reboot
  <2> QED BY <1>a, <2>1, Zenon DEF TimerNeeds
<1>4. ASSUME NEW p \in Procs, NEW o \in Commands, Begin(p, o)
      PROVE  UNCHANGED <<disk, armed>>
  BY <1>a, <1>4, Begins DEF world
<1> QED
  <2>1. ASSUME NEW p \in Procs, Step(p) \/ Refused(p) \/ Fails(p) \/ Dies(p)
        PROVE  disk'[s][f] # None
    BY <1>a, <1>1, <1>2, <2>1, CallOrNot
  <2>2. ASSUME NEW t \in Services, Exits(t) \/ CronFires(t) \/ CronRestarts(t)
        PROVE  UNCHANGED <<disk, armed>>
    BY <2>2, Zenon DEF Exits, CronFires, CronRestarts
  <2> QED BY <1>2, <1>3, <1>4, <2>1, <2>2, StepCases

LEMMA CountedStep ==
  ASSUME JInv, Next
  PROVE  Counted'
<1>a. /\ op \in [Procs -> Op \cup {None}] /\ ops \in [Procs -> 0 .. MaxOps] /\ IInv
      /\ Counted
  BY DEF JInv, IInv, TypeOK
<1>1. ASSUME NEW p \in Procs, NEW o \in Commands, Begin(p, o)
      PROVE  Counted'
  <2>1. op' = [op EXCEPT ![p] = o]
    BY <1>a, <1>1, Begins
  <2>2. ops' = [ops EXCEPT ![p] = ops[p] + 1]
    BY <1>1 DEF Begin
  <2>3. ops'[p] > 0
    BY <1>a, <2>2
  <2>4. \A q \in Procs \ {p} : op'[q] = op[q] /\ ops'[q] = ops[q]
    BY <1>a, <2>1, <2>2, Zenon
  <2> QED BY <1>a, <2>3, <2>4, Zenon DEF Counted
<1>2. ASSUME UNCHANGED <<op, ops>>
      PROVE  Counted'
  BY <1>a, <1>2, SMT DEF Counted
<1> QED BY <1>a, <1>1, <1>2, StepCases, StepTurns, Alone, Zenon DEF Turns

\* A starter is only given what can be named, and that stays.
LEMMA StartersResolveStep ==
  ASSUME JInv, Next, OneAtWork
  PROVE  StartersResolve'
<1>a. /\ todo \in [Procs -> Seq(Names)] /\ op \in [Procs -> Op \cup {None}] /\ IInv
      /\ StartersResolve
  BY DEF JInv, IInv, TypeOK, Names, Alones
<1>b. ASSUME UNCHANGED <<disk, registered>>
      PROVE  Resolvable' = Resolvable
  BY <1>b, Zenon DEF Resolvable
<1>1. ASSUME NEW p \in Procs, NEW o \in Commands, Begin(p, o)
      PROVE  StartersResolve'
  <2>a. PICK q : todo' = [todo EXCEPT ![p] = q]
    BY <1>a, <1>1, Begins
  <2>1. op' = [op EXCEPT ![p] = o] /\ UNCHANGED world
    BY <1>a, <1>1, Begins
  <2>2. o.kind \in Starters \ {"prepare"} => o.svcs \subseteq Resolvable
    BY SMT DEF Commands, Starters
  <2>3. op'[p] = o /\ \A r \in Procs \ {p} : op'[r] = op[r] /\ todo'[r] = todo[r]
    BY <1>a, <2>a, <2>1, Zenon
  <2>4. Resolvable' = Resolvable
    BY <1>b, <2>1 DEF world
  <2> QED BY <1>a, <2>2, <2>3, <2>4, Zenon DEF StartersResolve, Busy
<1>2. ASSUME NEW p \in Procs, Step(p)
      PROVE  StartersResolve'
  <2>1. Busy(p) /\ UNCHANGED op /\ todo' = [todo EXCEPT ![p] = Tail(todo[p])]
    BY <1>a, <1>2, Returned, Zenon DEF Returns
  <2>2. PICK d \in Calls, s \in Services : Calling(p, d, s) /\ Touch(op[p].conf, d, s)
    BY <1>a, <1>2, Returned
  <2>3. op[p] \in Op /\ op[p] # None /\ d \in Plan(op[p])
    BY <1>a, <2>2, CallFacts
  <2>4. ASSUME NEW q \in Procs, Busy(q)', op[q].kind \in Starters \ {"prepare"}
        PROVE  op[q].svcs \subseteq Resolvable'
    <3>1. q = p
      <4>1. q # p => Busy(q)
        BY <1>a, <2>1, <2>4, Zenon DEF Busy
      <4>2. Busy(q) => op[q] # None
        BY <1>a, Zenon DEF IInv, Shaped
      <4> QED BY <2>3, <4>1, <4>2, Zenon DEF OneAtWork
    <3>2. d \notin {"unlink_unit", "register", "unregister"}
      BY <2>3, <2>4, <3>1, SMT DEF Plan, Starters
    <3>3. d # "unit"
      BY <2>3, <2>4, <3>1, SMT DEF Plan, Starters
    <3>4. registered' = registered /\ \A t \in Services : disk'[t]["unit"] = disk[t]["unit"]
      BY <2>2, <3>2, <3>3, SMT DEF Touch, Files, Unlinks
    <3>5. op[q].svcs \subseteq Resolvable
      BY <1>a, <2>1, <2>4, <3>1, Zenon DEF StartersResolve
    <3> QED BY <3>4, <3>5, SMT DEF Resolvable
  <2> QED BY <2>1, <2>4, Zenon DEF StartersResolve
<1>3. ASSUME NEW p \in Procs, Refused(p) \/ Fails(p) \/ Dies(p)
      PROVE  StartersResolve'
  <2>1. todo' = [todo EXCEPT ![p] = <<>>] /\ UNCHANGED op
    BY <1>3, Zenon DEF Refused, Fails, Dies, Ends
  <2>2. Busy(p)
    BY <1>3, Zenon DEF Refused, Fails, Dies, Calling
  <2>3. \A q \in Procs : Busy(q) => op[q] # None
    BY <1>a, Zenon DEF IInv, Shaped
  <2>4. \A q \in Procs : ~Busy(q)'
    BY <1>a, <2>1, <2>2, <2>3, Zenon DEF OneAtWork, Busy
  <2> QED BY <2>4, Zenon DEF StartersResolve
<1>4. ASSUME NEW s \in Services, Exits(s) \/ CronFires(s) \/ CronRestarts(s)
      PROVE  StartersResolve'
  <2>1. UNCHANGED <<disk, registered, todo, op>>
    BY <1>4, Zenon DEF Exits, CronFires, CronRestarts
  <2> QED BY <1>a, <1>b, <2>1, Zenon DEF StartersResolve, Busy
<1>5. CASE Reboot
  BY <1>a, <1>5, Zenon DEF Reboot, StartersResolve, Busy
<1> QED BY <1>1, <1>2, <1>3, <1>4, <1>5, StepCases

\* Only a service that may have a timer is prepared with one.
LEMMA OnTimeStep ==
  ASSUME JInv, Next
  PROVE  OnTime'
<1>a. op \in [Procs -> Op \cup {None}] /\ IInv /\ OnTime
  BY DEF JInv, IInv, TypeOK, Plains
<1>1. ASSUME NEW p \in Procs, NEW o \in Commands, Begin(p, o)
      PROVE  OnTime'
  <2>1. op' = [op EXCEPT ![p] = o]
    BY <1>a, <1>1, Begins
  <2>2. op'[p] = o /\ \A q \in Procs \ {p} : op'[q] = op[q]
    BY <1>a, <2>1, Zenon
  <2>3. o.kind = "prepare" /\ o.conf.cron => o.svcs \subseteq Timed
    BY SMT DEF Commands
  <2> QED BY <1>a, <2>2, <2>3, Zenon DEF OnTime
<1>2. ASSUME UNCHANGED op
      PROVE  OnTime'
  BY <1>a, <1>2, Zenon DEF OnTime
<1> QED BY <1>a, <1>1, <1>2, StepCases, StepTurns, Alone, Zenon DEF Turns

\* What may have no timer has none.
LEMMA NoneArmedStep ==
  ASSUME JInv, Next
  PROVE  NoneArmed'
<1>a. /\ armed \in [Services -> SUBSET {"active", "enabled"}] /\ IInv /\ NoneArmed
      /\ OnTime
  BY DEF JInv, IInv, TypeOK, Plains
<1>1. ASSUME NEW p \in Procs, Step(p)
      PROVE  NoneArmed'
  <2>1. PICK d \in Calls, s \in Services : Calling(p, d, s) /\ Touch(op[p].conf, d, s)
    BY <1>a, <1>1, Returned
  <2>2. op[p] \in Op /\ op[p] # None /\ d \in Plan(op[p]) /\ s \in op[p].svcs
    BY <1>a, <2>1, CallFacts
  <2>3. d = "arm" => op[p].kind = "prepare" /\ op[p].conf.cron
    BY <2>2, RemovalNames, SMT DEF Plan, Op
  <2>4. d = "arm" => s \in Timed
    BY <1>a, <2>2, <2>3, Zenon DEF OnTime
  <2>5. UNCHANGED fired
    BY <1>1, Zenon DEF Step, WriteFile, Unlink, DaemonReload, Enable, Disable,
       Start, Restart, Stop, Arm, StopTimer, DisableTimer, Show, Register,
       Unregister, world
  <2> QED BY <1>a, <2>1, <2>4, <2>5, SMT DEF NoneArmed, Touch
<1>2. ASSUME NEW p \in Procs, Refused(p) \/ Fails(p) \/ Dies(p)
      PROVE  NoneArmed'
  BY <1>a, <1>2, Zenon DEF Refused, Fails, Dies, world, NoneArmed
<1>3. ASSUME NEW s \in Services, Exits(s) \/ CronFires(s) \/ CronRestarts(s)
      PROVE  NoneArmed'
  BY <1>a, <1>3, SMT DEF Exits, CronFires, CronRestarts, NoneArmed
<1>4. CASE Reboot
  BY <1>a, <1>4, SMT DEF Reboot, NoneArmed
<1>5. ASSUME NEW p \in Procs, NEW o \in Commands, Begin(p, o)
      PROVE  NoneArmed'
  BY <1>a, <1>5, Begins, Zenon DEF NoneArmed, world
<1> QED BY <1>1, <1>2, <1>3, <1>4, <1>5, StepCases

\* What the calls do to the processes of the services.
LEMMA RunChange ==
  ASSUME IInv, NEW p \in Procs, Step(p)
  PROVE  \E d \in Calls, s \in Services :
            /\ Calling(p, d, s) /\ Touch(op[p].conf, d, s)
            /\ \A t \in Services : t # s => run'[t] = run[t]
            /\ d \notin {"start", "restart", "stop"} => run'[s] = run[s]
            /\ d = "stop" => run'[s] = None
<1>a. run \in [Services -> Confs \cup {None}]
  BY DEF IInv, TypeOK
<1>1. PICK d \in Calls, s \in Services : Calling(p, d, s) /\ Touch(op[p].conf, d, s)
  BY Returned
<1>b. ASSUME NEW e, NEW t, Calling(p, e, t) PROVE e = d /\ t = s
  <2>1. [do |-> d, svc |-> s] = [do |-> e, svc |-> t]
    BY <1>1, <1>b DEF Calling
  <2> QED BY <2>1
<1>2. CASE Start(p) \/ Restart(p)
  <2>1. d \in {"start", "restart"}
    BY <1>2, <1>b, Zenon DEF Start, Restart
  <2>2. \A t \in Services : t # s => run'[t] = run[t]
    <3>1. \E e, t : Calling(p, e, t) /\ (UNCHANGED run \/ \E r : run' = [run EXCEPT ![t] = r])
      <4>1. CASE Start(p)
        BY <4>1, Zenon DEF Start
      <4>2. CASE Restart(p)
        BY <4>2, Zenon DEF Restart, Restarted
      <4> QED BY <1>2, <4>1, <4>2
    <3>2. UNCHANGED run \/ \E r : run' = [run EXCEPT ![s] = r]
      BY <1>b, <3>1, Zenon
    <3> QED BY <1>a, <3>2, Zenon
  <2> QED BY <1>1, <2>1, <2>2, SMT
<1>3. CASE Stop(p)
  <2>1. d = "stop" /\ run' = [run EXCEPT ![s] = None]
    BY <1>3, <1>b, Zenon DEF Stop
  <2>2. run'[s] = None /\ \A t \in Services : t # s => run'[t] = run[t]
    BY <1>a, <2>1, Zenon
  <2> QED BY <1>1, <2>1, <2>2, SMT
<1>4. CASE ~(Start(p) \/ Restart(p) \/ Stop(p))
  <2>1. UNCHANGED run
    BY <1>4, Zenon DEF Step, WriteFile, Unlink, DaemonReload, Enable, Disable, Arm,
       StopTimer, DisableTimer, Show, Register, Unregister, world
  <2>2. d # "stop"
    <3>1. ASSUME d = "stop" PROVE FALSE
      <4>1. \A f \in Files : f # "stop" /\ Unlinks[f] # "stop"
        BY CallNames, SMT DEF Files, Unlinks
      <4>2. \E e, t : Calling(p, e, t) /\ e # "stop"
        <5>1. CASE WriteFile(p) \/ Unlink(p)
          BY <4>1, <5>1, Zenon DEF WriteFile, Unlink
        <5>2. CASE DaemonReload(p) \/ Enable(p) \/ Disable(p)
          BY <5>2, SMT DEF DaemonReload, Enable, Disable
        <5>3. CASE Arm(p) \/ StopTimer(p) \/ DisableTimer(p)
          BY <5>3, SMT DEF Arm, StopTimer, DisableTimer
        <5>4. CASE Show(p) \/ Register(p) \/ Unregister(p)
          BY <5>4, SMT DEF Show, Register, Unregister
        <5> QED BY <1>4, <5>1, <5>2, <5>3, <5>4, Zenon DEF Step
      <4> QED BY <1>b, <3>1, <4>2, Zenon
    <3> QED BY <3>1
  <2> QED BY <1>1, <2>1, <2>2
<1> QED BY <1>2, <1>3, <1>4

\* What stopped a service stays in force: whoever starts it opposes the command.
LEMMA HasStoppedStep ==
  ASSUME JInv, Next
  PROVE  HasStopped'
<1>a. /\ todo \in [Procs -> Seq(Names)] /\ op \in [Procs -> Op \cup {None}] /\ IInv
      /\ run \in [Services -> Confs \cup {None}]
      /\ answer \in [Procs -> {"none", "ok", "error"}]
      /\ HasStopped /\ NoneArmed
  BY DEF JInv, IInv, TypeOK, Names, Plains
<1>b. IInv
  BY <1>a
<1> SUFFICES ASSUME NEW p \in Procs, Active(p)', op'[p].kind \in {"stop", "delete"},
                    NEW s \in op'[p].svcs, s \notin Timed
             PROVE  Left(p, "stop", s)' \/ run'[s] = None
  BY Zenon DEF HasStopped
<1>1. ASSUME NEW o \in Commands, Begin(p, o)
      PROVE  Left(p, "stop", s)'
  <2>1. PICK q : Program(q, o) /\ todo' = [todo EXCEPT ![p] = q]
    BY <1>b, <1>1, Begins
  <2>2. op' = [op EXCEPT ![p] = o]
    BY <1>b, <1>1, Begins
  <2>3. op'[p] = o /\ todo'[p] = q
    BY <1>a, <2>1, <2>2, Zenon
  <2>4. "stop" \in Needed(o)
    BY <2>3, SMT DEF Needed
  <2>5. [do |-> "stop", svc |-> s] \in Elems(q)
    BY <2>1, <2>3, <2>4, Zenon DEF Program
  <2> QED BY <2>3, <2>5, Zenon DEF Left
<1>2. ASSUME \A r \in Commands : ~Begin(p, r)
      PROVE  Left(p, "stop", s)' \/ run'[s] = None
  <2>1. Active(p) /\ op[p] # None /\ op'[p] = op[p]
    BY <1>a, <1>2, WasActive
  <2>2. op[p] \in Op /\ op[p].kind \in {"stop", "delete"} /\ s \in op[p].svcs /\ s \in Services
    BY <1>a, <2>1, Zenon DEF Op
  <2>3. Left(p, "stop", s) \/ run[s] = None
    BY <1>a, <2>1, <2>2, Zenon DEF HasStopped
  <2>4. ASSUME todo'[p] = todo[p], run[s] = None => run'[s] = None
        PROVE  Left(p, "stop", s)' \/ run'[s] = None
    BY <2>3, <2>4, Zenon DEF Left
  <2>5. ASSUME NEW q \in Procs, NEW o \in Commands, Begin(q, o)
        PROVE  Left(p, "stop", s)' \/ run'[s] = None
    <3>a. \E calls : Program(calls, o) /\ todo' = [todo EXCEPT ![q] = calls]
      BY <1>b, <2>5, Begins
    <3>1. PICK calls : todo' = [todo EXCEPT ![q] = calls]
      BY <3>a, Zenon
    <3>2. q # p /\ UNCHANGED world
      BY <1>b, <1>2, <2>5, Begins
    <3>3. todo'[p] = todo[p] /\ run' = run
      BY <1>a, <3>1, <3>2, Zenon DEF world
    <3> QED BY <2>4, <3>3
  <2>6. ASSUME NEW q \in Procs, Step(q)
        PROVE  Left(p, "stop", s)' \/ run'[s] = None
    <3>1. PICK d \in Calls, t \in Services :
             /\ Calling(q, d, t) /\ Touch(op[q].conf, d, t)
             /\ \A t2 \in Services : t2 # t => run'[t2] = run[t2]
             /\ d \notin {"start", "restart", "stop"} => run'[t] = run[t]
             /\ d = "stop" => run'[t] = None
      BY <1>a, <2>6, RunChange
    <3>2. Busy(q) /\ todo' = [todo EXCEPT ![q] = Tail(todo[q])]
      BY <1>a, <2>6, Returned, Zenon DEF Returns
    <3>3. op[q] \in Op /\ op[q] # None /\ d \in Plan(op[q]) /\ t \in op[q].svcs
      BY <1>a, <3>1, CallFacts
    <3>4. run[s] = None => run'[s] = None
      <4>1. CASE s # t \/ d \notin {"start", "restart"}
        BY <2>2, <3>1, <4>1, SMT
      <4>2. CASE s = t /\ d \in {"start", "restart"}
        <5>1. op[q].kind \in Starters
          BY <3>3, <4>2, RemovalNames, SMT DEF Plan, Op, Starters
        <5>2. q # p
          BY <2>2, <5>1, SMT DEF Starters
        <5>3. ~MayUndo(op[q], op[p])
          BY <1>a, <2>1, <3>2, <5>2, Zenon DEF IInv, Unopposed, Active
        <5>4. MayUndo(op[q], op[p])
          BY <2>2, <3>3, <4>2, <5>1, SMT DEF MayUndo, Starters
        <5> QED BY <5>3, <5>4
      <4> QED BY <4>1, <4>2
    <3>5. CASE q # p
      <4>1. todo'[p] = todo[p]
        BY <1>a, <3>2, <3>5, Zenon
      <4> QED BY <2>4, <3>4, <4>1
    <3>6. CASE q = p /\ run[s] = None
      BY <3>4, <3>6
    <3>7. CASE q = p /\ Left(p, "stop", s)
      <4>1. \/ Head(todo[p]) = [do |-> "stop", svc |-> s]
            \/ [do |-> "stop", svc |-> s] \in Elems(Tail(todo[p]))
        BY <1>a, <3>2, <3>7, Caller
      <4>2. CASE Head(todo[p]) = [do |-> "stop", svc |-> s]
        <5>1. [do |-> "stop", svc |-> s] = [do |-> d, svc |-> t]
          BY <3>1, <3>7, <4>2 DEF Calling
        <5>2. d = "stop" /\ t = s
          BY <5>1
        <5> QED BY <3>1, <5>2
      <4>3. todo'[p] = Tail(todo[p])
        BY <1>a, <3>2, <3>7, Zenon
      <4> QED BY <4>1, <4>2, <4>3, Zenon DEF Left
    <3> QED BY <2>3, <3>5, <3>6, <3>7
  <2>7. ASSUME NEW q \in Procs, Refused(q) \/ Fails(q) \/ Dies(q)
        PROVE  Left(p, "stop", s)' \/ run'[s] = None
    <3>1. /\ todo' = [todo EXCEPT ![q] = <<>>] /\ UNCHANGED run
          /\ \E a \in {"error", "none"} : answer' = [answer EXCEPT ![q] = a]
      BY <2>7, Zenon DEF Refused, Fails, Dies, Ends, world
    <3>2. q # p
      BY <1>a, <3>1, SMT DEF Active, Busy
    <3>3. todo'[p] = todo[p]
      BY <1>a, <3>1, <3>2, Zenon
    <3> QED BY <2>4, <3>1, <3>3
  <2>8. ASSUME NEW t \in Services, Exits(t) \/ CronFires(t) \/ CronRestarts(t)
        PROVE  Left(p, "stop", s)' \/ run'[s] = None
    <3>1. UNCHANGED todo /\ (run[s] = None => run'[s] = None)
      BY <1>a, <2>2, <2>8, SMT DEF Exits, CronFires, CronRestarts, Restarted, NoneArmed
    <3> QED BY <2>4, <3>1
  <2>9. CASE Reboot
    <3>1. \A d, t : ~Left(p, d, t)
      BY <1>a, <2>9, AfterReboot
    <3>2. "disable" \in Needed(op[p]) \ {"stop"}
      BY <2>2, SMT DEF Needed
    <3>3. s \notin enabled
      BY <1>a, <2>1, <2>2, <3>1, <3>2, Zenon DEF IInv, Lasting, Leaves
    <3>4. run'[s] = None
      BY <2>2, <2>9, <3>3, Zenon DEF Reboot
    <3> QED BY <3>4
  <2> QED BY <2>5, <2>6, <2>7, <2>8, <2>9, StepCases
<1> QED BY <1>1, <1>2

\* What runs can be named, if one process is at work and it has no timer.
LEMMA RunningStep ==
  ASSUME JInv, Next, OneAtWork
  PROVE  \A s \in Services \ Timed : run'[s] # None => s \in Resolvable'
<1>a. /\ run \in [Services -> Confs \cup {None}] /\ IInv
      /\ SoleUnopposed /\ StartersResolve /\ NoneArmed /\ HasStopped
      /\ \A s \in Services \ Timed : run[s] # None => s \in Resolvable
  BY DEF JInv, IInv, TypeOK, Alones, Plains, Running
<1> SUFFICES ASSUME NEW s \in Services, s \notin Timed, run'[s] # None
             PROVE  s \in Resolvable'
  OBVIOUS
<1>b. s \in Resolvable' <=> s \in registered' \/ disk'[s]["unit"] # None
  BY Zenon DEF Resolvable
<1>c. s \in Resolvable <=> s \in registered \/ disk[s]["unit"] # None
  BY Zenon DEF Resolvable
\* A call on a service that can be named, and that runs unless the call starts it.
<1>1. ASSUME NEW p \in Procs, NEW d \in Calls, NEW t \in Services,
             NEW c \in {op[p].conf, Torn}, Calling(p, d, t), Touch(c, d, t),
             s \in Resolvable, run[s] # None \/ (s = t /\ d \in {"start", "restart"})
      PROVE  s \in Resolvable'
  <2>1. /\ disk'[s]["unit"] = IF s = t /\ d = "unit" THEN c
                              ELSE IF s = t /\ d = "unlink_unit" THEN None
                              ELSE disk[s]["unit"]
        /\ s \in registered /\ ~(s = t /\ d = "unregister") => s \in registered'
    BY <1>1, SMT DEF Touch, Files, Unlinks
  <2>2. CASE s = t /\ d = "unit"
    <3>1. c # None
      BY <1>a, <1>1, <2>2, Writer
    <3> QED BY <1>b, <2>1, <2>2, <3>1
  <2>3. CASE s = t /\ d \in {"unlink_unit", "unregister"}
    <3>1. op[p].kind = "delete" /\ ~Left(p, "stop", s)
      BY <1>1, <2>3, OffBefore
    <3>2. op[p] # None /\ Busy(p) /\ s \in op[p].svcs
      BY <1>a, <1>1, <2>3, CallFacts
    <3>3. Active(p)
      BY <1>a, <3>2, Zenon DEF SoleUnopposed, Active
    <3>4. run[s] = None
      BY <1>a, <3>1, <3>2, <3>3, Zenon DEF HasStopped
    <3> QED BY <1>1, <2>3, <3>4, SMT
  <2>4. CASE ~(s = t /\ d \in {"unit", "unlink_unit", "unregister"})
    BY <1>b, <1>c, <1>1, <2>1, <2>4, SMT
  <2> QED BY <2>2, <2>3, <2>4
<1>2. ASSUME NEW p \in Procs, Step(p)
      PROVE  s \in Resolvable'
  <2>1. PICK d \in Calls, t \in Services :
             /\ Calling(p, d, t) /\ Touch(op[p].conf, d, t)
             /\ \A t2 \in Services : t2 # t => run'[t2] = run[t2]
             /\ d \notin {"start", "restart", "stop"} => run'[t] = run[t]
             /\ d = "stop" => run'[t] = None
    BY <1>a, <1>2, RunChange
  <2>2. CASE s = t /\ d \in {"start", "restart"}
    <3>1. /\ op[p] \in Op /\ op[p] # None /\ Busy(p) /\ d \in Plan(op[p]) /\ s \in op[p].svcs
          /\ \A e : Left(p, e, s) => e = d \/ MayFollow(d, e)
      BY <1>a, <2>1, <2>2, CallFacts
    <3>2. op[p].kind \in Starters
      BY <2>2, <3>1, RemovalNames, SMT DEF Plan, Op, Starters
    <3>3. CASE op[p].kind = "prepare"
      <4>1. ~Left(p, "unit", s)
        BY <2>2, <3>1, SMT DEF MayFollow
      <4>2. "unit" \in Needed(op[p]) \ {"stop"}
        BY <3>3, SMT DEF Needed
      <4>3. Leaves(op[p], "unit", s)
        BY <1>a, <3>1, <4>1, <4>2, Zenon DEF IInv, Lasting, SoleUnopposed, Active
      <4>4. disk[s]["unit"] = op[p].conf
        BY <4>3, SMT DEF Leaves, Files
      <4>5. op[p].conf # None
        BY <1>a, <3>1, <3>3, LifecycleAssumption DEF IInv, Shaped, LifecycleAssumption
      <4>6. s \in Resolvable
        BY <1>c, <4>4, <4>5
      <4> QED BY <1>1, <2>1, <2>2, <4>6
    <3>4. CASE op[p].kind # "prepare"
      <4>1. s \in Resolvable
        BY <1>a, <3>1, <3>2, <3>4, Zenon DEF StartersResolve
      <4> QED BY <1>1, <2>1, <2>2, <4>1
    <3> QED BY <3>3, <3>4
  <2>3. CASE ~(s = t /\ d \in {"start", "restart"})
    <3>1. run[s] # None
      BY <2>1, <2>3, SMT
    <3>2. s \in Resolvable
      BY <1>a, <3>1
    <3> QED BY <1>1, <2>1, <3>1, <3>2
  <2> QED BY <2>2, <2>3
<1>3. ASSUME NEW p \in Procs, Refused(p) \/ Fails(p) \/ Dies(p)
      PROVE  s \in Resolvable'
  <2>1. UNCHANGED run
    BY <1>3, Zenon DEF Refused, Fails, Dies, world
  <2>2. run[s] # None /\ s \in Resolvable
    BY <1>a, <2>1
  <2>3. CASE UNCHANGED <<disk, enabled, registered, armed>>
    BY <1>b, <1>c, <2>2, <2>3
  <2> QED BY <1>a, <1>1, <1>3, <2>2, <2>3, CallOrNot
<1>4. ASSUME NEW t \in Services, Exits(t) \/ CronFires(t) \/ CronRestarts(t)
      PROVE  s \in Resolvable'
  <2>1. UNCHANGED <<disk, registered>> /\ run[s] # None
    BY <1>a, <1>4, SMT DEF Exits, CronFires, CronRestarts, Restarted, NoneArmed
  <2> QED BY <1>a, <1>b, <1>c, <2>1
<1>5. CASE Reboot
  <2>1. disk' = disk /\ disk[s]["unit"] # None
    BY <1>5, SMT DEF Reboot
  <2> QED BY <1>b, <2>1
<1>6. ASSUME NEW p \in Procs, NEW o \in Commands, Begin(p, o)
      PROVE  s \in Resolvable'
  <2>1. UNCHANGED world
    BY <1>a, <1>6, Begins
  <2> QED BY <1>a, <1>b, <1>c, <2>1 DEF world
<1> QED BY <1>2, <1>3, <1>4, <1>5, <1>6, StepCases

-----------------------------------------------------------------------------
(* The stronger invariant, and what it says.                               *)

LEMMA InitStrengthened == Init => JInv
<1> SUFFICES ASSUME Init PROVE JInv
  OBVIOUS
<1>1. IInv
  BY InitInvariant
<1>2. Counted /\ SoleUnopposed /\ TimersGone /\ StartersResolve /\ HasStopped
  BY Zenon DEF Init, Counted, SoleUnopposed, TimersGone, StartersResolve,
     HasStopped, Active, Busy
<1>3. TimerNeeds /\ NoneArmed /\ OnTime
  BY Zenon DEF Init, TimerNeeds, NoneArmed, OnTime
<1>4. Running
  BY Zenon DEF Init, Running
<1> QED BY <1>1, <1>2, <1>3, <1>4 DEF JInv, Alones, Plains

LEMMA StepStrengthened == JInv /\ [Next]_vars => JInv'
<1>1. ASSUME JInv, Next PROVE JInv'
  <2>1. IInv'
    BY <1>1, StepInvariant DEF JInv
  <2>2. Counted'
    BY <1>1, CountedStep
  <2>3. OneAtWork' => OneAtWork /\ SoleUnopposed'
    BY <1>1, SoleUnopposedStep
  <2>4. OneAtWork => TimersGone' /\ TimerNeeds' /\ StartersResolve'
    BY <1>1, TimersGoneStep, TimerNeedsStep, StartersResolveStep
  <2>5. OnTime' /\ NoneArmed' /\ HasStopped'
    BY <1>1, OnTimeStep, NoneArmedStep, HasStoppedStep
  <2>6. OneAtWork => \A s \in Services \ Timed : run'[s] # None => s \in Resolvable'
    BY <1>1, RunningStep
  <2>7. Alones'
    BY <2>3, <2>4 DEF Alones
  <2>8. Plains'
    BY <2>5 DEF Plains
  <2>9. Running'
    BY <2>3, <2>6, Zenon DEF Running
  <2> QED BY <2>1, <2>2, <2>7, <2>8, <2>9 DEF JInv
<1>2. ASSUME JInv, UNCHANGED vars PROVE JInv'
  <2>0. UNCHANGED <<disk, enabled, armed, registered, run, fired, todo, op, answer, unopposed,
                    ops>>
    BY <1>2 DEF vars, world
  <2>1. IInv'
    BY <1>2, StepInvariant DEF JInv
  <2>2. Counted' /\ (OneAtWork' <=> OneAtWork) /\ (SoleUnopposed' <=> SoleUnopposed)
    BY <1>2, <2>0, Zenon DEF JInv, Counted, OneAtWork, SoleUnopposed
  <2>3. /\ Resolvable' = Resolvable /\ (TimerNeeds' <=> TimerNeeds)
        /\ (NoneArmed' <=> NoneArmed) /\ (OnTime' <=> OnTime)
    BY <2>0, Zenon DEF Resolvable, TimerNeeds, NoneArmed, OnTime
  <2>4. StartersResolve' <=> StartersResolve
    BY <2>0, <2>3, Zenon DEF StartersResolve, Busy
  <2>5. \A p, d, s : Left(p, d, s)' <=> Left(p, d, s)
    BY <2>0, Zenon DEF Left
  <2>6. \A o, d, s : Leaves(o, d, s)' <=> Leaves(o, d, s)
    BY <2>0, SMT DEF Leaves
  <2>7. \A p : Active(p)' <=> Active(p)
    BY <2>0, Zenon DEF Active, Busy
  <2>8. HasStopped => HasStopped'
    BY <2>0, <2>5, <2>7, Zenon DEF HasStopped
  <2>9. TimersGone => TimersGone'
    <3> SUFFICES ASSUME TimersGone, NEW p \in Procs, Active(p)', op'[p].kind = "delete",
                        NEW s \in op'[p].svcs, NEW d \in Timer
                 PROVE  Left(p, d, s)' \/ Leaves(op[p], d, s)'
      BY Zenon DEF TimersGone, Timer
    <3>1. PICK o : o = op[p]
      OBVIOUS
    <3>2. Left(p, d, s) \/ Leaves(o, d, s)
      BY <2>0, <2>7, <3>1, Zenon DEF TimersGone
    <3>3. Left(p, d, s)' \/ Leaves(o, d, s)'
      BY <2>5, <2>6, <3>2
    <3> QED BY <2>0, <3>1, <3>3, SMT DEF Leaves
  <2>a. Alones'
    BY <1>2, <2>2, <2>3, <2>4, <2>9 DEF JInv, Alones
  <2>b. Plains'
    BY <1>2, <2>3, <2>8 DEF JInv, Plains
  <2>c. Running'
    BY <1>2, <2>0, <2>2, <2>3, Zenon DEF JInv, Running
  <2> QED BY <2>1, <2>2, <2>a, <2>b, <2>c DEF JInv
<1> QED BY <1>1, <1>2

\* The invariant with what holds of timers and processes where one process is at
\* work, and of services that have no timer.
THEOREM Strengthened == Spec => []JInv
<1> QED BY InitStrengthened, StepStrengthened, PTL DEF Spec

\* An app that was reported to be stopped does not come back at boot, nor before
\* if it has no timer (StopSticks; _stopProcess).
THEOREM StopsForGood == Spec => []StopSticks
<1>1. ASSUME JInv, NEW p \in Procs, Done(p, {"stop"}), NEW s \in op[p].svcs
      PROVE  s \notin enabled /\ (s \notin Timed => run[s] = None)
  <2>1. /\ op[p].kind = "stop" /\ Active(p) /\ ~Left(p, "stop", s)
        /\ \A d \in Needed(op[p]) \ {"stop"} : Leaves(op[p], d, s)
    BY <1>1, AllDone DEF JInv
  <2>2. "disable" \in Needed(op[p]) \ {"stop"}
    BY <2>1, SMT DEF Needed
  <2>3. s \notin enabled
    BY <2>1, <2>2, SMT DEF Leaves
  <2>4. s \notin Timed => run[s] = None
    BY <1>1, <2>1, SMT DEF JInv, Plains, HasStopped
  <2> QED BY <2>3, <2>4
<1>2. JInv => StopSticks
  BY <1>1, Zenon DEF StopSticks
<1> QED BY <1>2, Strengthened, PTL

\* What runs without a timer can be named in a command, as long as only one zm2
\* process has been at work (Manageable; the order of removeUnit and _prepare).
THEOREM Manages == Spec => []Manageable
<1>1. ASSUME JInv, ~\E p, q \in Procs : ops[p] > 0 /\ ops[q] > 0 /\ p # q
      PROVE  \A s \in Services \ Timed : run[s] # None => s \in Resolvable
  <2>1. OneAtWork
    BY <1>1, Zenon DEF JInv, Counted, OneAtWork
  <2> QED BY <1>1, <2>1 DEF JInv, Running
<1>2. JInv => Manageable
  BY <1>1, Zenon DEF Manageable
<1> QED BY <1>2, Strengthened, PTL

\* A cron timer that is on has a unit to restart (TimerHasTarget; the order of
\* removeUnit and _prepare), unless two zm2 processes have been at work.
THEOREM TimersHaveTargets == Spec => [](OneAtWork \/ Timed = {} => TimerHasTarget)
<1>1. JInv /\ OneAtWork => TimerHasTarget
  <2> SUFFICES ASSUME JInv, OneAtWork, NEW s \in Services, armed[s] # {}
               PROVE  disk[s].unit # None
    BY Zenon DEF TimerHasTarget
  <2>1. disk[s]["unit"] # None
    BY SMT DEF JInv, Alones, TimerNeeds
  <2> QED BY <2>1
<1>2. JInv /\ Timed = {} => TimerHasTarget
  BY Zenon DEF JInv, Plains, NoneArmed, TimerHasTarget
<1> QED BY <1>1, <1>2, Strengthened, PTL

\* What is needed of a delete, done, leaves no file and no boot link.
LEMMA NothingLeft ==
  ASSUME IInv, NEW o, NEW s \in Services, o.kind = "delete",
         \A d \in Needed(o) \ {"stop", "unregister"} : Leaves(o, d, s)
  PROVE  disk[s] = NoFiles /\ s \notin enabled
<1>1. Removals \cup {"disable"} \subseteq Needed(o) \ {"stop", "unregister"}
  BY RemovalNames, SMT DEF Needed
<1>2. \A f \in Files : disk[s][f] = None
  <2> SUFFICES ASSUME NEW f \in Files PROVE disk[s][f] = None
    OBVIOUS
  <2>1. Leaves(o, Unlinks[f], s)
    BY <1>1, Zenon DEF Removals
  <2> QED BY <2>1, Zenon DEF Leaves
<1>3. disk[s] \in [Files -> Content]
  BY DEF IInv, TypeOK
<1>4. disk[s] = NoFiles
  BY <1>2, <1>3, Zenon DEF NoFiles
<1>5. s \notin enabled
  BY <1>1, SMT DEF Leaves
<1> QED BY <1>4, <1>5

\* An app reported to be deleted has no file, no boot link and no entry, whoever
\* else was at work (removeUnit, _deleteProcess).
DeletedFromDisk ==
    \A p \in Procs : Done(p, {"delete"}) => \A s \in op[p].svcs :
        disk[s] = NoFiles /\ s \notin enabled /\ s \notin registered
THEOREM DeletedAnyway == Spec => []DeletedFromDisk
<1>1. ASSUME IInv, NEW p \in Procs, Done(p, {"delete"}), NEW s \in op[p].svcs
      PROVE  disk[s] = NoFiles /\ s \notin enabled /\ s \notin registered
  <2>1. /\ op[p] \in Op /\ op[p].kind = "delete"
        /\ \A d \in Needed(op[p]) \ {"stop"} : Leaves(op[p], d, s)
    BY <1>1, AllDone
  <2>2. PICK o : o = op[p]
    OBVIOUS
  <2>3. s \in Services /\ \A d \in Needed(o) \ {"stop", "unregister"} : Leaves(o, d, s)
    BY <2>1, <2>2, Zenon DEF Op
  <2>4. disk[s] = NoFiles /\ s \notin enabled
    BY <1>1, <2>1, <2>2, <2>3, NothingLeft
  <2>5. "unregister" \in Needed(op[p]) \ {"stop"}
    BY <2>1, SMT DEF Needed
  <2>6. s \notin registered
    BY <2>1, <2>5, SMT DEF Leaves
  <2> QED BY <2>4, <2>6
<1>2. IInv => DeletedFromDisk
  BY <1>1, Zenon DEF DeletedFromDisk
<1> QED BY <1>2, Invariant, PTL

\* ... and no timer (DeletedIsGone), unless two zm2 processes have been at work.
THEOREM Deleted == Spec => [](OneAtWork \/ Timed = {} => DeletedIsGone)
<1>1. ASSUME JInv, OneAtWork \/ Timed = {}, NEW p \in Procs, Done(p, {"delete"}),
             NEW s \in op[p].svcs
      PROVE  armed[s] = {}
  <2>1. /\ op[p] \in Op /\ op[p].kind = "delete" /\ Active(p)
        /\ \A d, t : ~Left(p, d, t)
    BY <1>1, AllDone DEF JInv
  <2>2. s \in Services /\ armed \in [Services -> SUBSET {"active", "enabled"}]
    BY <2>1, <1>1, Zenon DEF Op, JInv, IInv, TypeOK
  <2>3. CASE OneAtWork
    <3>1. \A d \in Timer : Leaves(op[p], d, s)
      BY <1>1, <2>1, <2>3, Zenon DEF JInv, Alones, TimersGone
    <3> QED BY <2>2, <3>1, SMT DEF Leaves, Timer
  <2>4. CASE Timed = {}
    BY <1>1, <2>2, <2>4, Zenon DEF JInv, Plains, NoneArmed
  <2> QED BY <1>1, <2>3, <2>4
<1>2. JInv /\ DeletedFromDisk => (OneAtWork \/ Timed = {} => DeletedIsGone)
  BY <1>1, Zenon DEF DeletedIsGone, DeletedFromDisk
<1> QED BY <1>2, Strengthened, DeletedAnyway, PTL

\* An app is forgotten when nothing else of it is left (ForgottenLast;
\* _deleteProcess), if there is one zm2 process or no timer.
THEOREM Forgets ==
  ASSUME (\A p, q \in Procs : p = q) \/ Timed = {}
  PROVE  Spec => ForgottenLast
<1>1. ASSUME JInv, Next, NEW p \in Procs, NEW s \in Services, Steps(p), unopposed[p],
             s \in registered \ registered'
      PROVE  disk[s] = NoFiles /\ s \notin enabled /\ armed[s] = {}
  <2>1. /\ Active(p) /\ op[p].kind = "delete" /\ s \in op[p].svcs
        /\ Calling(p, "unregister", s)
        /\ \A d \in Calls : Left(p, d, s) => d \in {"register", "unregister", "show"}
    BY <1>1, EntryChange DEF JInv
  <2>2. PICK o : o = op[p]
    OBVIOUS
  <2>3. Needed(o) \ {"stop", "unregister"} \subseteq Calls \ {"register", "unregister", "show"}
    BY <2>1, <2>2, CallNames, RemovalNames, SMT DEF Needed
  <2>4. \A d \in Needed(o) \ {"stop"} : Left(p, d, s) \/ Leaves(o, d, s)
    BY <1>1, <2>1, <2>2, Zenon DEF JInv, IInv, Lasting
  <2>5. \A d \in Needed(o) \ {"stop", "unregister"} : Leaves(o, d, s)
    BY <2>1, <2>3, <2>4, Zenon
  <2>6. disk[s] = NoFiles /\ s \notin enabled
    BY <1>1, <2>1, <2>2, <2>5, NothingLeft DEF JInv
  <2>7. CASE \A q, r \in Procs : q = r
    <3>1. OneAtWork
      BY <2>7, Zenon DEF OneAtWork
    <3>2. armed[s] = {}
      BY <1>1, <2>1, <3>1, OffBefore
    <3> QED BY <2>6, <3>2
  <2>8. CASE Timed = {}
    BY <1>1, <2>6, <2>8, Zenon DEF JInv, Plains, NoneArmed
  <2> QED BY <2>6, <2>7, <2>8
<1>2. JInv /\ [Next]_vars =>
         [\A p \in Procs, s \in Services :
             Steps(p) /\ unopposed[p] /\ s \in registered \ registered' =>
                 disk[s] = NoFiles /\ s \notin enabled /\ armed[s] = {}]_vars
  BY <1>1, Zenon
<1> QED BY <1>2, Strengthened, PTL DEF Spec, ForgottenLast

=============================================================================
