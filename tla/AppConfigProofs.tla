--------------------------- MODULE AppConfigProofs ---------------------------
(***************************************************************************)
(* Proofs about AppConfig, RuntimeFiles and Apps.  AppConfig: the units of *)
(* a command are those it asked for.                                       *)
(* The options of a configuration are followed one by one through Valid    *)
(* (LimitIs, ToggleIs, Twice), its user and group through ResolveUser      *)
(* (StandsAsAsked, StandsAgain); the invariant says from which             *)
(* configuration each unit comes.  RuntimeFiles: what update-node makes of *)
(* an environment file is read as before but for PATH (Follows, Builds).   *)
(***************************************************************************)
EXTENDS Apps, WellFoundedInduction, TLAPS

\* A configuration whose program and interpreter are there.
Prepared(conf) == PrepareAppConf(conf) # {}
Good(conf) == SoundConf(conf) /\ GroupOfUser(conf.options)

Shaped ==
    /\ SoundCommand(cmd) /\ \A i \in DOMAIN cmd.confs : Good(cmd.confs[i])
    /\ phase \in {"verify", "start", "done", "refused"}
    /\ at \in 1..(Len(cmd.confs) + 1) /\ confs \in Seq(Configurations)
    /\ units \in [Services -> {NoUnit} \cup {Generate(c) : c \in Configurations}]
    /\ former \in [Services -> {NoUnit} \cup {Generate(c) : c \in Configurations}]
    /\ names \in [Services -> Names \cup {None}]

InOrder ==
    /\ phase = "verify" => at <= Len(cmd.confs) /\ Len(confs) = at - 1
    /\ phase = "refused" =>
           /\ Len(confs) < Len(cmd.confs)
           /\ \E i \in DOMAIN cmd.confs : VerifyConf(cmd.confs[i], cmd.root) = {}
    /\ phase \in {"start", "done"} => Len(confs) = Len(cmd.confs)
    /\ phase = "done" => at = Len(confs) + 1
    /\ \A j \in DOMAIN confs : confs[j] \in VerifyConf(cmd.confs[j], cmd.root)

\* j is the last of the configurations before a that makes the unit of s.
Makes(conf, s) == Prepared(conf) /\ ServiceName(conf) = s
Last(cs, j, s, a) ==
    /\ j \in 1..(a - 1) /\ Makes(cs[j], s)
    /\ \A k \in (j + 1)..(a - 1) : ~Makes(cs[k], s)
Nobody(cs, s, a) == \A k \in 1..(a - 1) : ~Makes(cs[k], s)
GeneratedFrom(conf, u) == \E c \in PrepareAppConf(Overridden(conf)) : u = Generate(c)

WorldSoFar ==
    /\ phase \in {"verify", "refused"} => units = former
    /\ phase \in {"verify", "refused"} /\ former = NoUnits =>
           \A s \in Services : names[s] = None
    /\ phase \in {"start", "done"} =>
           \A s \in Services :
               \/ /\ Nobody(confs, s, at)
                  /\ units[s] = former[s]
                  /\ former = NoUnits => names[s] = None
               \/ \E j \in 1..(at - 1) : /\ Last(confs, j, s, at)
                                         /\ names[s] = confs[j].name
                                         /\ GeneratedFrom(confs[j], units[s])

\* What -w wrote was verified before, and its units are those of the first start.
Again ==
    former # NoUnits =>
        /\ \A j \in DOMAIN cmd.confs :
               \E r \in Configurations : Good(r) /\ cmd.confs[j] \in VerifyConf(r, cmd.root)
        /\ \A s \in Services :
               \/ /\ Nobody(cmd.confs, s, Len(cmd.confs) + 1)
                  /\ former[s] = NoUnit /\ names[s] = None
               \/ \E j \in DOMAIN cmd.confs : /\ Last(cmd.confs, j, s, Len(cmd.confs) + 1)
                                              /\ GeneratedFrom(cmd.confs[j], former[s])
IInv == Shaped /\ InOrder /\ WorldSoFar /\ Again

-----------------------------------------------------------------------------
(* Values.                                                                  *)

LEMMA NotNamed == None # "NaN" /\ None \in Texts /\ "NaN" \in Texts
<1>1. None # "NaN"
  BY Zenon DEF None
<1> QED BY <1>1, AppConfigAssumption

LEMMA ValueFields ==
  ASSUME NEW t, NEW n, NEW x, NEW s
  PROVE  /\ Value(t, n, x, s).type = t /\ Value(t, n, x, s).n = n
         /\ Value(t, n, x, s).text = x /\ Value(t, n, x, s).items = s
  BY DEF Value

LEMMA ValueKinds ==
  /\ Undefined.type = "undefined" /\ NaN.type = "number" /\ NaN.text = "NaN" /\ NaN.n = 0
  /\ Undefined.text = None /\ Undefined.n = 0
  /\ True.type = "boolean" /\ False.type = "boolean"
  /\ True.n = 1 /\ False.n = 0
  /\ \A n : Num(n).type = "number" /\ Num(n).n = n /\ Num(n).text = None
  /\ \A n, x : Str(n, x).type = "string" /\ Str(n, x).n = n /\ Str(n, x).text = x
  /\ \A s : Arr(s).type = "array" /\ Arr(s).items = s /\ Arr(s).text = None
  BY DEF Undefined, NaN, True, False, Num, Str, Arr, Value

LEMMA ValuesDiffer ==
  /\ Undefined # NaN /\ NaN # False /\ NaN # True /\ True # False
  /\ Undefined # False /\ Undefined # True
  /\ \A n : Num(n) # Undefined /\ Num(n) # NaN /\ Num(n) # False /\ Num(n) # True
<1>1. Undefined # NaN /\ NaN # False /\ NaN # True
  BY ValueKinds
<1>2. True # False
  BY ValueKinds
<1>3. Undefined # False /\ Undefined # True
  BY ValueKinds
<1>4. ASSUME NEW n
      PROVE  Num(n) # Undefined /\ Num(n) # NaN /\ Num(n) # False /\ Num(n) # True
  BY ValueKinds, NotNamed
<1> QED BY <1>1, <1>2, <1>3, <1>4

LEMMA IsOfValues ==
  ASSUME NEW v, IsValue(v)
  PROVE  v \in Values
<1>0. <<>> \in Seq(Nat)
  OBVIOUS
<1>a. ASSUME NEW t \in {"undefined", "number", "boolean", "string", "array"},
             NEW n \in Int, NEW x \in Texts, NEW s \in Seq(Nat)
      PROVE  Value(t, n, x, s) \in Values
  BY DEF Values, Value
<1>1. CASE v \in {Undefined, NaN, True, False}
  <2>1. CASE v = Undefined
    BY <1>0, <2>1, NotNamed DEF Undefined, Value, Values
  <2>2. CASE v = NaN
    BY <1>0, <2>2, NotNamed DEF NaN, Value, Values
  <2>3. CASE v = True
    BY <1>0, <2>3, NotNamed DEF True, Value, Values
  <2>4. CASE v = False
    BY <1>0, <2>4, NotNamed DEF False, Value, Values
  <2> QED BY <1>1, <2>1, <2>2, <2>3, <2>4
<1>2. CASE v = Num(v.n) /\ v.n \in Int
  BY <1>0, <1>2, <1>a, NotNamed DEF Num
<1>3. CASE v = Str(v.n, v.text) /\ v.n \in Nat /\ v.text \in Texts
  <2>1. v.n \in Int
    BY <1>3
  <2> QED BY <1>0, <1>3, <2>1, <1>a DEF Str
<1>4. CASE v = Arr(v.items) /\ v.items \in Seq(Nat)
  BY <1>4, <1>a, NotNamed DEF Arr
<1> QED BY <1>1, <1>2, <1>3, <1>4 DEF IsValue

-----------------------------------------------------------------------------
(* One option: what Valid makes of it.                                      *)

\* The value with its number, as Valid begins.
Converted(k, v) ==
    IF v.type # "boolean" /\ "number" \in Types(k) /\ IsNumeric(v) THEN ToNumber(v) ELSE v
Refused(k, w) ==
    \/ w.type \notin Types(k)
    \/ w.type = "string" /\ k \in Scaled /\ w.text \notin Units(k)
    \/ w.type = "number" /\ w # NaN /\ TooSmall(k, w.n)

LEMMA ValidIs ==
  ASSUME NEW k, NEW v
  PROVE  Valid(k, v) =
           IF Refused(k, Converted(k, v)) THEN {}
           ELSE IF Converted(k, v).type = "string" /\ k \in Scaled
           THEN {Num(Converted(k, v).n * Seed[Converted(k, v).text])}
           ELSE {Converted(k, v)}
  BY DEF Valid, Converted, Refused

LEMMA KiloIs == Kilo \in Nat \ {0} /\ Kilo * Kilo \in Nat \ {0}
<1>1. Kilo \in Nat \ {0}
  BY AppConfigAssumption, Zenon
<1> QED BY <1>1

LEMMA SeedIs ==
  /\ Seed["K"] = Kilo /\ Seed["M"] = Kilo * Kilo /\ Seed["s"] = 1000 /\ Seed["m"] = 60000
  /\ DOMAIN Seed = {"K", "M", "s", "m"}
  /\ \A k \in Scaled : \A t \in Units(k) : t \in DOMAIN Seed /\ Seed[t] \in Nat \ {0}
  /\ \A t \in Units("min_uptime") : Seed[t] >= 100
<1>1. /\ Seed["K"] = Kilo /\ Seed["M"] = Kilo * Kilo /\ Seed["s"] = 1000 /\ Seed["m"] = 60000
      /\ DOMAIN Seed = {"K", "M", "s", "m"}
  BY DEF Seed
<1>2. Kilo \in Nat \ {0} /\ Kilo * Kilo \in Nat \ {0}
  BY KiloIs
<1>3. /\ Units("max_memory_restart") = {"K", "M"} /\ Units("min_uptime") = {"s", "m"}
      /\ Scaled = {"max_memory_restart", "min_uptime"}
  BY DEF Units, Scaled
<1> QED BY <1>1, <1>2, <1>3

LEMMA NumericIs ==
  ASSUME NEW v, IsValue(v), v.type # "array", IsNumeric(v)
  PROVE  v.type \in {"number", "string"} /\ v.text = None /\ v.n \in Int /\ ToNumber(v) = Num(v.n)
<1>1. v.n \in Int
  BY IsOfValues DEF Values
<1> QED BY <1>1 DEF IsNumeric, ToNumber

LEMMA NumbersAreNum ==
  ASSUME NEW v, IsValue(v), v.type = "number"
  PROVE  v = NaN \/ (v = Num(v.n) /\ v.n \in Int /\ v.text = None)
  BY ValueKinds DEF IsValue

\* What is neither array nor toggle is a number, or the text it was.
LEMMA ConvertedIs ==
  ASSUME NEW k, NEW v, IsValue(v)
  PROVE  /\ IsValue(Converted(k, v))
         /\ Converted(k, v) = v \/ Converted(k, v) = NaN \/ Converted(k, v) = Num(Converted(k, v).n)
         /\ Converted(k, v).type = "number" => "number" \in Types(k) \/ Converted(k, v) = v
<1>1. CASE ~(v.type # "boolean" /\ "number" \in Types(k) /\ IsNumeric(v))
  <2>1. Converted(k, v) = v
    BY <1>1 DEF Converted
  <2> QED BY <2>1
<1>2. CASE v.type # "boolean" /\ "number" \in Types(k) /\ IsNumeric(v)
  <2>1. Converted(k, v) = ToNumber(v)
    BY <1>2 DEF Converted
  <2>2. CASE v.type # "array"
    BY <1>2, <2>1, <2>2, NumericIs, ValueKinds DEF IsValue
  <2>3. CASE v.type = "array"
    <3>1. v.items \in Seq(Nat)
      BY IsOfValues DEF Values
    <3>2. ToNumber(v) = NaN \/ (ToNumber(v) = Num(v.items[1]) /\ v.items[1] \in Nat)
      BY <2>3, <3>1 DEF ToNumber
    <3> QED BY <1>2, <2>1, <3>2, ValueKinds DEF IsValue
  <2> QED BY <2>2, <2>3
<1> QED BY <1>1, <1>2

LEMMA TypesAre ==
  /\ \A k \in Durations : Types(k) = {"number"} /\ k \notin Scaled /\ \A n : ~TooSmall(k, n)
  /\ Types("max_restarts") = {"number"}
  /\ \A k \in Scaled : Types(k) = {"string", "number"}
  /\ \A n : ~TooSmall("max_memory_restart", n)
  /\ \A n \in Int : n >= 100 => ~TooSmall("min_uptime", n)
  /\ \A k \in {"cron_restart", "uid", "gid"} :
        Types(k) = {"string", "number"} /\ k \notin Scaled /\ \A n : ~TooSmall(k, n)
  /\ Types("stop_exit_codes") = {"array", "number"}
  /\ \A k \in {"autostart", "autorestart"} : Types(k) = {"boolean"} /\ k \notin Scaled
  /\ {"max_restarts", "stop_exit_codes"} \cap Scaled = {}
  BY DEF Types, Durations, Scaled, TooSmall

\* A limit is the number that was given, scaled by its unit.
LEMMA LimitIs ==
  ASSUME NEW k \in Durations \cup Scaled, NEW v, IsValue(v), v.type # "array", v # NaN,
         NEW w \in Valid(k, v)
  PROVE  w = Num(Amount(v)) /\ Amount(v) \in Int
<1> DEFINE x == Converted(k, v)
<1>0. k \in Keys /\ "number" \in Types(k) /\ Types(k) \subseteq {"number", "string"}
  BY TypesAre DEF Keys, Scaled
<1>1. ~Refused(k, x) /\ w = (IF x.type = "string" /\ k \in Scaled THEN Num(x.n * Seed[x.text]) ELSE x)
  BY ValidIs
<1>2. v.type # "boolean"
  BY <1>0, <1>1 DEF Refused, Converted
<1>3. v.n \in Int
  BY IsOfValues DEF Values
<1>4. CASE IsNumeric(v)
  <2>1. x = Num(v.n) /\ v.text = None
    BY <1>0, <1>2, <1>4, NumericIs DEF Converted
  <2>2. Amount(v) = v.n
    <3>1. None \notin DOMAIN Seed
      <4>1. None # "K" /\ None # "M" /\ None # "s" /\ None # "m"
        BY Zenon DEF None
      <4> QED BY <4>1, SeedIs
    <3> QED BY <2>1, <3>1 DEF Amount
  <2> QED BY <1>1, <1>3, <2>1, <2>2, ValueKinds
<1>5. CASE ~IsNumeric(v)
  <2>1. x = v
    BY <1>5 DEF Converted
  <2>2. v.type = "string"
    <3>1. v.type = "number" => v = NaN \/ IsNumeric(v)
      BY NumbersAreNum DEF IsNumeric
    <3> QED BY <1>0, <1>1, <1>5, <2>1, <3>1 DEF Refused
  <2>3. k \in Scaled /\ v.text \in Units(k)
    BY <1>0, <1>1, <2>1, <2>2, TypesAre DEF Refused
  <2>4. Amount(v) = v.n * Seed[v.text]
    BY <2>3, SeedIs DEF Amount
  <2>5. Seed[v.text] \in Int
    BY <2>3, SeedIs
  <2> QED BY <1>1, <1>3, <2>1, <2>2, <2>3, <2>4, <2>5
<1> QED BY <1>4, <1>5

LEMMA ToggleIs ==
  ASSUME NEW k \in {"autostart", "autorestart"}, NEW v, IsValue(v), NEW w \in Valid(k, v)
  PROVE  w = v /\ v \in {True, False}
<1>1. Converted(k, v) = v
  BY TypesAre DEF Converted
<1>2. w = v /\ v.type = "boolean"
  BY <1>1, ValidIs, TypesAre DEF Refused
<1> QED BY <1>2, ValueKinds DEF IsValue

LEMMA ValidTyped ==
  ASSUME NEW k \in Keys, NEW v, IsValue(v), NEW w \in Valid(k, v)
  PROVE  IsValue(w) /\ w.type \in Types(k) /\ (w.type = "string" => w = v /\ k \notin Scaled)
<1> DEFINE x == Converted(k, v)
<1>1. ~Refused(k, x) /\ w = (IF x.type = "string" /\ k \in Scaled THEN Num(x.n * Seed[x.text]) ELSE x)
  BY ValidIs
<1>2. IsValue(x)
  BY ConvertedIs
<1>3. CASE x.type = "string" /\ k \in Scaled
  <2>1. x.text \in Units(k)
    BY <1>1, <1>3 DEF Refused
  <2>2. Seed[x.text] \in Nat /\ x.n \in Int
    BY <1>2, <1>3, <2>1, SeedIs, IsOfValues DEF Values
  <2>3. w = Num(x.n * Seed[x.text]) /\ x.n * Seed[x.text] \in Int
    BY <1>1, <1>3, <2>2
  <2> QED BY <1>3, <2>3, ValueKinds, TypesAre DEF IsValue
<1>4. CASE ~(x.type = "string" /\ k \in Scaled)
  <2>1. w = x /\ x.type \in Types(k)
    BY <1>1, <1>4 DEF Refused
  <2>2. x = v \/ x.type = "number"
    BY ConvertedIs, ValueKinds
  <2> QED BY <1>2, <1>4, <2>1, <2>2
<1> QED BY <1>3, <1>4

\* What was valid is valid as it is, the second time too.
LEMMA Twice ==
  ASSUME NEW k \in Keys, NEW v, IsValue(v), NEW w \in Valid(k, v), w # NaN,
         Truthy(w) \/ k \notin Scaled
  PROVE  Valid(k, w) = {w}
<1> DEFINE x == Converted(k, v)
<1>1. ~Refused(k, x) /\ w = (IF x.type = "string" /\ k \in Scaled THEN Num(x.n * Seed[x.text]) ELSE x)
  BY ValidIs
<1>2. IsValue(x)
  BY ConvertedIs
<1>3. ASSUME NEW n \in Int, "number" \in Types(k)
      PROVE  Converted(k, Num(n)) = Num(n)
  BY <1>3, ValueKinds DEF Converted, IsNumeric, ToNumber
<1>4. CASE x.type = "string" /\ k \in Scaled
  <2> DEFINE m == x.n * Seed[x.text]
  <2>1. x.text \in Units(k)
    BY <1>1, <1>4 DEF Refused
  <2>2. Seed[x.text] \in Nat \ {0} /\ x.n \in Nat
    BY <1>2, <1>4, <2>1, SeedIs, ValueKinds DEF IsValue
  <2>3. w = Num(m) /\ m \in Nat
    BY <1>1, <1>4, <2>2
  <2>4. m # 0
    BY <1>4, <2>3 DEF Truthy
  <2>5. ~TooSmall(k, m)
    <3>1. CASE k = "min_uptime"
      <4>1. Seed[x.text] >= 100 /\ Seed[x.text] \in Nat
        <5>1. x.text \in Units("min_uptime") /\ Seed[x.text] \in Nat
          BY <2>1, <2>2, <3>1
        <5> HIDE DEF x
        <5> QED BY <5>1, SeedIs
      <4>2. x.n >= 1
        BY <2>2, <2>4
      <4> QED BY <2>2, <3>1, <4>1, <4>2, TypesAre
    <3>2. CASE k = "max_memory_restart"
      BY <2>3, <3>2, TypesAre
    <3> QED BY <1>4, <3>1, <3>2 DEF Scaled
  <2>6. Converted(k, w) = w
    BY <1>3, <1>4, <2>3, TypesAre
  <2>7. ~Refused(k, w)
    <3>1. w.type = "number" /\ w.n = m
      BY <2>3, ValueKinds
    <3>2. "number" \in Types(k)
      BY <1>4, TypesAre
    <3>3. ~TooSmall(k, w.n)
      BY <2>5, <3>1
    <3> QED BY <3>1, <3>2, <3>3 DEF Refused
  <2> QED BY <2>3, <2>6, <2>7, ValidIs, ValueKinds
<1>5. CASE ~(x.type = "string" /\ k \in Scaled)
  <2>1. w = x
    BY <1>1, <1>5
  <2>2. Converted(k, x) = x
    <3>1. CASE x = v
      BY <3>1 DEF Converted
    <3>2. CASE x # v
      <4>1. x = Num(x.n) /\ x.type = "number" /\ x.n \in Int
        BY <2>1, <3>2, <1>2, ConvertedIs, ValueKinds, IsOfValues DEF Values
      <4>2. "number" \in Types(k)
        BY <3>2, <4>1, ConvertedIs
      <4> QED BY <1>3, <4>1, <4>2
    <3> QED BY <3>1, <3>2
  <2> QED BY <1>1, <1>5, <2>1, <2>2, ValidIs
<1> QED BY <1>4, <1>5

-----------------------------------------------------------------------------
(* The options of a configuration.                                          *)

Option(o) == o \in [Fields -> Values] /\ \A k \in Fields : IsValue(o[k])

LEMMA KeysAre ==
  /\ Keys \subseteq Fields /\ Fields = Keys \cup {"user", "kill_signal"}
  /\ "user" \notin Keys /\ "kill_signal" \notin Keys
  /\ Durations \cup Scaled \subseteq Keys
  /\ {"max_restarts", "stop_exit_codes", "autostart", "autorestart", "cron_restart", "uid", "gid"} \subseteq Keys
  BY DEF Fields, Keys, Durations, Scaled

LEMMA LookedIs ==
  ASSUME NEW o, Option(o), NEW k \in Keys
  PROVE  /\ IsValue(Looked(o, k))
         /\ k \notin {"autostart", "autorestart", "uid", "gid"} =>
               Looked(o, k) = IF Truthy(o[k]) THEN o[k] ELSE Undefined
         /\ k \in {"autostart", "autorestart", "gid"} => Looked(o, k) = o[k]
         /\ k = "uid" => Looked(o, k) = IF Truthy(o["uid"]) THEN o["uid"]
                                        ELSE IF Truthy(o["user"]) THEN o["user"] ELSE o["uid"]
<1>1. IsValue(o[k]) /\ IsValue(o["user"]) /\ IsValue(o["uid"]) /\ IsValue(Undefined)
  BY KeysAre DEF Option, IsValue
<1> QED BY <1>1 DEF Looked

LEMMA ValidatedIs ==
  ASSUME NEW json, Option(json), NEW o \in ValidateJSON(json)
  PROVE  /\ Option(o)
         /\ \A k \in Keys : IF Looked(json, k) = Undefined THEN o[k] = Default(k)
                            ELSE o[k] \in Valid(k, Looked(json, k))
         /\ \A k \in Fields \ Keys : o[k] = Undefined
<1> DEFINE given == {k \in Keys : Looked(json, k) # Undefined}
           value(k) == CHOOSE w \in Valid(k, Looked(json, k)) : TRUE
<1>1. /\ \A k \in given : Valid(k, Looked(json, k)) # {}
      /\ o = [k \in Fields |-> IF k \in given THEN value(k)
                               ELSE IF k \in Keys THEN Default(k) ELSE Undefined]
  BY Zenon DEF ValidateJSON
<1>2. \A k \in given : value(k) \in Valid(k, Looked(json, k))
  BY <1>1, Zenon
<1>3. \A k \in given : IsValue(value(k))
  BY <1>2, LookedIs, ValidTyped
<1>4. \A k \in Keys : IsValue(Default(k))
  BY DEF Default, IsValue
<1>5. IsValue(Undefined)
  BY DEF IsValue
<1>6. \A k \in Fields : IsValue(o[k])
  BY <1>1, <1>3, <1>4, <1>5
<1>7. Option(o)
  BY <1>1, <1>6, IsOfValues DEF Option
<1> QED BY <1>1, <1>2, <1>7, KeysAre

-----------------------------------------------------------------------------
(* Users and groups.                                                        *)

Person(v) == IsValue(v) /\ v.type \in {"undefined", "number", "string"} /\ v # NaN

LEMMA EntryIs ==
  ASSUME NEW table \in {Users, Groups}, NEW v, Person(v)
  PROVE  /\ \A x, y \in Entry(table, v) : x = y
         /\ Entry(table, Undefined) = {}
         /\ v # Undefined => Entry(table, v) = Named(table, v)
         /\ \A x \in table : Entry(table, Num(x.id)) = {x}
         /\ \A x \in Entry(table, v) : x \in table /\ x.id \in Nat
<1>0. SoundTable(table) /\ \A x \in table : x.id \in Nat
  BY AppConfigAssumption DEF SoundTables
<1>1. ASSUME NEW w, NEW x \in Entry(table, w), NEW y \in Entry(table, w)
      PROVE  x = y
  BY <1>0, <1>1 DEF Entry, SoundTable
<1>2. Entry(table, Undefined) = {}
  BY <1>0, ValueKinds DEF Entry, SoundTable
<1>3. v # Undefined => v.type \in {"number", "string"}
  BY ValueKinds DEF Person, IsValue
<1>4. v # Undefined => Entry(table, v) = Named(table, v)
  BY <1>3 DEF Entry, Named
<1>5. \A x \in table : Entry(table, Num(x.id)) = {x}
  <2>1. \A x \in table : x \in Entry(table, Num(x.id))
    BY ValueKinds DEF Entry
  <2> QED BY <1>1, <2>1
<1> QED BY <1>0, <1>1, <1>2, <1>4, <1>5 DEF Entry

LEMMA Root ==
  ASSUME NEW u \in Users, u.id = 0
  PROVE  u.gid = 0 /\ \E g \in Groups : g.id = 0
  BY AppConfigAssumption DEF SoundTables, SoundTable

LEMMA Tables ==
  /\ \A u \in Users : u.id \in Nat /\ u.gid \in Nat /\ \E g \in Groups : g.id = u.gid
  /\ \A g \in Groups : g.id \in Nat
  /\ \E u \in Users : u.id = 0
  /\ \A u, w \in Users : u.id = w.id => u = w
  BY AppConfigAssumption DEF SoundTables, SoundTable

Who(o) == IF Truthy(o["uid"]) THEN o["uid"] ELSE o["user"]
Unnamed(o) == ~Truthy(o["uid"]) /\ ~Truthy(o["gid"]) /\ ~Truthy(o["user"])
GroupIds(o, u) == IF Truthy(o["gid"]) THEN {x.id : x \in Entry(Groups, o["gid"])} ELSE {u.gid}
As(o, u, g) == [o EXCEPT !["uid"] = Num(u.id), !["gid"] = Num(g)]

LEMMA ResolveUserIs ==
  ASSUME NEW o, NEW root \in BOOLEAN
  PROVE  ResolveUser(o, root) =
           IF Unnamed(o) THEN {o} ELSE IF ~root THEN {}
           ELSE UNION {{As(o, u, g) : g \in GroupIds(o, u)} : u \in Entry(Users, Who(o))}
<1>1. Unnamed(o) <=> \A k \in {"uid", "gid", "user"} : ~Truthy(o[k])
  BY DEF Unnamed
<1>2. CASE Unnamed(o)
  BY <1>1, <1>2 DEF ResolveUser
<1>3. CASE ~Unnamed(o) /\ ~root
  BY <1>1, <1>3 DEF ResolveUser
<1>4. CASE ~Unnamed(o) /\ root
  BY <1>1, <1>4, Zenon DEF ResolveUser, GroupIds, Who, As
<1> QED BY <1>2, <1>3, <1>4

LEMMA TruthIs ==
  /\ ~Truthy(Undefined) /\ ~Truthy(NaN) /\ ~Truthy(False) /\ Truthy(True)
  /\ \A n : Truthy(Num(n)) <=> n # 0
  /\ \A v : Person(v) /\ ~Truthy(v) => v \in {Undefined, Num(0)}
<1>1. ~Truthy(Undefined) /\ ~Truthy(NaN) /\ ~Truthy(False)
  BY DEF Truthy
<1>2. Truthy(True)
  BY ValueKinds DEF Truthy
<1>3. \A n : Truthy(Num(n)) <=> n # 0
  BY ValueKinds, ValuesDiffer DEF Truthy
<1>4. \A v : Person(v) /\ ~Truthy(v) => v \in {Undefined, Num(0)}
  BY ValueKinds DEF Truthy, Person
<1> QED BY <1>1, <1>2, <1>3, <1>4

\* A value of uid, gid or user that Valid takes.
LEMMA PersonValid ==
  ASSUME NEW k \in {"uid", "gid"}, NEW v, Person(v)
  PROVE  /\ \A w \in Valid(k, v) : /\ Person(w) /\ w.type \in {"number", "string"}
                                   /\ w = v \/ (w = Num(v.n) /\ v.text = None /\ v.n \in Int)
         /\ \A n \in Nat : Valid(k, Num(n)) = {Num(n)}
<1>0. "number" \in Types(k) /\ "string" \in Types(k) /\ k \notin Scaled /\ (\A n : ~TooSmall(k, n))
      /\ Types(k) = {"string", "number"} /\ k \in Keys
  BY TypesAre, KeysAre
<1>1. ASSUME NEW w \in Valid(k, v)
      PROVE  /\ Person(w) /\ w.type \in {"number", "string"}
             /\ w = v \/ (w = Num(v.n) /\ v.text = None /\ v.n \in Int)
  <2>1. w = Converted(k, v)
    BY <1>0, <1>1, ValidIs
  <2>2. IsValue(w) /\ w.type \in {"number", "string"}
    BY <1>0, ValidTyped DEF Person
  <2>3. w = v \/ (w = Num(v.n) /\ v.text = None /\ v.n \in Int)
    BY <2>1, NumericIs DEF Converted, Person
  <2> QED BY <2>2, <2>3, ValuesDiffer DEF Person
<1>2. ASSUME NEW n \in Nat
      PROVE  Valid(k, Num(n)) = {Num(n)}
  <2>1. Converted(k, Num(n)) = Num(n)
    BY <1>0, ValueKinds DEF Converted, IsNumeric, ToNumber
  <2>2. ~Refused(k, Num(n))
    BY <1>0, ValueKinds DEF Refused
  <2> QED BY <2>1, <2>2, ValidIs, <1>0
<1> QED BY <1>1, <1>2

\* Verified options stand for the user u and the group g.
Stands(o, u, g) ==
    /\ u \in Users /\ g \in {x.id : x \in Groups} /\ o["user"] = Undefined
    /\ Person(o["uid"]) /\ Person(o["gid"])
    /\ IF Truthy(o["uid"]) THEN u \in Entry(Users, o["uid"]) ELSE u.id = 0
    /\ IF Truthy(o["gid"]) THEN o["gid"] = Num(g)
       ELSE g = 0 /\ u.gid = 0 /\ o["gid"] \in {Undefined, Num(0)}
    /\ u.id = 0 \/ g = 0 => g = u.gid
\* And these are those that o0 asks for.
Asks(o0, o, u, g) ==
    LET w == IF o0["uid"] = Undefined THEN o0["user"] ELSE o0["uid"] IN
    /\ IF w = Undefined THEN ~Truthy(o["uid"]) ELSE u \in Entry(Users, w)
    /\ IF o0["gid"] = Undefined THEN g = u.gid
       ELSE \E x \in Entry(Groups, o0["gid"]) : x.id = g

Persons(o) ==
    /\ Option(o) /\ Person(o["uid"]) /\ Person(o["gid"]) /\ Person(o["user"])
    /\ \A u \in Entry(Users, o["uid"]) :
           u.id = 0 /\ Truthy(o["user"]) => u \in Entry(Users, o["user"])

LEMMA StandsAsAsked ==
  ASSUME NEW o0, Persons(o0), GroupOfUser(o0), NEW root \in BOOLEAN,
         NEW x \in ResolveUser(o0, root), NEW o \in ValidateJSON(x)
  PROVE  /\ Option(x) /\ \E u, g : Stands(o, u, g) /\ Asks(o0, o, u, g)
         /\ ~Truthy(o["uid"]) \/ root
         /\ \A k \in Fields \ {"uid", "gid"} : x[k] = o0[k]
<1>0. "uid" \in Keys /\ "gid" \in Keys /\ "user" \in Fields \ Keys /\ Keys \subseteq Fields
  BY KeysAre
<1>1. CASE Unnamed(o0)
  <2>1. x = o0 /\ Option(x)
    BY <1>1, ResolveUserIs DEF Persons
  <2>2. o0["uid"] \in {Undefined, Num(0)} /\ o0["gid"] \in {Undefined, Num(0)}
        /\ o0["user"] \in {Undefined, Num(0)}
    BY <1>1, TruthIs DEF Unnamed, Persons
  <2>3. Looked(x, "uid") = o0["uid"] /\ Looked(x, "gid") = o0["gid"]
    BY <1>0, <1>1, <2>1, LookedIs DEF Unnamed
  <2>4. /\ o["user"] = Undefined
        /\ \A k \in {"uid", "gid"} : IF Looked(x, k) = Undefined THEN o[k] = Undefined
                                     ELSE o[k] \in Valid(k, Looked(x, k))
    BY <1>0, <2>1, ValidatedIs DEF Default
  <2>5. o["uid"] = o0["uid"] /\ o["gid"] = o0["gid"]
    BY <2>2, <2>3, <2>4, PersonValid DEF Persons
  <2>6. PICK u \in Users : u.id = 0
    BY Tables
  <2>7. u.gid = 0 /\ \E g \in Groups : g.id = 0
    BY <2>6, Root
  <2>8. Stands(o, u, 0)
    <3>1. 0 \in {g.id : g \in Groups}
      BY <2>7
    <3> QED BY <1>1, <2>4, <2>5, <2>2, <2>6, <2>7, <3>1 DEF Stands, Unnamed, Persons
  <2>9. Asks(o0, o, u, 0)
    <3>1. u \in Entry(Users, Num(0))
      BY <2>6, EntryIs, TruthIs, <2>2, <2>4 DEF Persons
    <3>2. \E g \in Entry(Groups, Num(0)) : g.id = 0
      BY <2>7, EntryIs DEF Persons
    <3> QED BY <1>1, <2>2, <2>5, <2>7, <3>1, <3>2 DEF Asks, Unnamed
  <2> QED BY <1>1, <2>1, <2>5, <2>8, <2>9 DEF Unnamed
<1>2. CASE ~Unnamed(o0)
  <2>1. root /\ \E u \in Entry(Users, Who(o0)) : \E g \in GroupIds(o0, u) : x = As(o0, u, g)
    BY <1>2, ResolveUserIs
  <2>2. PICK u \in Entry(Users, Who(o0)) : \E g \in GroupIds(o0, u) : x = As(o0, u, g)
    BY <2>1
  <2>3. PICK g \in GroupIds(o0, u) : x = As(o0, u, g)
    BY <2>2
  <2>4. Person(Who(o0)) /\ u \in Users /\ u.id \in Nat /\ u.gid \in Nat
    BY <2>2, EntryIs, Tables DEF Who, Persons
  <2>5. g \in Nat /\ g \in {y.id : y \in Groups}
    <3>1. CASE Truthy(o0["gid"])
      BY <2>3, <3>1, EntryIs DEF GroupIds, Persons
    <3>2. CASE ~Truthy(o0["gid"])
      <4>1. g = u.gid
        BY <2>3, <3>2 DEF GroupIds
      <4> QED BY <2>4, <4>1, Tables
    <3> QED BY <3>1, <3>2
  <2>6. /\ x["uid"] = Num(u.id) /\ x["gid"] = Num(g)
        /\ \A k \in Fields \ {"uid", "gid"} : x[k] = o0[k]
        /\ x \in [Fields -> Values] /\ IsValue(Num(u.id)) /\ IsValue(Num(g))
    <3>1. IsValue(Num(u.id)) /\ IsValue(Num(g))
      BY <2>4, <2>5, ValueKinds DEF IsValue
    <3>2. Num(u.id) \in Values /\ Num(g) \in Values
      BY <3>1, IsOfValues
    <3> QED BY <1>0, <2>3, <3>1, <3>2 DEF As, Persons, Option
  <2>7. Option(x)
    BY <2>6 DEF Option, Persons
  <2>8. o["gid"] = Num(g)
    <3>1. Looked(x, "gid") = Num(g)
      BY <1>0, <2>6, <2>7, LookedIs
    <3> QED BY <1>0, <2>5, <2>7, <3>1, ValidatedIs, PersonValid, ValuesDiffer DEF Persons
  <2>9. o["user"] = Undefined
    BY <1>0, <2>7, ValidatedIs
  <2>10. Person(o["uid"]) /\ IF Truthy(o["uid"]) THEN u \in Entry(Users, o["uid"]) ELSE u.id = 0
    <3>1. CASE u.id # 0
      <4>1. Looked(x, "uid") = Num(u.id)
        BY <1>0, <2>6, <2>7, <3>1, LookedIs, TruthIs
      <4>2. o["uid"] = Num(u.id)
        BY <1>0, <2>4, <2>7, <4>1, ValidatedIs, PersonValid, ValuesDiffer DEF Persons
      <4>3. Person(Num(u.id))
        BY <2>6, ValueKinds, ValuesDiffer DEF Person
      <4>4. u \in Entry(Users, Num(u.id))
        BY <2>4, <4>3, EntryIs
      <4> QED BY <4>2, <4>3, <4>4, <3>1, TruthIs
    <3>2. CASE u.id = 0 /\ ~Truthy(o0["user"])
      <4>1. x["user"] = o0["user"]
        BY <1>0, <2>6, KeysAre
      <4>2. Looked(x, "uid") = Num(0)
        BY <1>0, <2>6, <2>7, <3>2, <4>1, LookedIs, TruthIs
      <4>3. o["uid"] = Num(0)
        BY <1>0, <2>7, <4>2, ValidatedIs, PersonValid, ValuesDiffer DEF Persons
      <4> QED BY <2>6, <3>2, <4>3, TruthIs, ValueKinds, ValuesDiffer DEF Person
    <3>3. CASE u.id = 0 /\ Truthy(o0["user"])
      <4>1. x["user"] = o0["user"] /\ ~Truthy(x["uid"])
        BY <1>0, <2>6, <3>3, KeysAre, TruthIs
      <4>2. Looked(x, "uid") = o0["user"]
        BY <1>0, <2>7, <3>3, <4>1, LookedIs
      <4>3. o0["user"] # Undefined
        BY <3>3, TruthIs
      <4>4. o["uid"] \in Valid("uid", o0["user"])
        BY <1>0, <2>7, <4>2, <4>3, ValidatedIs
      <4>5. u \in Entry(Users, o0["user"])
        <5>1. CASE Truthy(o0["uid"])
          BY <2>2, <3>3, <5>1 DEF Who, Persons
        <5>2. CASE ~Truthy(o0["uid"])
          BY <2>2, <5>2 DEF Who
        <5> QED BY <5>1, <5>2
      <4>6. /\ Person(o["uid"])
            /\ o["uid"] = o0["user"] \/ (/\ o["uid"] = Num(o0["user"].n)
                                         /\ o0["user"].text = None /\ o0["user"].n \in Int)
        BY <4>4, PersonValid DEF Persons
      <4>7. CASE o["uid"] = o0["user"]
        BY <3>3, <4>5, <4>6, <4>7
      <4>8. CASE o["uid"] = Num(o0["user"].n) /\ o0["user"].text = None
        <5>1. o0["user"].n = u.id
          <6>1. u.name # None
            BY <2>4, AppConfigAssumption DEF SoundTables, SoundTable
          <6> QED BY <4>5, <4>8, <6>1 DEF Entry
        <5> QED BY <3>3, <4>6, <4>8, <5>1, TruthIs
      <4> QED BY <4>6, <4>7, <4>8
    <3> QED BY <3>1, <3>2, <3>3
  <2>11. IF o0["gid"] = Undefined THEN g = u.gid
         ELSE \E y \in Entry(Groups, o0["gid"]) : y.id = g
    <3>1. CASE Truthy(o0["gid"])
      BY <2>3, <3>1, TruthIs DEF GroupIds
    <3>2. CASE o0["gid"] = Undefined
      BY <2>3, <3>2, TruthIs DEF GroupIds
    <3>3. CASE o0["gid"] = Num(0)
      <4>1. g = u.gid
        BY <2>3, <3>3, TruthIs DEF GroupIds
      <4>2. PICK r \in Groups : r.id = 0
        BY Tables, Root
      <4>3. r \in Entry(Groups, Num(0))
        BY <4>2, EntryIs DEF Persons
      <4>4. u \in Entry(Users, IF Truthy(o0["uid"]) THEN o0["uid"] ELSE o0["user"])
        BY <2>2 DEF Who
      <4>5. o0["gid"] # Undefined
        BY <3>3, ValuesDiffer
      <4>6. r.id = u.gid
        BY <3>3, <4>2, <4>3, <4>4, <4>5 DEF GroupOfUser
      <4> QED BY <3>3, <4>1, <4>2, <4>3, <4>5, <4>6
    <3> QED BY <3>1, <3>2, <3>3, TruthIs DEF Persons
  <2>12. u.id = 0 \/ g = 0 => g = u.gid
    <3>1. CASE o0["gid"] = Undefined
      BY <2>11, <3>1
    <3>2. CASE o0["gid"] # Undefined
      <4>1. PICK y \in Entry(Groups, o0["gid"]) : y.id = g
        BY <2>11, <3>2
      <4>2. u \in Entry(Users, IF Truthy(o0["uid"]) THEN o0["uid"] ELSE o0["user"])
        BY <2>2 DEF Who
      <4> QED BY <3>2, <4>1, <4>2 DEF GroupOfUser
    <3> QED BY <3>1, <3>2
  <2>13. Stands(o, u, g)
    <3>1. Person(o["gid"])
      BY <2>6, <2>8, ValueKinds, ValuesDiffer DEF Person
    <3>2. IF Truthy(o["gid"]) THEN o["gid"] = Num(g)
          ELSE g = 0 /\ u.gid = 0 /\ o["gid"] \in {Undefined, Num(0)}
      BY <2>8, <2>12, TruthIs
    <3> QED BY <2>4, <2>5, <2>9, <2>10, <2>12, <3>1, <3>2 DEF Stands
  <2>14. Asks(o0, o, u, g)
    <3> DEFINE w == IF o0["uid"] = Undefined THEN o0["user"] ELSE o0["uid"]
    <3>1. w # Undefined /\ u \in Entry(Users, w)
      <4>1. Who(o0) # Undefined
        BY <2>2, EntryIs, <2>4
      <4>2. CASE Truthy(o0["uid"]) \/ o0["uid"] = Undefined
        BY <2>2, <4>1, <4>2, TruthIs DEF Who
      <4>3. CASE o0["uid"] = Num(0)
        <5>1. w = Num(0) /\ Who(o0) = o0["user"] /\ w # Undefined
          BY <4>3, TruthIs, ValuesDiffer DEF Who
        <5>2. PICK r \in Users : r.id = 0
          BY Tables
        <5>3. r \in Entry(Users, Num(0))
          BY <5>2, EntryIs DEF Persons
        <5>4. CASE Truthy(o0["user"])
          <6>1. r \in Entry(Users, o0["user"])
            BY <4>3, <5>2, <5>3, <5>4 DEF Persons
          <6>2. r = u
            BY <2>2, <5>1, <6>1, EntryIs, <2>4
          <6> QED BY <5>1, <5>3, <6>2
        <5>5. CASE ~Truthy(o0["user"])
          <6>1. o0["user"] = Num(0)
            BY <4>1, <5>1, <5>5, TruthIs DEF Persons
          <6> QED BY <2>2, <5>1, <6>1
        <5> QED BY <5>4, <5>5
      <4> QED BY <4>2, <4>3, TruthIs DEF Persons
    <3> QED BY <2>11, <3>1 DEF Asks
  <2> QED BY <2>1, <2>6, <2>7, <2>13, <2>14
<1> QED BY <1>1, <1>2

LEMMA StandsAgain ==
  ASSUME NEW o, Option(o), NEW u, NEW g, Stands(o, u, g), NEW root \in BOOLEAN,
         ~Truthy(o["uid"]) \/ root
  PROVE  /\ \E x :
               /\ ResolveUser(o, root) = {x} /\ Option(x)
               /\ \A k \in Fields \ {"uid", "gid"} : x[k] = o[k]
               /\ Person(x["uid"]) /\ Person(x["gid"])
               /\ \A k \in {"uid", "gid"} : Looked(x, k) \in {Undefined} \cup {Num(n) : n \in Nat}
               /\ \A o2 \in ValidateJSON(x) : Stands(o2, u, g)
         /\ Persons(o) /\ GroupOfUser(o)
<1>0. "uid" \in Keys /\ "gid" \in Keys /\ "user" \in Fields \ Keys /\ Keys \subseteq Fields
  BY KeysAre
<1>a. u \in Users /\ u.id \in Nat /\ u.gid \in Nat /\ g \in Nat /\ \E y \in Groups : y.id = g
  BY Tables DEF Stands
<1>b. /\ o["user"] = Undefined /\ ~Truthy(o["user"]) /\ Person(o["user"])
      /\ Person(o["uid"]) /\ Person(o["gid"])
  BY TruthIs, ValueKinds, ValuesDiffer DEF Stands, Person, IsValue
<1>c. Persons(o)
  BY <1>b DEF Persons
<1>d. \A w \in Entry(Users, Who(o)) : w = u
  <2>1. CASE Truthy(o["uid"])
    BY <1>b, <2>1, EntryIs DEF Who, Stands
  <2>2. CASE ~Truthy(o["uid"])
    BY <1>b, <2>2, EntryIs DEF Who
  <2> QED BY <2>1, <2>2
<1>e. ASSUME NEW y \in Entry(Groups, o["gid"]), o["gid"] # Undefined
      PROVE  y.id = g
  <2>1. o["gid"] = Num(g)
    BY <1>e DEF Stands
  <2> QED BY <1>a, <1>b, <1>e, <2>1, EntryIs
<1>f. GroupOfUser(o)
  <2> SUFFICES ASSUME o["gid"] # Undefined, NEW w \in Entry(Users, Who(o)),
                      NEW y \in Entry(Groups, o["gid"]), w.id = 0 \/ y.id = 0
               PROVE  y.id = w.gid
    BY Zenon DEF GroupOfUser, Who
  <2> QED BY <1>d, <1>e DEF Stands
<1>1. CASE Unnamed(o)
  <2>1. ResolveUser(o, root) = {o}
    BY <1>1, ResolveUserIs
  <2>2. o["uid"] \in {Undefined, Num(0)} /\ o["gid"] \in {Undefined, Num(0)}
    BY <1>1, <1>b, TruthIs DEF Unnamed
  <2>3. Looked(o, "uid") = o["uid"] /\ Looked(o, "gid") = o["gid"]
    BY <1>0, <1>1, <1>b, LookedIs DEF Unnamed
  <2>4. ASSUME NEW o2 \in ValidateJSON(o)
        PROVE  Stands(o2, u, g)
    <3>1. /\ o2["user"] = Undefined
          /\ \A k \in {"uid", "gid"} : IF Looked(o, k) = Undefined THEN o2[k] = Undefined
                                       ELSE o2[k] \in Valid(k, Looked(o, k))
      BY <1>0, <2>4, ValidatedIs DEF Default
    <3>2. o2["uid"] = o["uid"] /\ o2["gid"] = o["gid"]
      BY <2>2, <2>3, <3>1, PersonValid, <1>b
    <3> QED BY <3>1, <3>2 DEF Stands
  <2> QED BY <1>b, <1>c, <1>f, <2>1, <2>2, <2>3, <2>4
<1>2. CASE ~Unnamed(o)
  <2>1. Truthy(o["uid"])
    <3>1. CASE Truthy(o["gid"])
      <4>1. g # 0
        BY <3>1, TruthIs DEF Stands
      <4> QED BY <1>a, <4>1, Root DEF Stands
    <3> QED BY <1>2, <1>b, <3>1 DEF Unnamed
  <2>2. Entry(Users, Who(o)) = {u}
    BY <1>d, <2>1 DEF Who, Stands
  <2>3. GroupIds(o, u) = {g}
    <3>1. CASE Truthy(o["gid"])
      <4>1. o["gid"] = Num(g)
        BY <3>1 DEF Stands
      <4>2. PICK y \in Groups : y.id = g
        BY <1>a
      <4>3. Entry(Groups, o["gid"]) = {y}
        BY <1>b, <4>1, <4>2, EntryIs
      <4> QED BY <3>1, <4>2, <4>3 DEF GroupIds
    <3>2. CASE ~Truthy(o["gid"])
      BY <3>2 DEF GroupIds, Stands
    <3> QED BY <3>1, <3>2
  <2> DEFINE x == As(o, u, g)
  <2>4. ResolveUser(o, root) = {x}
    <3>1. root
      BY <2>1
    <3>2. UNION {{As(o, w, h) : h \in GroupIds(o, w)} : w \in Entry(Users, Who(o))} = {x}
      BY <2>2, <2>3
    <3> QED BY <1>2, <3>1, <3>2, ResolveUserIs, Zenon
  <2>5. IsValue(Num(u.id)) /\ IsValue(Num(g)) /\ Person(Num(u.id)) /\ Person(Num(g))
    BY <1>a, ValueKinds, ValuesDiffer DEF IsValue, Person
  <2>6. /\ x["uid"] = Num(u.id) /\ x["gid"] = Num(g)
        /\ \A k \in Fields \ {"uid", "gid"} : x[k] = o[k]
        /\ x \in [Fields -> Values]
    BY <1>0, <2>5, IsOfValues DEF As, Option
  <2>7. Option(x)
    BY <2>5, <2>6 DEF Option
  <2>8. x["user"] = Undefined
    BY <1>0, <1>b, <2>6
  <2>9. Looked(x, "uid") = Num(u.id) /\ Looked(x, "gid") = Num(g)
    BY <1>0, <2>6, <2>7, <2>8, LookedIs, TruthIs
  <2>10. ASSUME NEW o2 \in ValidateJSON(x)
         PROVE  Stands(o2, u, g)
    <3>1. o2["user"] = Undefined /\ o2["uid"] = Num(u.id) /\ o2["gid"] = Num(g)
      <4>1. o2["user"] = Undefined
        BY <1>0, <2>7, <2>10, ValidatedIs
      <4>2. o2["uid"] \in Valid("uid", Num(u.id)) /\ o2["gid"] \in Valid("gid", Num(g))
        BY <1>0, <2>7, <2>9, <2>10, ValidatedIs, ValuesDiffer
      <4> QED BY <1>a, <1>b, <4>1, <4>2, PersonValid
    <3>2. IF Truthy(o2["uid"]) THEN u \in Entry(Users, o2["uid"]) ELSE u.id = 0
      BY <1>a, <2>5, <3>1, EntryIs, TruthIs
    <3>3. IF Truthy(o2["gid"]) THEN o2["gid"] = Num(g)
          ELSE g = 0 /\ u.gid = 0 /\ o2["gid"] \in {Undefined, Num(0)}
      BY <3>1, TruthIs DEF Stands
    <3> QED BY <2>5, <3>1, <3>2, <3>3 DEF Stands
  <2>11. \A k \in {"uid", "gid"} : Looked(x, k) \in {Num(n) : n \in Nat}
    BY <1>a, <2>9
  <2>12. Person(x["uid"]) /\ Person(x["gid"])
    BY <2>5, <2>6
  <2> QED BY <1>c, <1>f, <2>4, <2>6, <2>7, <2>10, <2>11, <2>12
<1> QED BY <1>1, <1>2

\* The user and the group of a unit.
LEMMA StandsInUnit ==
  ASSUME NEW c, NEW u, NEW g, Stands(c.options, u, g)
  PROVE  UserId(Generate(c)) = u.id /\ GroupId(Generate(c)) = g
<1> DEFINE o == c.options
           t == Generate(c)
<1>a. u \in Users /\ u.id \in Nat /\ g \in Nat /\ Person(o["uid"])
  BY Tables DEF Stands
<1>1. /\ t.User = IF Truthy(o["uid"]) THEN o["uid"] ELSE Undefined
      /\ t.Group = IF Truthy(o["gid"]) THEN o["gid"] ELSE Undefined
  BY TruthIs DEF Generate, Stands
<1>2. UserId(t) = u.id
  <2>1. CASE Truthy(o["uid"])
    <3>1. t.User = o["uid"] /\ t.User # Undefined
      BY <1>1, <2>1, TruthIs
    <3>2. Named(Users, t.User) = {u}
      BY <1>a, <2>1, <3>1, EntryIs DEF Stands
    <3> QED BY <3>1, <3>2 DEF UserId
  <2>2. CASE ~Truthy(o["uid"])
    BY <1>1, <2>2 DEF UserId, Stands
  <2> QED BY <2>1, <2>2
<1>3. GroupId(t) = g
  <2>1. CASE Truthy(o["gid"])
    <3>1. t.Group = Num(g) /\ t.Group # Undefined
      BY <1>1, <2>1, TruthIs DEF Stands
    <3> QED BY <3>1, ValueKinds DEF GroupId
  <2>2. CASE ~Truthy(o["gid"])
    <3>1. g = u.gid /\ t.Group = Undefined
      BY <1>1, <2>2 DEF Stands
    <3>2. OwnGroup(u.id) = u.gid
      BY <1>a, Tables DEF OwnGroup
    <3> QED BY <1>2, <3>1, <3>2 DEF GroupId
  <2> QED BY <2>1, <2>2
<1> QED BY <1>2, <1>3

-----------------------------------------------------------------------------
(* A configuration that was verified.                                       *)

LEMMA CommandIs ==
  ASSUME NEW conf \in Configurations
  PROVE  /\ AsCommand(conf) \in Configurations
         /\ AsCommand(conf).name = conf.name /\ AsCommand(conf).options = conf.options
         /\ AsCommand(conf).interpreter = conf.interpreter
         /\ IF AsCommand(conf).script = "line"
            THEN conf.script = "line" /\ "bash" \notin Found /\ "sh" \notin Found
            ELSE conf.script = "line" => /\ AsCommand(conf).script \in {"bash", "sh"}
                                         /\ AsCommand(conf).args = <<"-c", "line">>
         /\ conf.script # "line" => AsCommand(conf) = conf
<1>1. {"bash", "sh", "-c", "line"} \subseteq Texts
  BY AppConfigAssumption
<1>2. <<"-c", "line">> \in Seq(Texts)
  BY <1>1
<1> QED BY <1>1, <1>2 DEF AsCommand, Configurations

LEMMA VerifiedIs ==
  ASSUME NEW conf \in Configurations, NEW root, NEW v \in VerifyConf(conf, root)
  PROVE  /\ \E x \in ResolveUser(conf.options, root) :
               ~CronRefused(x) /\ v.options \in ValidateJSON(x)
         /\ v.name = NameOf(conf) /\ v.name \in Names /\ v.name # None
         /\ v.interpreter = conf.interpreter
         /\ v.script = AsCommand(conf).script /\ v.args = AsCommand(conf).args
         /\ v.options \in [Fields -> Values] => v \in Configurations
<1>1. PICK x \in ResolveUser(conf.options, root) :
        ~CronRefused(x) /\ \E o \in ValidateJSON(x) :
            v = [AsCommand(conf) EXCEPT !.name = NameOf(conf), !.options = o]
  BY Zenon DEF VerifyConf
<1>2. PICK o \in ValidateJSON(x) : v = [AsCommand(conf) EXCEPT !.name = NameOf(conf), !.options = o]
  BY <1>1
<1>3. NameOf(conf) \in Names /\ NameOf(conf) # None
  BY AppConfigAssumption DEF NameOf, Configurations
<1>4. AsCommand(conf) \in Configurations
  BY CommandIs
<1>5. /\ v.options = o /\ v.name = NameOf(conf)
      /\ v.interpreter = AsCommand(conf).interpreter
      /\ v.script = AsCommand(conf).script /\ v.args = AsCommand(conf).args
      /\ v.options \in [Fields -> Values] => v \in Configurations
  BY <1>2, <1>3, <1>4 DEF Configurations
<1> QED BY <1>1, <1>2, <1>3, <1>5, CommandIs

LEMMA VerifiedFrom ==
  ASSUME NEW conf, NEW root, NEW x \in ResolveUser(conf.options, root), ~CronRefused(x),
         NEW o \in ValidateJSON(x)
  PROVE  VerifyConf(conf, root) # {}
<1>1. [AsCommand(conf) EXCEPT !.name = NameOf(conf), !.options = o] \in
        {[AsCommand(conf) EXCEPT !.name = NameOf(conf), !.options = p] : p \in ValidateJSON(x)}
  OBVIOUS
<1> QED BY <1>1, Zenon DEF VerifyConf

LEMMA ToggleValid ==
  ASSUME NEW k \in {"autostart", "autorestart"}, NEW v \in {True, False}
  PROVE  Valid(k, v) = {v}
<1>1. v.type = "boolean"
  BY ValueKinds
<1>2. Converted(k, v) = v
  BY <1>1 DEF Converted
<1>3. ~Refused(k, v)
  BY <1>1, TypesAre DEF Refused
<1> QED BY <1>1, <1>2, <1>3, ValidIs

\* Options as they are given again do the same again.
SameOptions(o, o2) ==
    \A k \in Fields \ {"uid", "gid"} :
        o2[k] = o[k] \/ (k # "autorestart" /\ ~Truthy(o[k]) /\ ~Truthy(o2[k]))

LEMMA OptionsAgain ==
  ASSUME NEW x0, Option(x0), NEW o \in ValidateJSON(x0), NEW x, Option(x),
         \A k \in Fields \ {"uid", "gid"} : x[k] = o[k],
         \A k \in {"uid", "gid"} : Looked(x, k) \in {Undefined} \cup {Num(n) : n \in Nat}
  PROVE  ValidateJSON(x) # {} /\ \A o2 \in ValidateJSON(x) : SameOptions(o, o2)
<1>1. /\ \A k \in Keys : IF Looked(x0, k) = Undefined THEN o[k] = Default(k)
                         ELSE o[k] \in Valid(k, Looked(x0, k))
      /\ \A k \in Fields \ Keys : o[k] = Undefined
      /\ Option(o)
  BY ValidatedIs
<1>2. \A k \in Keys : IsValue(Looked(x0, k))
  BY LookedIs
<1>3. ASSUME NEW k \in {"autostart", "autorestart"}
      PROVE  Looked(x, k) = o[k] /\ Looked(x, k) # Undefined /\ Valid(k, Looked(x, k)) = {o[k]}
  <2>1. o[k] \in {True, False}
    <3>1. k \in Keys
      BY KeysAre
    <3>2. CASE Looked(x0, k) = Undefined
      BY <1>1, <3>1, <3>2 DEF Default
    <3>3. CASE Looked(x0, k) # Undefined
      BY <1>1, <1>2, <3>1, <3>3, ToggleIs
    <3> QED BY <3>2, <3>3
  <2>2. Looked(x, k) = o[k]
    BY KeysAre, LookedIs
  <2> QED BY <2>1, <2>2, ToggleValid, ValuesDiffer
<1>4. ASSUME NEW k \in Keys \ {"autostart", "autorestart", "uid", "gid"}
      PROVE  IF Truthy(o[k]) THEN Looked(x, k) = o[k] /\ Valid(k, o[k]) = {o[k]}
             ELSE Looked(x, k) = Undefined
  <2>1. Looked(x, k) = IF Truthy(o[k]) THEN o[k] ELSE Undefined
    BY <1>4, KeysAre, LookedIs
  <2>2. ASSUME Truthy(o[k])
        PROVE  Valid(k, o[k]) = {o[k]}
    <3>1. Default(k) = Undefined
      BY <1>4 DEF Default
    <3>2. o[k] \in Valid(k, Looked(x0, k))
      BY <1>1, <2>2, <3>1, TruthIs
    <3>3. o[k] # NaN
      BY <2>2, TruthIs
    <3> QED BY <1>2, <2>2, <3>2, <3>3, Twice
  <2> QED BY <2>1, <2>2
<1>5. ASSUME NEW k \in {"uid", "gid"}
      PROVE  Looked(x, k) = Undefined \/ Valid(k, Looked(x, k)) # {}
  <2>1. CASE Looked(x, k) # Undefined
    <3>1. PICK n \in Nat : Looked(x, k) = Num(n)
      BY <1>5, <2>1
    <3>2. Person(Undefined)
      BY ValueKinds, ValuesDiffer DEF Person, IsValue
    <3> QED BY <3>1, <3>2, PersonValid
  <2> QED BY <2>1
<1>6. ValidateJSON(x) # {}
  <2>1. ~\E k \in {l \in Keys : Looked(x, l) # Undefined} : Valid(k, Looked(x, k)) = {}
    BY <1>3, <1>4, <1>5
  <2> QED BY <2>1, Zenon DEF ValidateJSON
<1>7. ASSUME NEW o2 \in ValidateJSON(x)
      PROVE  SameOptions(o, o2)
  <2>1. /\ \A k \in Keys : IF Looked(x, k) = Undefined THEN o2[k] = Default(k)
                           ELSE o2[k] \in Valid(k, Looked(x, k))
        /\ \A k \in Fields \ Keys : o2[k] = Undefined
    BY <1>7, ValidatedIs
  <2>2. ASSUME NEW k \in {"autostart", "autorestart"}
        PROVE  o2[k] = o[k]
    BY <1>3, <2>1, KeysAre
  <2>3. ASSUME NEW k \in Keys \ {"autostart", "autorestart", "uid", "gid"}
        PROVE  o2[k] = o[k] \/ (k # "autorestart" /\ ~Truthy(o[k]) /\ ~Truthy(o2[k]))
    <3>1. CASE Truthy(o[k])
      BY <1>4, <2>1, <3>1, TruthIs
    <3>2. CASE ~Truthy(o[k])
      BY <1>4, <2>1, <2>3, <3>2, TruthIs DEF Default
    <3> QED BY <3>1, <3>2
  <2>4. \A k \in Fields \ Keys : o2[k] = o[k]
    BY <1>1, <2>1
  <2> QED BY <2>2, <2>3, <2>4, KeysAre DEF SameOptions
<1> QED BY <1>6, <1>7

\* Verified, it is as good as it was, and stands for the user who was asked for.
LEMMA VerifiedGood ==
  ASSUME NEW conf, Good(conf), NEW root \in BOOLEAN, NEW v \in VerifyConf(conf, root)
  PROVE  /\ Good(v) /\ NameOf(v) = v.name /\ v.name = NameOf(conf)
         /\ \E u, g : Stands(v.options, u, g) /\ Asks(conf.options, v.options, u, g)
         /\ ~Truthy(v.options["uid"]) \/ root
<1> DEFINE o == v.options
<1>1. conf \in Configurations /\ Persons(conf.options) /\ GroupOfUser(conf.options)
  <2>1. conf \in Configurations /\ GroupOfUser(conf.options) /\ SoundConf(conf)
    BY DEF Good, SoundConf
  <2>2. Persons(conf.options)
    <3>1. "uid" \in Fields /\ "gid" \in Fields /\ "user" \in Fields
      BY KeysAre
    <3>2. conf.options \in [Fields -> Values]
      BY <2>1 DEF Configurations
    <3> QED BY <2>1, <3>1, <3>2 DEF SoundConf, Persons, Option, Person
  <2> QED BY <2>1, <2>2
<1>2. PICK x \in ResolveUser(conf.options, root) : ~CronRefused(x) /\ o \in ValidateJSON(x)
  BY <1>1, VerifiedIs
<1>3. Option(x) /\ (\E u, g : Stands(o, u, g) /\ Asks(conf.options, o, u, g))
      /\ (~Truthy(o["uid"]) \/ root)
      /\ \A k \in Fields \ {"uid", "gid"} : x[k] = conf.options[k]
  BY <1>1, <1>2, StandsAsAsked
<1>4. Option(o)
  BY <1>2, <1>3, ValidatedIs
<1>5. Persons(o) /\ GroupOfUser(o)
  <2>1. PICK u, g : Stands(o, u, g)
    BY <1>3
  <2> QED BY <1>3, <1>4, <2>1, StandsAgain
<1>6. v \in Configurations /\ v.name = NameOf(conf) /\ v.name # None
  <2>1. o \in [Fields -> Values]
    BY <1>4 DEF Option
  <2>2. /\ v.name = NameOf(conf) /\ v.name # None
        /\ v.options \in [Fields -> Values] => v \in Configurations
    BY <1>1, VerifiedIs
  <2> QED BY <2>1, <2>2
<1>7. ASSUME NEW k \in Durations \cup Scaled
      PROVE  o[k].type # "array"
  <2>1. k \in Keys /\ Default(k) = Undefined
    BY KeysAre DEF Default, Durations, Scaled
  <2>2. CASE Looked(x, k) = Undefined
    <3>1. o[k] = Undefined
      BY <1>2, <1>3, <2>1, <2>2, ValidatedIs
    <3> QED BY <3>1, ValueKinds
  <2>3. CASE Looked(x, k) # Undefined
    <3>1. o[k] \in Valid(k, Looked(x, k)) /\ IsValue(Looked(x, k))
      BY <1>2, <1>3, <2>1, <2>3, ValidatedIs, LookedIs
    <3>2. o[k].type \in Types(k)
      BY <2>1, <3>1, ValidTyped
    <3>3. "array" \notin Types(k)
      BY TypesAre
    <3> QED BY <3>2, <3>3
  <2> QED BY <2>2, <2>3
<1>8. v.script = "line" => BashIsUsual
  <2>1. v.script = AsCommand(conf).script
    BY <1>1, VerifiedIs
  <2>2. v.script = "line" => conf.script = "line"
    BY <1>1, <2>1, CommandIs
  <2> QED BY <2>2 DEF Good, SoundConf
<1>9. SoundConf(v)
  BY <1>4, <1>5, <1>6, <1>7, <1>8, Zenon DEF SoundConf, Persons, Option, Person
<1> QED BY <1>3, <1>5, <1>6, <1>9 DEF Good, NameOf

\* The second time it is verified, and stays the same but for the way in which
\* its options say the same.
LEMMA VerifiedAgain ==
  ASSUME NEW conf, Good(conf), NEW root \in BOOLEAN, NEW v \in VerifyConf(conf, root)
  PROVE  /\ VerifyConf(v, root) # {}
         /\ \A v2 \in VerifyConf(v, root) :
               /\ v2.name = v.name /\ v2.script = v.script /\ v2.args = v.args
               /\ v2.interpreter = v.interpreter
               /\ SameOptions(v.options, v2.options)
               /\ \E u, g : Stands(v.options, u, g) /\ Stands(v2.options, u, g)
<1> DEFINE o == v.options
<1>1. Good(v) /\ conf \in Configurations /\ v \in Configurations /\ Option(o)
  BY VerifiedGood DEF Good, SoundConf, Option, Configurations
<1>2. PICK u, g : Stands(o, u, g)
  BY VerifiedGood
<1>3. ~Truthy(o["uid"]) \/ root
  BY VerifiedGood
<1>4. PICK x :
        /\ ResolveUser(o, root) = {x} /\ Option(x)
        /\ \A k \in Fields \ {"uid", "gid"} : x[k] = o[k]
        /\ Person(x["uid"]) /\ Person(x["gid"])
        /\ \A k \in {"uid", "gid"} : Looked(x, k) \in {Undefined} \cup {Num(n) : n \in Nat}
        /\ \A o2 \in ValidateJSON(x) : Stands(o2, u, g)
  BY <1>1, <1>2, <1>3, StandsAgain
<1>5. PICK x0 \in ResolveUser(conf.options, root) : ~CronRefused(x0) /\ o \in ValidateJSON(x0)
  BY <1>1, VerifiedIs
<1>6. Option(x0)
  <2>1. Persons(conf.options) /\ GroupOfUser(conf.options)
    <3>1. "uid" \in Fields /\ "gid" \in Fields /\ "user" \in Fields
      BY KeysAre
    <3>2. conf.options \in [Fields -> Values]
      BY <1>1 DEF Configurations
    <3>3. SoundConf(conf) /\ GroupOfUser(conf.options)
      BY DEF Good
    <3> QED BY <3>1, <3>2, <3>3 DEF SoundConf, Persons, Option, Person
  <2> QED BY <1>5, <2>1, StandsAsAsked
<1>7. ValidateJSON(x) # {} /\ \A o2 \in ValidateJSON(x) : SameOptions(o, o2)
  BY <1>4, <1>5, <1>6, OptionsAgain
<1>8. ~CronRefused(x)
  <2> DEFINE k == "cron_restart"
  <2>1. k \in Keys \ {"autostart", "autorestart", "uid", "gid"} /\ k \in Fields \ {"uid", "gid"}
    BY KeysAre
  <2>2. x[k] = o[k]
    BY <1>4, <2>1
  <2>3. None # "no pattern"
    BY Zenon DEF None
  <2>4. x0[k].text # "no pattern"
    BY <1>5 DEF CronRefused
  <2>5. o[k].text # "no pattern"
    <3>1. CASE Looked(x0, k) = Undefined
      <4>1. o[k] = Undefined
        BY <1>5, <1>6, <2>1, <3>1, ValidatedIs DEF Default
      <4> QED BY <2>3, <4>1, ValueKinds
    <3>2. CASE Looked(x0, k) # Undefined
      <4>1. Looked(x0, k) = x0[k] /\ IsValue(x0[k])
        BY <1>6, <2>1, <3>2, LookedIs
      <4>2. o[k] \in Valid(k, x0[k])
        BY <1>5, <1>6, <2>1, <3>2, <4>1, ValidatedIs
      <4>3. IsValue(o[k]) /\ o[k].type \in {"string", "number"} /\ (o[k].type = "string" => o[k] = x0[k])
        BY <2>1, <4>1, <4>2, ValidTyped, TypesAre
      <4>4. CASE o[k].type = "number"
        BY <2>3, <4>3, <4>4, NumbersAreNum, ValueKinds
      <4> QED BY <2>4, <4>3, <4>4
    <3> QED BY <3>1, <3>2
  <2> QED BY <2>2, <2>5 DEF CronRefused
<1>9. VerifyConf(v, root) # {}
  BY <1>4, <1>7, <1>8, VerifiedFrom
<1>10. ASSUME NEW v2 \in VerifyConf(v, root)
       PROVE  /\ v2.name = v.name /\ v2.script = v.script /\ v2.args = v.args
              /\ v2.interpreter = v.interpreter
              /\ SameOptions(o, v2.options)
              /\ Stands(o, u, g) /\ Stands(v2.options, u, g)
  <2>1. v2.options \in ValidateJSON(x)
    BY <1>1, <1>4, <1>10, VerifiedIs
  <2>2. AsCommand(v) = v
    <3>1. v.script = AsCommand(conf).script
      BY <1>1, VerifiedIs
    <3>2. v.script = "line" => "bash" \notin Found /\ "sh" \notin Found
      BY <1>1, <3>1, CommandIs
    <3> QED BY <3>2 DEF AsCommand
  <2>3. v2.name = v.name /\ v2.script = v.script /\ v2.args = v.args /\ v2.interpreter = v.interpreter
    <3>1. NameOf(v) = v.name
      BY VerifiedGood
    <3>2. /\ v2.name = NameOf(v) /\ v2.interpreter = v.interpreter
          /\ v2.script = AsCommand(v).script /\ v2.args = AsCommand(v).args
      <4>1. v \in Configurations
        BY <1>1
      <4>2. v2 \in VerifyConf(v, root)
        BY <1>10
      <4> HIDE DEF o
      <4> QED BY <4>1, <4>2, VerifiedIs
    <3> QED BY <2>2, <3>1, <3>2
  <2> QED BY <1>2, <1>4, <1>7, <2>1, <2>3
<1> QED BY <1>9, <1>10

-----------------------------------------------------------------------------
(* The unit of a configuration.                                             *)

LEMMA PreparedIs ==
  ASSUME NEW conf \in Configurations, NEW c \in PrepareAppConf(conf)
  PROVE  /\ c.name = conf.name /\ c.script = conf.script /\ c.args = conf.args
         /\ c.options = conf.options /\ c.interpreter \in ResolveInterpreter(conf)
         /\ conf.script \in {"js", "py"} \cup Found
  BY DEF PrepareAppConf, Configurations

LEMMA InterpreterIs ==
  ASSUME NEW conf, NEW i \in ResolveInterpreter(conf)
  PROVE  i = "none" \/ i \in Found \cup {"builtin node"}
  BY DEF ResolveInterpreter

LEMMA OneInterpreter ==
  ASSUME NEW conf, NEW other, other.script = conf.script, other.interpreter = conf.interpreter
  PROVE  /\ ResolveInterpreter(other) = ResolveInterpreter(conf)
         /\ \A i, j \in ResolveInterpreter(conf) : i = j
         /\ Prepared(other) <=> Prepared(conf)
<1>1. ResolveInterpreter(other) = ResolveInterpreter(conf)
  BY DEF ResolveInterpreter
<1>2. \A i, j \in ResolveInterpreter(conf) : i = j
  BY DEF ResolveInterpreter
<1>3. \A x : Prepared(x) <=> x.script \in {"js", "py"} \cup Found /\ ResolveInterpreter(x) # {}
  BY DEF Prepared, PrepareAppConf
<1> QED BY <1>1, <1>2, <1>3

LEMMA OverriddenIs ==
  ASSUME NEW conf \in Configurations, cmd.uid \in Values
  PROVE  /\ Overridden(conf) \in Configurations
         /\ Overridden(conf).name = conf.name /\ Overridden(conf).script = conf.script
         /\ Overridden(conf).args = conf.args /\ Overridden(conf).interpreter = conf.interpreter
         /\ \A k \in Fields \ {"uid"} : Overridden(conf).options[k] = conf.options[k]
         /\ Overridden(conf).options["uid"] = IF Truthy(cmd.uid) THEN cmd.uid ELSE conf.options["uid"]
         /\ ~Truthy(cmd.uid) => Overridden(conf) = conf
<1>1. "uid" \in Fields
  BY KeysAre
<1>2. CASE Truthy(cmd.uid)
  <2>1. Overridden(conf) = [conf EXCEPT !.options = [conf.options EXCEPT !["uid"] = cmd.uid]]
    BY <1>1, <1>2 DEF Overridden, Configurations
  <2>2. conf.options \in [Fields -> Values]
    BY DEF Configurations
  <2>3. [conf.options EXCEPT !["uid"] = cmd.uid] \in [Fields -> Values]
    BY <1>1, <2>2
  <2>4. /\ Overridden(conf).options = [conf.options EXCEPT !["uid"] = cmd.uid]
        /\ Overridden(conf) \in Configurations
        /\ Overridden(conf).name = conf.name /\ Overridden(conf).script = conf.script
        /\ Overridden(conf).args = conf.args /\ Overridden(conf).interpreter = conf.interpreter
    BY <2>1, <2>3 DEF Configurations
  <2> QED BY <1>1, <1>2, <2>2, <2>4
<1>3. CASE ~Truthy(cmd.uid)
  BY <1>3 DEF Overridden
<1> QED BY <1>2, <1>3

LEMMA PreparedSound ==
  ASSUME NEW conf \in Configurations, cmd.uid \in Values, NEW c \in PrepareAppConf(Overridden(conf))
  PROVE  c \in Configurations
<1>1. Found \subseteq Texts /\ "none" \in Texts /\ "builtin node" \in Texts
  BY AppConfigAssumption
<1>2. Overridden(conf) \in Configurations
  BY OverriddenIs
<1>3. PICK i \in ResolveInterpreter(Overridden(conf)) : c = [Overridden(conf) EXCEPT !.interpreter = i]
  BY DEF PrepareAppConf
<1>4. i \in Texts
  BY <1>1, <1>3, InterpreterIs
<1> QED BY <1>2, <1>3, <1>4 DEF Configurations

LEMMA ProgramIs ==
  ASSUME NEW conf \in Configurations, NEW c \in PrepareAppConf(conf)
  PROVE  Generate(c).Program \in Found \cup {"js", "py", "builtin node"}
<1>1. Generate(c).Program = IF c.interpreter = "none" THEN c.script ELSE c.interpreter
  BY DEF Generate
<1> QED BY <1>1, PreparedIs, InterpreterIs

\* Rounding is to the nearest, whatever the unit.
LEMMA RoundIs ==
  ASSUME NEW n \in Int, NEW d \in Nat \ {0}
  PROVE  Round(n, d) \in Int /\ Near(Round(n, d), d, n)
<1> DEFINE q == (2 * n + d) \div (2 * d)
<1>1. q \in Int /\ 2 * d \in Nat \ {0} /\ 2 * n + d \in Int
  OBVIOUS
<1>2. (2 * n + d) = (2 * d) * q + ((2 * n + d) % (2 * d)) /\ (2 * n + d) % (2 * d) \in 0..(2 * d - 1)
  BY <1>1
<1>3. (2 * d) * q <= 2 * n + d /\ 2 * n + d < (2 * d) * q + 2 * d
  BY <1>1, <1>2
<1>4. 2 * q * d = (2 * d) * q
  BY <1>1
<1>5. 2 * q * d <= 2 * n + d /\ 2 * n <= 2 * q * d + d
  BY <1>1, <1>3, <1>4
<1> QED BY <1>1, <1>5 DEF Round, Near

\* An option is verified to what Valid makes of it, none if it is not true, a
\* toggle to what it says.
LEMMA OptionIs ==
  ASSUME NEW conf, Good(conf), NEW root \in BOOLEAN, NEW v \in VerifyConf(conf, root),
         NEW k \in Keys \ {"uid", "gid"}
  PROVE  /\ k \notin {"autostart", "autorestart"} =>
                IF Truthy(conf.options[k]) THEN v.options[k] \in Valid(k, conf.options[k])
                ELSE v.options[k] = Undefined
         /\ k \in {"autostart", "autorestart"} =>
                v.options[k] = IF conf.options[k] = Undefined THEN True ELSE conf.options[k]
         /\ IsValue(conf.options[k]) /\ IsValue(v.options[k])
<1> DEFINE o0 == conf.options
           o == v.options
<1>1. Persons(o0) /\ GroupOfUser(o0) /\ conf \in Configurations /\ \A l \in Fields : IsValue(o0[l])
  <2>1. "uid" \in Fields /\ "gid" \in Fields /\ "user" \in Fields
    BY KeysAre
  <2>2. SoundConf(conf) /\ GroupOfUser(o0)
    BY DEF Good
  <2>3. o0 \in [Fields -> Values] /\ conf \in Configurations
    BY <2>2 DEF SoundConf, Configurations
  <2> QED BY <2>1, <2>2, <2>3 DEF SoundConf, Persons, Option, Person
<1>2. PICK x \in ResolveUser(o0, root) : ~CronRefused(x) /\ o \in ValidateJSON(x)
  BY <1>1, VerifiedIs
<1>3. Option(x) /\ x[k] = o0[k]
  BY <1>1, <1>2, StandsAsAsked, KeysAre
<1>4. /\ IF Looked(x, k) = Undefined THEN o[k] = Default(k) ELSE o[k] \in Valid(k, Looked(x, k))
      /\ Option(o)
  BY <1>2, <1>3, ValidatedIs
<1>5. IsValue(o0[k]) /\ IsValue(o[k])
  BY <1>1, <1>4, KeysAre DEF Option
<1>6. ASSUME k \notin {"autostart", "autorestart"}
      PROVE  IF Truthy(o0[k]) THEN o[k] \in Valid(k, o0[k]) ELSE o[k] = Undefined
  <2>1. Looked(x, k) = IF Truthy(o0[k]) THEN o0[k] ELSE Undefined
    BY <1>3, <1>6, LookedIs
  <2>2. Default(k) = Undefined
    BY <1>6 DEF Default
  <2> QED BY <1>4, <1>6, <2>1, <2>2, TruthIs
<1>7. ASSUME k \in {"autostart", "autorestart"}
      PROVE  o[k] = IF o0[k] = Undefined THEN True ELSE o0[k]
  <2>1. Looked(x, k) = o0[k]
    BY <1>3, <1>7, LookedIs
  <2>2. Default(k) = True
    BY <1>7 DEF Default
  <2> QED BY <1>4, <1>5, <1>7, <2>1, <2>2, ToggleIs
<1> QED BY <1>5, <1>6, <1>7

\* c is prepared from v, that conf was verified to, with or without --uid.
Generates(conf, root, v, c) ==
    /\ cmd.uid \in Values /\ Good(conf) /\ root \in BOOLEAN /\ v \in VerifyConf(conf, root)
    /\ c \in PrepareAppConf(Overridden(v))

LEMMA GeneratesIs ==
  ASSUME NEW conf, NEW root, NEW v, NEW c, Generates(conf, root, v, c)
  PROVE  /\ conf \in Configurations /\ v \in Configurations /\ Overridden(v) \in Configurations
         /\ c.name = v.name /\ c.script = v.script /\ c.args = v.args
         /\ c.interpreter \in ResolveInterpreter(v) /\ v.script \in {"js", "py"} \cup Found
         /\ \A k \in Fields \ {"uid"} : c.options[k] = v.options[k]
         /\ c.options["uid"] = IF Truthy(cmd.uid) THEN cmd.uid ELSE v.options["uid"]
         /\ ~Truthy(cmd.uid) => c.options = v.options
<1>1. Good(conf) /\ Good(v) /\ v \in Configurations /\ conf \in Configurations
  BY VerifiedGood DEF Generates, Good, SoundConf
<1>2. cmd.uid \in Values
  BY DEF Generates
<1> DEFINE w == Overridden(v)
<1>3. /\ w \in Configurations
      /\ w.name = v.name /\ w.script = v.script /\ w.args = v.args /\ w.interpreter = v.interpreter
      /\ \A k \in Fields \ {"uid"} : w.options[k] = v.options[k]
      /\ w.options["uid"] = IF Truthy(cmd.uid) THEN cmd.uid ELSE v.options["uid"]
      /\ ~Truthy(cmd.uid) => w = v
  BY <1>1, <1>2, OverriddenIs
<1>4. c \in PrepareAppConf(w)
  BY DEF Generates
<1> HIDE DEF w
<1>5. /\ c.name = w.name /\ c.script = w.script /\ c.args = w.args /\ c.options = w.options
      /\ c.interpreter \in ResolveInterpreter(w) /\ w.script \in {"js", "py"} \cup Found
  BY <1>3, <1>4, PreparedIs
<1>6. ResolveInterpreter(w) = ResolveInterpreter(v)
  BY <1>3, OneInterpreter
<1>7. Overridden(v) \in Configurations
  BY <1>3 DEF w
<1> QED BY <1>1, <1>3, <1>5, <1>6, <1>7

LEMMA NoAmount ==
  ASSUME NEW v, IsValue(v), v.type # "array", ~Truthy(v)
  PROVE  Amount(v) = 0
<1>1. None \notin DOMAIN Seed /\ "NaN" \notin DOMAIN Seed
  <2>1. None # "K" /\ None # "M" /\ None # "s" /\ None # "m"
    BY Zenon DEF None
  <2> QED BY <2>1, SeedIs
<1>2. v \in {Undefined, Num(0), NaN, False}
  BY DEF Truthy
<1>3. v.n = 0 /\ v.text \in {None, "NaN"}
  <2>1. False.text = None
    BY DEF False, Value
  <2> QED BY <1>2, <2>1, ValueKinds
<1> QED BY <1>1, <1>3 DEF Amount

\* The limits of a unit.
LEMMA UnitLimits ==
  ASSUME NEW conf, NEW root, NEW v, NEW c, Generates(conf, root, v, c)
  PROVE  /\ \A k \in Durations \cup {"min_uptime"} :
               Limited(Generate(c).Secs[k], Amount(conf.options[k]))
         /\ LET m == Amount(conf.options["max_memory_restart"]) IN
            IF m = 0 THEN Generate(c).MemoryMax = -1 ELSE Near(Generate(c).MemoryMax, Kilo * Kilo, m)
<1>1. /\ \A k \in Durations \cup {"min_uptime"} : Generate(c).Secs[k] = MsToSec(c.options[k])
      /\ Generate(c).MemoryMax = ParseMemory(c.options["max_memory_restart"])
  BY DEF Generate
<1>2. ASSUME NEW k \in Durations \cup Scaled
      PROVE  /\ Amount(conf.options[k]) \in Int
             /\ Truthy(c.options[k]) <=> Amount(conf.options[k]) # 0
             /\ c.options[k].n = Amount(conf.options[k])
  <2>1. k \in Keys \ {"uid", "gid"} /\ k \notin {"autostart", "autorestart"} /\ k \in Fields \ {"uid"}
    BY KeysAre DEF Durations, Scaled
  <2>2. /\ IF Truthy(conf.options[k]) THEN v.options[k] \in Valid(k, conf.options[k])
           ELSE v.options[k] = Undefined
        /\ IsValue(conf.options[k])
    BY <2>1, OptionIs DEF Generates
  <2>3. conf.options[k].type # "array"
    BY DEF Generates, Good, SoundConf
  <2>4. c.options[k] = v.options[k]
    BY <2>1, GeneratesIs
  <2>5. CASE Truthy(conf.options[k])
    <3>1. conf.options[k] # NaN
      BY <2>5, TruthIs
    <3>2. v.options[k] = Num(Amount(conf.options[k])) /\ Amount(conf.options[k]) \in Int
      BY <2>2, <2>3, <2>5, <3>1, LimitIs
    <3> QED BY <2>4, <3>2, TruthIs, ValueKinds
  <2>6. CASE ~Truthy(conf.options[k])
    BY <2>2, <2>3, <2>4, <2>6, NoAmount, TruthIs, ValueKinds
  <2> QED BY <2>5, <2>6
<1>3. ASSUME NEW k \in Durations \cup {"min_uptime"}
      PROVE  Limited(Generate(c).Secs[k], Amount(conf.options[k]))
  <2> DEFINE d == Amount(conf.options[k])
             w == c.options[k]
  <2>1. d \in Int /\ w.n = d /\ (Truthy(w) <=> d # 0)
    BY <1>2 DEF Scaled
  <2>2. Generate(c).Secs[k] = MsToSec(w)
    BY <1>1
  <2>3. Round(d, 1000) \in Int /\ Near(Round(d, 1000), 1000, d)
    BY <2>1, RoundIs
  <2> HIDE DEF d, w
  <2>4. Limited(MsToSec(w), d)
    <3>1. CASE d = 0
      BY <2>1, <3>1 DEF Limited, MsToSec
    <3>2. CASE d # 0 /\ d < 1000
      <4>1. Round(d, 1000) <= 1
        BY <2>1, <2>3, <3>2 DEF Near
      <4>2. MsToSec(w) = IF Round(d, 1000) < 1 THEN 1 ELSE Round(d, 1000)
        BY <2>1, <3>2 DEF MsToSec
      <4> QED BY <2>3, <3>2, <4>1, <4>2 DEF Limited
    <3>3. CASE d # 0 /\ ~(d < 1000)
      <4>1. Round(d, 1000) >= 1
        BY <2>1, <2>3, <3>3 DEF Near
      <4>2. MsToSec(w) = IF Round(d, 1000) < 1 THEN 1 ELSE Round(d, 1000)
        BY <2>1, <3>3 DEF MsToSec
      <4>3. MsToSec(w) = Round(d, 1000)
        BY <2>3, <4>1, <4>2
      <4> QED BY <2>3, <3>3, <4>3 DEF Limited
    <3> QED BY <3>1, <3>2, <3>3
  <2> QED BY <2>2, <2>4 DEF d
<1>4. LET m == Amount(conf.options["max_memory_restart"]) IN
      IF m = 0 THEN Generate(c).MemoryMax = -1 ELSE Near(Generate(c).MemoryMax, Kilo * Kilo, m)
  <2> DEFINE m == Amount(conf.options["max_memory_restart"])
             w == c.options["max_memory_restart"]
  <2>1. m \in Int /\ w.n = m /\ (Truthy(w) <=> m # 0)
    BY <1>2 DEF Scaled
  <2>2. Kilo * Kilo \in Nat \ {0}
    BY KiloIs
  <2>3. Near(Round(m, Kilo * Kilo), Kilo * Kilo, m)
    BY <2>1, <2>2, RoundIs
  <2> QED BY <1>1, <2>1, <2>3 DEF ParseMemory
<1> QED BY <1>3, <1>4

\* How it is restarted, and what it runs.
LEMMA UnitRestart ==
  ASSUME NEW conf, NEW root, NEW v, NEW c, Generates(conf, root, v, c)
  PROVE  /\ (Generate(c).Restart = "no") <=> (conf.options["autorestart"] = False)
         /\ conf.script = "line" => Generate(c).Args = <<"-c", "line">>
<1>1. Generate(c).Restart = RestartOf(c.options) /\ Generate(c).Args = BuildExecStart(c)
  BY DEF Generate
<1>2. (Generate(c).Restart = "no") <=> (conf.options["autorestart"] = False)
  <2>1. "autorestart" \in Keys \ {"uid", "gid"} /\ "autorestart" \in Fields \ {"uid"}
    BY KeysAre
  <2>2. /\ v.options["autorestart"] = IF conf.options["autorestart"] = Undefined THEN True
                                      ELSE conf.options["autorestart"]
        /\ c.options["autorestart"] = v.options["autorestart"]
    BY <2>1, OptionIs, GeneratesIs DEF Generates
  <2>3. c.options["autorestart"] = False <=> conf.options["autorestart"] = False
    BY <2>2, ValuesDiffer
  <2> QED BY <1>1, <2>3 DEF RestartOf
<1>3. ASSUME conf.script = "line"
      PROVE  Generate(c).Args = <<"-c", "line">>
  <2>1. conf \in Configurations /\ v \in VerifyConf(conf, root) /\ BashIsUsual
    BY <1>3, GeneratesIs DEF Generates, Good, SoundConf
  <2>2. v.script = AsCommand(conf).script /\ v.args = AsCommand(conf).args
    BY <2>1, VerifiedIs
  <2>3. "line" \notin {"js", "py"} \cup Found
    BY AppConfigAssumption
  <2>4. v.script \in {"bash", "sh"} /\ v.args = <<"-c", "line">>
    BY <1>3, <2>1, <2>2, <2>3, CommandIs, GeneratesIs
  <2>5. c.script \in {"bash", "sh"} /\ c.args = <<"-c", "line">>
    BY <2>4, GeneratesIs
  <2>6. BuildExecStart(c) = <<"-c", Joined(<<"line">>)>>
    <3>1. Len(c.args) = 2 /\ c.args[1] = "-c" /\ Tail(c.args) = <<"line">>
      BY <2>5
    <3> QED BY <2>1, <2>5, <3>1 DEF BuildExecStart
  <2>7. Joined(<<"line">>) = "line"
    BY DEF Joined
  <2> QED BY <1>1, <2>6, <2>7
<1> QED BY <1>2, <1>3

\* Whom it runs as.
LEMMA UnitRights ==
  ASSUME NEW conf, NEW root, NEW v, NEW c, Generates(conf, root, v, c), ~Truthy(cmd.uid)
  PROVE  LET t == Generate(c)
             o == conf.options
             w == IF o["uid"] = Undefined THEN o["user"] ELSE o["uid"] IN
         IF w = Undefined THEN t.User = Undefined
         ELSE /\ UserId(t) = (CHOOSE x \in Named(Users, w) : TRUE).id
              /\ GroupId(t) = IF o["gid"] = Undefined THEN OwnGroup(UserId(t))
                              ELSE (CHOOSE g \in Named(Groups, o["gid"]) : TRUE).id
<1> DEFINE t == Generate(c)
           o == conf.options
           w == IF o["uid"] = Undefined THEN o["user"] ELSE o["uid"]
<1>1. PICK u, g : Stands(v.options, u, g) /\ Asks(o, v.options, u, g)
  BY VerifiedGood DEF Generates
<1>2. c.options = v.options
  BY GeneratesIs
<1>3. UserId(t) = u.id /\ GroupId(t) = g
  BY <1>1, <1>2, StandsInUnit
<1>4. u \in Users /\ v.options["user"] = Undefined
  BY <1>1 DEF Stands
<1>5. Person(w) /\ Person(o["gid"])
  <2>1. "uid" \in Fields /\ "gid" \in Fields /\ "user" \in Fields
    BY KeysAre
  <2>2. SoundConf(conf)
    BY DEF Generates, Good
  <2> QED BY <2>1, <2>2 DEF SoundConf, Person
<1>6. ASSUME w = Undefined
      PROVE  t.User = Undefined
  <2>1. ~Truthy(v.options["uid"])
    BY <1>1, <1>6 DEF Asks
  <2> QED BY <1>2, <1>4, <2>1, TruthIs DEF Generate
<1>7. ASSUME w # Undefined
      PROVE  UserId(t) = (CHOOSE x \in Named(Users, w) : TRUE).id
  <2>1. u \in Entry(Users, w)
    BY <1>1, <1>7 DEF Asks
  <2>2. Entry(Users, w) = Named(Users, w) /\ \A x \in Entry(Users, w) : x = u
    BY <1>5, <1>7, <2>1, EntryIs
  <2> QED BY <1>3, <2>1, <2>2
<1>8. GroupId(t) = IF o["gid"] = Undefined THEN OwnGroup(UserId(t))
                   ELSE (CHOOSE x \in Named(Groups, o["gid"]) : TRUE).id
  <2>1. CASE o["gid"] = Undefined
    <3>1. g = u.gid
      BY <1>1, <2>1 DEF Asks
    <3>2. OwnGroup(u.id) = u.gid
      BY <1>4, Tables DEF OwnGroup
    <3> QED BY <1>3, <2>1, <3>1, <3>2
  <2>2. CASE o["gid"] # Undefined
    <3>1. PICK y \in Entry(Groups, o["gid"]) : y.id = g
      BY <1>1, <2>2 DEF Asks
    <3>2. Entry(Groups, o["gid"]) = Named(Groups, o["gid"]) /\ \A x \in Entry(Groups, o["gid"]) : x = y
      BY <1>5, <2>2, <3>1, EntryIs
    <3> QED BY <1>3, <2>2, <3>1, <3>2
  <2> QED BY <2>1, <2>2
<1> HIDE DEF t, w
<1>9. IF w = Undefined THEN t.User = Undefined
      ELSE /\ UserId(t) = (CHOOSE x \in Named(Users, w) : TRUE).id
           /\ GroupId(t) = IF o["gid"] = Undefined THEN OwnGroup(UserId(t))
                           ELSE (CHOOSE x \in Named(Groups, o["gid"]) : TRUE).id
  BY <1>6, <1>7, <1>8
<1> QED BY <1>9, Zenon DEF t, w

Unit(user, group, program, args, restart, secs, burst, signal, memory, codes, timer, enabled) ==
    [User |-> user, Group |-> group, Program |-> program, Args |-> args, Restart |-> restart,
     Secs |-> secs, StartLimitBurst |-> burst, KillSignal |-> signal, MemoryMax |-> memory,
     SuccessExitStatus |-> codes, Timer |-> timer, Enabled |-> enabled]

LEMMA GenerateIs ==
  ASSUME NEW c
  PROVE  LET o == c.options
             t == Generate(c) IN
         t = Unit(t.User, t.Group, t.Program, BuildExecStart(c), RestartOf(o), t.Secs,
                  t.StartLimitBurst, Truthy(o["kill_signal"]), t.MemoryMax, t.SuccessExitStatus,
                  Truthy(o["cron_restart"]), TRUE)
  BY Zenon DEF Generate, Unit

\* The unit of what was verified twice.
SameUnit(t2, t) ==
    /\ [t2 EXCEPT !.User = Undefined, !.Group = Undefined] =
           [t EXCEPT !.User = Undefined, !.Group = Undefined]
    /\ UserId(t2) = UserId(t) /\ GroupId(t2) = GroupId(t)

LEMMA UnitAgain ==
  ASSUME NEW conf, NEW root, NEW v, NEW c, Generates(conf, root, v, c),
         NEW v2, NEW c2, Generates(v, root, v2, c2)
  PROVE  Generate(c2) = Generate(c) \/ SameUnit(Generate(c2), Generate(c))
<1> DEFINE t == Generate(c)
           t2 == Generate(c2)
<1>1. /\ v2.name = v.name /\ v2.script = v.script /\ v2.args = v.args
      /\ v2.interpreter = v.interpreter
      /\ SameOptions(v.options, v2.options)
      /\ \E u, g : Stands(v.options, u, g) /\ Stands(v2.options, u, g)
  BY VerifiedAgain DEF Generates
<1>2. c.script = c2.script /\ c.args = c2.args /\ c.interpreter = c2.interpreter
  <2>1. c.script = v.script /\ c.args = v.args /\ c.interpreter \in ResolveInterpreter(v)
    BY GeneratesIs
  <2>2. c2.script = v2.script /\ c2.args = v2.args /\ c2.interpreter \in ResolveInterpreter(v2)
    BY GeneratesIs
  <2> QED BY <1>1, <2>1, <2>2, OneInterpreter
<1>3. ASSUME NEW k \in Fields \ {"uid", "gid"}
      PROVE  c2.options[k] = c.options[k]
             \/ (k # "autorestart" /\ ~Truthy(c.options[k]) /\ ~Truthy(c2.options[k]))
  <2>1. c.options[k] = v.options[k] /\ c2.options[k] = v2.options[k]
    BY GeneratesIs
  <2> QED BY <1>1, <2>1 DEF SameOptions
<1>4. /\ t2.Program = t.Program /\ BuildExecStart(c2) = BuildExecStart(c)
      /\ RestartOf(c2.options) = RestartOf(c.options)
  <2>1. "autorestart" \in Fields \ {"uid", "gid"}
    BY KeysAre
  <2>2. c2.options["autorestart"] = c.options["autorestart"]
    BY <1>3, <2>1
  <2> QED BY <1>2, <2>2 DEF Generate, BuildExecStart, RestartOf
<1>5. t2.Secs = t.Secs
  <2>1. \A k \in Durations \cup {"min_uptime"} : MsToSec(c2.options[k]) = MsToSec(c.options[k])
    BY <1>3, KeysAre DEF MsToSec, Durations, Scaled
  <2> QED BY <2>1 DEF Generate
<1>6. /\ t2.StartLimitBurst = t.StartLimitBurst /\ t2.MemoryMax = t.MemoryMax
      /\ Truthy(c2.options["kill_signal"]) <=> Truthy(c.options["kill_signal"])
      /\ Truthy(c2.options["cron_restart"]) <=> Truthy(c.options["cron_restart"])
  <2>1. {"max_restarts", "max_memory_restart", "kill_signal", "cron_restart"} \subseteq
           Fields \ {"uid", "gid"}
    BY KeysAre DEF Scaled
  <2>2. \A k \in {"max_restarts", "max_memory_restart", "kill_signal", "cron_restart"} :
           c2.options[k] = c.options[k] \/ (~Truthy(c.options[k]) /\ ~Truthy(c2.options[k]))
    BY <1>3, <2>1
  <2>3. t2.StartLimitBurst = t.StartLimitBurst /\ t2.MemoryMax = t.MemoryMax
    BY <2>2 DEF Generate, ParseMemory
  <2> QED BY <2>2, <2>3
<1>7. t2.SuccessExitStatus = t.SuccessExitStatus
  <2>1. "stop_exit_codes" \in Fields \ {"uid", "gid"}
    BY KeysAre
  <2>2. \A x : ~Truthy(x) => x.type # "array"
    BY ValueKinds DEF Truthy
  <2> QED BY <1>3, <2>1, <2>2 DEF Generate
<1>8. [t2 EXCEPT !.User = Undefined, !.Group = Undefined] =
           [t EXCEPT !.User = Undefined, !.Group = Undefined]
  <2> DEFINE w == BuildExecStart(c)
             r == RestartOf(c.options)
             y == Truthy(c.options["kill_signal"])
             z == Truthy(c.options["cron_restart"])
             y2 == Truthy(c2.options["kill_signal"])
             z2 == Truthy(c2.options["cron_restart"])
             e == TRUE
  <2>1. y2 = y /\ z2 = z
    BY <1>6, Zenon DEF Truthy
  <2>2. /\ t = Unit(t.User, t.Group, t.Program, w, r, t.Secs, t.StartLimitBurst, y, t.MemoryMax,
                    t.SuccessExitStatus, z, e)
        /\ t2 = Unit(t2.User, t2.Group, t2.Program, BuildExecStart(c2), RestartOf(c2.options),
                     t2.Secs, t2.StartLimitBurst, y2, t2.MemoryMax, t2.SuccessExitStatus, z2, e)
    BY GenerateIs, Zenon
  <2>3. BuildExecStart(c2) = w /\ RestartOf(c2.options) = r
    BY <1>4
  <2> HIDE DEF w, r, y, z, y2, z2, e, t, t2
  <2>4. t2 = Unit(t2.User, t2.Group, t.Program, w, r, t.Secs, t.StartLimitBurst, y, t.MemoryMax,
                  t.SuccessExitStatus, z, e)
    BY <1>4, <1>5, <1>6, <1>7, <2>1, <2>2, <2>3
  <2>5. ASSUME NEW x, NEW a, NEW b,
               x = Unit(a, b, t.Program, w, r, t.Secs, t.StartLimitBurst, y, t.MemoryMax,
                        t.SuccessExitStatus, z, e)
        PROVE  [x EXCEPT !.User = Undefined, !.Group = Undefined] =
                 Unit(Undefined, Undefined, t.Program, w, r, t.Secs, t.StartLimitBurst, y, t.MemoryMax,
                      t.SuccessExitStatus, z, e)
    <3> HIDE DEF Unit
    <3>1. [x EXCEPT !.User = Undefined] =
             Unit(Undefined, b, t.Program, w, r, t.Secs, t.StartLimitBurst, y, t.MemoryMax,
                  t.SuccessExitStatus, z, e)
      BY <2>5 DEF Unit
    <3>2. [Unit(Undefined, b, t.Program, w, r, t.Secs, t.StartLimitBurst, y, t.MemoryMax,
                t.SuccessExitStatus, z, e) EXCEPT !.Group = Undefined] =
             Unit(Undefined, Undefined, t.Program, w, r, t.Secs, t.StartLimitBurst, y, t.MemoryMax,
                  t.SuccessExitStatus, z, e)
      BY DEF Unit
    <3> QED BY <3>1, <3>2
  <2>6. [t EXCEPT !.User = Undefined, !.Group = Undefined] =
           Unit(Undefined, Undefined, t.Program, w, r, t.Secs, t.StartLimitBurst, y, t.MemoryMax,
                t.SuccessExitStatus, z, e)
    BY <2>2, <2>5, Zenon
  <2>7. [t2 EXCEPT !.User = Undefined, !.Group = Undefined] =
           Unit(Undefined, Undefined, t.Program, w, r, t.Secs, t.StartLimitBurst, y, t.MemoryMax,
                t.SuccessExitStatus, z, e)
    BY <2>4, <2>5, Zenon
  <2> QED BY <2>6, <2>7
<1>9. PICK u, g : Stands(v.options, u, g) /\ Stands(v2.options, u, g)
  BY <1>1
<1>10. CASE ~Truthy(cmd.uid)
  <2>1. Stands(c.options, u, g) /\ Stands(c2.options, u, g)
    BY <1>9, <1>10, GeneratesIs
  <2>2. UserId(t) = u.id /\ GroupId(t) = g /\ UserId(t2) = u.id /\ GroupId(t2) = g
    BY <2>1, StandsInUnit
  <2> QED BY <1>8, <2>2 DEF SameUnit
<1>11. CASE Truthy(cmd.uid)
  <2>1. /\ c.options["uid"] = cmd.uid /\ c2.options["uid"] = cmd.uid
        /\ \A k \in {"user", "gid"} : c.options[k] = v.options[k] /\ c2.options[k] = v2.options[k]
    BY <1>11, GeneratesIs, KeysAre
  <2>2. ~Truthy(c.options["user"]) /\ ~Truthy(c2.options["user"])
    BY <1>9, <2>1, TruthIs DEF Stands
  <2>3. t.User = cmd.uid /\ t2.User = cmd.uid
    BY <1>11, <2>1, <2>2 DEF Generate
  <2>4. /\ t.Group = IF g # 0 THEN Num(g) ELSE Undefined
        /\ t2.Group = IF g # 0 THEN Num(g) ELSE Undefined
    BY <1>9, <2>1, TruthIs DEF Generate, Stands
  <2>5. UserId(t2) = UserId(t) /\ GroupId(t2) = GroupId(t)
    BY <2>3, <2>4 DEF UserId, GroupId
  <2> QED BY <1>8, <2>5 DEF SameUnit
<1> QED BY <1>10, <1>11

-----------------------------------------------------------------------------
(* What every step preserves.                                               *)

LEMMA CommandFields ==
  ASSUME Shaped
  PROVE  /\ cmd.confs \in Seq(Configurations) /\ Len(cmd.confs) \in Nat \ {0}
         /\ DOMAIN cmd.confs = 1..Len(cmd.confs)
         /\ cmd.uid \in Values /\ cmd.root \in BOOLEAN /\ cmd.write \in BOOLEAN
         /\ \A i \in DOMAIN cmd.confs : Good(cmd.confs[i])
         /\ confs \in Seq(Configurations) /\ DOMAIN confs = 1..Len(confs) /\ Len(confs) \in Nat
  BY DEF Shaped, SoundCommand

LEMMA Initially ==
  ASSUME SoundGroups, Init
  PROVE  IInv
<1>1. cmd \in Commands /\ SoundCommand(cmd)
  BY AppConfigAssumption, Zenon DEF Init
<1>2. /\ cmd.confs \in Seq(Configurations) /\ cmd.confs # <<>>
      /\ Len(cmd.confs) \in Nat \ {0} /\ DOMAIN cmd.confs = 1..Len(cmd.confs)
  BY <1>1 DEF SoundCommand
<1>3. \A i \in DOMAIN cmd.confs : Good(cmd.confs[i])
  <2>1. \A i \in DOMAIN cmd.confs : GroupOfUser(cmd.confs[i].options)
    BY <1>1 DEF SoundGroups
  <2> QED BY <1>1, <2>1 DEF SoundCommand, Good
<1>4. Shaped
  BY <1>1, <1>2, <1>3 DEF Init, Shaped, NoUnits
<1>5. InOrder
  BY <1>2 DEF Init, InOrder
<1>6. WorldSoFar
  BY DEF Init, WorldSoFar
<1>7. Again
  BY DEF Init, Again
<1> QED BY <1>4, <1>5, <1>6, <1>7 DEF IInv

\* A configuration that was verified stays so, and so do the units.
LEMMA CommandKept ==
  ASSUME cmd' = cmd
  PROVE  \A conf, u : GeneratedFrom(conf, u)' <=> GeneratedFrom(conf, u)
  BY DEF GeneratedFrom, Overridden

LEMMA AgainKept ==
  ASSUME Again, cmd' = cmd, former' = former, names' = names
  PROVE  Again'
  BY CommandKept DEF Again

LEMMA VerifyKeeps ==
  ASSUME IInv, Verify
  PROVE  IInv'
<1>1. /\ phase = "verify" /\ at <= Len(cmd.confs) /\ Len(confs) = at - 1
      /\ UNCHANGED <<cmd, units, names, former>>
      /\ units = former /\ (former = NoUnits => \A s \in Services : names[s] = None)
  BY DEF IInv, InOrder, WorldSoFar, Verify
<1>2. /\ cmd.confs \in Seq(Configurations) /\ Len(cmd.confs) \in Nat \ {0}
      /\ DOMAIN cmd.confs = 1..Len(cmd.confs) /\ cmd.root \in BOOLEAN
      /\ \A i \in DOMAIN cmd.confs : Good(cmd.confs[i])
      /\ confs \in Seq(Configurations) /\ DOMAIN confs = 1..Len(confs) /\ Len(confs) \in Nat
      /\ at \in DOMAIN cmd.confs
  <2>1. Shaped /\ at \in 1..(Len(cmd.confs) + 1)
    BY DEF IInv, Shaped
  <2> QED BY <1>1, <2>1, CommandFields
<1>3. Again'
  BY <1>1, AgainKept DEF IInv
<1>4. CASE VerifyConf(cmd.confs[at], cmd.root) = {} /\ phase' = "refused" /\ UNCHANGED <<at, confs>>
  <2>1. Shaped'
    BY <1>1, <1>4 DEF IInv, Shaped
  <2>2. InOrder'
    <3>1. Len(confs) < Len(cmd.confs)
      BY <1>1, <1>2
    <3>2. \A j \in DOMAIN confs : confs[j] \in VerifyConf(cmd.confs[j], cmd.root)
      BY DEF IInv, InOrder
    <3>3. \E i \in DOMAIN cmd.confs : VerifyConf(cmd.confs[i], cmd.root) = {}
      BY <1>2, <1>4, Zenon
    <3> QED BY <1>1, <1>4, <3>1, <3>2, <3>3 DEF InOrder
  <2>3. WorldSoFar'
    BY <1>1, <1>4 DEF WorldSoFar
  <2> QED BY <1>3, <2>1, <2>2, <2>3 DEF IInv
<1>5. CASE \E c \in VerifyConf(cmd.confs[at], cmd.root) : confs' = Append(confs, c) /\ Advance
  <2>1. PICK c \in VerifyConf(cmd.confs[at], cmd.root) : confs' = Append(confs, c) /\ Advance
    BY <1>5
  <2>2. c \in Configurations
    BY <1>2, VerifiedGood DEF Good, SoundConf
  <2>3. /\ confs' \in Seq(Configurations) /\ Len(confs') = Len(confs) + 1 /\ DOMAIN confs' = 1..(Len(confs) + 1)
        /\ \A j \in DOMAIN confs : confs'[j] = confs[j]
        /\ confs'[Len(confs) + 1] = c
    BY <1>2, <2>1, <2>2
  <2>4. \A j \in DOMAIN confs' : confs'[j] \in VerifyConf(cmd.confs[j], cmd.root)
    <3>1. \A j \in DOMAIN confs : confs[j] \in VerifyConf(cmd.confs[j], cmd.root)
      BY DEF IInv, InOrder
    <3>2. at = Len(confs) + 1
      BY <1>1, <1>2
    <3>3. \A j \in DOMAIN confs' : j \in DOMAIN confs \/ j = at
      BY <1>2, <2>3, <3>2
    <3> QED BY <2>1, <2>3, <3>1, <3>2, <3>3
  <2>5. CASE at = Len(cmd.confs)
    <3>1. phase' = "start" /\ at' = 1
      BY <2>1, <2>5 DEF Advance
    <3>2. Shaped'
      BY <1>1, <1>2, <2>3, <3>1 DEF IInv, Shaped
    <3>3. InOrder'
      BY <1>1, <1>2, <2>3, <2>4, <2>5, <3>1 DEF InOrder
    <3>4. WorldSoFar'
      <4>1. \A s \in Services : Nobody(confs', s, 1)
        BY DEF Nobody
      <4> QED BY <1>1, <3>1, <4>1 DEF WorldSoFar
    <3> QED BY <1>3, <3>2, <3>3, <3>4 DEF IInv
  <2>6. CASE at # Len(cmd.confs)
    <3>1. phase' = "verify" /\ at' = at + 1
      BY <2>1, <2>6 DEF Advance
    <3>2. Shaped'
      BY <1>1, <1>2, <2>3, <2>6, <3>1 DEF IInv, Shaped
    <3>3. InOrder'
      BY <1>1, <1>2, <2>3, <2>4, <2>6, <3>1 DEF InOrder
    <3>4. WorldSoFar'
      BY <1>1, <3>1 DEF WorldSoFar
    <3> QED BY <1>3, <3>2, <3>3, <3>4 DEF IInv
  <2> QED BY <2>5, <2>6
<1> QED BY <1>4, <1>5 DEF Verify

\* What stands when configurations are started.
LEMMA Starting ==
  ASSUME IInv, phase \in {"start", "done"}
  PROVE  /\ cmd.confs \in Seq(Configurations) /\ Len(cmd.confs) \in Nat \ {0}
         /\ confs \in Seq(Configurations) /\ Len(confs) = Len(cmd.confs)
         /\ DOMAIN confs = 1..Len(confs) /\ DOMAIN cmd.confs = DOMAIN confs
         /\ cmd.uid \in Values /\ cmd.root \in BOOLEAN
         /\ \A j \in DOMAIN confs :
               /\ Good(cmd.confs[j]) /\ Good(confs[j]) /\ confs[j] \in Configurations
               /\ confs[j] \in VerifyConf(cmd.confs[j], cmd.root)
               /\ confs[j].name = NameOf(cmd.confs[j]) /\ NameOf(confs[j]) = confs[j].name
               /\ confs[j].name \in Names /\ confs[j].name # None /\ ServiceName(confs[j]) \in Services
<1>1. Shaped /\ InOrder
  BY DEF IInv
<1>2. /\ cmd.confs \in Seq(Configurations) /\ Len(cmd.confs) \in Nat \ {0}
      /\ DOMAIN cmd.confs = 1..Len(cmd.confs)
      /\ cmd.uid \in Values /\ cmd.root \in BOOLEAN
      /\ \A i \in DOMAIN cmd.confs : Good(cmd.confs[i])
      /\ confs \in Seq(Configurations) /\ DOMAIN confs = 1..Len(confs)
  BY <1>1, CommandFields
<1>3. Len(confs) = Len(cmd.confs)
  BY <1>1 DEF InOrder
<1>4. ASSUME NEW j \in DOMAIN confs
      PROVE  /\ Good(cmd.confs[j]) /\ Good(confs[j]) /\ confs[j] \in Configurations
             /\ confs[j] \in VerifyConf(cmd.confs[j], cmd.root)
             /\ confs[j].name = NameOf(cmd.confs[j]) /\ NameOf(confs[j]) = confs[j].name
             /\ confs[j].name \in Names /\ confs[j].name # None /\ ServiceName(confs[j]) \in Services
  <2>1. confs[j] \in VerifyConf(cmd.confs[j], cmd.root) /\ Good(cmd.confs[j])
    BY <1>1, <1>2, <1>3 DEF InOrder
  <2>2. Good(confs[j]) /\ confs[j].name = NameOf(cmd.confs[j]) /\ NameOf(confs[j]) = confs[j].name
    BY <1>2, <2>1, VerifiedGood
  <2>3. confs[j].name \in Names /\ confs[j].name # None
    BY <2>1, VerifiedIs DEF Good, SoundConf
  <2> QED BY <2>1, <2>2, <2>3 DEF Good, SoundConf, ServiceName, Services
<1> QED BY <1>2, <1>3, <1>4

LEMMA PreparedAnyway ==
  ASSUME NEW conf \in Configurations, cmd.uid \in Values
  PROVE  /\ PrepareAppConf(Overridden(conf)) # {} <=> Prepared(conf)
         /\ \A c \in PrepareAppConf(Overridden(conf)) :
               c.name = conf.name /\ ServiceName(c) = ServiceName(conf) /\ GeneratedFrom(conf, Generate(c))
<1> DEFINE w == Overridden(conf)
<1>1. w \in Configurations /\ w.script = conf.script /\ w.interpreter = conf.interpreter /\ w.name = conf.name
  BY OverriddenIs
<1> HIDE DEF w
<1>2. Prepared(w) <=> Prepared(conf)
  BY <1>1, OneInterpreter
<1>3. \A c \in PrepareAppConf(w) : c.name = conf.name
  BY <1>1, PreparedIs
<1> QED BY <1>2, <1>3 DEF Prepared, ServiceName, GeneratedFrom, w

\* In what -w wrote the same configurations make the same units.
LEMMA MakesAgain ==
  ASSUME IInv, phase \in {"start", "done"}, former # NoUnits
  PROVE  \A j \in DOMAIN confs, s \in Services : Makes(confs[j], s) <=> Makes(cmd.confs[j], s)
<1> SUFFICES ASSUME NEW j \in DOMAIN confs, NEW s \in Services
             PROVE  Makes(confs[j], s) <=> Makes(cmd.confs[j], s)
  OBVIOUS
<1>1. /\ j \in DOMAIN cmd.confs /\ confs[j] \in VerifyConf(cmd.confs[j], cmd.root)
      /\ cmd.root \in BOOLEAN
  BY Starting
<1>2. PICK r \in Configurations : Good(r) /\ cmd.confs[j] \in VerifyConf(r, cmd.root)
  BY <1>1 DEF IInv, Again
<1>3. /\ confs[j].name = cmd.confs[j].name /\ confs[j].script = cmd.confs[j].script
      /\ confs[j].interpreter = cmd.confs[j].interpreter
  BY <1>1, <1>2, VerifiedAgain
<1>4. Prepared(confs[j]) <=> Prepared(cmd.confs[j])
  BY <1>3, OneInterpreter
<1> QED BY <1>3, <1>4 DEF Makes, ServiceName

LEMMA LastGrows ==
  ASSUME NEW cs, NEW a \in Nat \ {0}, NEW s
  PROVE  /\ ~Makes(cs[a], s) => /\ Nobody(cs, s, a) => Nobody(cs, s, a + 1)
                                /\ \A j : Last(cs, j, s, a) => Last(cs, j, s, a + 1)
         /\ Makes(cs[a], s) => Last(cs, a, s, a + 1)
<1>1. \A j : j \in 1..((a + 1) - 1) <=> j \in 1..(a - 1) \/ j = a
  OBVIOUS
<1>2. \A j \in 1..(a - 1) : \A k : k \in (j + 1)..((a + 1) - 1) => k \in (j + 1)..(a - 1) \/ k = a
  OBVIOUS
<1>3. \A k : k \notin (a + 1)..((a + 1) - 1)
  OBVIOUS
<1> QED BY <1>1, <1>2, <1>3 DEF Nobody, Last

LEMMA StartKeeps ==
  ASSUME IInv, Start
  PROVE  IInv'
<1>1. phase = "start" /\ at <= Len(confs) /\ at' = at + 1 /\ UNCHANGED <<cmd, phase, confs, former>>
  BY DEF Start
<1>2. Shaped /\ InOrder /\ WorldSoFar /\ Again
  BY DEF IInv
<1>3. /\ Len(cmd.confs) \in Nat /\ Len(confs) = Len(cmd.confs) /\ at \in DOMAIN confs
      /\ at \in Nat \ {0} /\ cmd.uid \in Values /\ DOMAIN cmd.confs = DOMAIN confs
      /\ confs[at] \in Configurations /\ ServiceName(confs[at]) \in Services
      /\ confs[at].name \in Names
  <2>1. at \in 1..(Len(cmd.confs) + 1)
    BY <1>2 DEF Shaped
  <2> QED BY <1>1, <2>1, Starting
<1> DEFINE S == ServiceName(confs[at])
<1>4. /\ units' \in [Services -> {NoUnit} \cup {Generate(c) : c \in Configurations}]
      /\ names' \in [Services -> Names \cup {None}]
      /\ \A s \in Services :
            IF Makes(confs[at], s) THEN names'[s] = confs[at].name /\ GeneratedFrom(confs[at], units'[s])
            ELSE names'[s] = names[s] /\ units'[s] = units[s]
  <2>1. /\ units \in [Services -> {NoUnit} \cup {Generate(c) : c \in Configurations}]
        /\ names \in [Services -> Names \cup {None}]
    BY <1>2 DEF Shaped
  <2>2. CASE PrepareAppConf(confs[at]) = {} /\ UNCHANGED <<units, names>>
    BY <2>1, <2>2 DEF Makes, Prepared
  <2>3. CASE \E c \in PrepareAppConf(Overridden(confs[at])) :
               /\ units' = [units EXCEPT ![ServiceName(c)] = Generate(c)]
               /\ names' = [names EXCEPT ![ServiceName(c)] = c.name]
    <3>1. PICK c \in PrepareAppConf(Overridden(confs[at])) :
               /\ units' = [units EXCEPT ![ServiceName(c)] = Generate(c)]
               /\ names' = [names EXCEPT ![ServiceName(c)] = c.name]
      BY <2>3
    <3>2. /\ Prepared(confs[at]) /\ c.name = confs[at].name /\ ServiceName(c) = S
          /\ GeneratedFrom(confs[at], Generate(c))
      BY <1>3, <3>1, PreparedAnyway
    <3>3. c \in Configurations
      BY <1>3, <3>1, PreparedSound
    <3>4. \A s \in Services : Makes(confs[at], s) <=> s = S
      BY <3>2 DEF Makes
    <3>5. /\ units' = [units EXCEPT ![S] = Generate(c)]
          /\ names' = [names EXCEPT ![S] = confs[at].name]
      BY <3>1, <3>2
    <3> HIDE DEF S
    <3>6. S \in Services
      BY <1>3 DEF S
    <3> QED BY <1>3, <2>1, <3>2, <3>3, <3>4, <3>5, <3>6
  <2> QED BY <1>1, <2>2, <2>3 DEF Start
<1>5. Shaped'
  <2>1. at' \in 1..(Len(cmd.confs') + 1)
    BY <1>1, <1>3
  <2> QED BY <1>1, <1>2, <1>4, <2>1 DEF Shaped
<1>6. InOrder'
  BY <1>1, <1>2 DEF InOrder
<1>7. WorldSoFar'
  <2> SUFFICES ASSUME NEW s \in Services
               PROVE  \/ /\ Nobody(confs, s, at + 1)
                         /\ units'[s] = former[s]
                         /\ former = NoUnits => names'[s] = None
                      \/ \E j \in 1..((at + 1) - 1) : /\ Last(confs, j, s, at + 1)
                                                     /\ names'[s] = confs[j].name
                                                     /\ GeneratedFrom(confs[j], units'[s])
    BY <1>1, CommandKept DEF WorldSoFar
  <2>1. \/ /\ Nobody(confs, s, at)
           /\ units[s] = former[s]
           /\ former = NoUnits => names[s] = None
        \/ \E j \in 1..(at - 1) : /\ Last(confs, j, s, at)
                                  /\ names[s] = confs[j].name
                                  /\ GeneratedFrom(confs[j], units[s])
    BY <1>1, <1>2 DEF WorldSoFar
  <2>2. CASE Makes(confs[at], s)
    <3>1. Last(confs, at, s, at + 1) /\ at \in 1..((at + 1) - 1)
      BY <1>3, <2>2, LastGrows
    <3> QED BY <1>4, <2>2, <3>1
  <2>3. CASE ~Makes(confs[at], s)
    <3>1. 1..(at - 1) \subseteq 1..((at + 1) - 1)
      BY <1>3
    <3> QED BY <1>3, <1>4, <2>1, <2>3, <3>1, LastGrows
  <2> QED BY <2>2, <2>3
<1>8. Again'
  <2> SUFFICES ASSUME former # NoUnits
               PROVE  /\ \A j \in DOMAIN cmd.confs :
                            \E r \in Configurations : Good(r) /\ cmd.confs[j] \in VerifyConf(r, cmd.root)
                      /\ \A s \in Services :
                            \/ /\ Nobody(cmd.confs, s, Len(cmd.confs) + 1)
                               /\ former[s] = NoUnit /\ names'[s] = None
                            \/ \E j \in DOMAIN cmd.confs : /\ Last(cmd.confs, j, s, Len(cmd.confs) + 1)
                                                           /\ GeneratedFrom(cmd.confs[j], former[s])
    BY <1>1, CommandKept DEF Again
  <2>1. \A s \in Services : Nobody(cmd.confs, s, Len(cmd.confs) + 1) => ~Makes(confs[at], s)
    <3>1. \A s \in Services : Makes(confs[at], s) <=> Makes(cmd.confs[at], s)
      BY <1>1, <1>3, MakesAgain
    <3>2. at \in 1..((Len(cmd.confs) + 1) - 1)
      BY <1>1, <1>3
    <3> QED BY <3>1, <3>2 DEF Nobody
  <2> QED BY <1>2, <1>4, <2>1 DEF Again
<1> QED BY <1>5, <1>6, <1>7, <1>8 DEF IInv

LEMMA DoneKeeps ==
  ASSUME IInv, Done
  PROVE  IInv'
<1>1. /\ phase = "start" /\ at > Len(confs) /\ phase' = "done"
      /\ UNCHANGED <<cmd, at, confs, units, names, former>>
  BY DEF Done
<1>2. Shaped /\ InOrder /\ WorldSoFar /\ Again
  BY DEF IInv
<1>3. at \in 1..(Len(cmd.confs) + 1) /\ Len(cmd.confs) \in Nat /\ Len(confs) = Len(cmd.confs)
  BY <1>1, <1>2, Starting DEF Shaped
<1>4. at = Len(confs) + 1
  BY <1>1, <1>3
<1>5. Shaped'
  BY <1>1, <1>2 DEF Shaped
<1>6. InOrder'
  BY <1>1, <1>2, <1>4 DEF InOrder
<1>7. WorldSoFar'
  BY <1>1, <1>2, CommandKept DEF WorldSoFar
<1>8. Again'
  BY <1>1, <1>2, AgainKept
<1> QED BY <1>5, <1>6, <1>7, <1>8 DEF IInv

LEMMA StartWrittenKeeps ==
  ASSUME IInv, StartWritten
  PROVE  IInv'
<1>1. /\ phase = "done" /\ former = NoUnits /\ units # NoUnits
      /\ former' = units /\ cmd' = [cmd EXCEPT !.confs = confs, !.write = FALSE]
      /\ phase' = "verify" /\ at' = 1 /\ confs' = <<>> /\ UNCHANGED <<units, names>>
  BY DEF StartWritten
<1>2. Shaped /\ InOrder /\ WorldSoFar
  BY DEF IInv
<1>3. /\ cmd'.confs = confs /\ cmd'.uid = cmd.uid /\ cmd'.root = cmd.root
      /\ cmd' \in [confs : Seq(Configurations), uid : Values, root : BOOLEAN, write : BOOLEAN]
  <2>1. confs \in Seq(Configurations)
    BY <1>2 DEF Shaped
  <2>2. cmd \in [confs : Seq(Configurations), uid : Values, root : BOOLEAN, write : BOOLEAN]
    BY <1>2 DEF Shaped, SoundCommand
  <2> QED BY <1>1, <2>1, <2>2
<1>4. /\ Len(confs) \in Nat \ {0} /\ DOMAIN confs = 1..Len(confs) /\ DOMAIN cmd.confs = DOMAIN confs
      /\ \A j \in DOMAIN confs :
            /\ Good(cmd.confs[j]) /\ Good(confs[j]) /\ cmd.confs[j] \in Configurations
            /\ confs[j] \in VerifyConf(cmd.confs[j], cmd.root)
            /\ NameOf(confs[j]) = NameOf(cmd.confs[j])
  BY <1>1, Starting DEF Good, SoundConf
<1>5. SoundCommand(cmd')
  <2>1. \A i, j \in DOMAIN confs : NameOf(confs[i]) = NameOf(confs[j]) => i = j
    BY <1>2, <1>4 DEF Shaped, SoundCommand
  <2>2. \A i \in DOMAIN confs : SoundConf(confs[i])
    BY <1>4 DEF Good
  <2>3. confs # <<>>
    BY <1>4
  <2> QED BY <1>3, <2>1, <2>2, <2>3 DEF SoundCommand
<1>6. Shaped'
  <2>1. \A i \in DOMAIN cmd'.confs : Good(cmd'.confs[i])
    BY <1>3, <1>4
  <2>2. at' \in 1..(Len(cmd'.confs) + 1) /\ confs' \in Seq(Configurations)
    BY <1>1, <1>3, <1>4
  <2>3. /\ units' \in [Services -> {NoUnit} \cup {Generate(c) : c \in Configurations}]
        /\ former' \in [Services -> {NoUnit} \cup {Generate(c) : c \in Configurations}]
        /\ names' \in [Services -> Names \cup {None}]
    BY <1>1, <1>2 DEF Shaped
  <2> QED BY <1>1, <1>5, <2>1, <2>2, <2>3 DEF Shaped
<1>7. InOrder'
  BY <1>1, <1>3, <1>4 DEF InOrder
<1>8. WorldSoFar'
  BY <1>1 DEF WorldSoFar
<1>9. Again'
  <2>1. \A j \in DOMAIN confs :
           \E r \in Configurations : Good(r) /\ confs[j] \in VerifyConf(r, cmd.root)
    BY <1>4
  <2>2. ASSUME NEW s \in Services
        PROVE  \/ /\ Nobody(confs, s, Len(confs) + 1)
                  /\ units[s] = NoUnit /\ names[s] = None
               \/ \E j \in DOMAIN confs : /\ Last(confs, j, s, Len(confs) + 1)
                                          /\ GeneratedFrom(confs[j], units[s])
    <3>1. at = Len(confs) + 1 /\ former[s] = NoUnit
      BY <1>1, <1>2 DEF InOrder, NoUnits
    <3>2. \/ /\ Nobody(confs, s, at)
             /\ units[s] = former[s]
             /\ former = NoUnits => names[s] = None
          \/ \E j \in 1..(at - 1) : /\ Last(confs, j, s, at)
                                    /\ names[s] = confs[j].name
                                    /\ GeneratedFrom(confs[j], units[s])
      BY <1>1, <1>2 DEF WorldSoFar
    <3>3. 1..(at - 1) = DOMAIN confs
      BY <1>4, <3>1
    <3> QED BY <1>1, <3>1, <3>2, <3>3
  <2>3. \A conf, u : GeneratedFrom(conf, u)' <=> GeneratedFrom(conf, u)
    BY <1>3 DEF GeneratedFrom, Overridden
  <2> QED BY <1>1, <1>3, <2>1, <2>2, <2>3 DEF Again
<1> QED BY <1>6, <1>7, <1>8, <1>9 DEF IInv

-----------------------------------------------------------------------------
(* What it implies.                                                         *)

\* A unit that a command started is generated from what it asked.
LEMMA StartedIs ==
  ASSUME IInv, NEW i \in Started
  PROVE  /\ phase = "done" /\ i \in DOMAIN confs
         /\ \E c : Generates(cmd.confs[i], cmd.root, confs[i], c) /\ UnitOf(i) = Generate(c)
<1> DEFINE s == Sanitized[NameOf(cmd.confs[i])]
<1>1. phase = "done" /\ i \in DOMAIN cmd.confs /\ names[s] = NameOf(cmd.confs[i])
  BY DEF Started
<1>2. /\ i \in DOMAIN confs /\ DOMAIN cmd.confs = DOMAIN confs /\ DOMAIN confs = 1..Len(confs)
      /\ Len(confs) \in Nat /\ cmd.uid \in Values /\ cmd.root \in BOOLEAN
      /\ confs[i].name = NameOf(cmd.confs[i]) /\ confs[i].name # None
      /\ s = ServiceName(confs[i]) /\ s \in Services
      /\ \A j \in DOMAIN confs : confs[j].name = NameOf(cmd.confs[j])
      /\ Good(cmd.confs[i]) /\ confs[i] \in VerifyConf(cmd.confs[i], cmd.root)
  BY <1>1, Starting DEF ServiceName
<1>3. Shaped /\ InOrder /\ WorldSoFar /\ Again /\ at = Len(confs) + 1 /\ Len(confs) = Len(cmd.confs)
  BY <1>1 DEF IInv, InOrder
<1> HIDE DEF s
<1>4. ~(Nobody(confs, s, at) /\ units[s] = former[s] /\ (former = NoUnits => names[s] = None))
  <2> SUFFICES ASSUME Nobody(confs, s, at), former # NoUnits
               PROVE  FALSE
    BY <1>1, <1>2
  <2>1. Nobody(cmd.confs, s, Len(cmd.confs) + 1)
    <3>1. \A j \in DOMAIN confs : ~Makes(confs[j], s)
      BY <1>2, <1>3 DEF Nobody
    <3>2. \A j \in DOMAIN confs : ~Makes(cmd.confs[j], s)
      BY <1>1, <1>2, <3>1, MakesAgain
    <3> QED BY <1>2, <1>3, <3>2 DEF Nobody
  <2>2. names[s] = None
    <3>1. ~\E j \in DOMAIN cmd.confs : Last(cmd.confs, j, s, Len(cmd.confs) + 1)
      BY <2>1 DEF Nobody, Last
    <3> QED BY <1>2, <1>3, <3>1 DEF Again
  <2> QED BY <1>1, <1>2, <2>2
<1>5. PICK j \in 1..(at - 1) : names[s] = confs[j].name /\ GeneratedFrom(confs[j], units[s])
  BY <1>1, <1>2, <1>3, <1>4 DEF WorldSoFar
<1>6. j = i
  <2>1. j \in DOMAIN cmd.confs /\ NameOf(cmd.confs[j]) = NameOf(cmd.confs[i])
    BY <1>1, <1>2, <1>3, <1>5
  <2> QED BY <1>1, <1>3, <2>1 DEF Shaped, SoundCommand
<1>7. PICK c \in PrepareAppConf(Overridden(confs[i])) : units[s] = Generate(c)
  BY <1>5, <1>6 DEF GeneratedFrom
<1>8. Generates(cmd.confs[i], cmd.root, confs[i], c) /\ UnitOf(i) = Generate(c)
  BY <1>2, <1>7 DEF Generates, UnitOf, s
<1> QED BY <1>1, <1>2, <1>8

LEMMA AsStarted ==
  ASSUME IInv
  PROVE  LimitsAsAsked /\ RestartAsAsked /\ CommandIsOneArgument /\ RightsAsAsked
<1>1. ASSUME NEW i \in Started
      PROVE  /\ \A k \in Durations \cup {"min_uptime"} : Limited(UnitOf(i).Secs[k], Amount(Asked(i, k)))
             /\ LET m == Amount(Asked(i, "max_memory_restart")) IN
                IF m = 0 THEN UnitOf(i).MemoryMax = -1 ELSE Near(UnitOf(i).MemoryMax, Kilo * Kilo, m)
             /\ (UnitOf(i).Restart = "no") <=> (Asked(i, "autorestart") = False)
             /\ cmd.confs[i].script = "line" => UnitOf(i).Args = <<"-c", "line">>
  <2>1. PICK c : Generates(cmd.confs[i], cmd.root, confs[i], c) /\ UnitOf(i) = Generate(c)
    BY StartedIs
  <2>2. /\ \A k \in Durations \cup {"min_uptime"} : Limited(UnitOf(i).Secs[k], Amount(Asked(i, k)))
        /\ LET m == Amount(Asked(i, "max_memory_restart")) IN
           IF m = 0 THEN UnitOf(i).MemoryMax = -1 ELSE Near(UnitOf(i).MemoryMax, Kilo * Kilo, m)
    BY <2>1, UnitLimits DEF Asked
  <2>3. /\ (UnitOf(i).Restart = "no") <=> (Asked(i, "autorestart") = False)
        /\ cmd.confs[i].script = "line" => UnitOf(i).Args = <<"-c", "line">>
    BY <2>1, UnitRestart DEF Asked
  <2> QED BY <2>2, <2>3
<1>2. ASSUME ~Truthy(cmd.uid), NEW i \in Started
      PROVE  LET u == IF Asked(i, "uid") = Undefined THEN Asked(i, "user") ELSE Asked(i, "uid") IN
             IF u = Undefined THEN UnitOf(i).User = Undefined
             ELSE /\ UserId(UnitOf(i)) = (CHOOSE x \in Named(Users, u) : TRUE).id
                  /\ GroupId(UnitOf(i)) = AskedGroup(i)
  <2>1. PICK c : Generates(cmd.confs[i], cmd.root, confs[i], c) /\ UnitOf(i) = Generate(c)
    BY StartedIs
  <2> DEFINE o == cmd.confs[i].options
             u == IF o["uid"] = Undefined THEN o["user"] ELSE o["uid"]
             t == UnitOf(i)
  <2>2. IF u = Undefined THEN t.User = Undefined
        ELSE /\ UserId(t) = (CHOOSE x \in Named(Users, u) : TRUE).id
             /\ GroupId(t) = IF o["gid"] = Undefined THEN OwnGroup(UserId(t))
                             ELSE (CHOOSE g \in Named(Groups, o["gid"]) : TRUE).id
    BY <1>2, <2>1, UnitRights
  <2>3. AskedGroup(i) = IF o["gid"] = Undefined THEN OwnGroup(UserId(t))
                        ELSE (CHOOSE g \in Named(Groups, o["gid"]) : TRUE).id
    BY Zenon DEF AskedGroup, Asked
  <2> QED BY <2>2, <2>3, Zenon DEF Asked
<1> QED BY <1>1, <1>2, Zenon DEF LimitsAsAsked, RestartAsAsked, CommandIsOneArgument, RightsAsAsked

LEMMA AsRefused ==
  ASSUME IInv
  PROVE  AllOrNothing /\ OthersStart /\ TypeOK
<1>1. Shaped /\ InOrder /\ WorldSoFar
  BY DEF IInv
<1>2. AllOrNothing
  <2>1. CASE phase \in {"verify", "refused"}
    BY <1>1, <2>1 DEF WorldSoFar, AllOrNothing
  <2>2. CASE phase \in {"start", "done"}
    BY <2>2, Starting DEF AllOrNothing
  <2> QED BY <1>1, <2>1, <2>2 DEF Shaped
<1>3. OthersStart
  <2> SUFFICES ASSUME phase = "done", NEW i \in DOMAIN confs, PrepareAppConf(confs[i]) # {}
               PROVE  names[ServiceName(confs[i])] # None
    BY DEF OthersStart
  <2> DEFINE s == ServiceName(confs[i])
  <2>1. s \in Services /\ Makes(confs[i], s) /\ at = Len(confs) + 1 /\ DOMAIN confs = 1..Len(confs)
        /\ Len(confs) \in Nat
    BY <1>1, Starting DEF InOrder, Makes, Prepared
  <2>2. ~Nobody(confs, s, at)
    BY <2>1 DEF Nobody
  <2>3. PICK j \in 1..(at - 1) : names[s] = confs[j].name
    <3> HIDE DEF s
    <3> QED BY <1>1, <2>1, <2>2 DEF WorldSoFar
  <2>4. j \in DOMAIN confs
    BY <2>1
  <2> QED BY <2>3, <2>4, Starting
<1>4. TypeOK
  <2>1. Len(confs) <= Len(cmd.confs)
    <3>1. Len(cmd.confs) \in Nat /\ at \in 1..(Len(cmd.confs) + 1)
      BY <1>1, CommandFields DEF Shaped
    <3>2. phase \in {"verify", "start", "done", "refused"}
      BY <1>1 DEF Shaped
    <3>3. Len(confs) \in Nat
      BY <1>1, CommandFields
    <3> QED BY <1>1, <3>1, <3>2, <3>3 DEF InOrder
  <2>2. /\ cmd.confs \in Seq(Configurations) /\ cmd.root \in BOOLEAN /\ cmd.write \in BOOLEAN
    BY <1>1, CommandFields
  <2> QED BY <1>1, <2>1, <2>2, Zenon DEF Shaped, TypeOK
<1> QED BY <1>2, <1>3, <1>4

LEMMA ProgramIsThere ==
  ASSUME IInv
  PROVE  ProgramExists
<1>1. Shaped /\ InOrder /\ WorldSoFar /\ Again /\ cmd.uid \in Values
  BY CommandFields DEF IInv
<1>2. ASSUME NEW conf \in Configurations, NEW t, GeneratedFrom(conf, t)
      PROVE  t.Program \in Found \cup {"js", "py", "builtin node"}
  <2>1. PICK c \in PrepareAppConf(Overridden(conf)) : t = Generate(c)
    BY <1>2 DEF GeneratedFrom
  <2>2. Overridden(conf) \in Configurations
    BY <1>1, OverriddenIs
  <2> QED BY <2>1, <2>2, ProgramIs
<1>3. NoUnit.Program = None
  BY DEF NoUnit
<1>4. ASSUME NEW s \in Services
      PROVE  former[s].Program \in Found \cup {"js", "py", "builtin node", None}
  <2>1. CASE former = NoUnits
    BY <1>3, <2>1 DEF NoUnits
  <2>2. CASE former # NoUnits /\ former[s] = NoUnit
    BY <1>3, <2>2
  <2>3. CASE \E j \in DOMAIN cmd.confs : GeneratedFrom(cmd.confs[j], former[s])
    <3>1. PICK j \in DOMAIN cmd.confs : GeneratedFrom(cmd.confs[j], former[s])
      BY <2>3
    <3>2. cmd.confs[j] \in Configurations
      BY <1>1, CommandFields
    <3> QED BY <1>2, <3>1, <3>2
  <2> QED BY <1>1, <2>1, <2>2, <2>3 DEF Again
<1>5. ASSUME NEW s \in Services
      PROVE  units[s].Program \in Found \cup {"js", "py", "builtin node", None}
  <2>1. CASE units[s] = former[s]
    BY <1>4, <2>1
  <2>2. CASE phase \in {"start", "done"} /\ \E j \in 1..(at - 1) : GeneratedFrom(confs[j], units[s])
    <3>1. PICK j \in 1..(at - 1) : GeneratedFrom(confs[j], units[s])
      BY <2>2
    <3>2. confs[j] \in Configurations
      <4>1. at \in 1..(Len(cmd.confs) + 1) /\ Len(confs) = Len(cmd.confs) /\ Len(cmd.confs) \in Nat
            /\ DOMAIN confs = 1..Len(confs)
        BY <1>1, <2>2, Starting DEF Shaped
      <4>2. j \in DOMAIN confs
        BY <4>1
      <4> QED BY <2>2, <4>2, Starting
    <3> QED BY <1>2, <3>1, <3>2
  <2> QED BY <1>1, <2>1, <2>2 DEF Shaped, WorldSoFar
<1> QED BY <1>5 DEF ProgramExists

LEMMA AsBefore ==
  ASSUME IInv
  PROVE  SameAgain
<1> SUFFICES ASSUME former # NoUnits
             PROVE  /\ phase # "refused"
                    /\ phase = "done" => \A s \in Services : units[s] = former[s] \/ Same(s)
  BY DEF SameAgain
<1>1. Shaped /\ InOrder /\ WorldSoFar /\ Again /\ cmd.root \in BOOLEAN
  BY CommandFields DEF IInv
<1>2. phase # "refused"
  <2>1. \A j \in DOMAIN cmd.confs : VerifyConf(cmd.confs[j], cmd.root) # {}
    BY <1>1, VerifiedAgain DEF Again
  <2> QED BY <1>1, <2>1 DEF InOrder
<1>3. ASSUME phase = "done", NEW s \in Services
      PROVE  units[s] = former[s] \/ Same(s)
  <2>1. /\ at = Len(confs) + 1 /\ Len(confs) = Len(cmd.confs) /\ DOMAIN confs = 1..Len(confs)
        /\ DOMAIN cmd.confs = DOMAIN confs /\ Len(confs) \in Nat /\ cmd.uid \in Values
    BY <1>1, <1>3, Starting DEF InOrder
  <2>2. CASE Nobody(confs, s, at) /\ units[s] = former[s]
    BY <2>2
  <2>3. CASE \E j \in 1..(at - 1) : Last(confs, j, s, at) /\ GeneratedFrom(confs[j], units[s])
    <3>1. PICK j \in 1..(at - 1) : Last(confs, j, s, at) /\ GeneratedFrom(confs[j], units[s])
      BY <2>3
    <3>2. j \in DOMAIN confs
      BY <2>1
    <3>3. Last(cmd.confs, j, s, Len(cmd.confs) + 1)
      <4>1. \A k \in DOMAIN confs : Makes(confs[k], s) <=> Makes(cmd.confs[k], s)
        BY <1>3, MakesAgain
      <4>2. \A k \in (j + 1)..(at - 1) : k \in DOMAIN confs
        BY <2>1, <3>2
      <4> QED BY <2>1, <3>1, <3>2, <4>1, <4>2 DEF Last
    <3>4. PICK i \in DOMAIN cmd.confs :
             Last(cmd.confs, i, s, Len(cmd.confs) + 1) /\ GeneratedFrom(cmd.confs[i], former[s])
      <4>1. ~Nobody(cmd.confs, s, Len(cmd.confs) + 1)
        BY <3>3 DEF Nobody, Last
      <4> QED BY <1>1, <4>1 DEF Again
    <3>5. i = j
      BY <2>1, <3>2, <3>3, <3>4 DEF Last
    <3>6. PICK c2 \in PrepareAppConf(Overridden(confs[j])) : units[s] = Generate(c2)
      BY <3>1 DEF GeneratedFrom
    <3>7. PICK c \in PrepareAppConf(Overridden(cmd.confs[j])) : former[s] = Generate(c)
      BY <3>4, <3>5 DEF GeneratedFrom
    <3>8. PICK r \in Configurations : Good(r) /\ cmd.confs[j] \in VerifyConf(r, cmd.root)
      BY <1>1, <2>1, <3>2 DEF Again
    <3>9. Generates(r, cmd.root, cmd.confs[j], c) /\ Generates(cmd.confs[j], cmd.root, confs[j], c2)
      <4>1. Good(cmd.confs[j]) /\ confs[j] \in VerifyConf(cmd.confs[j], cmd.root)
        BY <1>3, <3>2, Starting
      <4> QED BY <1>1, <2>1, <3>6, <3>7, <3>8, <4>1 DEF Generates
    <3>10. Generate(c2) = Generate(c) \/ SameUnit(Generate(c2), Generate(c))
      BY <3>9, UnitAgain
    <3>11. units[s] = former[s] \/ SameUnit(units[s], former[s])
      BY <3>6, <3>7, <3>10
    <3> QED BY <3>11, Zenon DEF SameUnit, Same
  <2> QED BY <1>1, <1>3, <2>2, <2>3 DEF WorldSoFar
<1> QED BY <1>2, <1>3

\* A unit has the rights, the restarts and the limits that were asked, its program
\* is there, a command line given as script is one argument, and a command of which
\* one configuration is refused writes none: for all commands that ask for root's
\* group only for users who have it (verifyConfs, prepareAppConf, generate).
THEOREM AsAsked == ASSUME SoundGroups PROVE Spec => []UnitAsAsked
<1>1. Init => IInv
  BY Initially
<1>2. IInv /\ [Next]_vars => IInv'
  <2> SUFFICES ASSUME IInv, [Next]_vars
               PROVE  IInv'
    OBVIOUS
  <2>1. CASE UNCHANGED vars
    <3>1. UNCHANGED <<cmd, phase, at, confs, units, names, former>>
      BY <2>1 DEF vars
    <3>2. Shaped' /\ InOrder' /\ WorldSoFar'
      BY <3>1, CommandKept DEF IInv, Shaped, InOrder, WorldSoFar
    <3> QED BY <3>1, <3>2, AgainKept DEF IInv
  <2> QED BY <2>1, VerifyKeeps, StartKeeps, DoneKeeps, StartWrittenKeeps DEF Next
<1>3. IInv => UnitAsAsked
  BY AsStarted, AsRefused, ProgramIsThere, AsBefore, Zenon DEF UnitAsAsked
<1> QED BY <1>1, <1>2, <1>3, PTL DEF Spec

-----------------------------------------------------------------------------
(***************************************************************************)
(* The files that update-node rewrites.  A line is as it was, or it is the *)
(* PATH that counts; the invariant says that this line is not the middle   *)
(* of a value, and what is settled in files written for a runtime.         *)
(***************************************************************************)

\* A file of lines; no value is left open at its end, and the PATH that zm2
\* rewrites is one that systemd reads.  (The prover knows no member of STRING.)
EnvLines ==
    [kind : {"assign", "note", "bad"}, key : STRING \cup {"PATH"}, style : {"plain", "single", "double"},
     entries : Seq(DOMAIN Bare), quote : {"whole", "opens", "goes", "closes"}]
SoundFile(f) ==
    f # NoFile =>
        /\ f \in Seq(EnvLines)
        /\ ~Runtime!Inside(f, Len(f) + 1)
        /\ \A i \in Runtime!PathLines(f) :
              Runtime!Inside(f, i) => \E j \in Runtime!PathLines(f) : j > i
SoundUnit(u) ==
    /\ Len(u) \in Nat /\ u = [i \in 1 .. Len(u) |-> u[i]]
    /\ \A i \in 1 .. Len(u) : u[i] \in [kind : {u[i].kind}, key : {u[i].key}, value : {u[i].value}]
SoundFiles ==
    /\ \A u \in UnitFiles : SoundUnit(u)
    /\ \A f \in Edits : SoundFile(f)
    /\ \A e \in Environments : SoundFile(Runtime!GenerateEnvFile(e))
    /\ NoFile \notin Seq(EnvLines)
\* The bin directory of a runtime is a directory of its own.
OwnDirectories ==
    /\ BasePath \in Seq(DOMAIN Bare)
    /\ \A rt \in Runtimes :
          /\ rt.bin \in DOMAIN Bare
          /\ \A i \in DOMAIN BasePath : ~Runtime!Same(BasePath[i], rt.bin)

\* The entries of a PATH begin with d, which is nowhere else.
Settled(entries, d) ==
    /\ entries # <<>> /\ Runtime!Same(entries[1], d)
    /\ \A i \in 2 .. Len(entries) : ~Runtime!Same(entries[i], d)
WrittenFor(rt) ==
    /\ \A i \in Runtime!Assigns(unit, "ExecStart") : unit[i].value = rt.exe
    /\ env # NoFile /\ Runtime!PathLines(env) # {}
    /\ Settled(Runtime!Theirs(env).entries, rt.bin)
FilesInv ==
    /\ SoundUnit(unit) /\ SoundFile(env)
    /\ \A rt \in Runtimes : last = {rt} => WrittenFor(rt)

\* A set of numbers that is not empty has a least one, and a bounded one a greatest.
LEMMA LeastOf ==
  ASSUME NEW T, T \subseteq Nat, T # {}
  PROVE  \E m \in T : \A n \in T : m <= n
<1>1. PICK m \in T : \A n \in T : <<n, m>> \notin OpToRel(<, Nat)
  BY NatLessThanWellFounded, WFMin
<1>2. ASSUME NEW n \in T PROVE m <= n
  <2>1. m \in Nat /\ n \in Nat
    OBVIOUS
  <2>2. ~(n < m)
    BY <1>1, <2>1 DEF OpToRel
  <2> QED BY <2>1, <2>2
<1> QED BY <1>2
LEMMA GreatestOf ==
  ASSUME NEW n \in Nat, NEW S, S \subseteq 1 .. n, S # {}
  PROVE  Runtime!Max(S) \in S /\ \A x \in S : x <= Runtime!Max(S)
<1> DEFINE T == {k \in Nat : \A x \in S : x <= k}
<1>1. T \subseteq Nat /\ n \in T
  OBVIOUS
<1>2. PICK m \in T : \A k \in T : m <= k
  <2> HIDE DEF T
  <2> QED BY <1>1, LeastOf
<1>3. m \in S
  <2>1. CASE m \notin S
    <3>1. PICK y \in S : TRUE
      OBVIOUS
    <3>2. m \in Nat /\ y \in Nat /\ 1 <= y /\ y <= m
      BY <1>2, <3>1
    <3>3. ASSUME NEW x \in S PROVE x <= m - 1
      <4>1. x \in Nat /\ x <= m /\ x # m
        BY <1>2, <2>1
      <4> QED BY <3>2, <4>1
    <3>4. m - 1 \in T
      BY <3>2, <3>3
    <3>5. m <= m - 1
      BY <1>2, <3>4
    <3> QED BY <3>2, <3>5
  <2> QED BY <2>1
<1>4. \A x \in S : x <= m
  BY <1>2
<1>5. \E x \in S : \A y \in S : x >= y
  <2>1. \A y \in S : m >= y
    BY <1>2, <1>4
  <2> QED BY <1>3, <2>1
<1>6. Runtime!Max(S) \in S /\ \A y \in S : Runtime!Max(S) >= y
  BY <1>5 DEF Runtime!Max
<1> QED BY <1>6

-----------------------------------------------------------------------------
(* Kept, prefix by prefix.                                                  *)

\* The function that Kept computes.
KeptUpTo(l, d, F) ==
    F = [i \in 0 .. Len(l) |->
            IF i = 0 THEN << >>
            ELSE IF Runtime!Same(l[i], d) THEN F[i - 1] ELSE Append(F[i - 1], l[i])]
LEMMA KeptRuns ==
  ASSUME NEW E, NEW l \in Seq(E), NEW d
  PROVE  \E F : KeptUpTo(l, d, F) /\ Runtime!Kept(l, d) = F[Len(l)]
<1> DEFINE step(F, i) ==
             IF i = 0 THEN << >>
             ELSE IF Runtime!Same(l[i], d) THEN F[i - 1] ELSE Append(F[i - 1], l[i])
           Sol(F, n) == F = [i \in 0 .. n |-> step(F, i)]
           T == {n \in 0 .. Len(l) : ~ \E F : Sol(F, n)}
<1>1. T = {}
  <2> SUFFICES ASSUME T # {} PROVE FALSE
    OBVIOUS
  <2>0. T \subseteq Nat
    OBVIOUS
  <2>1. PICK m \in T : \A n \in T : m <= n
    <3> HIDE DEF T
    <3> QED BY <2>0, LeastOf
  <2>2. m \in 0 .. Len(l) /\ m \in Nat
    OBVIOUS
  <2>3. CASE m = 0
    <3>1. Sol([i \in 0 .. 0 |-> << >>], 0)
      OBVIOUS
    <3> QED BY <3>1, <2>3
  <2>4. CASE m # 0
    <3>1. m - 1 \in 0 .. Len(l) /\ m - 1 \notin T
      <4> HIDE DEF T
      <4> QED BY <2>1, <2>2, <2>4
    <3>2. PICK F : Sol(F, m - 1)
      BY <3>1
    <3> DEFINE G == [i \in 0 .. m |-> IF i = m THEN step(F, m) ELSE F[i]]
    <3>3. Sol(G, m)
      <4>1. ASSUME NEW i \in 0 .. m PROVE G[i] = step(G, i)
        <5>1. CASE i = m
          <6>1. m - 1 \in 0 .. m /\ m - 1 # m
            BY <2>2, <2>4
          <6>2. G[m - 1] = F[m - 1]
            BY <6>1
          <6> QED BY <5>1, <6>2, <2>4
        <5>2. CASE i # m
          <6>1. i \in 0 .. m - 1
            BY <5>2, <2>2
          <6>2. F[i] = step(F, i)
            BY <3>2, <6>1
          <6>3. i # 0 => i - 1 \in 0 .. m /\ i - 1 # m
            BY <6>1, <2>2
          <6> QED BY <5>2, <6>1, <6>2, <6>3
        <5> QED BY <5>1, <5>2
      <4> QED BY <4>1
    <3> QED BY <3>3
  <2> QED BY <2>3, <2>4
<1> DEFINE F == CHOOSE H : Sol(H, Len(l))
<1>2. Sol(F, Len(l))
  <2>1. Len(l) \in 0 .. Len(l)
    OBVIOUS
  <2>2. \E H : Sol(H, Len(l))
    BY <1>1, <2>1
  <2> HIDE DEF Sol
  <2> QED BY <2>2
<1>3. Runtime!Kept(l, d) = F[Len(l)]
  BY DEF Runtime!Kept
<1>4. KeptUpTo(l, d, F)
  <2> HIDE DEF F
  <2> QED BY <1>2 DEF KeptUpTo
<1> QED BY <1>3, <1>4

\* What a prefix of i entries leaves.
KeptSome(l, d, k, i) ==
    /\ Len(k) <= i
    /\ \A j \in 1 .. Len(k) : ~Runtime!Same(k[j], d) /\ \E m \in 1 .. i : k[j] = l[m]
KeptAll(l, d, k, i) ==
    (\A m \in 1 .. i : ~Runtime!Same(l[m], d)) =>
        Len(k) = i /\ \A m \in 1 .. i : k[m] = l[m]
KeptTail(l, d, k, i) ==
    i > 0 /\ Runtime!Same(l[1], d) =>
        /\ Len(k) <= i - 1
        /\ (Len(k) = i - 1) <=> \A m \in 2 .. i : ~Runtime!Same(l[m], d)
        /\ (\A m \in 2 .. i : ~Runtime!Same(l[m], d)) => \A m \in 1 .. i - 1 : k[m] = l[m + 1]
KeptSoFar(E, l, d, k, i) ==
    k \in Seq(E) /\ KeptSome(l, d, k, i) /\ KeptAll(l, d, k, i) /\ KeptTail(l, d, k, i)

LEMMA KeptNone ==
  ASSUME NEW E, NEW l \in Seq(E), NEW d
  PROVE  KeptSoFar(E, l, d, << >>, 0)
BY DEF KeptSoFar, KeptSome, KeptAll, KeptTail
LEMMA KeptDrops ==
  ASSUME NEW E, NEW l \in Seq(E), NEW d, NEW i \in 1 .. Len(l), NEW k,
         KeptSoFar(E, l, d, k, i - 1), Runtime!Same(l[i], d)
  PROVE  KeptSoFar(E, l, d, k, i)
<1>0. k \in Seq(E) /\ Len(k) \in Nat /\ i \in Nat /\ i >= 1
  BY DEF KeptSoFar
<1>1. KeptSome(l, d, k, i)
  <2>1. ASSUME NEW j \in 1 .. Len(k)
        PROVE  ~Runtime!Same(k[j], d) /\ \E m \in 1 .. i : k[j] = l[m]
    <3>1. ~Runtime!Same(k[j], d) /\ \E m \in 1 .. i - 1 : k[j] = l[m]
      BY DEF KeptSoFar, KeptSome
    <3> QED BY <3>1
  <2> QED BY <1>0, <2>1 DEF KeptSoFar, KeptSome
<1>2. KeptAll(l, d, k, i)
  BY <1>0 DEF KeptAll
<1>3. KeptTail(l, d, k, i)
  <2>1. CASE i = 1
    <3>1. Len(k) = 0
      BY <1>0, <2>1 DEF KeptSoFar, KeptSome
    <3> QED BY <2>1, <3>1 DEF KeptTail
  <2>2. CASE i # 1
    <3> SUFFICES ASSUME Runtime!Same(l[1], d) PROVE KeptTail(l, d, k, i)
      BY DEF KeptTail
    <3>1. i - 1 > 0 /\ i \in 2 .. i
      BY <1>0, <2>2
    <3>2. Len(k) <= i - 2
      BY <1>0, <3>1 DEF KeptSoFar, KeptTail
    <3> QED BY <1>0, <3>1, <3>2 DEF KeptTail
  <2> QED BY <2>1, <2>2
<1> QED BY <1>0, <1>1, <1>2, <1>3 DEF KeptSoFar
LEMMA KeptAdds ==
  ASSUME NEW E, NEW l \in Seq(E), NEW d, NEW i \in 1 .. Len(l), NEW k,
         KeptSoFar(E, l, d, k, i - 1), ~Runtime!Same(l[i], d)
  PROVE  KeptSoFar(E, l, d, Append(k, l[i]), i)
<1> DEFINE h == Append(k, l[i])
<1>0. k \in Seq(E) /\ Len(k) \in Nat /\ i \in Nat /\ i >= 1 /\ Len(k) <= i - 1
  BY DEF KeptSoFar, KeptSome
<1>1. h \in Seq(E) /\ Len(h) = Len(k) + 1 /\ h[Len(k) + 1] = l[i]
      /\ \A j \in 1 .. Len(k) : h[j] = k[j]
  BY <1>0
<1> HIDE DEF h
<1>2. KeptSome(l, d, h, i)
  <2>1. ASSUME NEW j \in 1 .. Len(h)
        PROVE  ~Runtime!Same(h[j], d) /\ \E m \in 1 .. i : h[j] = l[m]
    <3>1. CASE j = Len(k) + 1
      BY <1>0, <1>1, <3>1
    <3>2. CASE j # Len(k) + 1
      <4>1. j \in 1 .. Len(k) /\ h[j] = k[j]
        BY <1>0, <1>1, <3>2
      <4>2. ~Runtime!Same(k[j], d) /\ \E m \in 1 .. i - 1 : k[j] = l[m]
        BY <4>1 DEF KeptSoFar, KeptSome
      <4> QED BY <4>1, <4>2
    <3> QED BY <3>1, <3>2
  <2> QED BY <1>0, <1>1, <2>1 DEF KeptSome
<1>3. KeptAll(l, d, h, i)
  <2> SUFFICES ASSUME \A m \in 1 .. i : ~Runtime!Same(l[m], d)
               PROVE  Len(h) = i /\ \A m \in 1 .. i : h[m] = l[m]
    BY DEF KeptAll
  <2>1. Len(k) = i - 1 /\ \A m \in 1 .. i - 1 : k[m] = l[m]
    <3>1. \A m \in 1 .. i - 1 : ~Runtime!Same(l[m], d)
      BY <1>0
    <3> QED BY <3>1 DEF KeptSoFar, KeptAll
  <2>2. ASSUME NEW m \in 1 .. i PROVE h[m] = l[m]
    BY <1>0, <1>1, <2>1
  <2> QED BY <1>0, <1>1, <2>1, <2>2
<1>4. KeptTail(l, d, h, i)
  <2> SUFFICES ASSUME Runtime!Same(l[1], d) PROVE KeptTail(l, d, h, i)
    BY DEF KeptTail
  <2>1. i - 1 > 0
    BY <1>0
  <2>2. /\ Len(k) <= i - 2
        /\ (Len(k) = i - 2) <=> \A m \in 2 .. i - 1 : ~Runtime!Same(l[m], d)
        /\ (\A m \in 2 .. i - 1 : ~Runtime!Same(l[m], d)) => \A m \in 1 .. i - 2 : k[m] = l[m + 1]
    BY <2>1, <1>0 DEF KeptSoFar, KeptTail
  <2>3. (\A m \in 2 .. i : ~Runtime!Same(l[m], d)) <=> \A m \in 2 .. i - 1 : ~Runtime!Same(l[m], d)
    BY <1>0
  <2>4. ASSUME \A m \in 2 .. i : ~Runtime!Same(l[m], d), NEW m \in 1 .. i - 1
        PROVE  h[m] = l[m + 1]
    <3>1. Len(k) = i - 2 /\ \A n \in 1 .. i - 2 : k[n] = l[n + 1]
      BY <2>2, <2>3, <2>4
    <3> QED BY <1>0, <1>1, <2>1, <3>1
  <2>5. Len(h) <= i - 1 /\ (Len(h) = i - 1 <=> Len(k) = i - 2)
    BY <1>0, <1>1, <2>2
  <2> QED BY <2>2, <2>3, <2>4, <2>5 DEF KeptTail
<1> QED BY <1>1, <1>2, <1>3, <1>4 DEF KeptSoFar, h

\* By the least prefix of which it could be wrong.
LEMMA KeptFacts ==
  ASSUME NEW E, NEW l \in Seq(E), NEW d
  PROVE  KeptSoFar(E, l, d, Runtime!Kept(l, d), Len(l))
<1>1. PICK F : KeptUpTo(l, d, F) /\ Runtime!Kept(l, d) = F[Len(l)]
  BY KeptRuns
<1> DEFINE T == {i \in 0 .. Len(l) : ~KeptSoFar(E, l, d, F[i], i)}
<1>2. T = {}
  <2> SUFFICES ASSUME T # {} PROVE FALSE
    OBVIOUS
  <2>0. T \subseteq Nat
    OBVIOUS
  <2>1. PICK m \in T : \A n \in T : m <= n
    <3> HIDE DEF T
    <3> QED BY <2>0, LeastOf
  <2>2. m \in 0 .. Len(l) /\ ~KeptSoFar(E, l, d, F[m], m)
    OBVIOUS
  <2>3. CASE m = 0
    <3>1. F[0] = << >>
      BY <1>1 DEF KeptUpTo
    <3> QED BY <2>2, <2>3, <3>1, KeptNone
  <2>4. CASE m # 0
    <3>1. m \in 1 .. Len(l) /\ m - 1 \in 0 .. Len(l)
      BY <2>2, <2>4
    <3>2. m - 1 \notin T
      <4> HIDE DEF T
      <4> QED BY <2>1, <3>1
    <3>3. KeptSoFar(E, l, d, F[m - 1], m - 1)
      BY <3>1, <3>2
    <3>4. F[m] = IF Runtime!Same(l[m], d) THEN F[m - 1] ELSE Append(F[m - 1], l[m])
      BY <1>1, <2>2, <2>4 DEF KeptUpTo
    <3>5. CASE Runtime!Same(l[m], d)
      BY <2>2, <3>1, <3>3, <3>4, <3>5, KeptDrops
    <3>6. CASE ~Runtime!Same(l[m], d)
      BY <2>2, <3>1, <3>3, <3>4, <3>6, KeptAdds
    <3> QED BY <3>5, <3>6
  <2> QED BY <2>3, <2>4
<1>3. Len(l) \in 0 .. Len(l)
  OBVIOUS
<1>4. KeptSoFar(E, l, d, F[Len(l)], Len(l))
  BY <1>2, <1>3
<1> QED BY <1>1, <1>4

-----------------------------------------------------------------------------
(* A file g that is the file f with another PATH at line M, which is the one *)
(* that counts, or with one more line.                                       *)

Open(q) == q \in {"opens", "closes"}
Follows(f, g, M) ==
    /\ f \in Seq(EnvLines) /\ g \in Seq(EnvLines)
    /\ M \in 1 .. Len(g)
    /\ Len(g) = Len(f) \/ (Len(g) = Len(f) + 1 /\ M = Len(g))
    /\ \A i \in 1 .. Len(f) : i # M => g[i] = f[i]
    /\ g[M].kind = "assign" /\ g[M].key = "PATH" /\ ~Open(g[M].quote)
    /\ M <= Len(f) => f[M].kind = "assign" /\ f[M].key = "PATH" /\ ~Open(f[M].quote)
    /\ ~Runtime!Inside(f, M)
    /\ \A i \in Runtime!PathLines(f) : i <= M

LEMMA FollowsTypes ==
  ASSUME NEW f, NEW g, NEW M, Follows(f, g, M)
  PROVE  /\ Len(f) \in Nat /\ Len(g) \in Nat /\ M \in Nat /\ 1 <= M /\ M <= Len(g)
         /\ DOMAIN f = 1 .. Len(f) /\ DOMAIN g = 1 .. Len(g)
         /\ Len(g) <= Len(f) + 1 /\ Len(f) <= Len(g)
BY DEF Follows
LEMMA FollowsLines ==
  ASSUME NEW f, NEW g, NEW M, Follows(f, g, M), NEW i \in 1 .. Len(g), i # M
  PROVE  i \in 1 .. Len(f) /\ i \in 1 .. Len(f) + 1 /\ g[i] = f[i]
<1>1. i \in 1 .. Len(f)
  <2>1. Len(g) = Len(f) \/ (Len(g) = Len(f) + 1 /\ M = Len(g))
    BY DEF Follows
  <2> QED BY <2>1, FollowsTypes
<1>2. g[i] = f[i]
  BY <1>1 DEF Follows
<1> QED BY <1>1, <1>2, FollowsTypes
\* The same lines are inside a value.
LEMMA SameInside ==
  ASSUME NEW f, NEW g, NEW M, Follows(f, g, M), NEW i \in 1 .. Len(f) + 1
  PROVE  Runtime!Inside(g, i) <=> Runtime!Inside(f, i)
<1>1. ASSUME NEW j \in 1 .. Len(f)
      PROVE  (g[j].quote = "opens" <=> f[j].quote = "opens")
             /\ (g[j].quote = "closes" <=> f[j].quote = "closes")
  <2>1. CASE j = M
    BY <2>1, FollowsTypes DEF Follows, Open
  <2>2. CASE j # M
    BY <2>2 DEF Follows
  <2> QED BY <2>1, <2>2
<1>2. \A j \in 1 .. i - 1 : j \in 1 .. Len(f) /\ \A k \in j + 1 .. i - 1 : k \in 1 .. Len(f)
  BY FollowsTypes
<1> QED BY <1>1, <1>2 DEF Runtime!Inside
LEMMA NotInside ==
  ASSUME NEW f, NEW g, NEW M, Follows(f, g, M)
  PROVE  ~Runtime!Inside(g, M)
BY SameInside, FollowsTypes DEF Follows
\* Nothing is left open at the end.
LEMMA StaysClosed ==
  ASSUME NEW f, NEW g, NEW M, Follows(f, g, M), ~Runtime!Inside(f, Len(f) + 1)
  PROVE  ~Runtime!Inside(g, Len(g) + 1)
<1>0. Len(f) \in Nat /\ Len(g) \in Nat /\ M \in Nat
  BY FollowsTypes
<1>1. CASE Len(g) = Len(f)
  BY <1>0, <1>1, SameInside
<1>2. CASE Len(g) = Len(f) + 1 /\ M = Len(g)
  <2> SUFFICES ASSUME NEW j \in 1 .. Len(g), g[j].quote = "opens",
                      \A k \in j + 1 .. Len(g) : g[k].quote # "closes"
               PROVE  FALSE
    BY <1>0 DEF Runtime!Inside
  <2>1. j # M
    BY DEF Follows, Open
  <2>2. j \in 1 .. M - 1 /\ \A k \in j + 1 .. M - 1 : k \in j + 1 .. Len(g)
    BY <1>0, <1>2, <2>1
  <2>3. Runtime!Inside(g, M)
    BY <2>2 DEF Runtime!Inside
  <2> QED BY <2>3, NotInside
<1> QED BY <1>1, <1>2 DEF Follows
\* The same assignments start, and that of PATH is M.
LEMMA SameStarts ==
  ASSUME NEW f, NEW g, NEW M, Follows(f, g, M)
  PROVE  Runtime!Starts(g) = Runtime!Starts(f) \cup {M}
<1>0. /\ DOMAIN f = 1 .. Len(f) /\ DOMAIN g = 1 .. Len(g) /\ M \in 1 .. Len(g)
      /\ Len(f) \in Nat /\ Len(g) \in Nat /\ Len(g) <= Len(f) + 1 /\ Len(f) <= Len(g)
  BY FollowsTypes
<1>1. M \in Runtime!Starts(g)
  BY <1>0, NotInside DEF Runtime!Starts, Follows
<1>2. ASSUME NEW i \in 1 .. Len(g), i # M
      PROVE  i \in Runtime!Starts(g) <=> i \in Runtime!Starts(f)
  <2>1. i \in 1 .. Len(f) /\ i \in 1 .. Len(f) + 1 /\ g[i] = f[i]
    BY <1>2, FollowsLines
  <2>2. Runtime!Inside(g, i) <=> Runtime!Inside(f, i)
    BY <2>1, SameInside
  <2> QED BY <1>0, <1>2, <2>1, <2>2 DEF Runtime!Starts
<1>3. Runtime!Starts(g) \subseteq 1 .. Len(g) /\ Runtime!Starts(f) \subseteq 1 .. Len(g)
  BY <1>0 DEF Runtime!Starts
<1> QED BY <1>0, <1>1, <1>2, <1>3
LEMMA StartsInFile ==
  ASSUME NEW f \in Seq(EnvLines)
  PROVE  /\ Runtime!Starts(f) \subseteq 1 .. Len(f)
         /\ \A i \in Runtime!Starts(f) : f[i].kind = "assign"
         /\ \A i \in Runtime!Starts(f) : f[i].key = "PATH" => i \in Runtime!PathLines(f)
BY DEF Runtime!Starts, Runtime!PathLines
LEMMA PathIsM ==
  ASSUME NEW f, NEW g, NEW M, Follows(f, g, M)
  PROVE  Runtime!Final(g, "PATH") = M /\ (M <= Len(f) => Runtime!Final(f, "PATH") = M)
<1>0. /\ f \in Seq(EnvLines) /\ g \in Seq(EnvLines)
      /\ DOMAIN f = 1 .. Len(f) /\ DOMAIN g = 1 .. Len(g) /\ M \in 1 .. Len(g)
      /\ Len(f) \in Nat /\ Len(g) \in Nat /\ Len(f) <= Len(g)
  BY FollowsTypes DEF Follows
<1> DEFINE S(h) == {i \in Runtime!Starts(h) : h[i].key = "PATH"}
<1>1. \A i \in S(f) : i \in 1 .. Len(f) /\ i <= M
  BY <1>0, StartsInFile DEF Follows
<1>2. \A i \in S(g) : i \in 1 .. Len(g) /\ i <= M
  <2> SUFFICES ASSUME NEW i \in S(g), i # M PROVE i \in 1 .. Len(g) /\ i <= M
    BY <1>0
  <2>1. i \in Runtime!Starts(f)
    BY SameStarts
  <2>2. i \in 1 .. Len(f)
    BY <2>1, <1>0, StartsInFile
  <2>3. g[i] = f[i]
    BY <2>2 DEF Follows
  <2> QED BY <1>0, <1>1, <2>1, <2>2, <2>3
<1>3. M \in S(g)
  BY SameStarts DEF Follows
<1>4. M <= Len(f) => M \in S(f)
  <2>1. M <= Len(f) => M \in DOMAIN f
    BY <1>0
  <2>2. M <= Len(f) => f[M].kind = "assign" /\ f[M].key = "PATH" /\ ~Runtime!Inside(f, M)
    BY DEF Follows
  <2> QED BY <2>1, <2>2 DEF Runtime!Starts
<1>5. S(g) \subseteq 1 .. Len(g) /\ S(f) \subseteq 1 .. Len(f)
  BY <1>1, <1>2
<1>6. Runtime!Max(S(g)) = M
  <2> HIDE DEF S
  <2>1. S(g) # {}
    BY <1>3
  <2>2. Runtime!Max(S(g)) \in S(g) /\ \A x \in S(g) : x <= Runtime!Max(S(g))
    BY <1>0, <1>5, <2>1, GreatestOf
  <2>3. M <= Runtime!Max(S(g))
    BY <1>3, <2>2
  <2>4. Runtime!Max(S(g)) \in 1 .. Len(g) /\ Runtime!Max(S(g)) <= M
    BY <1>2, <2>2
  <2> QED BY <1>0, <2>3, <2>4
<1>7. ASSUME M <= Len(f) PROVE Runtime!Max(S(f)) = M
  <2> HIDE DEF S
  <2>1. S(f) # {} /\ M \in S(f)
    BY <1>4, <1>7
  <2>2. Runtime!Max(S(f)) \in S(f) /\ \A x \in S(f) : x <= Runtime!Max(S(f))
    BY <1>0, <1>5, <2>1, GreatestOf
  <2>3. M <= Runtime!Max(S(f))
    BY <2>1, <2>2
  <2>4. Runtime!Max(S(f)) \in 1 .. Len(f) /\ Runtime!Max(S(f)) <= M
    BY <1>1, <2>2
  <2> QED BY <1>0, <2>3, <2>4
<1> QED BY <1>6, <1>7 DEF Runtime!Final
LEMMA OthersFinal ==
  ASSUME NEW f, NEW g, NEW M, Follows(f, g, M), NEW k, k # "PATH"
  PROVE  {i \in Runtime!Starts(g) : g[i].key = k} = {i \in Runtime!Starts(f) : f[i].key = k}
<1>0. /\ DOMAIN f = 1 .. Len(f) /\ DOMAIN g = 1 .. Len(g) /\ M \in 1 .. Len(g)
      /\ Len(f) \in Nat /\ Len(g) \in Nat /\ Len(f) <= Len(g)
  BY FollowsTypes
<1>1. ASSUME NEW i \in Runtime!Starts(f) \cup {M}
      PROVE  (i \in Runtime!Starts(g) /\ g[i].key = k) <=> (i \in Runtime!Starts(f) /\ f[i].key = k)
  <2>1. CASE i = M
    <3>1. g[M].key = "PATH"
      BY DEF Follows
    <3>2. M \in Runtime!Starts(f) => f[M].key = "PATH"
      <4>1. M \in Runtime!Starts(f) => M <= Len(f)
        BY <1>0 DEF Runtime!Starts
      <4> QED BY <4>1 DEF Follows
    <3> QED BY <2>1, <3>1, <3>2
  <2>2. CASE i # M
    <3>1. i \in Runtime!Starts(f) /\ i \in 1 .. Len(g)
      BY <1>0, <2>2 DEF Runtime!Starts
    <3>2. g[i] = f[i]
      BY <2>2, <3>1, FollowsLines
    <3> QED BY <3>1, <3>2, SameStarts
  <2> QED BY <2>1, <2>2
<1>2. Runtime!Starts(g) \subseteq Runtime!Starts(f) \cup {M}
      /\ Runtime!Starts(f) \subseteq Runtime!Starts(f) \cup {M}
  BY SameStarts
<1> QED BY <1>1, <1>2
\* A value that goes on does so over the same lines: M is none of them.
LEMMA SameGoesOn ==
  ASSUME NEW f, NEW g, NEW M, Follows(f, g, M), NEW i \in 1 .. Len(f), i # M
  PROVE  Runtime!GoesOn(g, i) = Runtime!GoesOn(f, i)
<1>0. /\ DOMAIN f = 1 .. Len(f) /\ DOMAIN g = 1 .. Len(g) /\ M \in 1 .. Len(g) /\ M \in Nat
      /\ Len(f) \in Nat /\ Len(g) \in Nat /\ Len(f) <= Len(g) /\ Len(g) <= Len(f) + 1
  BY FollowsTypes
<1> DEFINE J(h) == {j \in i + 1 .. Len(h) : \A m \in i + 1 .. j : Runtime!Inside(h, m)}
<1>1. ASSUME NEW j \in J(g) PROVE j # M /\ j \in J(f)
  <2>1. j \in i + 1 .. Len(g) /\ Runtime!Inside(g, j)
    OBVIOUS
  <2>2. j # M
    BY <2>1, NotInside
  <2>3. j \in 1 .. Len(f)
    BY <1>0, <2>1, <2>2, FollowsLines
  <2>4. ASSUME NEW m \in i + 1 .. j PROVE Runtime!Inside(f, m)
    <3>1. Runtime!Inside(g, m) /\ m \in 1 .. Len(f) + 1
      BY <1>0, <2>3
    <3> QED BY <3>1, SameInside
  <2> QED BY <2>1, <2>2, <2>3, <2>4
<1>2. ASSUME NEW j \in J(f) PROVE j # M /\ j \in J(g)
  <2>1. j \in i + 1 .. Len(f) /\ Runtime!Inside(f, j)
    OBVIOUS
  <2>2. j # M
    BY <2>1 DEF Follows
  <2>3. ASSUME NEW m \in i + 1 .. j PROVE Runtime!Inside(g, m)
    <3>1. Runtime!Inside(f, m) /\ m \in 1 .. Len(f) + 1
      BY <1>0, <2>1
    <3> QED BY <3>1, SameInside
  <2>4. j \in i + 1 .. Len(g)
    BY <1>0, <2>1
  <2> QED BY <2>2, <2>3, <2>4
<1>3. J(g) = J(f)
  <2> HIDE DEF J
  <2> QED BY <1>1, <1>2
<1>4. \A j \in J(f) : g[j] = f[j]
  <2>1. \A j \in J(f) : j \in 1 .. Len(g) /\ j # M
    BY <1>0, <1>2
  <2> HIDE DEF J
  <2> QED BY <2>1, FollowsLines
<1>5. {g[j] : j \in J(g)} = {f[j] : j \in J(f)}
  <2> HIDE DEF J
  <2> QED BY <1>3, <1>4
<1> QED BY <1>5 DEF Runtime!GoesOn
LEMMA SameAssigned ==
  ASSUME NEW f, NEW g, NEW M, Follows(f, g, M), NEW i \in 1 .. Len(f), i # M
  PROVE  Runtime!Assigned(g, i) = Runtime!Assigned(f, i)
<1>1. g[i] = f[i]
  <2>1. i \in 1 .. Len(g)
    BY FollowsTypes
  <2> QED BY <2>1, FollowsLines
<1>2. Runtime!GoesOn(g, i) = Runtime!GoesOn(f, i)
  BY SameGoesOn
<1> QED BY <1>1, <1>2 DEF Runtime!Assigned
\* The environment but for PATH is the same, and PATH is that of line M.
LEMMA SameRest ==
  ASSUME NEW f, NEW g, NEW M, Follows(f, g, M), f # NoFile, g # NoFile
  PROVE  Runtime!Rest(g) = Runtime!Rest(f)
<1> DEFINE K(h) == {h[i].key : i \in Runtime!Starts(h)}
<1>0. /\ f \in Seq(EnvLines) /\ g \in Seq(EnvLines)
      /\ DOMAIN f = 1 .. Len(f) /\ DOMAIN g = 1 .. Len(g) /\ M \in 1 .. Len(g)
      /\ Len(f) \in Nat /\ Len(g) \in Nat /\ Len(f) <= Len(g)
  BY FollowsTypes DEF Follows
<1>1. DOMAIN Runtime!Read(g) = K(g) /\ DOMAIN Runtime!Read(f) = K(f)
  BY DEF Runtime!Read
<1>2. ASSUME NEW k, k # "PATH" PROVE k \in K(g) <=> k \in K(f)
  <2>1. {i \in Runtime!Starts(g) : g[i].key = k} = {i \in Runtime!Starts(f) : f[i].key = k}
    BY <1>2, OthersFinal
  <2> QED BY <2>1
<1>3. ASSUME NEW k, k # "PATH" PROVE Runtime!Final(g, k) = Runtime!Final(f, k)
  <2>1. {i \in Runtime!Starts(g) : g[i].key = k} = {i \in Runtime!Starts(f) : f[i].key = k}
    BY <1>3, OthersFinal
  <2> QED BY <2>1, Zenon DEF Runtime!Final
<1>4. ASSUME NEW k \in K(f), k # "PATH" PROVE Runtime!Read(g)[k] = Runtime!Read(f)[k]
  <2> DEFINE S == {i \in Runtime!Starts(f) : f[i].key = k}
  <2>1. Runtime!Final(g, k) = Runtime!Final(f, k)
    BY <1>4, <1>3
  <2>2. S # {} /\ S \subseteq 1 .. Len(f)
    BY <1>0, StartsInFile
  <2>3. Runtime!Max(S) \in S
    <3> HIDE DEF S
    <3> QED BY <1>0, <2>2, GreatestOf
  <2>4. Runtime!Final(f, k) \in S
    BY <2>3 DEF Runtime!Final
  <2>5. Runtime!Final(f, k) # M
    <3>1. M <= Len(f) => f[M].key = "PATH"
      BY DEF Follows
    <3>2. Runtime!Final(f, k) \in 1 .. Len(f) /\ f[Runtime!Final(f, k)].key = k
      BY <2>2, <2>4
    <3> QED BY <1>0, <1>4, <3>1, <3>2
  <2>6. Runtime!Assigned(g, Runtime!Final(f, k)) = Runtime!Assigned(f, Runtime!Final(f, k))
    BY <2>2, <2>4, <2>5, SameAssigned
  <2>7. k \in K(g)
    BY <1>2, <1>4
  <2>8. Runtime!Read(g)[k] = Runtime!Assigned(g, Runtime!Final(g, k))
    BY <2>7 DEF Runtime!Read
  <2>9. Runtime!Read(f)[k] = Runtime!Assigned(f, Runtime!Final(f, k))
    BY DEF Runtime!Read
  <2> QED BY <2>1, <2>6, <2>8, <2>9
<1>5. K(g) \ {"PATH"} = K(f) \ {"PATH"}
  <2> HIDE DEF K
  <2> QED BY <1>2
<1> HIDE DEF K
<1>6. \A k \in K(g) \ {"PATH"} : Runtime!Read(g)[k] = Runtime!Read(f)[k]
  BY <1>4, <1>5
<1> QED BY <1>1, <1>5, <1>6 DEF Runtime!Rest
LEMMA PathOfM ==
  ASSUME NEW f, NEW g, NEW M, Follows(f, g, M), f # NoFile, g # NoFile
  PROVE  /\ Runtime!Torn(g[M]) \/ Runtime!PathOf(g) = g[M].entries
         /\ M <= Len(f) => Runtime!Torn(f[M]) \/ Runtime!PathOf(f) = f[M].entries
         /\ M > Len(f) => Runtime!PathLines(f) # {} \/ Runtime!PathOf(f) = << >>
<1>0. /\ f \in Seq(EnvLines) /\ g \in Seq(EnvLines)
      /\ DOMAIN f = 1 .. Len(f) /\ DOMAIN g = 1 .. Len(g) /\ M \in 1 .. Len(g)
      /\ Len(f) \in Nat /\ Len(g) \in Nat /\ Len(f) <= Len(g)
  BY FollowsTypes DEF Follows
<1>1. M \in Runtime!Starts(g) /\ g[M].key = "PATH"
  BY SameStarts DEF Follows
<1>2. "PATH" \in DOMAIN Runtime!Read(g)
      /\ Runtime!Read(g)["PATH"] = Runtime!Assigned(g, Runtime!Final(g, "PATH"))
  BY <1>1 DEF Runtime!Read
<1>3. Runtime!PathOf(g) = IF Runtime!Torn(g[M]) THEN <<Runtime!None>> ELSE g[M].entries
  BY <1>2, PathIsM DEF Runtime!PathOf, Runtime!Assigned
<1>4. ASSUME M <= Len(f)
      PROVE  Runtime!PathOf(f) = IF Runtime!Torn(f[M]) THEN <<Runtime!None>> ELSE f[M].entries
  <2>1. M \in Runtime!Starts(f) /\ f[M].key = "PATH"
    <3>1. f[M].kind = "assign" /\ f[M].key = "PATH" /\ ~Runtime!Inside(f, M)
      BY <1>4 DEF Follows
    <3>2. M \in DOMAIN f
      BY <1>0, <1>4
    <3> QED BY <3>1, <3>2 DEF Runtime!Starts
  <2>2. "PATH" \in DOMAIN Runtime!Read(f)
        /\ Runtime!Read(f)["PATH"] = Runtime!Assigned(f, Runtime!Final(f, "PATH"))
    BY <2>1 DEF Runtime!Read
  <2> QED BY <1>4, <2>2, PathIsM DEF Runtime!PathOf, Runtime!Assigned
<1>5. ASSUME Runtime!PathLines(f) = {} PROVE Runtime!PathOf(f) = << >>
  <2>1. "PATH" \notin {f[i].key : i \in Runtime!Starts(f)}
    BY <1>0, <1>5, StartsInFile
  <2>2. DOMAIN Runtime!Read(f) = {f[i].key : i \in Runtime!Starts(f)}
    BY DEF Runtime!Read
  <2> QED BY <2>1, <2>2 DEF Runtime!PathOf
<1> QED BY <1>3, <1>4, <1>5
\* No file reads like an empty one.
LEMMA NoFileReads ==
  ASSUME << >> # NoFile
  PROVE  Runtime!Rest(NoFile) = Runtime!Rest(<< >>) /\ Runtime!PathOf(NoFile) = Runtime!PathOf(<< >>)
<1>1. Runtime!Starts(<< >>) = {}
  BY DEF Runtime!Starts
<1>2. DOMAIN Runtime!Read(<< >>) = {}
  BY <1>1 DEF Runtime!Read
<1>3. DOMAIN Runtime!Read(NoFile) = {}
  BY DEF Runtime!Read
<1>4. Runtime!Rest(NoFile) = Runtime!Rest(<< >>)
  BY <1>2, <1>3 DEF Runtime!Rest
<1> QED BY <1>2, <1>3, <1>4 DEF Runtime!PathOf

-----------------------------------------------------------------------------
(* The line that update-node writes.                                        *)

\* Line k has the runtime first, and then what remains of the former entries.
NewLine(k, before, d) ==
    /\ k \in EnvLines /\ k.kind = "assign" /\ k.key = "PATH" /\ ~Runtime!Torn(k)
    /\ Settled(k.entries, d)
    /\ k.entries = <<Head(k.entries)>> \o Runtime!Kept(before, d)

LEMMA Longer ==
  ASSUME NEW E, NEW a \in E, NEW s \in Seq(E)
  PROVE  /\ <<a>> \o s \in Seq(E) /\ Len(<<a>> \o s) = Len(s) + 1
         /\ (<<a>> \o s)[1] = a /\ Head(<<a>> \o s) = a
         /\ \A j \in 1 .. Len(s) : (<<a>> \o s)[j + 1] = s[j]
OBVIOUS
LEMMA SameSequence ==
  ASSUME NEW E, NEW s \in Seq(E), NEW t \in Seq(E), Len(s) = Len(t),
         \A i \in 1 .. Len(s) : s[i] = t[i]
  PROVE  s = t
OBVIOUS
\* Kept takes nothing away where there is nothing to take.
LEMMA KeptWhole ==
  ASSUME NEW E, NEW l \in Seq(E), NEW d, \A m \in 1 .. Len(l) : ~Runtime!Same(l[m], d)
  PROVE  Runtime!Kept(l, d) = l
<1> DEFINE k == Runtime!Kept(l, d)
<1>1. KeptSoFar(E, l, d, k, Len(l))
  BY KeptFacts
<1> HIDE DEF k
<1>2. k \in Seq(E) /\ Len(k) = Len(l) /\ \A m \in 1 .. Len(l) : k[m] = l[m]
  BY <1>1 DEF KeptSoFar, KeptAll
<1>3. k = l
  BY <1>2, SameSequence
<1> QED BY <1>3 DEF k
\* The runtime in front of entries that are not its own is settled.
LEMMA FirstSettled ==
  ASSUME NEW E, NEW d \in E, NEW s \in Seq(E), \A j \in 1 .. Len(s) : ~Runtime!Same(s[j], d)
  PROVE  Settled(<<d>> \o s, d)
<1> DEFINE k == <<d>> \o s
<1>1. /\ k \in Seq(E) /\ Len(k) = Len(s) + 1 /\ k[1] = d
      /\ \A j \in 1 .. Len(s) : k[j + 1] = s[j]
  BY Longer
<1> HIDE DEF k
<1>2. Len(s) \in Nat
  OBVIOUS
<1>3. k # << >>
  BY <1>1, <1>2
<1>4. Runtime!Same(k[1], d)
  BY <1>1 DEF Runtime!Same
<1>5. ASSUME NEW i \in 2 .. Len(k) PROVE ~Runtime!Same(k[i], d)
  <2>1. i - 1 \in 1 .. Len(s) /\ i = (i - 1) + 1
    BY <1>1, <1>2
  <2>2. k[i] = s[i - 1]
    BY <1>1, <2>1
  <2> QED BY <2>1, <2>2
<1> QED BY <1>3, <1>4, <1>5 DEF Settled, k
LEMMA EncodedSafe ==
  ASSUME NEW e, NEW s
  PROVE  /\ Runtime!Encoded(e, s) \in {"plain", "single", "double"}
         /\ Runtime!Encoded(e, s) # "double" => Runtime!ToSet(e) \cap Quote = {}
BY DEF Runtime!Encoded
\* The line of a PATH that was empty, or was not there.
LEMMA FreshLine ==
  ASSUME OwnDirectories, NEW rt \in Runtimes, NEW s
  PROVE  /\ NewLine(Runtime!PathLine(<<rt.bin>> \o BasePath, s), BasePath, rt.bin)
         /\ Runtime!PathLine(<<rt.bin>> \o BasePath, s).quote = "whole"
<1> DEFINE e == <<rt.bin>> \o BasePath
           k == Runtime!PathLine(e, s)
<1>1. rt.bin \in DOMAIN Bare /\ BasePath \in Seq(DOMAIN Bare)
      /\ \A j \in 1 .. Len(BasePath) : ~Runtime!Same(BasePath[j], rt.bin)
  BY DEF OwnDirectories
<1>2. e \in Seq(DOMAIN Bare) /\ Head(e) = rt.bin
  BY <1>1, Longer
<1>3. Settled(e, rt.bin)
  BY <1>1, FirstSettled
<1>4. Runtime!Kept(BasePath, rt.bin) = BasePath
  BY <1>1, KeptWhole
<1>5. e = <<Head(e)>> \o Runtime!Kept(BasePath, rt.bin)
  BY <1>2, <1>4
<1> HIDE DEF e
<1>6. k = [kind |-> "assign", key |-> "PATH", style |-> Runtime!Encoded(e, s), entries |-> e,
           quote |-> "whole"]
  BY DEF Runtime!PathLine, Runtime!Line
<1> HIDE DEF k
<1>7. k \in EnvLines
  <2>1. "PATH" \in STRING \cup {"PATH"}
    OBVIOUS
  <2>2. Runtime!Encoded(e, s) \in {"plain", "single", "double"}
    BY EncodedSafe
  <2> QED BY <1>2, <1>6, <2>1, <2>2 DEF EnvLines
<1>8. ~Runtime!Torn(k)
  BY <1>6, EncodedSafe DEF Runtime!Torn
<1>9. NewLine(k, BasePath, rt.bin)
  BY <1>3, <1>5, <1>6, <1>7, <1>8 DEF NewLine
<1> QED BY <1>6, <1>9 DEF k, e
\* A PATH that is settled is what Kept makes of it, but for its first entry.
LEMMA SettledOnce ==
  ASSUME NEW E, NEW l \in Seq(E), NEW d, l # << >>
  PROVE  /\ Settled(l, d) <=> Runtime!Same(l[1], d) /\ Len(Runtime!Kept(l, d)) = Len(l) - 1
         /\ Settled(l, d) => l = <<Head(l)>> \o Runtime!Kept(l, d)
<1> DEFINE k == Runtime!Kept(l, d)
<1>1. KeptSoFar(E, l, d, k, Len(l))
  BY KeptFacts
<1> HIDE DEF k
<1>2. Len(l) \in Nat /\ Len(l) > 0 /\ Head(l) = l[1] /\ l[1] \in E
  OBVIOUS
<1>3. k \in Seq(E) /\ Len(k) \in Nat
  BY <1>1 DEF KeptSoFar
<1>4. ASSUME Runtime!Same(l[1], d) PROVE Settled(l, d) <=> Len(k) = Len(l) - 1
  BY <1>1, <1>2, <1>4 DEF KeptSoFar, KeptTail, Settled
<1>5. ASSUME Settled(l, d) PROVE l = <<Head(l)>> \o k
  <2>1. Len(k) = Len(l) - 1 /\ \A m \in 1 .. Len(l) - 1 : k[m] = l[m + 1]
    BY <1>1, <1>2, <1>5 DEF KeptSoFar, KeptTail, Settled
  <2> DEFINE h == <<Head(l)>> \o k
  <2>2. /\ h \in Seq(E) /\ Len(h) = Len(k) + 1 /\ h[1] = l[1]
        /\ \A j \in 1 .. Len(k) : h[j + 1] = k[j]
    BY <1>2, <1>3, Longer
  <2> HIDE DEF h
  <2>3. ASSUME NEW i \in 1 .. Len(h) PROVE h[i] = l[i]
    <3>1. CASE i = 1
      BY <2>2, <3>1
    <3>2. CASE i # 1
      <4>1. i - 1 \in 1 .. Len(k) /\ i - 1 \in 1 .. Len(l) - 1 /\ (i - 1) + 1 = i
        BY <1>3, <2>1, <2>2, <3>2
      <4>2. h[(i - 1) + 1] = k[i - 1] /\ k[i - 1] = l[(i - 1) + 1]
        BY <2>1, <2>2, <4>1
      <4> QED BY <4>1, <4>2
    <3> QED BY <3>1, <3>2
  <2>4. Len(h) = Len(l)
    BY <1>2, <1>3, <2>1, <2>2
  <2>5. h = l
    BY <2>2, <2>3, <2>4, SameSequence
  <2> QED BY <2>5 DEF h
<1> QED BY <1>4, <1>5 DEF Settled, k
LEMMA DecodesIs ==
  ASSUME NEW line PROVE Runtime!Decodes(line) <=> ~Runtime!Torn(line)
BY DEF Runtime!Decodes, Runtime!Torn
LEMMA Rewritten ==
  ASSUME NEW line \in EnvLines, NEW e, NEW s
  PROVE  [line EXCEPT !.entries = e, !.style = s] =
             [kind |-> line.kind, key |-> line.key, style |-> s, entries |-> e, quote |-> line.quote]
<1> DEFINE h == [line EXCEPT !.entries = e]
<1>1. line = [kind |-> line.kind, key |-> line.key, style |-> line.style,
              entries |-> line.entries, quote |-> line.quote]
  BY DEF EnvLines
<1>2. h = [kind |-> line.kind, key |-> line.key, style |-> line.style,
           entries |-> e, quote |-> line.quote]
  BY <1>1
<1>3. [line EXCEPT !.entries = e, !.style = s] = [h EXCEPT !.style = s]
  OBVIOUS
<1> HIDE DEF h
<1>4. [h EXCEPT !.style = s] = [kind |-> line.kind, key |-> line.key, style |-> s,
                                entries |-> e, quote |-> line.quote]
  BY <1>2
<1> QED BY <1>3, <1>4
\* The line of a PATH with entries, which the runtime is put before.
LEMMA PutBefore ==
  ASSUME OwnDirectories, NEW rt \in Runtimes, NEW line \in EnvLines, ~Runtime!Torn(line),
         line.kind = "assign", line.key = "PATH", line.entries # << >>,
         NEW style, style = (IF (line.style = "single" /\ rt.bin \in Quote)
                                \/ (line.style = "plain" /\ rt.bin \in Blank \cup Quote)
                             THEN "double" ELSE line.style)
  PROVE  NewLine([line EXCEPT !.entries = <<rt.bin>> \o Runtime!Kept(line.entries, rt.bin),
                              !.style = style], line.entries, rt.bin)
<1> DEFINE l == line.entries
           k == Runtime!Kept(l, rt.bin)
           e == <<rt.bin>> \o k
           n == [line EXCEPT !.entries = e, !.style = style]
<1>1. l \in Seq(DOMAIN Bare) /\ line.style \in {"plain", "single", "double"}
      /\ line = [kind |-> line.kind, key |-> line.key, style |-> line.style,
                 entries |-> line.entries, quote |-> line.quote]
      /\ line.quote \in {"whole", "opens", "goes", "closes"}
      /\ line.key \in STRING \cup {"PATH"}
  BY DEF EnvLines
<1>2. rt.bin \in DOMAIN Bare
  BY DEF OwnDirectories
<1>3. KeptSoFar(DOMAIN Bare, l, rt.bin, k, Len(l))
  <2> HIDE DEF l
  <2> QED BY <1>1, KeptFacts
<1> HIDE DEF k
<1>4. k \in Seq(DOMAIN Bare) /\ \A j \in 1 .. Len(k) : ~Runtime!Same(k[j], rt.bin)
      /\ \E m \in 1 .. Len(l) : k[j] = l[m]
  BY <1>3 DEF KeptSoFar, KeptSome
<1>5. /\ e \in Seq(DOMAIN Bare) /\ Head(e) = rt.bin /\ Len(e) = Len(k) + 1 /\ e[1] = rt.bin
      /\ \A j \in 1 .. Len(k) : e[j + 1] = k[j]
  BY <1>2, <1>4, Longer
<1>6. Settled(e, rt.bin)
  BY <1>2, <1>4, FirstSettled
<1>7. e = <<Head(e)>> \o k
  BY <1>5
<1> HIDE DEF e, l
<1>8. Runtime!ToSet(e) \subseteq Runtime!ToSet(l) \cup {rt.bin}
  <2> SUFFICES ASSUME NEW i \in 1 .. Len(e), i # 1 PROVE e[i] \in Runtime!ToSet(l)
    BY <1>5 DEF Runtime!ToSet
  <2>1. i - 1 \in 1 .. Len(k) /\ (i - 1) + 1 = i
    BY <1>4, <1>5
  <2>2. e[i] = k[i - 1]
    BY <1>5, <2>1
  <2>3. PICK m \in 1 .. Len(l) : k[i - 1] = l[m]
    BY <1>4, <2>1
  <2>4. m \in DOMAIN l
    BY <1>1
  <2> QED BY <2>2, <2>3, <2>4 DEF Runtime!ToSet
<1>9. n = [kind |-> line.kind, key |-> line.key, style |-> style, entries |-> e,
           quote |-> line.quote]
  <2>1. \A x, y : [line EXCEPT !.entries = x, !.style = y] =
          [kind |-> line.kind, key |-> line.key, style |-> y, entries |-> x, quote |-> line.quote]
    BY Rewritten
  <2> QED BY <2>1, Zenon DEF n
<1> HIDE DEF n
<1>10. style \in {"plain", "single", "double"}
  BY <1>1
<1>11. n \in EnvLines
  BY <1>1, <1>5, <1>9, <1>10 DEF EnvLines
<1>12. ~Runtime!Torn(n)
  <2> SUFFICES ASSUME style # "double" PROVE Runtime!ToSet(e) \cap Quote = {}
    BY <1>9 DEF Runtime!Torn
  <2>1. style = line.style /\ rt.bin \notin Quote
    BY <1>1
  <2>2. Runtime!ToSet(l) \cap Quote = {}
    BY <2>1 DEF Runtime!Torn, l
  <2> QED BY <1>8, <2>1, <2>2
<1>13. NewLine(n, l, rt.bin)
  BY <1>6, <1>7, <1>9, <1>11, <1>12 DEF NewLine, k
<1> QED BY <1>13 DEF n, e, k, l
\* The line that counts, rewritten; rewritten for its own runtime it is as it was.
Former(entries) == IF entries = << >> THEN BasePath ELSE entries
LEMMA LineUpdated ==
  ASSUME OwnDirectories, NEW rt \in Runtimes, NEW line \in EnvLines, ~Runtime!Torn(line),
         line.kind = "assign", line.key = "PATH"
  PROVE  LET k == Runtime!UpdatedPath(line, rt.bin) IN
         /\ NewLine(k, Former(line.entries), rt.bin)
         /\ k.quote \in {line.quote, "whole"}
         /\ Settled(line.entries, rt.bin) => k = line
<1> DEFINE l == line.entries
           k == Runtime!UpdatedPath(line, rt.bin)
<1>1. l \in Seq(DOMAIN Bare) /\ line.style \in {"plain", "single", "double"}
      /\ line = [kind |-> line.kind, key |-> line.key, style |-> line.style,
                 entries |-> line.entries, quote |-> line.quote]
  BY DEF EnvLines
<1>2. CASE l = << >>
  <2>1. k = Runtime!PathLine(<<rt.bin>> \o BasePath, line.style)
    BY <1>2 DEF Runtime!UpdatedPath
  <2>2. NewLine(k, BasePath, rt.bin) /\ k.quote = "whole"
    BY <2>1, FreshLine
  <2>3. ~Settled(l, rt.bin) /\ Former(l) = BasePath
    BY <1>2 DEF Settled, Former
  <2> QED BY <2>2, <2>3
<1>3. CASE l # << >>
  <2> DEFINE kept == Runtime!Kept(l, rt.bin)
             s == IF (line.style = "single" /\ rt.bin \in Quote)
                     \/ (line.style = "plain" /\ rt.bin \in Blank \cup Quote)
                  THEN "double" ELSE line.style
             e == <<rt.bin>> \o kept
  <2>0. Former(l) = l
    BY <1>3 DEF Former
  <2>1. Settled(l, rt.bin) <=> Runtime!Same(l[1], rt.bin) /\ Len(kept) = Len(l) - 1
    BY <1>1, <1>3, SettledOnce
  <2>2. Settled(l, rt.bin) => l = <<Head(l)>> \o kept
    BY <1>1, <1>3, SettledOnce
  <2>3. k = IF Settled(l, rt.bin) THEN line ELSE [line EXCEPT !.entries = e, !.style = s]
    <3> HIDE DEF kept
    <3>1. k = IF l = << >> THEN Runtime!PathLine(<<rt.bin>> \o BasePath, line.style)
              ELSE IF (l # << >> /\ Runtime!Same(l[1], rt.bin)) /\ Len(kept) = Len(l) - 1 THEN line
              ELSE [line EXCEPT !.entries = e, !.style = s]
      BY Zenon DEF Runtime!UpdatedPath, kept
    <3> HIDE DEF k, e, s
    <3> QED BY <1>3, <2>1, <3>1
  <2>4. CASE Settled(l, rt.bin)
    <3>1. k = line
      BY <2>3, <2>4
    <3>2. NewLine(line, l, rt.bin)
      BY <2>2, <2>4 DEF NewLine
    <3> QED BY <2>0, <3>1, <3>2
  <2>5. CASE ~Settled(l, rt.bin)
    <3>1. k = [line EXCEPT !.entries = e, !.style = s]
      BY <2>3, <2>5
    <3>2. NewLine([line EXCEPT !.entries = e, !.style = s], l, rt.bin)
      BY <1>3, PutBefore
    <3>3. k.quote = line.quote
      BY <1>1, <3>1
    <3> QED BY <2>0, <2>5, <3>1, <3>2, <3>3
  <2> QED BY <2>4, <2>5
<1> QED BY <1>2, <1>3

-----------------------------------------------------------------------------
(* What buildEnvContent makes of a file.                                     *)

LinesOf(f) == IF f = NoFile THEN << >> ELSE f
Rewrites(f, g, M, d) ==
    /\ Follows(f, g, M)
    /\ M <= Len(f) => ~Runtime!Torn(f[M]) /\ NewLine(g[M], Former(f[M].entries), d)
    /\ M > Len(f) => Runtime!PathLines(f) = {} /\ NewLine(g[M], BasePath, d)

LEMMA LastPath ==
  ASSUME NEW f \in Seq(EnvLines), Runtime!PathLines(f) # {}
  PROVE  LET M == Runtime!Max(Runtime!PathLines(f)) IN
         /\ M \in Runtime!PathLines(f) /\ M \in 1 .. Len(f)
         /\ \A i \in Runtime!PathLines(f) : i <= M
         /\ f[M] \in EnvLines /\ f[M].kind = "assign" /\ f[M].key = "PATH"
<1> DEFINE S == Runtime!PathLines(f)
           M == Runtime!Max(S)
<1>1. S \subseteq 1 .. Len(f) /\ Len(f) \in Nat /\ S # {}
  BY DEF Runtime!PathLines
<1>2. M \in S /\ \A x \in S : x <= M
  <2> HIDE DEF S
  <2> QED BY <1>1, GreatestOf
<1>3. M \in 1 .. Len(f)
  BY <1>1, <1>2
<1> HIDE DEF M
<1> QED BY <1>2, <1>3 DEF Runtime!PathLines, M
LEMMA BuildsFirst ==
  ASSUME OwnDirectories, NEW rt \in Runtimes, NoFile \notin Seq(EnvLines)
  PROVE  \E M : Rewrites(<< >>, Runtime!BuildEnv(NoFile, rt.bin), M, rt.bin)
<1> DEFINE k == Runtime!PathLine(<<rt.bin>> \o BasePath, "plain")
           g == Runtime!BuildEnv(NoFile, rt.bin)
<1>1. g = <<k>>
  BY DEF Runtime!BuildEnv
<1>2. NewLine(k, BasePath, rt.bin) /\ k.quote = "whole"
  BY FreshLine
<1> HIDE DEF k
<1>3. k \in EnvLines /\ k.kind = "assign" /\ k.key = "PATH"
  BY <1>2 DEF NewLine
<1> HIDE DEF g
<1>4. g \in Seq(EnvLines) /\ Len(g) = 1 /\ g[1] = k
  BY <1>1, <1>3
<1>5. << >> \in Seq(EnvLines) /\ Len(<< >>) = 0 /\ Runtime!PathLines(<< >>) = {}
  BY DEF Runtime!PathLines
<1>6. ~Runtime!Inside(<< >>, 1)
  BY DEF Runtime!Inside
<1>7. Follows(<< >>, g, 1)
  <2>1. ~Open(g[1].quote)
    BY <1>2, <1>4 DEF Open
  <2> QED BY <1>3, <1>4, <1>5, <1>6, <2>1 DEF Follows
<1>8. Rewrites(<< >>, g, 1, rt.bin)
  BY <1>2, <1>4, <1>5, <1>7 DEF Rewrites
<1> QED BY <1>8 DEF g
LEMMA BuildsLast ==
  ASSUME OwnDirectories, NEW rt \in Runtimes, NEW f, f # NoFile, SoundFile(f), Runtime!PathLines(f) = {}
  PROVE  \E M : Rewrites(f, Runtime!BuildEnv(f, rt.bin), M, rt.bin)
<1> DEFINE k == Runtime!PathLine(<<rt.bin>> \o BasePath, "plain")
           g == Runtime!BuildEnv(f, rt.bin)
           M == Len(f) + 1
<1>0. f \in Seq(EnvLines) /\ ~Runtime!Inside(f, M) /\ Len(f) \in Nat /\ M \in Nat
  BY DEF SoundFile
<1>1. g = Append(f, k)
  BY DEF Runtime!BuildEnv
<1>2. NewLine(k, BasePath, rt.bin) /\ k.quote = "whole"
  BY FreshLine
<1> HIDE DEF k
<1>3. k \in EnvLines /\ k.kind = "assign" /\ k.key = "PATH"
  BY <1>2 DEF NewLine
<1> HIDE DEF g
<1>4. g \in Seq(EnvLines) /\ Len(g) = M /\ g[M] = k /\ \A i \in 1 .. Len(f) : g[i] = f[i]
  BY <1>0, <1>1, <1>3
<1>5. Follows(f, g, M)
  <2>1. ~Open(g[M].quote)
    BY <1>2, <1>4 DEF Open
  <2>2. M \in 1 .. Len(g) /\ (Len(g) = Len(f) + 1 /\ M = Len(g)) /\ ~(M <= Len(f))
    BY <1>0, <1>4
  <2> HIDE DEF M
  <2> QED BY <1>0, <1>3, <1>4, <2>1, <2>2 DEF Follows
<1>6. ~(M <= Len(f))
  BY <1>0
<1> HIDE DEF M
<1>7. Rewrites(f, g, M, rt.bin)
  BY <1>2, <1>4, <1>5, <1>6 DEF Rewrites
<1> QED BY <1>7 DEF g
LEMMA BuildsInPlace ==
  ASSUME OwnDirectories, NEW rt \in Runtimes, NEW f, f # NoFile, SoundFile(f),
         Runtime!PathLines(f) # {}, Runtime!EnvParses(f)
  PROVE  /\ \E M : Rewrites(f, Runtime!BuildEnv(f, rt.bin), M, rt.bin)
         /\ Settled(Runtime!Theirs(f).entries, rt.bin) => Runtime!BuildEnv(f, rt.bin) = f
<1> DEFINE M == Runtime!Max(Runtime!PathLines(f))
           k == Runtime!UpdatedPath(f[M], rt.bin)
           g == Runtime!BuildEnv(f, rt.bin)
<1>0. f \in Seq(EnvLines) /\ Len(f) \in Nat /\ DOMAIN f = 1 .. Len(f)
  BY DEF SoundFile
<1>1. /\ M \in Runtime!PathLines(f) /\ M \in 1 .. Len(f)
      /\ \A i \in Runtime!PathLines(f) : i <= M
      /\ f[M] \in EnvLines /\ f[M].kind = "assign" /\ f[M].key = "PATH"
  BY <1>0, LastPath
<1>2. g = [f EXCEPT ![M] = k]
  BY DEF Runtime!BuildEnv
<1>3. f[M].quote \in {"whole", "goes"} /\ ~Runtime!Torn(f[M])
  BY DecodesIs DEF Runtime!EnvParses, Runtime!Theirs
<1>4. /\ NewLine(k, Former(f[M].entries), rt.bin)
      /\ k.quote \in {f[M].quote, "whole"}
      /\ Settled(f[M].entries, rt.bin) => k = f[M]
  <2> HIDE DEF M
  <2> QED BY <1>1, <1>3, LineUpdated
<1>5. Runtime!Theirs(f) = f[M]
  BY DEF Runtime!Theirs
<1>6. ~Runtime!Inside(f, M)
  <2> HIDE DEF M
  <2>1. Runtime!Inside(f, M) => \E j \in Runtime!PathLines(f) : j > M
    BY <1>1 DEF SoundFile
  <2>2. \A j \in Runtime!PathLines(f) : j \in Nat
    BY <1>0 DEF Runtime!PathLines
  <2> QED BY <1>1, <2>1, <2>2
<1> HIDE DEF M, k, g
<1>7. k \in EnvLines /\ k.kind = "assign" /\ k.key = "PATH"
  BY <1>4 DEF NewLine
<1>8. g \in Seq(EnvLines) /\ Len(g) = Len(f) /\ g[M] = k /\ \A i \in 1 .. Len(f) : i # M => g[i] = f[i]
  BY <1>0, <1>1, <1>2, <1>7
<1>9. Follows(f, g, M)
  <2>1. ~Open(g[M].quote) /\ ~Open(f[M].quote)
    BY <1>3, <1>4, <1>8 DEF Open
  <2> QED BY <1>0, <1>1, <1>6, <1>7, <1>8, <2>1 DEF Follows
<1>10. Rewrites(f, g, M, rt.bin)
  BY <1>0, <1>1, <1>3, <1>4, <1>8, <1>9 DEF Rewrites
<1>11. Settled(f[M].entries, rt.bin) => g = f
  BY <1>0, <1>1, <1>2, <1>4
<1> QED BY <1>5, <1>10, <1>11 DEF g
LEMMA Builds ==
  ASSUME OwnDirectories, NEW rt \in Runtimes, NoFile \notin Seq(EnvLines), NEW f, SoundFile(f),
         Runtime!EnvParses(f)
  PROVE  \E M : Rewrites(LinesOf(f), Runtime!BuildEnv(f, rt.bin), M, rt.bin)
BY BuildsFirst, BuildsLast, BuildsInPlace DEF LinesOf

-----------------------------------------------------------------------------
(* The files stay sound, and hold what they were written for.                *)

LEMMA StaysSound ==
  ASSUME NEW f, NEW g, NEW M, Follows(f, g, M), ~Runtime!Inside(f, Len(f) + 1)
  PROVE  SoundFile(g) /\ Runtime!PathLines(g) # {} /\ Runtime!Theirs(g) = g[M]
<1>0. /\ f \in Seq(EnvLines) /\ g \in Seq(EnvLines) /\ DOMAIN g = 1 .. Len(g) /\ M \in DOMAIN g
      /\ DOMAIN f = 1 .. Len(f) /\ M \in Nat /\ Len(g) \in Nat
  BY FollowsTypes DEF Follows
<1>1. M \in Runtime!PathLines(g)
  BY <1>0 DEF Follows, Runtime!PathLines
<1>2. ASSUME NEW i \in Runtime!PathLines(g) PROVE i \in Nat /\ i <= M
  <2>1. i \in 1 .. Len(g) /\ g[i].kind = "assign" /\ g[i].key = "PATH"
    BY <1>0 DEF Runtime!PathLines
  <2>2. CASE i = M
    BY <1>0, <2>2
  <2>3. CASE i # M
    <3>1. i \in 1 .. Len(f) /\ g[i] = f[i]
      BY <2>1, <2>3, FollowsLines
    <3>2. i \in Runtime!PathLines(f)
      BY <1>0, <2>1, <3>1 DEF Runtime!PathLines
    <3>3. i <= M
      BY <3>2 DEF Follows
    <3> QED BY <2>1, <3>3
  <2> QED BY <2>2, <2>3
<1>3. Runtime!Max(Runtime!PathLines(g)) = M
  <2> DEFINE S == Runtime!PathLines(g)
  <2>1. S \subseteq 1 .. Len(g) /\ S # {}
    BY <1>0, <1>1 DEF Runtime!PathLines
  <2>2. M \in S /\ \A i \in S : i \in Nat /\ i <= M
    BY <1>1, <1>2
  <2> HIDE DEF S
  <2>3. Runtime!Max(S) \in S /\ \A x \in S : x <= Runtime!Max(S)
    BY <1>0, <2>1, GreatestOf
  <2>4. Runtime!Max(S) = M
    BY <1>0, <2>2, <2>3
  <2> QED BY <2>4 DEF S
<1>4. ASSUME NEW i \in Runtime!PathLines(g), Runtime!Inside(g, i)
      PROVE  \E j \in Runtime!PathLines(g) : j > i
  <2>1. i # M
    BY <1>4, NotInside
  <2>2. M > i
    BY <1>0, <1>2, <2>1
  <2> QED BY <1>1, <2>2
<1>5. ~Runtime!Inside(g, Len(g) + 1)
  BY StaysClosed
<1> QED BY <1>0, <1>1, <1>3, <1>4, <1>5 DEF SoundFile, Runtime!Theirs
LEMMA EmptyCloses ==
  ASSUME NEW f, SoundFile(f)
  PROVE  ~Runtime!Inside(LinesOf(f), Len(LinesOf(f)) + 1)
<1>1. CASE f = NoFile
  BY <1>1 DEF LinesOf, Runtime!Inside
<1>2. CASE f # NoFile
  BY <1>2 DEF LinesOf, SoundFile
<1> QED BY <1>1, <1>2
\* The unit, written for a runtime.
WrittenUnit(u, exe) ==
    [i \in DOMAIN u |-> IF i \in Runtime!Assigns(u, "ExecStart")
                        THEN [u[i] EXCEPT !.value = exe] ELSE u[i]]
LEMMA UnitLines ==
  ASSUME NEW u, SoundUnit(u), NEW exe, NEW v, v = WrittenUnit(u, exe)
  PROVE  /\ SoundUnit(v) /\ DOMAIN v = DOMAIN u
         /\ \A i \in DOMAIN u : v[i].kind = u[i].kind /\ v[i].key = u[i].key
         /\ \A k : Runtime!Assigns(v, k) = Runtime!Assigns(u, k)
         /\ \A i \in Runtime!Assigns(u, "ExecStart") : v[i].value = exe
         /\ \A i \in Runtime!Assigns(u, "ExecStart") : v[i] = [u[i] EXCEPT !.value = v[i].value]
         /\ \A i \in DOMAIN u \ Runtime!Assigns(u, "ExecStart") : v[i] = u[i]
<1> DEFINE n == Len(u)
           A == Runtime!Assigns(u, "ExecStart")
<1>0. /\ n \in Nat /\ DOMAIN u = 1 .. n /\ DOMAIN v = 1 .. n
      /\ A \subseteq 1 .. n
      /\ \A i \in 1 .. n : u[i] = [kind |-> u[i].kind, key |-> u[i].key, value |-> u[i].value]
  BY DEF SoundUnit, WrittenUnit, Runtime!Assigns
<1>1. v = [i \in 1 .. n |-> IF i \in A THEN [u[i] EXCEPT !.value = exe] ELSE u[i]]
  BY <1>0 DEF WrittenUnit
<1> HIDE DEF A, n
<1>2. ASSUME NEW i \in A
      PROVE  v[i] = [kind |-> u[i].kind, key |-> u[i].key, value |-> exe]
  <2> DEFINE l == u[i]
  <2>1. l = [kind |-> l.kind, key |-> l.key, value |-> l.value] /\ v[i] = [l EXCEPT !.value = exe]
    BY <1>0, <1>1
  <2> HIDE DEF l
  <2>2. v[i] = [kind |-> l.kind, key |-> l.key, value |-> exe]
    BY <2>1
  <2> QED BY <2>2 DEF l
<1>3. ASSUME NEW i \in 1 .. n, i \notin A PROVE v[i] = u[i]
  BY <1>1, <1>3
<1>4. ASSUME NEW i \in 1 .. n PROVE v[i].kind = u[i].kind /\ v[i].key = u[i].key
  <2>1. CASE i \in A
    <3>1. v[i] = [kind |-> u[i].kind, key |-> u[i].key, value |-> exe]
      BY <1>2, <2>1
    <3> QED BY <3>1
  <2>2. CASE i \notin A
    BY <1>3, <2>2
  <2> QED BY <2>1, <2>2
<1>5. \A k : Runtime!Assigns(v, k) = Runtime!Assigns(u, k)
  BY <1>0, <1>4 DEF Runtime!Assigns
<1>6. ASSUME NEW i \in A PROVE v[i] = [u[i] EXCEPT !.value = v[i].value] /\ v[i].value = exe
  BY <1>0, <1>1, <1>2
<1>7. Len(v) = n
  BY <1>0
<1>8. SoundUnit(v)
  <2>1. ASSUME NEW i \in 1 .. n
        PROVE  v[i] \in [kind : {v[i].kind}, key : {v[i].key}, value : {v[i].value}]
    <3>1. CASE i \in A
      <4>1. v[i] = [kind |-> u[i].kind, key |-> u[i].key, value |-> exe]
        BY <1>2, <3>1
      <4> QED BY <4>1
    <3>2. CASE i \notin A
      <4>1. v[i] = [kind |-> v[i].kind, key |-> v[i].key, value |-> v[i].value]
        BY <1>0, <1>3, <3>2
      <4> QED BY <4>1
    <3> QED BY <3>1, <3>2
  <2>2. v = [i \in 1 .. n |-> v[i]]
    BY <1>1
  <2> QED BY <1>0, <1>7, <2>1, <2>2 DEF SoundUnit
<1> QED BY <1>0, <1>3, <1>4, <1>5, <1>6, <1>8 DEF A, n
LEMMA WrittenAgain ==
  ASSUME NEW u, SoundUnit(u), NEW exe,
         \A i \in Runtime!Assigns(u, "ExecStart") : u[i].value = exe
  PROVE  WrittenUnit(u, exe) = u
<1> DEFINE A == Runtime!Assigns(u, "ExecStart")
<1>0. /\ Len(u) \in Nat /\ DOMAIN u = 1 .. Len(u) /\ u = [i \in 1 .. Len(u) |-> u[i]]
      /\ A \subseteq 1 .. Len(u)
      /\ \A i \in 1 .. Len(u) : u[i] = [kind |-> u[i].kind, key |-> u[i].key, value |-> u[i].value]
  BY DEF SoundUnit, Runtime!Assigns
<1>1. ASSUME NEW i \in A PROVE [u[i] EXCEPT !.value = exe] = u[i]
  <2> DEFINE l == u[i]
  <2>1. l = [kind |-> l.kind, key |-> l.key, value |-> l.value] /\ l.value = exe
    BY <1>0
  <2> HIDE DEF l
  <2>2. [l EXCEPT !.value = exe] = l
    BY <2>1
  <2> QED BY <2>2 DEF l
<1>2. \A i \in 1 .. Len(u) : (IF i \in A THEN [u[i] EXCEPT !.value = exe] ELSE u[i]) = u[i]
  BY <1>1
<1> HIDE DEF A
<1>3. WrittenUnit(u, exe) = [i \in 1 .. Len(u) |-> IF i \in A THEN [u[i] EXCEPT !.value = exe] ELSE u[i]]
  BY <1>0 DEF WrittenUnit, A
<1>4. [i \in 1 .. Len(u) |-> IF i \in A THEN [u[i] EXCEPT !.value = exe] ELSE u[i]]
      = [i \in 1 .. Len(u) |-> u[i]]
  BY <1>2
<1> QED BY <1>0, <1>3, <1>4

-----------------------------------------------------------------------------
(* Each step of update-node, and of the others.                              *)

\* An update writes both files.
LEMMA UpdateWrites ==
  ASSUME NEW rt \in Runtimes, Runtime!Update(rt)
  PROVE  /\ unit' = WrittenUnit(unit, rt.exe) /\ env' = Runtime!BuildEnv(env, rt.bin)
         /\ last' = {rt} /\ loaded' = unit' /\ dropIn' = dropIn
         /\ Runtime!Inspects /\ Runtime!EnvParses(env)
BY DEF Runtime!Update, WrittenUnit
LEMMA WhatIsBuilt ==
  ASSUME OwnDirectories, NEW rt \in Runtimes, NoFile \notin Seq(EnvLines), NEW f, SoundFile(f),
         Runtime!EnvParses(f), NEW g, g = Runtime!BuildEnv(f, rt.bin)
  PROVE  /\ SoundFile(g) /\ g # NoFile /\ Runtime!PathLines(g) # {}
         /\ Settled(Runtime!Theirs(g).entries, rt.bin)
         /\ Runtime!Rest(g) = Runtime!Rest(f)
         /\ LET had == IF Runtime!PathOf(f) = << >> THEN BasePath ELSE Runtime!PathOf(f) IN
            Runtime!PathOf(g) = <<Head(Runtime!PathOf(g))>> \o Runtime!Kept(had, rt.bin)
         /\ Runtime!Same(Head(Runtime!PathOf(g)), rt.bin)
<1> DEFINE b == LinesOf(f)
<1>1. PICK M : Rewrites(b, g, M, rt.bin)
  BY Builds
<1>2. Follows(b, g, M)
  BY <1>1 DEF Rewrites
<1>3. ~Runtime!Inside(b, Len(b) + 1)
  BY EmptyCloses
<1>4. b # NoFile /\ g # NoFile
  <2>1. b \in Seq(EnvLines) /\ g \in Seq(EnvLines)
    BY <1>2 DEF Follows
  <2> HIDE DEF b
  <2> QED BY <2>1
<1>5. Runtime!Rest(f) = Runtime!Rest(b) /\ Runtime!PathOf(f) = Runtime!PathOf(b)
  <2>1. CASE f = NoFile
    BY <1>4, <2>1, NoFileReads DEF LinesOf
  <2>2. CASE f # NoFile
    BY <2>2 DEF LinesOf
  <2> QED BY <2>1, <2>2
<1> HIDE DEF b
<1>6. SoundFile(g) /\ Runtime!PathLines(g) # {} /\ Runtime!Theirs(g) = g[M]
  BY <1>2, <1>3, StaysSound
<1>7. Runtime!Rest(g) = Runtime!Rest(b)
  BY <1>2, <1>4, SameRest
<1>8. PICK before : NewLine(g[M], before, rt.bin)
                    /\ before = IF Runtime!PathOf(b) = << >> THEN BasePath ELSE Runtime!PathOf(b)
  <2>1. Len(b) \in Nat /\ M \in Nat
    BY <1>2, FollowsTypes
  <2>2. CASE M <= Len(b)
    <3>1. ~Runtime!Torn(b[M]) /\ NewLine(g[M], Former(b[M].entries), rt.bin)
      BY <1>1, <2>2 DEF Rewrites
    <3>2. Runtime!PathOf(b) = b[M].entries
      BY <1>2, <1>4, <2>2, <3>1, PathOfM
    <3> QED BY <3>1, <3>2 DEF Former
  <2>3. CASE M > Len(b)
    <3>1. Runtime!PathLines(b) = {} /\ NewLine(g[M], BasePath, rt.bin)
      BY <1>1, <2>3 DEF Rewrites
    <3>2. Runtime!PathOf(b) = << >>
      BY <1>2, <1>4, <2>3, <3>1, PathOfM
    <3> QED BY <3>1, <3>2
  <2> QED BY <2>1, <2>2, <2>3
<1> DEFINE e == g[M].entries
<1>9. Runtime!PathOf(g) = e
  BY <1>2, <1>4, <1>8, PathOfM DEF NewLine
<1>10. e \in Seq(DOMAIN Bare) /\ Settled(e, rt.bin) /\ e = <<Head(e)>> \o Runtime!Kept(before, rt.bin)
  <2>1. g[M] \in EnvLines
    BY <1>8 DEF NewLine
  <2> QED BY <1>8, <2>1 DEF NewLine, EnvLines
<1> HIDE DEF e
<1>11. Runtime!Same(Head(e), rt.bin)
  BY <1>10 DEF Settled
<1>12. Settled(Runtime!Theirs(g).entries, rt.bin)
  BY <1>6, <1>10 DEF e
<1> QED BY <1>4, <1>5, <1>6, <1>7, <1>8, <1>9, <1>10, <1>11, <1>12
LEMMA NotBuiltAgain ==
  ASSUME OwnDirectories, NEW rt \in Runtimes, NEW f, f # NoFile, SoundFile(f),
         Runtime!PathLines(f) # {}, Runtime!EnvParses(f), Settled(Runtime!Theirs(f).entries, rt.bin)
  PROVE  Runtime!BuildEnv(f, rt.bin) = f
BY BuildsInPlace

\* What an update promises.
LEMMA KeepsOthers ==
  ASSUME SoundFiles, OwnDirectories, FilesInv, NEW rt \in Runtimes, Runtime!Update(rt)
  PROVE  /\ Runtime!Rest(env') = Runtime!Rest(env)
         /\ DOMAIN unit' = DOMAIN unit
         /\ \A i \in DOMAIN unit :
               unit'[i] = IF i \in Runtime!Assigns(unit, "ExecStart")
                          THEN [unit[i] EXCEPT !.value = unit'[i].value] ELSE unit[i]
<1>0. NoFile \notin Seq(EnvLines) /\ SoundFile(env) /\ SoundUnit(unit)
  BY DEF SoundFiles, FilesInv
<1>1. Runtime!Rest(env') = Runtime!Rest(env)
  BY <1>0, UpdateWrites, WhatIsBuilt
<1>2. PICK v : v = unit' /\ v = WrittenUnit(unit, rt.exe)
  BY UpdateWrites
<1>3. /\ DOMAIN v = DOMAIN unit
      /\ \A i \in Runtime!Assigns(unit, "ExecStart") : v[i] = [unit[i] EXCEPT !.value = v[i].value]
      /\ \A i \in DOMAIN unit \ Runtime!Assigns(unit, "ExecStart") : v[i] = unit[i]
  BY <1>0, <1>2, UnitLines
<1> QED BY <1>1, <1>2, <1>3
LEMMA FirstInPath ==
  ASSUME SoundFiles, OwnDirectories, FilesInv, NEW rt \in Runtimes, Runtime!Update(rt)
  PROVE  LET had == IF Runtime!PathOf(env) = << >> THEN BasePath ELSE Runtime!PathOf(env) IN
         /\ Runtime!PathOf(env') = <<Head(Runtime!PathOf(env'))>> \o Runtime!Kept(had, rt.bin)
         /\ Runtime!Same(Head(Runtime!PathOf(env')), rt.bin)
<1>0. NoFile \notin Seq(EnvLines) /\ SoundFile(env)
  BY DEF SoundFiles, FilesInv
<1> QED BY <1>0, UpdateWrites, WhatIsBuilt
LEMMA NothingElseStarts ==
  ASSUME FilesInv, NEW rt \in Runtimes, Runtime!Update(rt)
  PROVE  /\ ~dropIn' /\ Runtime!Values(loaded', "ExecStart") = {rt.exe}
         /\ Runtime!Values(loaded', "Environment") \subseteq {Runtime!Instance}
<1>0. SoundUnit(unit) /\ Runtime!Inspects
  BY UpdateWrites DEF FilesInv
<1>1. PICK v : v = loaded' /\ v = WrittenUnit(unit, rt.exe)
  BY UpdateWrites
<1>2. ~dropIn'
  BY <1>0, UpdateWrites DEF Runtime!Inspects
<1>3. /\ \A k : Runtime!Assigns(v, k) = Runtime!Assigns(unit, k)
      /\ \A i \in Runtime!Assigns(unit, "ExecStart") : v[i].value = rt.exe
      /\ \A i \in DOMAIN unit \ Runtime!Assigns(unit, "ExecStart") : v[i] = unit[i]
  <2>1. \A k : Runtime!Assigns(v, k) = Runtime!Assigns(unit, k)
    BY <1>0, <1>1, UnitLines
  <2>2. \A i \in Runtime!Assigns(unit, "ExecStart") : v[i].value = rt.exe
    BY <1>0, <1>1, UnitLines
  <2>3. \A i \in DOMAIN unit \ Runtime!Assigns(unit, "ExecStart") : v[i] = unit[i]
    BY <1>0, <1>1, UnitLines
  <2> QED BY <2>1, <2>2, <2>3
<1>4. \E i \in DOMAIN unit : Runtime!Assigns(unit, "ExecStart") = {i}
  BY <1>0, Zenon DEF Runtime!Inspects, Runtime!Parses
<1>5. Runtime!Values(v, "ExecStart") = {rt.exe}
  BY <1>3, <1>4 DEF Runtime!Values
<1>6. Runtime!Values(unit, "Environment") = {Runtime!Instance} \/ Runtime!Assigns(unit, "Environment") = {}
  BY <1>0, Zenon DEF Runtime!Inspects, Runtime!Parses
<1>7. \A i \in Runtime!Assigns(unit, "Environment") :
         i \in DOMAIN unit \ Runtime!Assigns(unit, "ExecStart")
  BY DEF Runtime!Assigns
<1>8. Runtime!Values(v, "Environment") \subseteq {Runtime!Instance}
  BY <1>3, <1>6, <1>7 DEF Runtime!Values
<1> QED BY <1>1, <1>2, <1>5, <1>8
LEMMA NothingTwice ==
  ASSUME SoundFiles, OwnDirectories, FilesInv, NEW rt \in Runtimes, Runtime!Update(rt), last = {rt}
  PROVE  UNCHANGED Runtime!files
<1>0. SoundFile(env) /\ SoundUnit(unit) /\ WrittenFor(rt)
  BY DEF FilesInv
<1>1. Runtime!BuildEnv(env, rt.bin) = env
  BY <1>0, UpdateWrites, NotBuiltAgain DEF WrittenFor
<1>2. WrittenUnit(unit, rt.exe) = unit
  BY <1>0, WrittenAgain DEF WrittenFor
<1> QED BY <1>1, <1>2, UpdateWrites DEF Runtime!files

-----------------------------------------------------------------------------
(* The invariant, and the property.                                          *)

LEMMA FilesAtFirst ==
  ASSUME SoundFiles, Runtime!Init
  PROVE  FilesInv
<1>1. SoundUnit(unit) /\ SoundFile(env)
  BY DEF SoundFiles, Runtime!Init
<1>2. \A rt \in Runtimes : last # {rt}
  BY DEF Runtime!Init
<1> QED BY <1>1, <1>2 DEF FilesInv
LEMMA UpdateKeepsFiles ==
  ASSUME SoundFiles, OwnDirectories, FilesInv, NEW rt \in Runtimes, Runtime!Update(rt)
  PROVE  FilesInv'
<1>0. NoFile \notin Seq(EnvLines) /\ SoundFile(env) /\ SoundUnit(unit)
  BY DEF SoundFiles, FilesInv
<1>1. PICK v : v = unit' /\ v = WrittenUnit(unit, rt.exe)
  BY UpdateWrites
<1>2. PICK g : g = env' /\ g = Runtime!BuildEnv(env, rt.bin)
  BY UpdateWrites
<1>3. SoundUnit(v) /\ \A i \in Runtime!Assigns(v, "ExecStart") : v[i].value = rt.exe
  <2>1. SoundUnit(v)
    BY <1>0, <1>1, UnitLines
  <2>2. \A k : Runtime!Assigns(v, k) = Runtime!Assigns(unit, k)
    BY <1>0, <1>1, UnitLines
  <2>3. \A i \in Runtime!Assigns(unit, "ExecStart") : v[i].value = rt.exe
    BY <1>0, <1>1, UnitLines
  <2> QED BY <2>1, <2>2, <2>3
<1>4. /\ SoundFile(g) /\ g # NoFile /\ Runtime!PathLines(g) # {}
      /\ Settled(Runtime!Theirs(g).entries, rt.bin)
  BY <1>0, <1>2, UpdateWrites, WhatIsBuilt
<1>5. ASSUME NEW r \in Runtimes, last' = {r} PROVE r = rt
  BY <1>5, UpdateWrites
<1>6. WrittenFor(rt)'
  BY <1>1, <1>2, <1>3, <1>4 DEF WrittenFor
<1>7. \A r \in Runtimes : last' = {r} => WrittenFor(r)'
  BY <1>5, <1>6
<1> QED BY <1>1, <1>2, <1>3, <1>4, <1>7 DEF FilesInv
LEMMA OthersKeepFiles ==
  ASSUME SoundFiles, FilesInv, Runtime!Others
  PROVE  FilesInv'
<1>1. last' = {}
  BY DEF Runtime!Others
<1>2. \A rt \in Runtimes : last' # {rt}
  BY <1>1
<1>3. SoundUnit(unit)' /\ SoundFile(env)'
  <2>0. SoundUnit(unit) /\ SoundFile(env)
    BY DEF FilesInv
  <2>1. ASSUME NEW e \in Environments, Runtime!Regenerate(e) PROVE SoundUnit(unit)' /\ SoundFile(env)'
    <3>1. unit' = unit /\ env' = Runtime!GenerateEnvFile(e)
      BY <2>1 DEF Runtime!Regenerate
    <3>2. SoundFile(Runtime!GenerateEnvFile(e))
      BY DEF SoundFiles
    <3>3. PICK g : g = env' /\ g = Runtime!GenerateEnvFile(e)
      BY <3>1
    <3>4. SoundFile(g)
      BY <3>2, <3>3
    <3> QED BY <2>0, <3>1, <3>3, <3>4
  <2>2. ASSUME NEW f \in Edits, Runtime!EditEnv(f) PROVE SoundUnit(unit)' /\ SoundFile(env)'
    BY <2>0, <2>2 DEF Runtime!EditEnv, SoundFiles
  <2>3. ASSUME NEW u \in UnitFiles, Runtime!EditUnit(u) PROVE SoundUnit(unit)' /\ SoundFile(env)'
    BY <2>0, <2>3 DEF Runtime!EditUnit, SoundFiles
  <2>4. CASE Runtime!DropIn
    BY <2>0, <2>4 DEF Runtime!DropIn, Runtime!files
  <2>5. CASE Runtime!Reload
    BY <2>0, <2>5 DEF Runtime!Reload, Runtime!files
  <2> QED BY <2>1, <2>2, <2>3, <2>4, <2>5 DEF Runtime!Others
<1> QED BY <1>2, <1>3 DEF FilesInv
LEMMA StillWritten ==
  ASSUME FilesInv, UNCHANGED <<unit, env, last>>
  PROVE  FilesInv'
BY DEF FilesInv, WrittenFor

\* What one step of the host does to the files.
LEMMA HostKeepsFiles ==
  ASSUME SoundFiles, OwnDirectories, FilesInv, [StartSteps \/ RuntimeSteps]_<<vars, runtimeVars>>
  PROVE  FilesInv'
<1>1. CASE UNCHANGED runtimeVars
  BY <1>1, StillWritten DEF runtimeVars
<1>2. CASE Runtime!Next
  <2>1. CASE Runtime!Others
    BY <2>1, OthersKeepFiles
  <2>2. CASE Runtime!Refuse
    BY <2>2, StillWritten DEF Runtime!Refuse, Runtime!files
  <2>3. ASSUME NEW rt \in Runtimes, Runtime!Update(rt) PROVE FilesInv'
    BY <2>3, UpdateKeepsFiles
  <2> QED BY <1>2, <2>1, <2>2, <2>3 DEF Runtime!Next
<1> QED BY <1>1, <1>2 DEF StartSteps, RuntimeSteps
\* A step in which the runtime of an application is updated is an Update.
LEMMA UpdatesAre ==
  ASSUME [StartSteps \/ RuntimeSteps]_<<vars, runtimeVars>>, NEW rt \in Runtimes, Runtime!Updates(rt)
  PROVE  Runtime!Update(rt)
<1>1. updates' # updates /\ last' = {rt} /\ Runtime!Inspects /\ Runtime!EnvParses(env)
  BY DEF Runtime!Updates
<1>2. Runtime!Next
  BY <1>1 DEF StartSteps, RuntimeSteps, runtimeVars
<1>3. ~Runtime!Others
  BY <1>1 DEF Runtime!Others
<1>4. ~Runtime!Refuse
  BY <1>1 DEF Runtime!Refuse
<1>5. PICK r \in Runtimes : Runtime!Update(r)
  BY <1>2, <1>3, <1>4 DEF Runtime!Next
<1>6. r = rt
  <2>1. last' = {r}
    BY <1>5, UpdateWrites
  <2> QED BY <1>1, <2>1
<1> QED BY <1>5, <1>6
LEMMA StepsKeepOthers ==
  ASSUME SoundFiles, OwnDirectories, FilesInv, [StartSteps \/ RuntimeSteps]_<<vars, runtimeVars>>
  PROVE  Runtime!OthersKept
<1> SUFFICES ASSUME NEW rt \in Runtimes, Runtime!Updates(rt)
             PROVE  /\ Runtime!Rest(env') = Runtime!Rest(env)
                    /\ DOMAIN unit' = DOMAIN unit
                    /\ \A i \in DOMAIN unit :
                          unit'[i] = IF i \in Runtime!Assigns(unit, "ExecStart")
                                     THEN [unit[i] EXCEPT !.value = unit'[i].value] ELSE unit[i]
  BY Zenon DEF Runtime!OthersKept
<1>1. Runtime!Update(rt)
  BY UpdatesAre
<1> QED BY <1>1, KeepsOthers
LEMMA StepsPutFirst ==
  ASSUME SoundFiles, OwnDirectories, FilesInv, [StartSteps \/ RuntimeSteps]_<<vars, runtimeVars>>
  PROVE  Runtime!RuntimeIsFirst
<1>1. ASSUME NEW rt \in Runtimes, Runtime!Updates(rt)
      PROVE  LET had == IF Runtime!PathOf(env) = << >> THEN BasePath ELSE Runtime!PathOf(env) IN
             /\ Runtime!PathOf(env') = <<Head(Runtime!PathOf(env'))>> \o Runtime!Kept(had, rt.bin)
             /\ Runtime!Same(Head(Runtime!PathOf(env')), rt.bin)
  <2>1. Runtime!Update(rt)
    BY <1>1, UpdatesAre
  <2> QED BY <2>1, FirstInPath
<1> QED BY <1>1, Zenon DEF Runtime!RuntimeIsFirst
LEMMA StepsOverrideNothing ==
  ASSUME FilesInv, [StartSteps \/ RuntimeSteps]_<<vars, runtimeVars>>
  PROVE  Runtime!NothingOverrides
<1>1. ASSUME NEW rt \in Runtimes, Runtime!Updates(rt)
      PROVE  /\ ~dropIn' /\ Runtime!Values(loaded', "ExecStart") = {rt.exe}
             /\ Runtime!Values(loaded', "Environment") \subseteq {Runtime!Instance}
  <2>1. Runtime!Update(rt)
    BY <1>1, UpdatesAre
  <2> QED BY <2>1, NothingElseStarts
<1> QED BY <1>1, Zenon DEF Runtime!NothingOverrides
LEMMA StepsAgain ==
  ASSUME SoundFiles, OwnDirectories, FilesInv, [StartSteps \/ RuntimeSteps]_<<vars, runtimeVars>>
  PROVE  Runtime!SecondIsNone
<1>1. ASSUME NEW rt \in Runtimes, Runtime!Updates(rt), last = {rt} PROVE UNCHANGED Runtime!files
  <2>1. Runtime!Update(rt)
    BY <1>1, UpdatesAre
  <2> QED BY <1>1, <2>1, NothingTwice
<1> QED BY <1>1, Zenon DEF Runtime!SecondIsNone

\* For every unit, environment and runtime: where an application has its PATH in
\* lines of its own and the runtime a directory of its own, update-node puts the
\* runtime first in PATH, has systemd start it, takes nothing else from the
\* application, and changes nothing a second time (RuntimeConfig).
THEOREM RuntimeOnly ==
  ASSUME SoundFiles, OwnDirectories PROVE HostSpec => OnlyRuntimeChanges
<1>1. Init /\ Runtime!Init => FilesInv
  BY FilesAtFirst
<1>2. FilesInv /\ [StartSteps \/ RuntimeSteps]_<<vars, runtimeVars>> => FilesInv'
  BY HostKeepsFiles
<1>3. FilesInv /\ [StartSteps \/ RuntimeSteps]_<<vars, runtimeVars>> =>
          [Runtime!OthersKept /\ Runtime!RuntimeIsFirst /\ Runtime!NothingOverrides
           /\ Runtime!SecondIsNone]_runtimeVars
  BY StepsKeepOthers, StepsPutFirst, StepsOverrideNothing, StepsAgain
<1> QED BY <1>1, <1>2, <1>3, PTL DEF HostSpec, OnlyRuntimeChanges

=============================================================================
